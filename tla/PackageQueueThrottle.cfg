SPECIFICATION Spec
CONSTANTS
    Jobs <- BurstJobs
    NoJob = "none"
    Packages <- BurstPackages
    Main = main
    Workers = {w1}
    Watcher = watcher
    RpcThreads = {rpc1}
    NoThread = nobody
    MaxConcurrent = 1
    MaxQueued = 1
    PackageOf <- BurstPackageOf
    TypeOf <- BurstTypeOf
    KindOf <- BurstKindOf
    NextOf <- BurstNextOf
    DropsOf <- BurstDropsOf
    Arrivals <- BurstArrivals
    Submissions <- BurstSubmissions
    MayRaise <- None
    DbErrors = FALSE
    MayShutDown = FALSE
INVARIANTS
    AtMostConcurrentPackages
CHECK_DEADLOCK FALSE
