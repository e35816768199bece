SPECIFICATION FairSpec
CONSTANTS
    Jobs <- ChainsJobs
    NoJob = "none"
    Packages <- ChainsPackages
    Main = main
    Workers = {w1}
    Watcher = watcher
    RpcThreads = {rpc1}
    NoThread = nobody
    MaxConcurrent = 1
    MaxQueued = 1
    PackageOf <- ChainsPackageOf
    TypeOf <- ChainsTypeOf
    KindOf <- ChainsKindOf
    NextOf <- ChainsNextOf
    DropsOf <- ChainsDropsOf
    Arrivals <- ChainsArrivals
    Submissions <- None
    MayRaise <- None
    DbErrors = FALSE
    MayShutDown = TRUE
PROPERTIES
    WorkEndsOnSignal
CHECK_DEADLOCK FALSE
