SPECIFICATION FairSpec
CONSTANTS
    Jobs <- HandoffJobs
    NoJob = "none"
    Packages <- HandoffPackages
    Main = main
    Workers = {w1}
    Watcher = watcher
    RpcThreads = {rpc1}
    NoThread = nobody
    MaxConcurrent = 2
    MaxQueued = 1
    PackageOf <- HandoffPackageOf
    TypeOf <- HandoffTypeOf
    KindOf <- HandoffKindOf
    NextOf <- HandoffNextOf
    DropsOf <- HandoffDropsOf
    Arrivals <- HandoffArrivals
    Submissions <- None
    MayRaise <- HandoffMayRaise
    DbErrors = FALSE
    MayShutDown = FALSE
INVARIANTS
    ActiveHasOwner
PROPERTIES
    PackagesSettle
    SlotsAreReleased
