SPECIFICATION FairSpec
CONSTANTS
    Jobs <- ChainsJobs
    NoJob = "none"
    Packages <- ChainsPackages
    Main = main
    Workers = {w1}
    Watcher = watcher
    RpcThreads = {}
    NoThread = nobody
    MaxConcurrent = 1
    MaxQueued = 1
    PackageOf <- ChainsPackageOf
    TypeOf <- ChainsTypeOf
    KindOf <- ChainsKindOf
    NextOf <- ChainsNextOf
    DropsOf <- ChainsDropsOf
    Arrivals <- ChainsArrivals
    Submissions <- None
    MayRaise <- None
    DbErrors = FALSE
    MayShutDown = FALSE
PROPERTIES
    DeferredIsReleased
CHECK_DEADLOCK FALSE
