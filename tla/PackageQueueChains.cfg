SPECIFICATION Spec
CONSTANTS
    Jobs <- ChainsJobs
    NoJob = "none"
    Packages <- ChainsPackages
    Main = main
    Workers = {w1, w2}
    Watcher = watcher
    RpcThreads = {rpc1}
    NoThread = nobody
    MaxConcurrent = 1
    MaxQueued = 1
    PackageOf <- ChainsPackageOf
    TypeOf <- ChainsTypeOf
    KindOf <- ChainsKindOf
    NextOf <- ChainsNextOf
    DropsOf <- ChainsDropsOf
    Arrivals <- ChainsWatched
    Submissions <- ChainsCreated
    MayRaise <- ChainsMayRaise
    DbErrors = TRUE
    MayShutDown = TRUE
SYMMETRY WorkerSymmetry
INVARIANTS
    TypeOK
    StageAgrees
    JobInOnePlace
    DoneMeansClean
PROPERTIES
    RunsOnce
    ChainOrder
    ImplementsJobFlow
CHECK_DEADLOCK FALSE
