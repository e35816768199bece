\* One unit with one decision and another job; one request may fail.
SPECIFICATION Spec
CONSTANTS
    u = u
    a = a
    Units <- MCUnits
    Jobs <- MCJobs
    UnitOf <- MCUnitOf
    Types <- MCTypes
    MaxErrors = 1
INVARIANTS
    PollingGoesOn
    OpenedIsLoaded
    MonitorAgrees
PROPERTIES
    ForwardOnly
    QuietWhenLeft
    DecisionReachesUser
CHECK_DEADLOCK FALSE
