SPECIFICATION FairSpec
CONSTANTS
    Requests <- Calls
    NoRequest = "nobody"
    Keys = {"k"}
    KeyOf <- KeyOfCalls
    FingerprintOf <- PayloadOfCalls
    Retention = 1
    Faults <- SomeFaults
    MaxTime = 1
    MaxCrashes = 1
INVARIANTS
    Reservations
    TypeOK
    OneTransferPerKey
    AnswerIsHandedOff
    NoAbandonedTransfer
PROPERTIES
    EveryCallEnds
CHECK_DEADLOCK FALSE
