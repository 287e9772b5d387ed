CONSTANTS
    Revisions = {r1, r2}
    NoRevision = none
    RestoreOnReconcileFailure = TRUE
    DurablePath = TRUE
    Returns = FALSE
    MaxMoves = 3
    MaxFaults = 2
SPECIFICATION FairSpec
INVARIANTS
    LastKnownGood
    TaintsNeedHealth
    
PROPERTIES
    KeepsContract
    
    TaintsEventuallyRemoved
CHECK_DEADLOCK FALSE
