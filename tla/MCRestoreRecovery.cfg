SPECIFICATION RecoverySpec
CONSTANTS
    k1 = k1
    k2 = k2
    b1 = b1
    s1 = s1
    none = none
    Key <- MCKey
    Body <- MCBody
    IdemKey = {}
    NoIdem = none
    SnapId <- MCSnapId
    Batch <- MCBatch
    NewState <- MCNewState
    Filter <- MCFilter
    MaxRecords = 2
    MaxReserved = 4
    MaxIdem = 0
    MaxSnapshots = 1
    MaxItems = 2
    PurgeBudget = 2
    MaxEpoch = 3
    MaxSeq = 4
    MaxBackups = 1
    MaxRestores = 2
INVARIANTS
    DeletedStaysDeleted
    UpToDateIsRight
CHECK_DEADLOCK FALSE
