SPECIFICATION SyncSpec
CONSTANTS
    k1 = k1
    k2 = k2
    b1 = b1
    s1 = s1
    none = none
    Key <- MCKey
    Body <- MCBody
    IdemKey = {}
    NoIdem = none
    SnapId <- MCSnapId
    Batch <- MCBatch
    NewState <- MCNewState
    Filter <- MCFilter
    MaxRecords = 2
    MaxReserved = 2
    MaxIdem = 0
    MaxSnapshots = 1
    MaxItems = 2
    PurgeBudget = 1
    MaxEpoch = 2
    MaxSeq = 5
    Scope <- MCKey
    PageSize = 2
    MaxPages = 2
    MaxMishaps = 1
INVARIANT NextPageAccepted
