SPECIFICATION Spec
CONSTANTS
    k1 = k1
    k2 = k2
    k3 = k3
    b1 = b1
    b2 = b2
    i1 = i1
    s1 = s1
    none = none
    Key <- MCKey
    Body <- MCBody
    IdemKey <- MCIdemKey
    NoIdem = none
    SnapId <- MCSnapId
    Batch <- MCBatch
    NewState <- MCNewState
    Filter <- MCFilter
    MaxRecords = 2
    MaxReserved = 2
    MaxIdem = 1
    MaxSnapshots = 1
    MaxItems = 2
    PurgeBudget = 2
    MaxEpoch = 2
    MaxSeq = 5
INVARIANTS
    TypeOK
    DeletionFence
    UpsertRetained
    LogTellsStore
    RetainedSuffix
    QuotaRespected
    SnapshotExact
    ReplayTruthful
PROPERTIES
    LogAppendOnly
    VersionsAdvance
    KeepsPromise
CHECK_DEADLOCK FALSE
