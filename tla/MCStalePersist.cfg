SPECIFICATION SendSpec
CONSTANTS
    k1 = k1
    b1 = b1
    b2 = b2
    c1 = c1
    c2 = c2
    c3 = c3
    none = none
    Key <- MCKey
    Body <- MCBody
    IdemKey <- MCKey
    NoIdem = none
    SnapId = {}
    Batch = {}
    NewState <- MCNewState
    Filter = {}
    MaxRecords = 1
    MaxReserved = 1
    MaxIdem = 1
    MaxSnapshots = 0
    MaxItems = 0
    PurgeBudget = 0
    MaxEpoch = 2
    MaxSeq = 6
    Send <- MCSend
    KeyOf <- MCKeyOf
    BodyOf <- MCBodyOf
INVARIANT PersistedIsStored
CHECK_DEADLOCK FALSE
