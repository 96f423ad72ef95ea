SPECIFICATION AdaptersSpec
CONSTANTS
    b1 = b1
    b2 = b2
    Key <- MCKey
    Body <- MCBody
    Batch <- MCBatch
    NewState <- MCNewState
    IdemKey = {1}
    MaxRecords = 2
    MaxReserved = 2
    MaxIdem = 1
    MaxSnapshots = 2
    MaxMembers = 4
    PageSize = 2
    PageBodies = 1
    ItemBudget = 1
    SnapBudget = 1
    MaxSeq = 3
    MaxRotations = 1
    MaxTaken = 2

    
    
    
PROPERTIES
    AdaptersKeepPromise
    CleanupEnds
CHECK_DEADLOCK FALSE
