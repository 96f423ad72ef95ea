SPECIFICATION PipelineSpec
CONSTANTS
    r1 = r1
    r2 = r2
    o1 = o1
    o2 = o2
    i1 = i1
    i2 = i2
    i3 = i3
    proxy = proxy
    host = host
    none = none
    nobody = nobody
    Slot <- MCSlot
    Call <- MCCall
    Address <- MCAddress
    Proxy = proxy
    NoAddress = none
    Owner <- MCOwner
    Nobody = nobody
    RequestId <- MCRequestId
    MaxConcurrent = 2
    AddressLimit = 2
    IdentityLimit = 2
    MaxBuckets = 1
    ReplayLimit = 2
    MaxWindow = 1
SYMMETRY MCSymmetry
INVARIANTS
    DenialEarned
    AllowanceKept
    ReplayWindowHolds
