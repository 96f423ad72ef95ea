SPECIFICATION FairServiceSpec
CONSTANTS
    r1 = r1
    r2 = r2
    host = host
    owner = owner
    none = none
    nobody = nobody
    Slot <- MCSlot
    Call <- MCCall
    Address = {host}
    Proxy = none
    NoAddress = none
    Owner = {owner}
    Nobody = nobody
    RequestId = {0}
    MaxConcurrent = 1
    AddressLimit = 3
    IdentityLimit = 3
    MaxBuckets = 1
    ReplayLimit = 1
    MaxWindow = 1
    CleanupOwners = 1
    MaxStarts = 2
INVARIANTS
    ServiceTypeOK
    OnePass
    GracefulEnd
PROPERTIES
    NoCleanupInShutdown
    
    KeepsCleaning
