SPECIFICATION FairInboundSpec
CONSTANTS
    k1 = k1
    k2 = k2
    b1 = b1
    b2 = b2
    m1 = m1
    m2 = m2
    n1 = n1
    n2 = n2
    x = x
    y = y
    d1 = d1
    d2 = d2
    none = none
    Key <- MCKey
    Body <- MCBody
    IdemKey = {}
    NoIdem = none
    SnapId = {}
    Batch = {}
    NewState = {}
    Filter = {}
    MaxRecords = 2
    MaxReserved = 2
    MaxIdem = 0
    MaxSnapshots = 0
    MaxItems = 0
    PurgeBudget = 0
    MaxEpoch = 2
    MaxSeq = 9
    Device <- MCOneDevice
    Acknowledging <- MCAcknowledging
    Message <- MCAllMessages
    IdOf <- MCKeyOf
    MailboxOf <- MCMailboxOf
    KeyOf <- MCKeyOf
    BodyOf <- MCBodyOf
    HostOf <- MCHostOf
    Visit <- MCVisit
    PageSize = 2
    MaxPages = 2
    MaxMessages = 4
    MaxMishaps = 1
INVARIANTS
    InboundTypeOK
    AckedIsKept
PROPERTY Drains
