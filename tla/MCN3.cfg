SPECIFICATION N3Spec
CONSTANTS
    Imsi = {i1}
    NoImsi = NoImsi
    None = None
    MaxEntities = 2
    TeidBase = 1
    MaxTeid = 4
    SqnSpace = 8
    MaxSqn = 1
    RanId = {r1}
    DlTeid = {7}
    WithUpf = TRUE
    MaxCount = 1
    UeIpSpace = 8
    InitialUlTeid = 1
    TeidSpace = 4
    UeIp = {0, 1, 2}
    Entity = {0, 1}
    BearerTeid = {7}
    EnbAddr = {0, 1}
    NoEntry = NoEntry
    Allocators = {"control_plane"}
VIEW N3View
INVARIANT LedgersAgree
PROPERTIES SessionBeforeAccept ImplementsBearers
