SPECIFICATION SimSpec
CONSTANTS
    NUes = 1
    Ue = {1}
    DlTeidBase = 10
    MaxAttempts <- Attempts
    Imsi = {1}
    NoImsi = 0
    None = None
    MaxEntities = 2
    TeidBase = 1
    MaxTeid = 3
    SqnSpace = 8
    MaxSqn = 1
    RanId = {1}
    DlTeid = {11}
    WithUpf = TRUE
    MaxCount = 2
    UeIpSpace = 8
    InitialUlTeid = 1
    TeidSpace = 3
    UeIp = {0, 1, 2}
    Entity = {0, 1}
    BearerTeid = {11}
    EnbAddr = {0, 1}
    NoEntry = NoEntry
    Allocators = {"control_plane"}
INVARIANT SendsCompleted
