SPECIFICATION UpfSpec
CONSTANTS
    InitialUlTeid = 1
    TeidSpace = 3
    UeIp = {a1, a2}
    Entity = {e1}
    BearerTeid = {7}
    EnbAddr = {1}
    NoEntry = NoEntry
    Allocators = {"control_plane"}
VIEW UpfView
SYMMETRY UpfSymmetry
INVARIANT PlaceholderPasses
