SPECIFICATION UpfSpec
CONSTANTS
    InitialUlTeid = 1
    TeidSpace = 4
    UeIp = {a1, a2, a3}
    Entity = {e1}
    BearerTeid = {7}
    EnbAddr = {1}
    NoEntry = NoEntry
    Allocators = {"internal", "control_plane"}
VIEW UpfView
SYMMETRY UpfSymmetry
INVARIANTS UpfTypeOK RoutesPair SessionsRouted FastPathAgrees
PROPERTY FreshTeid
