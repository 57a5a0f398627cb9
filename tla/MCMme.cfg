SPECIFICATION Spec
CONSTANTS
    Imsi = {i1, i2}
    NoImsi = NoImsi
    None = None
    MaxEntities = 2
    TeidBase = 1
    MaxTeid = 3
    SqnSpace = 8
    MaxSqn = 2
    RanId = {r1}
    DlTeid = {7}
    WithUpf = TRUE
    MaxCount = 2
VIEW CoreView
SYMMETRY Symmetry
INVARIANTS EntityPool DeadSlotsEmpty TeidPool RegistryPointsHome KeysUnshared KeysStayHome
PROPERTY VectorsSpentOnce
