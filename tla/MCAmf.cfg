SPECIFICATION Spec
CONSTANTS
    Imsi = {i1, i2}
    NoImsi = NoImsi
    None = None
    MaxEntities = 2
    TeidBase = 1
    MaxTeid = 3
    SqnSpace = 8
    MaxSqn = 1
    RanId = {r1}
    DlTeid = {7}
    WithUpf = FALSE
    UeIpSpace = 8
    MaxCount = 2
VIEW CoreView
SYMMETRY Symmetry
INVARIANT KeysUnshared
PROPERTY VectorsSpentOnce
