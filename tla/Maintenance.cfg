SPECIFICATION Spec
CONSTANTS
    m1 = m1
    p1 = p1
    p2 = p2
    u1 = u1
    k1 = k1
    k2 = k2
    Maintainer <- Maintainers
    Patcher <- Patchers
    Uploader <- Uploaders
    Patch <- Patches
    Default <- AllDefault
    Seeds = 2
    MaxId = 3
    Pictured <- PicturedIds
CHECK_DEADLOCK FALSE
CONSTRAINT Apart
SYMMETRY Symmetry
INVARIANTS
    TypeOK
    CompleteWhileServing
    SerialWhenApart
    AvatarsHaveFiles
