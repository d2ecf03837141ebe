SPECIFICATION Spec
CONSTANTS
    r1 = r1
    r2 = r2
    c1 = c1
    t1 = t1
    t2 = t2
    m1 = m1
    Off = Off
    Unranked = Unranked
    Request <- Requests
    Character <- Characters
    For <- ForOne
    Text <- Texts
    Setting <- Settings
    File <- Files
    Archive <- Archives
    Matching = {t1}
    Limit = 1
    Chunk = 1
    MaxPack = 1
INVARIANTS
    TypeOK
PROPERTIES
    CacheTransparent
    RetrievalEnds
