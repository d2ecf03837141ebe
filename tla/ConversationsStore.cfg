SPECIFICATION Spec
CONSTANTS
    u1 = u1
    u2 = u2
    c1 = c1
    c2 = c2
    o1 = o1
    o2 = o2
    Admin = Admin
    User <- Users
    Character <- Characters
    Op <- Ops
    MaxThread = 2
SYMMETRY Symmetry
CHECK_DEADLOCK FALSE
INVARIANTS
    TypeOK
    MessageMatchesThread
    EveryReplyHasItsQuestion
PROPERTIES
    HistoryKept
