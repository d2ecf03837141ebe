SPECIFICATION Spec
CONSTANTS
    u1 = u1
    e1 = e1
    e2 = e2
    s1 = s1
    s2 = s2
    p1 = p1
    p2 = p2
    Admin = Admin
    Nowhere = Nowhere
    User <- Users
    Endpoint <- Endpoints
    Socket <- Sockets
    Principal <- Openers
    Publish <- Calls
    CanPush = TRUE
SYMMETRY Symmetry
INVARIANTS
    TypeOK
    LedgerAgrees
PROPERTIES
    EveryTabHears
    EveryAttemptRecorded
