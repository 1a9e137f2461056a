\* The fan-out, with clients that come, lag and go: two clients, a Send of two.
SPECIFICATION OrderSpec
CONSTANTS
    Clients = {c1, c2}
    Msgs = {m1, m2}
    None = None
    ConnCap = 1
    DelCap = 1
    BcastCap = 1
    KCap = 1
    SendCap = 2
    UseKafka = FALSE
    Debug = FALSE
    CanStop = FALSE
    MaxLog = 3
CHECK_DEADLOCK FALSE
CONSTRAINT Alternating
SYMMETRY Symmetry
INVARIANTS
    WgBalance
PROPERTIES
    MulticastImplemented
