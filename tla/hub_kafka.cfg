\* Every goroutine, Kafka and Stop: one client that talks, full channels after one.
SPECIFICATION Spec
CONSTANTS
    Clients = {c1}
    Msgs = {m1}
    None = None
    ConnCap = 1
    DelCap = 1
    BcastCap = 1
    KCap = 1
    SendCap = 1
    UseKafka = TRUE
    Debug = TRUE
    CanStop = TRUE
\* A server whose process has ended takes no step.
CHECK_DEADLOCK FALSE
INVARIANTS
    TypeOK
    LaggardPending
PROPERTIES
    WaitedForLeave
