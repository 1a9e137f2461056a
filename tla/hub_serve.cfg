\* One client; traffic from itself and from Kafka; no Stop.
SPECIFICATION ServeSpec
CONSTANTS
    Clients = {c1}
    Msgs = {m1}
    None = None
    ConnCap = 1
    DelCap = 1
    BcastCap = 1
    KCap = 1
    SendCap = 1
    UseKafka = TRUE
    Debug = FALSE
    CanStop = FALSE
CHECK_DEADLOCK FALSE
PROPERTIES
    ReaderReturns
    DeadClientCollected
