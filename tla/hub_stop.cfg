\* Room in delConnChan for three requests per client.
SPECIFICATION StopSpec
CONSTANTS
    Clients = {c1, c2}
    Msgs = {}
    None = None
    ConnCap = 1
    DelCap = 6
    BcastCap = 1
    KCap = 1
    SendCap = 1
    UseKafka = FALSE
    Debug = TRUE
    CanStop = TRUE
\* A server whose process has ended takes no step.
CHECK_DEADLOCK FALSE
PROPERTIES
    QuietStopCompletes
    QuietStopClean
INVARIANTS
    GaugeBalance
    OncePerClient
