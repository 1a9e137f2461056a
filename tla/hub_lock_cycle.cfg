\* More removal requests than delConnChan has room for.
SPECIFICATION Spec
CONSTANTS
    Clients = {c1, c2}
    Msgs = {}
    None = None
    ConnCap = 1
    DelCap = 1
    BcastCap = 1
    KCap = 1
    SendCap = 1
    UseKafka = FALSE
    Debug = FALSE
    CanStop = TRUE
\* A server whose process has ended takes no step.
CHECK_DEADLOCK FALSE
INVARIANT NoLockCycle
