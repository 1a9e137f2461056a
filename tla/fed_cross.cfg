\* One client with two messages; its server may stop, the other may crash.
SPECIFICATION FairSpec
CONSTANTS
    Clients = {a}
    Servers = {s1, s2}
    Home <- TwoAndOne
    BcastCap = 1
    KCap = 1
    OutCap = 1
    MaxSent = 2
    MaxStarts = 2
    HostField = FALSE
    Failures = FALSE
    Stops = {s1}
    Crashes = {s2}
    None = None
    s1 = s1
    s2 = s2
    s3 = s3
    a = a
    b = b
    c = c
INVARIANTS
    TypeOK
    NothingVanishes
PROPERTIES
    Crosses
    FlushKeeps
    ChatRoomImplemented
\* Every message is sent and every process ended.
CHECK_DEADLOCK FALSE
