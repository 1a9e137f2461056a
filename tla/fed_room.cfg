\* Clients that fill in Host, a Kafka that fails, servers that start twice.
SPECIFICATION Spec
CONSTANTS
    Clients = {a, c}
    Servers = {s1, s2}
    Home <- TwoAndOne
    BcastCap = 1
    KCap = 1
    OutCap = 1
    MaxSent = 1
    MaxStarts = 2
    HostField = TRUE
    Failures = TRUE
    Stops = {s1}
    Crashes = {s2}
    None = None
    s1 = s1
    s2 = s2
    s3 = s3
    a = a
    b = b
    c = c
INVARIANT HostTrue
PROPERTY ChatRoomImplemented
\* Every message is sent and every process ended.
CHECK_DEADLOCK FALSE
