\* The server as it is: it refuses the handshake.
SPECIFICATION FairSpec
CONSTANTS
    Tabs = {t1}
    Checks = {k1}
    Socket = Socket
    None = None
    Failures = FALSE
    WsExpiry = FALSE
    Elsewhere = FALSE
PROPERTY Reconnects
