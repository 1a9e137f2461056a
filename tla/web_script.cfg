\* One tab with two checks, beside tabs that log in and out; all switches on.
SPECIFICATION FairSpec
CONSTANTS
    Tabs = {t1}
    Checks = {k1, k2}
    Socket = Socket
    None = None
    Failures = TRUE
    WsExpiry = TRUE
    Elsewhere = TRUE
INVARIANTS
    OneRefresh
    ChatHasUser
    CounterReset
PROPERTIES
    LogoutSticks
    LateRefreshes
    
    ChatAbandoned
    NoPingPong
