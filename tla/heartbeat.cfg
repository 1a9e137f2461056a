\* Half seconds: the durations of types.go, writes and echoes of half a second.
SPECIFICATION Spec
CONSTANTS
    PongWait = 20
    PingPeriod = 16
    WriteWait = 10
    WriteTime = 1
    Unlucky = 1
    Echo = 1
INVARIANT TypeOK
INVARIANT ResponsiveKept
INVARIANT DeadFound
\* The connection ends.
CHECK_DEADLOCK FALSE
