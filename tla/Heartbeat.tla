----------------------------- MODULE Heartbeat -----------------------------
(***************************************************************************)
(* The heartbeat of one connection (internal/wsserver/client.go with the   *)
(* durations of internal/types/types.go).  Time passes in units; an event  *)
(* that is due happens before time goes on.  The writer of the connection  *)
(* sends a ping when its select finds the ticker ready, which a write that *)
(* is under way, or messages that the select prefers, put off; the reader  *)
(* waits for the pong at most PongWait.                                    *)
(***************************************************************************)
EXTENDS Naturals

CONSTANTS
    PongWait, PingPeriod, WriteWait,  \* the durations of types.go
    WriteTime,  \* the longest write to a peer that is there
    Unlucky,    \* how often in a row the select prefers a message to the ticker
    Echo        \* the longest time from a ping to the handling of its pong

ASSUME DurationsAssumption == {PongWait, PingPeriod, WriteWait} \subseteq Nat \ {0}
ASSUME NetworkAssumption == {WriteTime, Unlucky, Echo} \subseteq Nat
ASSUME WriteAssumption == WriteTime <= WriteWait

\* The longest time from a tick of the ticker to its ping.
Lag == (Unlucky + 1) * WriteTime

\* A ping is answered before the next tick, so one is under way at a time.
ASSUME PingAssumption == Lag + Echo < PingPeriod

VARIABLES
    ticker,   \* time since the last tick of the ticker, or since its start
    tick,     \* ticker.C: "none", or "due"
    writer,   \* WriteToClient: "select", "message" (in WriteJSON), "ended"
    spent,    \* time spent in WriteJSON
    skipped,  \* messages preferred to the tick that is due
    ping,     \* "flying" while a ping, or its pong, is under way, or "none"
    flight,   \* time since the last ping was sent
    quiet,    \* time since the read deadline was set
    reader,   \* ReadFromClient: "reads", or "ended" because the deadline passed
    peer,     \* "up" or "gone"
    gone      \* history: time since the peer is gone

vars == <<ticker, tick, writer, spent, skipped, ping, flight, quiet, reader, peer, gone>>

Due == tick = "due"
Flying == ping = "flying"
-----------------------------------------------------------------------------
Init ==
    /\ ticker = 0 /\ tick = "none"
    /\ writer = "select" /\ spent = 0 /\ skipped = 0
    /\ ping = "none" /\ flight = 0
    /\ quiet = 0 /\ reader = "reads"
    /\ peer = "up" /\ gone = 0

\* A write to a peer that is gone may block until its deadline.
NoWriteDeadline == PongWait
WriteLimit == IF peer = "up" THEN WriteTime ELSE WriteWait

Elapse ==
    /\ reader = "reads" /\ quiet < PongWait
    /\ ticker < PingPeriod
    /\ writer = "select" => ~Due
    /\ writer = "message" => spent < WriteLimit
    /\ Flying => flight < Echo
    /\ ticker' = ticker + 1 /\ quiet' = quiet + 1
    /\ spent' = IF writer = "message" THEN spent + 1 ELSE spent
    /\ flight' = IF Flying THEN flight + 1 ELSE flight
    /\ gone' = IF peer = "gone" THEN gone + 1 ELSE gone
    /\ UNCHANGED <<tick, writer, skipped, ping, reader, peer>>

\* ticker.C has room for one tick.
Tick ==
    /\ ticker = PingPeriod
    /\ ticker' = 0 /\ tick' = "due"
    /\ UNCHANGED <<writer, spent, skipped, ping, flight, quiet, reader, peer, gone>>

-----------------------------------------------------------------------------
(* WriteToClient                                                           *)

\* The select takes a message, though a tick may be ready too.
WriteBegin ==
    /\ writer = "select" /\ (Due => skipped < Unlucky)
    /\ writer' = "message" /\ spent' = 0
    /\ skipped' = IF Due THEN skipped + 1 ELSE skipped
    /\ UNCHANGED <<ticker, tick, ping, flight, quiet, reader, peer, gone>>

WriteEnd ==
    /\ writer = "message"
    /\ writer' = "select"
    /\ UNCHANGED <<ticker, tick, spent, skipped, ping, flight, quiet, reader, peer, gone>>

PingExtends == quiet' = 0
PingOnly == UNCHANGED quiet

\* The select takes the tick; only a peer that is there will answer.
Ping ==
    /\ writer = "select" /\ Due
    /\ tick' = "none" /\ skipped' = 0
    /\ PingOnly
    /\ IF peer = "up" THEN ping' = "flying" /\ flight' = 0 ELSE UNCHANGED <<ping, flight>>
    /\ UNCHANGED <<ticker, writer, spent, reader, peer, gone>>

\* A write, or a ping, to a peer that is gone fails at last.
WriteFails ==
    /\ peer = "gone" /\ (writer = "message" \/ (writer = "select" /\ Due))
    /\ writer' = "ended"
    /\ UNCHANGED <<ticker, tick, spent, skipped, ping, flight, quiet, reader, peer, gone>>

WriteToClient == WriteBegin \/ WriteEnd \/ Ping \/ WriteFails
-----------------------------------------------------------------------------
(* ReadFromClient: only a pong sets the deadline anew                      *)

PongIgnored == UNCHANGED quiet
PongHandler == quiet' = 0

Pong ==
    /\ reader = "reads" /\ Flying
    /\ PongHandler
    /\ ping' = "none"
    /\ UNCHANGED <<ticker, tick, writer, spent, skipped, flight, reader, peer, gone>>

Deadline ==
    /\ reader = "reads" /\ quiet = PongWait
    /\ reader' = "ended"
    /\ UNCHANGED <<ticker, tick, writer, spent, skipped, ping, flight, quiet, peer, gone>>

\* The peer vanishes without a word; what it has sent may still arrive, or not.
Vanish ==
    /\ peer = "up"
    /\ peer' = "gone"
    /\ ping' \in {ping, "none"}
    /\ UNCHANGED <<ticker, tick, writer, spent, skipped, flight, quiet, reader, gone>>

Next == Elapse \/ Tick \/ WriteToClient \/ Pong \/ Deadline \/ Vanish

Spec == Init /\ [][Next]_vars
-----------------------------------------------------------------------------
(* What it promises                                                        *)

TypeOK ==
    /\ ticker \in 0..PingPeriod /\ tick \in {"none", "due"}
    /\ writer \in {"select", "message", "ended"} /\ spent \in 0..WriteWait
    /\ skipped \in 0..Unlucky
    /\ ping \in {"none", "flying"} /\ flight \in 0..Echo
    /\ quiet \in 0..PongWait /\ reader \in {"reads", "ended"}
    /\ peer \in {"up", "gone"} /\ gone \in Nat

\* The time that PongWait leaves after PingPeriod is more than a tick waits for
\* its ping and the ping for its pong.
Slack == PingPeriod + Lag + Echo < PongWait

\* With that slack a peer that answers is never taken for a dead one, whatever
\* messages are written and whichever way the selects fall.
ResponsiveKept == Slack /\ peer = "up" => reader = "reads"

\* A peer that vanished is found out at most PongWait after its last pong, also
\* when writes to it go on succeeding, or block.
DeadFound == peer = "gone" /\ reader = "reads" => gone <= Echo + PongWait
=============================================================================
