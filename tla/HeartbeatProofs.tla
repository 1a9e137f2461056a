-------------------------- MODULE HeartbeatProofs --------------------------
(* Proofs about Heartbeat, for all durations.                              *)
EXTENDS Heartbeat, TLAPS

\* What the messages can take that may still be preferred to the tick after n.
Ahead(n) == (Unlucky - n) * WriteTime

\* While the peer is there: a write ends in time; a tick that is due waits at most
\* for the write under way and those still ahead of it; the deadline was set in
\* this period of the ticker, or in the one before if the pong is not here yet.
Paced ==
    peer = "up" =>
        /\ writer # "ended"
        /\ writer = "message" => spent <= WriteTime
        /\ Due => /\ ~Flying
                  /\ ticker + Ahead(skipped) + (IF writer = "message" THEN WriteTime - spent ELSE 0) <= Lag
        /\ ~Due => skipped = 0
        /\ Flying => ticker <= Lag + flight
        /\ quiet <= ticker + (IF Due \/ Flying THEN PingPeriod ELSE 0)
        /\ Slack => reader = "reads"

\* Once it is gone, at most one pong of it sets the deadline anew.
Fading ==
    /\ peer = "up" => gone = 0
    /\ peer = "gone" /\ reader = "reads" =>
          /\ gone <= Echo + quiet
          /\ Flying => gone <= flight

IInv == TypeOK /\ Paced /\ Fading
-----------------------------------------------------------------------------
\* The constants are durations.
LEMMA Durations ==
    /\ PongWait \in Nat /\ PingPeriod \in Nat /\ WriteWait \in Nat
    /\ WriteTime \in Nat /\ Unlucky \in Nat /\ Echo \in Nat
    /\ PongWait > 0 /\ PingPeriod > 0 /\ WriteWait > 0
    /\ Lag \in Nat
BY DurationsAssumption, NetworkAssumption DEF Lag

\* What is ahead of a tick, from the moment it is due.
LEMMA AheadTyped == \A n \in 0..Unlucky : Ahead(n) \in Nat
BY Durations DEF Ahead

LEMMA AheadFirst == Ahead(0) + WriteTime = Lag
BY Durations DEF Ahead, Lag

LEMMA AheadNext == \A n \in 0..Unlucky : n < Unlucky => Ahead(n + 1) + WriteTime = Ahead(n)
BY Durations DEF Ahead

\* Every step keeps the types.
LEMMA TypeStep == TypeOK /\ [Next]_vars => TypeOK'
<1> SUFFICES ASSUME TypeOK, [Next]_vars PROVE TypeOK'
  OBVIOUS
<1> USE Durations DEF TypeOK, Due, Flying
<1>1. CASE Elapse
  BY <1>1, WriteAssumption DEF Elapse, WriteLimit
<1>2. CASE WriteToClient
  <2>1. CASE WriteBegin
    BY <2>1 DEF WriteBegin
  <2>2. CASE WriteEnd
    BY <2>2 DEF WriteEnd
  <2>3. CASE Ping
    BY <2>3 DEF Ping, PingOnly
  <2>4. CASE WriteFails
    BY <2>4 DEF WriteFails
  <2> QED
    BY <1>2, <2>1, <2>2, <2>3, <2>4 DEF WriteToClient
<1>3. CASE Tick \/ Pong \/ Deadline \/ Vanish
  <2>1. CASE Tick
    BY <2>1 DEF Tick
  <2>2. CASE Pong
    BY <2>2 DEF Pong, PongHandler
  <2>3. CASE Deadline
    BY <2>3 DEF Deadline
  <2>4. CASE Vanish
    BY <2>4 DEF Vanish
  <2> QED
    BY <1>3, <2>1, <2>2, <2>3, <2>4
<1>4. CASE UNCHANGED vars
  BY <1>4 DEF vars
<1> QED
  BY <1>1, <1>2, <1>3, <1>4 DEF Next

\* The ticker cannot come round while a tick or a ping is under way.
LEMMA OneAtATime ==
    ASSUME TypeOK, Paced, peer = "up", Due \/ Flying
    PROVE  ticker < PingPeriod
<1>1. CASE Due
  BY <1>1, Durations, AheadTyped, PingAssumption DEF TypeOK, Paced
<1>2. CASE Flying
  BY <1>2, Durations, PingAssumption DEF TypeOK, Paced
<1> QED
  BY <1>1, <1>2

\* Every step keeps the pace.
LEMMA PacedStep == TypeOK /\ Paced /\ [Next]_vars => Paced'
<1> SUFFICES ASSUME TypeOK, Paced, [Next]_vars, peer' = "up"
             PROVE  Paced'
  BY DEF Paced
<1>0. peer = "up"
  BY DEF Next, vars, Elapse, Tick, WriteToClient, WriteBegin, WriteEnd, Ping, WriteFails, Pong,
         Deadline, Vanish, TypeOK
<1> USE <1>0, Durations, AheadTyped DEF Due, Flying
<1>1. CASE Elapse
  BY <1>1 DEF Elapse, Paced, TypeOK, WriteLimit, Slack
<1>2. CASE Tick
  <2>1. ~Due /\ ~Flying
    BY <1>2, OneAtATime DEF Tick
  <2> QED
    BY <1>2, <2>1, AheadFirst DEF Tick, Paced, TypeOK, Slack
<1>3. CASE WriteBegin
  <2>1. CASE Due
    <3>1. Ahead(skipped') + WriteTime = Ahead(skipped) /\ skipped' \in 0..Unlucky
      BY <1>3, <2>1, AheadNext DEF WriteBegin, TypeOK
    <3> QED
      BY <1>3, <2>1, <3>1 DEF WriteBegin, Paced, TypeOK, Slack
  <2>2. CASE ~Due
    BY <1>3, <2>2 DEF WriteBegin, Paced, TypeOK, Slack
  <2> QED
    BY <2>1, <2>2
<1>4. CASE WriteEnd
  BY <1>4 DEF WriteEnd, Paced, TypeOK, Slack
<1>5. CASE Ping
  BY <1>5 DEF Ping, PingOnly, Paced, TypeOK, Slack
<1>6. CASE WriteFails
  BY <1>6 DEF WriteFails
<1>7. CASE Pong
  BY <1>7 DEF Pong, PongHandler, Paced, TypeOK, Slack
<1>8. CASE Deadline
  <2>1. ~Slack
    BY <1>8, OneAtATime DEF Deadline, Slack, Paced, TypeOK
  <2> QED
    BY <1>8, <2>1 DEF Deadline, Paced, TypeOK, Slack
<1>9. CASE Vanish
  BY <1>9 DEF Vanish
<1>10. CASE UNCHANGED vars
  BY <1>10 DEF vars, Paced, Slack
<1> QED
  BY <1>1, <1>2, <1>3, <1>4, <1>5, <1>6, <1>7, <1>8, <1>9, <1>10 DEF Next, WriteToClient

\* Every step keeps a vanished peer's time.
LEMMA FadingStep == TypeOK /\ Fading /\ [Next]_vars => Fading'
<1> SUFFICES ASSUME TypeOK, Fading, [Next]_vars PROVE Fading'
  OBVIOUS
<1> USE Durations DEF TypeOK, Fading, Due, Flying
<1>1. CASE Elapse
  BY <1>1 DEF Elapse
<1>2. CASE WriteToClient
  BY <1>2 DEF WriteToClient, WriteBegin, WriteEnd, Ping, WriteFails, PingOnly
<1>3. CASE Tick \/ Pong \/ Deadline
  BY <1>3 DEF Tick, Pong, Deadline, PongHandler
<1>4. CASE Vanish
  BY <1>4 DEF Vanish
<1>5. CASE UNCHANGED vars
  BY <1>5 DEF vars
<1> QED
  BY <1>1, <1>2, <1>3, <1>4, <1>5 DEF Next
-----------------------------------------------------------------------------
(* The theorems                                                            *)

\* The strengthened invariant holds in every reachable state.
THEOREM Invariant == Spec => []IInv
<1>1. Init => IInv
  BY Durations DEF Init, IInv, Due, Flying, Ahead, TypeOK, Paced, Fading, Slack
<1>2. IInv /\ [Next]_vars => IInv'
  BY TypeStep, PacedStep, FadingStep DEF IInv
<1> QED
  BY <1>1, <1>2, PTL DEF Spec

\* Times stay within the durations of types.go.
THEOREM TypeCorrect == Spec => []TypeOK
<1>1. IInv => TypeOK
  BY DEF IInv
<1> QED
  BY <1>1, Invariant, PTL

\* For all durations with slack, a peer that answers is never taken for dead.
THEOREM ResponsivePeersKept == Spec => []ResponsiveKept
<1>1. IInv => ResponsiveKept
  BY DEF IInv, Paced, ResponsiveKept
<1> QED
  BY <1>1, Invariant, PTL

\* For all durations, a vanished peer is found out in time.
THEOREM DeadPeersFound == Spec => []DeadFound
<1>1. IInv => DeadFound
  BY Durations DEF IInv, TypeOK, Fading, DeadFound
<1> QED
  BY <1>1, Invariant, PTL
=============================================================================
