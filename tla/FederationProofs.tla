-------------------------- MODULE FederationProofs --------------------------
(***************************************************************************)
(* Proofs about Federation, for any clients and servers, any capacities,   *)
(* and whatever stops, crashes and failures are allowed.                   *)
(***************************************************************************)
EXTENDS FederationProps, SequenceTheorems, TLAPS

\* What the reader carries is its client's.
Carried == \A c \in Clients : reader[c] \in {"publish", "forward"} =>
               sent[c] > 0 /\ held[c] \in Messages /\ held[c].client = c

LocalMessages(s) == {m \in Messages : Home[m.client] = s}
StampedMessages(s) == {m \in LocalMessages(s) : m.host = s}
Truthful == {m \in Messages : m.host = Home[m.client]}

\* What a server has not yet brought into the log comes from its own clients, and
\* what its producer holds says so.
Routed ==
    /\ \A s \in Servers : kChan[s] \in Seq(LocalMessages(s)) /\ out[s] \in Seq(StampedMessages(s))
    /\ topic \in Seq(Truthful)

\* A consumer that polls has a position.
Placed == \A s \in Servers : receiver[s] = "poll" => cursor[s] \in 0..Len(topic)

IInv == TypeOK /\ Placed /\ Carried /\ Routed
-----------------------------------------------------------------------------
(* Queues                                                                  *)

LEMMA Put ==
    ASSUME NEW S, NEW q \in Seq(S), NEW x \in S
    PROVE  Append(q, x) \in Seq(S) /\ Len(Append(q, x)) = Len(q) + 1
BY AppendProperties

LEMMA Take ==
    ASSUME NEW S, NEW q \in Seq(S), q # <<>>
    PROVE  Head(q) \in S /\ Tail(q) \in Seq(S) /\ Len(Tail(q)) = Len(q) - 1 /\ Len(q) \in Nat
BY HeadTailProperties, LenProperties

LEMMA QueuePut ==
    ASSUME NEW cap \in Nat, NEW q \in Queue(cap), NEW x \in Messages, Len(q) < cap
    PROVE  Append(q, x) \in Queue(cap)
BY Put, LenProperties DEF Queue

LEMMA QueueTake ==
    ASSUME NEW cap \in Nat, NEW q \in Queue(cap), q # <<>>
    PROVE  Head(q) \in Messages /\ Tail(q) \in Queue(cap)
BY Take DEF Queue

LEMMA QueueEmpty == ASSUME NEW cap \in Nat PROVE <<>> \in Queue(cap)
BY EmptySeq DEF Queue

LEMMA Constants ==
    /\ BcastCap \in Nat /\ KCap \in Nat /\ OutCap \in Nat /\ MaxSent \in Nat /\ MaxStarts \in Nat
    /\ \A c \in Clients : Home[c] \in Servers
    /\ HostField \in BOOLEAN
BY BoundAssumption, HomeAssumption, SwitchAssumption

\* The log only grows, so a position in it stays one.
LEMMA PositionsGrow ==
    ASSUME TypeOK, topic' \in Seq(Messages), Len(topic) <= Len(topic')
    PROVE  Positions \subseteq Positions'
BY LenProperties DEF TypeOK, Positions
-----------------------------------------------------------------------------
(* Type correctness                                                        *)

\* The steps of the readers and the broadcasters.
LEMMA TypeClients ==
    ASSUME TypeOK, Carried,
           (\E c \in Clients : ReadFromClient(c)) \/ (\E s \in Servers : Broadcast(s))
    PROVE  TypeOK'
<1> USE Constants
<1>1. ASSUME NEW c \in Clients, NEW h \in Servers \cup {None}, ReadMsg(c, h) PROVE TypeOK'
  <2>1. Message(c, sent[c] + 1, h) \in Messages /\ sent[c] + 1 \in 0..MaxSent
    BY <1>1 DEF ReadMsg, Message, Messages, TypeOK
  <2> QED
    BY <1>1, <2>1 DEF ReadMsg, TypeOK, serverVars, localVars, kafkaVars, groupVars, Positions
<1>2. ASSUME NEW c \in Clients, Publish(c) PROVE TypeOK'
  <2>1. broadcast[Home[c]] \in Queue(BcastCap) /\ held[c] \in Messages
    BY <1>2 DEF Publish, TypeOK, Carried
  <2>2. Append(broadcast[Home[c]], held[c]) \in Queue(BcastCap)
    BY <1>2, <2>1, QueuePut DEF Publish
  <2> QED
    BY <1>2, <2>2 DEF Publish, TypeOK, serverVars, kafkaVars, groupVars, Positions
<1>3. ASSUME NEW c \in Clients, Abort(c) PROVE TypeOK'
  BY <1>3 DEF Abort, TypeOK, serverVars, localVars, kafkaVars, groupVars, Positions
<1>4. ASSUME NEW c \in Clients, Forward(c) PROVE TypeOK'
  <2>1. held[c] \in Messages
    BY <1>4 DEF Forward, Carried
  <2>2. kChan' \in [Servers -> Queue(KCap)]
    <3>1. kChan \in [Servers -> Queue(KCap)]
      BY DEF TypeOK
    <3>2. Len(kChan[Home[c]]) < KCap => Append(kChan[Home[c]], held[c]) \in Queue(KCap)
      BY <2>1, <3>1, QueuePut
    <3> QED
      BY <1>4, <3>1, <3>2 DEF Forward
  <2>3. dropped' \in [Servers -> SUBSET Messages]
    BY <1>4, <2>1 DEF Forward, TypeOK, Count
  <2> QED
    BY <1>4, <2>2, <2>3 DEF Forward, TypeOK, serverVars, localVars, groupVars, Positions
<1>5. ASSUME NEW s \in Servers, Broadcast(s) PROVE TypeOK'
  <2>1. Head(broadcast[s]) \in Messages /\ Tail(broadcast[s]) \in Queue(BcastCap)
    BY <1>5, QueueTake DEF Broadcast, TypeOK
  <2>2. Append(view[s], Head(broadcast[s])) \in Seq(Messages)
    BY <2>1, Put DEF TypeOK
  <2> QED
    BY <1>5, <2>1, <2>2
    DEF Broadcast, TypeOK, serverVars, clientVars, kafkaVars, groupVars, Positions
<1> QED
  BY <1>1, <1>2, <1>3, <1>4, <1>5 DEF ReadFromClient

\* The steps of the bridge.
LEMMA TypeBridge ==
    ASSUME TypeOK, Placed, NEW s \in Servers, Bridge(s)
    PROVE  TypeOK' /\ Placed'
<1> USE Constants DEF serverVars, clientVars, localVars, kafkaVars, groupVars
<1>1. CASE KafkaWorker(s)
  <2> DEFINE m == Head(kChan[s])
  <2>1. m \in Messages /\ Tail(kChan[s]) \in Queue(KCap)
    BY <1>1, QueueTake DEF KafkaWorker, TypeOK
  <2>2. Stamped(m, s) \in Messages
    BY <2>1 DEF Stamped, Messages
  <2>3. out' \in [Servers -> Queue(OutCap)]
    <3>1. out[s] \in Queue(OutCap)
      BY DEF TypeOK
    <3>2. Len(out[s]) < OutCap => Append(out[s], Stamped(m, s)) \in Queue(OutCap)
      BY <2>2, <3>1, QueuePut
    <3> QED
      BY <1>1, <3>2 DEF KafkaWorker, TypeOK
  <2>4. dropped' \in [Servers -> SUBSET Messages]
    BY <1>1, <2>1 DEF KafkaWorker, TypeOK, Count
  <2> QED
    BY <1>1, <2>1, <2>3, <2>4 DEF KafkaWorker, TypeOK, Positions, Placed
<1>2. CASE Deliver(s)
  <2>1. Head(out[s]) \in Messages /\ Tail(out[s]) \in Queue(OutCap)
    BY <1>2, QueueTake DEF Deliver, TypeOK
  <2>2. topic' \in Seq(Messages) /\ Len(topic') = Len(topic) + 1 /\ Len(topic) \in Nat
    BY <1>2, <2>1, Put, LenProperties DEF Deliver, TypeOK
  <2>3. Positions \subseteq Positions'
    BY <2>2, PositionsGrow
  <2>4. cursor' \in [Servers -> Positions'] /\ committed' \in [Servers -> Positions']
    BY <1>2, <2>3 DEF Deliver, TypeOK
  <2>5. Placed'
    BY <1>2, <2>2 DEF Deliver, Placed
  <2> QED
    BY <1>2, <2>1, <2>2, <2>4, <2>5 DEF Deliver, TypeOK
<1>3. CASE DeliveryFailed(s)
  <2>1. Tail(out[s]) \in Queue(OutCap)
    BY <1>3, QueueTake DEF DeliveryFailed, TypeOK
  <2> QED
    BY <1>3, <2>1 DEF DeliveryFailed, TypeOK, Positions, Placed
<1>4. CASE Assign(s)
  <2>1. Len(topic) \in Nat
    BY LenProperties DEF TypeOK
  <2> DEFINE p == IF committed[s] = None THEN Len(topic) ELSE committed[s]
  <2>2. p \in 0..Len(topic)
    BY <2>1 DEF TypeOK, Positions
  <2>3. cursor' = [cursor EXCEPT ![s] = p]
    BY <1>4 DEF Assign
  <2> HIDE DEF p
  <2> QED
    BY <1>4, <2>2, <2>3 DEF Assign, TypeOK, Positions, Placed
<1>5. CASE ReceiveKafka(s)
  <2> DEFINE m == topic[cursor[s] + 1]
  <2>1. Len(topic) \in Nat /\ cursor[s] \in 0..Len(topic) /\ cursor[s] < Len(topic)
    BY <1>5, LenProperties DEF ReceiveKafka, Placed, TypeOK
  <2>2. m \in Messages
    BY <2>1, ElementOfSeq DEF TypeOK
  <2>3. broadcast' \in [Servers -> Queue(BcastCap)]
    <3>1. broadcast[s] \in Queue(BcastCap)
      BY DEF TypeOK
    <3>2. Len(broadcast[s]) < BcastCap => Append(broadcast[s], m) \in Queue(BcastCap)
      BY <2>2, <3>1, QueuePut
    <3> QED
      BY <1>5, <3>2 DEF ReceiveKafka, TypeOK
  <2>4. dropped' \in [Servers -> SUBSET Messages]
    <3>1. dropped' = dropped \/ dropped' = [dropped EXCEPT ![s] = @ \cup {m}]
      BY <1>5 DEF ReceiveKafka, Count
    <3>2. dropped \in [Servers -> SUBSET Messages]
      BY DEF TypeOK
    <3> HIDE DEF m
    <3> QED
      BY <2>2, <3>1, <3>2
  <2>5. cursor[s] + 1 \in 0..Len(topic) /\ cursor' = [cursor EXCEPT ![s] = cursor[s] + 1]
    BY <1>5, <2>1 DEF ReceiveKafka, Advance
  <2>6. /\ receiver' \in [Servers -> {"off", "join", "poll"}]
        /\ \A t \in Servers : receiver'[t] = "poll" => receiver[t] = "poll"
    BY <1>5 DEF ReceiveKafka, TypeOK
  <2>7. committed' \in [Servers -> Positions]
    BY <1>5, <2>5 DEF ReceiveKafka, TypeOK, Positions
  <2>8. Placed'
    BY <1>5, <2>5, <2>6 DEF ReceiveKafka, Placed, TypeOK
  <2> QED
    BY <1>5, <2>3, <2>4, <2>5, <2>6, <2>7, <2>8 DEF ReceiveKafka, TypeOK, Positions
<1>6. CASE Commit(s)
  BY <1>6 DEF Commit, TypeOK, Positions, Placed
<1>7. CASE ReceiverExit(s)
  BY <1>7 DEF ReceiverExit, TypeOK, Positions, Placed
<1> QED
  BY <1>1, <1>2, <1>3, <1>4, <1>5, <1>6, <1>7 DEF Bridge

\* The steps of a process.
LEMMA TypeProcess ==
    ASSUME TypeOK, Placed, NEW s \in Servers, Process(s)
    PROVE  TypeOK' /\ Placed'
<1> USE Constants DEF serverVars, clientVars, localVars, kafkaVars, groupVars
<1>1. CASE Start(s)
  BY <1>1 DEF Start, TypeOK, Positions, Placed
<1>2. CASE StopBegin(s) \/ StopWaits(s) \/ StopFlushes(s)
  BY <1>2 DEF StopBegin, StopWaits, StopFlushes, TypeOK, Positions, Placed
<1>3. ASSUME NEW p \in Positions, End(s, p) PROVE TypeOK' /\ Placed'
  BY <1>3, QueueEmpty, EmptySeq DEF End, TypeOK, Positions, Placed
<1>4. CASE StopEnds(s)
  BY <1>3, <1>4 DEF StopEnds, TypeOK
<1>5. CASE Crash(s)
  BY <1>3, <1>5 DEF Crash, TypeOK
<1> QED
  BY <1>1, <1>2, <1>4, <1>5 DEF Process, Stop
-----------------------------------------------------------------------------
(* Where messages come from                                                *)

\* A step of a reader, or a broadcaster.
LEMMA RoutedClients ==
    ASSUME TypeOK, Placed, Carried, Routed,
           (\E c \in Clients : ReadFromClient(c)) \/ (\E s \in Servers : Broadcast(s))
    PROVE  Placed' /\ Carried' /\ Routed'
<1> USE Constants DEF serverVars, clientVars, localVars, kafkaVars, groupVars
<1>1. ASSUME NEW c \in Clients, NEW h \in Servers \cup {None}, ReadMsg(c, h)
      PROVE  Placed' /\ Carried' /\ Routed'
  <2>1. Message(c, sent[c] + 1, h) \in Messages /\ Message(c, sent[c] + 1, h).client = c
        /\ sent[c] + 1 > 0
    BY <1>1 DEF ReadMsg, Message, Messages, TypeOK
  <2> QED
    BY <1>1, <2>1 DEF ReadMsg, TypeOK, Placed, Carried, Routed
<1>2. ASSUME NEW c \in Clients, Publish(c) \/ Abort(c) PROVE Placed' /\ Carried' /\ Routed'
  BY <1>2 DEF Publish, Abort, TypeOK, Placed, Carried, Routed
<1>3. ASSUME NEW c \in Clients, Forward(c) PROVE Placed' /\ Carried' /\ Routed'
  <2>1. held[c] \in LocalMessages(Home[c])
    BY <1>3 DEF Forward, Carried, LocalMessages
  <2>2. Append(kChan[Home[c]], held[c]) \in Seq(LocalMessages(Home[c]))
    BY <2>1, Put DEF Routed
  <2>3. \/ UNCHANGED kChan
        \/ kChan' = [kChan EXCEPT ![Home[c]] = Append(kChan[Home[c]], held[c])]
    BY <1>3 DEF Forward
  <2>4. \A s \in Servers : kChan'[s] \in Seq(LocalMessages(s))
    BY <2>2, <2>3 DEF TypeOK, Routed
  <2> QED
    BY <1>3, <2>4 DEF Forward, TypeOK, Placed, Carried, Routed
<1>4. ASSUME NEW s \in Servers, Broadcast(s) PROVE Placed' /\ Carried' /\ Routed'
  BY <1>4 DEF Broadcast, Placed, Carried, Routed
<1> QED
  BY <1>1, <1>2, <1>3, <1>4 DEF ReadFromClient

\* A step of the bridge, or of a process.
LEMMA RoutedServers ==
    ASSUME TypeOK, Carried, Routed, NEW s \in Servers, Bridge(s) \/ Process(s)
    PROVE  Carried' /\ Routed'
<1> USE Constants DEF serverVars, clientVars, localVars, kafkaVars, groupVars
<1>1. CASE KafkaWorker(s)
  <2> DEFINE m == Head(kChan[s])
  <2>1. m \in LocalMessages(s) /\ Tail(kChan[s]) \in Seq(LocalMessages(s))
    BY <1>1, Take DEF KafkaWorker, Routed
  <2>2. Stamped(m, s) \in StampedMessages(s)
    BY <2>1 DEF Stamped, StampedMessages, LocalMessages, Messages
  <2>3. \A t \in Servers : out'[t] \in Seq(StampedMessages(t))
    <3>1. Append(out[s], Stamped(m, s)) \in Seq(StampedMessages(s))
      BY <2>2, Put DEF Routed
    <3>2. out' = out \/ out' = [out EXCEPT ![s] = Append(@, Stamped(m, s))]
      BY <1>1 DEF KafkaWorker
    <3> QED
      BY <3>1, <3>2 DEF TypeOK, Routed
  <2> QED
    BY <1>1, <2>1, <2>3 DEF KafkaWorker, TypeOK, Carried, Routed
<1>2. CASE Deliver(s)
  <2>1. Head(out[s]) \in StampedMessages(s) /\ Tail(out[s]) \in Seq(StampedMessages(s))
    BY <1>2, Take DEF Deliver, Routed
  <2>2. Append(topic, Head(out[s])) \in Seq(Truthful)
    BY <2>1, Put DEF Routed, StampedMessages, LocalMessages, Truthful
  <2> QED
    BY <1>2, <2>1, <2>2 DEF Deliver, TypeOK, Carried, Routed
<1>3. CASE DeliveryFailed(s)
  <2>1. Tail(out[s]) \in Seq(StampedMessages(s))
    BY <1>3, Take DEF DeliveryFailed, Routed
  <2> QED
    BY <1>3, <2>1 DEF DeliveryFailed, TypeOK, Carried, Routed
<1>4. CASE Assign(s) \/ ReceiveKafka(s) \/ Commit(s) \/ ReceiverExit(s)
  BY <1>4 DEF Assign, ReceiveKafka, Commit, ReceiverExit, Carried, Routed
<1>5. CASE Start(s) \/ StopBegin(s) \/ StopWaits(s) \/ StopFlushes(s)
  BY <1>5 DEF Start, StopBegin, StopWaits, StopFlushes, Carried, Routed
<1>6. ASSUME NEW p, End(s, p) PROVE Carried' /\ Routed'
  <2>1. Carried'
    BY <1>6 DEF End, Carried, Locals
  <2>2. Routed'
    BY <1>6, EmptySeq DEF End, TypeOK, Routed
  <2> QED
    BY <2>1, <2>2
<1>7. CASE StopEnds(s) \/ Crash(s)
  BY <1>6, <1>7 DEF StopEnds, Crash
<1> QED
  BY <1>1, <1>2, <1>3, <1>4, <1>5, <1>7 DEF Bridge, Process, Stop
-----------------------------------------------------------------------------
(* No message vanishes                                                     *)

HostLess == {m \in Messages : m.host = None}

\* Without a HostField the messages have no Host on their way to the producer.
Bare ==
    ~HostField =>
        /\ \A c \in Clients : reader[c] \in {"publish", "forward"} => held[c] \in HostLess
        /\ \A s \in Servers : kChan[s] \in Seq(HostLess)

LEMMA InAppend ==
    ASSUME NEW S, NEW q \in Seq(S), NEW x \in S, NEW c, NEW n
    PROVE  In(q, c, n) \/ Is(x, c, n) => In(Append(q, x), c, n)
<1>1. /\ Len(q) \in Nat /\ Len(Append(q, x)) = Len(q) + 1
      /\ \A i \in 1..Len(q) : Append(q, x)[i] = q[i]
      /\ Append(q, x)[Len(q) + 1] = x
  BY AppendProperties, LenProperties
<1>2. DOMAIN q = 1..Len(q) /\ DOMAIN Append(q, x) = 1..(Len(q) + 1)
  BY <1>1, LenProperties, AppendProperties
<1>3. ASSUME In(q, c, n) PROVE In(Append(q, x), c, n)
  <2>1. PICK i \in 1..Len(q) : Is(q[i], c, n)
    BY <1>2, <1>3 DEF In
  <2>2. i \in DOMAIN Append(q, x) /\ Is(Append(q, x)[i], c, n)
    BY <1>1, <1>2, <2>1 DEF Is
  <2> QED
    BY <2>2 DEF In
<1>4. ASSUME Is(x, c, n) PROVE In(Append(q, x), c, n)
  <2>1. Len(q) + 1 \in DOMAIN Append(q, x)
    BY <1>1, <1>2
  <2> QED
    BY <1>1, <1>4, <2>1 DEF In, Is
<1> QED
  BY <1>3, <1>4

LEMMA InTail ==
    ASSUME NEW S, NEW q \in Seq(S), q # <<>>, NEW c, NEW n, In(q, c, n)
    PROVE  Is(Head(q), c, n) \/ In(Tail(q), c, n)
<1>1. /\ Len(q) \in Nat /\ Len(q) > 0 /\ Len(Tail(q)) = Len(q) - 1
      /\ Head(q) = q[1] /\ Tail(q) \in Seq(S)
      /\ \A i \in 1..(Len(q) - 1) : Tail(q)[i] = q[i + 1]
  BY HeadTailProperties, LenProperties, EmptySeq
<1>2. DOMAIN q = 1..Len(q) /\ DOMAIN Tail(q) = 1..(Len(q) - 1)
  BY <1>1, LenProperties
<1>3. PICK i \in 1..Len(q) : Is(q[i], c, n)
  BY <1>2 DEF In
<1>4. CASE i = 1
  BY <1>1, <1>3, <1>4
<1>5. CASE i # 1
  <2>1. i - 1 \in DOMAIN Tail(q) /\ Tail(q)[i - 1] = q[i]
    BY <1>1, <1>2, <1>5
  <2> QED
    BY <1>3, <2>1 DEF In
<1> QED
  BY <1>4, <1>5

\* Every step keeps the messages of the readers and the workers without a Host.
LEMMA BareStep == ASSUME TypeOK, Carried, Bare, [Next]_vars PROVE Bare'
<1> SUFFICES ASSUME ~HostField PROVE Bare'
  BY Constants DEF Bare
<1> USE Constants DEF serverVars, clientVars, localVars, kafkaVars, groupVars
<1>1. ASSUME NEW c \in Clients, NEW h \in {None}, ReadMsg(c, h) PROVE Bare'
  <2>1. Message(c, sent[c] + 1, h) \in HostLess
    BY <1>1 DEF ReadMsg, Message, Messages, TypeOK, HostLess
  <2> QED
    BY <1>1, <2>1 DEF ReadMsg, TypeOK, Bare
<1>2. ASSUME NEW c \in Clients, Publish(c) \/ Abort(c) PROVE Bare'
  BY <1>2 DEF Publish, Abort, TypeOK, Bare
<1>3. ASSUME NEW c \in Clients, Forward(c) PROVE Bare'
  <2>1. Append(kChan[Home[c]], held[c]) \in Seq(HostLess)
    BY <1>3, Put DEF Forward, Bare
  <2>2. \/ UNCHANGED kChan
        \/ kChan' = [kChan EXCEPT ![Home[c]] = Append(kChan[Home[c]], held[c])]
    BY <1>3 DEF Forward
  <2>3. \A s \in Servers : kChan'[s] \in Seq(HostLess)
    BY <2>1, <2>2 DEF TypeOK, Bare
  <2> QED
    BY <1>3, <2>3 DEF Forward, TypeOK, Bare
<1>4. ASSUME NEW s \in Servers, KafkaWorker(s) PROVE Bare'
  <2>1. Tail(kChan[s]) \in Seq(HostLess)
    BY <1>4, Take DEF KafkaWorker, Bare
  <2> QED
    BY <1>4, <2>1 DEF KafkaWorker, TypeOK, Bare
<1>5. ASSUME NEW s \in Servers, NEW p, End(s, p) PROVE Bare'
  BY <1>5, EmptySeq DEF End, TypeOK, Bare, Locals, Carried
<1>6. CASE UNCHANGED <<reader, held, kChan>>
  BY <1>6 DEF Bare
<1> QED
  BY <1>1, <1>2, <1>3, <1>4, <1>5, <1>6
  DEF Next, ReadFromClient, Broadcast, Bridge, Deliver, DeliveryFailed, Assign, ReceiveKafka,
      Commit, ReceiverExit, Process, Start, Stop, StopBegin, StopWaits, StopFlushes, StopEnds,
      Crash, vars

\* Before a process serves, its clients have said nothing.
Silent == \A c \in Clients : phase[Home[c]] = "down" => reader[c] = "gone" \/ sent[c] = 0

LEMMA SilentStep == ASSUME TypeOK, Silent, [Next]_vars PROVE Silent'
<1> USE Constants DEF serverVars, clientVars, localVars, kafkaVars, groupVars
<1>1. ASSUME NEW c \in Clients, ReadFromClient(c) PROVE Silent'
  BY <1>1 DEF ReadFromClient, ReadMsg, Publish, Abort, Forward, TypeOK, Silent
<1>2. ASSUME NEW s \in Servers, NEW p, End(s, p) PROVE Silent'
  BY <1>2 DEF End, TypeOK, Silent, Locals
<1>3. ASSUME NEW s \in Servers, Start(s) \/ StopBegin(s) \/ StopWaits(s) \/ StopFlushes(s)
      PROVE  Silent'
  BY <1>3 DEF Start, StopBegin, StopWaits, StopFlushes, TypeOK, Silent
<1>4. CASE UNCHANGED <<phase, reader, sent>>
  BY <1>4 DEF Silent
<1> QED
  BY <1>1, <1>2, <1>3, <1>4
  DEF Next, Broadcast, Bridge, KafkaWorker, Deliver, DeliveryFailed, Assign, ReceiveKafka,
      Commit, ReceiverExit, Process, Stop, StopEnds, Crash, vars

\* One client: what was accounted for still is, unless its server stops serving.
LEMMA AccountStep ==
    ASSUME TypeOK, Carried, Bare, ~HostField, ~Failures, [Next]_vars,
           NEW c \in Clients, NEW n,
           reader[c] \in {"read", "publish", "forward"}, phase[Home[c]] = "up",
           reader'[c] # "gone", phase'[Home[c]] = "up", Accounted(c, n)
    PROVE  Accounted(c, n)'
<1> USE Constants DEF serverVars, clientVars, localVars, kafkaVars, groupVars
<1> DEFINE s == Home[c]
<1>0. s \in Servers
  OBVIOUS
<1>1. ASSUME NEW b \in Clients, NEW h \in {None}, ReadMsg(b, h) PROVE Accounted(c, n)'
  BY <1>1 DEF ReadMsg, TypeOK, Accounted
<1>2. ASSUME NEW b \in Clients, Publish(b) \/ Abort(b) PROVE Accounted(c, n)'
  BY <1>2 DEF Publish, Abort, TypeOK, Accounted
<1>3. ASSUME NEW b \in Clients, Forward(b) PROVE Accounted(c, n)'
  <2>1. held[b] \in Messages /\ held[b].client = b
    BY <1>3 DEF Forward, Carried
  <2>2. CASE kChan' = [kChan EXCEPT ![Home[b]] = Append(kChan[Home[b]], held[b])] /\ UNCHANGED dropped
    <3>1. kChan[s] \in Seq(Messages)
      BY DEF TypeOK, Queue
    <3>2. In(kChan[s], c, n) \/ (b = c /\ Is(held[b], c, n)) => In(kChan'[s], c, n)
      BY <2>1, <2>2, <3>1, InAppend DEF TypeOK
    <3> QED
      BY <1>3, <2>1, <2>2, <3>2 DEF Forward, TypeOK, Accounted, Is
  <2>3. CASE ~KCancelled(Home[b]) /\ Count(Home[b], held[b]) /\ UNCHANGED kChan
    <3>1. dropped'[s] = IF s = Home[b] THEN dropped[s] \cup {held[b]} ELSE dropped[s]
      BY <2>3 DEF Count, TypeOK
    <3> QED
      BY <1>3, <2>1, <2>3, <3>1 DEF Forward, TypeOK, Accounted, Is
  <2>4. CASE KCancelled(Home[b]) /\ UNCHANGED <<kChan, dropped>>
    BY <1>3, <2>4 DEF Forward, TypeOK, Accounted, KCancelled
  <2> QED
    BY <1>3, <2>2, <2>3, <2>4 DEF Forward
<1>4. ASSUME NEW t \in Servers, KafkaWorker(t) PROVE Accounted(c, n)'
  <2> DEFINE m == Head(kChan[t])
  <2>1. m \in HostLess /\ kChan[t] \in Seq(HostLess) /\ kChan[t] # <<>>
    BY <1>4, Take DEF KafkaWorker, Bare
  <2>2. Stamped(m, t) \in Messages /\ (Is(m, c, n) => Is(Stamped(m, t), c, n))
    BY <2>1 DEF HostLess, Messages, Stamped, Is
  <2>3. In(kChan[s], c, n) => In(kChan'[s], c, n) \/ (t = s /\ Is(m, c, n))
    BY <1>4, <2>1, InTail DEF KafkaWorker, TypeOK
  <2>4. CASE out' = [out EXCEPT ![t] = Append(@, Stamped(m, t))] /\ UNCHANGED dropped
    <3>1. out[s] \in Seq(Messages)
      BY DEF TypeOK, Queue
    <3>2. In(out[s], c, n) \/ (t = s /\ Is(m, c, n)) => In(out'[s], c, n)
      BY <2>2, <2>4, <3>1, InAppend DEF TypeOK
    <3> QED
      BY <1>4, <2>3, <2>4, <3>2 DEF KafkaWorker, Accounted
  <2>5. CASE Count(t, m) /\ UNCHANGED out
    <3>1. dropped'[s] = IF s = t THEN dropped[s] \cup {m} ELSE dropped[s]
      BY <2>5 DEF Count, TypeOK
    <3> QED
      BY <1>4, <2>3, <2>5, <3>1 DEF KafkaWorker, Accounted
  <2>6. MayProduce(m)
    BY <2>1 DEF MayProduce, HostLess
  <2> QED
    BY <1>4, <2>4, <2>5, <2>6 DEF KafkaWorker
<1>5. ASSUME NEW t \in Servers, Deliver(t) PROVE Accounted(c, n)'
  <2>1. out[t] \in Seq(Messages) /\ out[t] # <<>> /\ topic \in Seq(Messages)
    BY <1>5 DEF Deliver, TypeOK, Queue
  <2>2. Head(out[t]) \in Messages
    BY <2>1, Take
  <2>3. In(out[s], c, n) => In(out'[s], c, n) \/ Is(Head(out[t]), c, n)
    BY <1>5, <2>1, InTail DEF Deliver, TypeOK
  <2>4. In(topic, c, n) \/ Is(Head(out[t]), c, n) => In(topic', c, n)
    BY <1>5, <2>1, <2>2, InAppend DEF Deliver
  <2> QED
    BY <1>5, <2>3, <2>4 DEF Deliver, Accounted
<1>6. ASSUME NEW t \in Servers, ReceiveKafka(t) PROVE Accounted(c, n)'
  <2> DEFINE m == topic[cursor[t] + 1]
  <2>1. dropped' = dropped \/ dropped' = [dropped EXCEPT ![t] = @ \cup {m}]
    BY <1>6 DEF ReceiveKafka, Count
  <2>2. dropped \in [Servers -> SUBSET Messages]
    BY DEF TypeOK
  <2> HIDE DEF m
  <2>3. dropped[s] \subseteq dropped'[s]
    BY <2>1, <2>2
  <2> QED
    BY <1>6, <2>3 DEF ReceiveKafka, Accounted
<1>7. ASSUME NEW t \in Servers, NEW p, End(t, p) PROVE Accounted(c, n)'
  <2>1. t # s
    BY <1>7 DEF End, TypeOK
  <2> QED
    BY <1>7, <2>1 DEF End, TypeOK, Accounted, Locals
<1>8. CASE UNCHANGED <<reader, held, kChan, out, topic, dropped>>
  BY <1>8 DEF Accounted
<1> QED
  BY <1>1, <1>2, <1>3, <1>4, <1>5, <1>6, <1>7, <1>8
  DEF Next, ReadFromClient, Broadcast, Bridge, DeliveryFailed, Assign,
      Commit, ReceiverExit, Process, Start, Stop, StopBegin, StopWaits, StopFlushes, StopEnds,
      Crash, vars

\* Whatever is said and served is accounted for, also when it is said now.
LEMMA VanishStep ==
    ASSUME TypeOK, Carried, Bare, Silent, NothingVanishes, [Next]_vars
    PROVE  NothingVanishes'
<1> SUFFICES ASSUME ~HostField, ~Failures, NEW c \in Clients,
                    reader'[c] \in {"read", "publish", "forward"}, phase'[Home[c]] = "up",
                    NEW n \in 1..sent'[c]
             PROVE  Accounted(c, n)'
  BY DEF NothingVanishes
<1> USE Constants DEF serverVars, clientVars, localVars, kafkaVars, groupVars
<1>1. CASE phase[Home[c]] = "up" /\ sent'[c] = sent[c]
  <2>1. reader[c] \in {"read", "publish", "forward"}
    BY DEF TypeOK, Next, ReadFromClient, ReadMsg, Publish, Abort, Forward, Broadcast, Bridge,
           KafkaWorker, Deliver, DeliveryFailed, Assign, ReceiveKafka, Commit, ReceiverExit,
           Process, Start, Stop, StopBegin, StopWaits, StopFlushes, StopEnds, Crash, End, vars
  <2>2. Accounted(c, n)
    BY <1>1, <2>1 DEF NothingVanishes
  <2> QED
    BY <1>1, <2>1, <2>2, AccountStep
<1>2. CASE phase[Home[c]] # "up"
  <2>1. Start(Home[c])
    BY <1>2
    DEF TypeOK, Next, ReadFromClient, ReadMsg, Publish, Abort, Forward, Broadcast, Bridge,
        KafkaWorker, Deliver, DeliveryFailed, Assign, ReceiveKafka, Commit, ReceiverExit,
        Process, Start, Stop, StopBegin, StopWaits, StopFlushes, StopEnds, Crash, End, vars
  <2>2. sent'[c] = 0
    BY <2>1 DEF Start, Silent, TypeOK
  <2> QED
    BY <2>2
<1>3. CASE sent'[c] # sent[c]
  <2>0. \E b \in Clients, h \in Servers \cup {None} : ReadMsg(b, h)
    BY <1>3
    DEF Next, ReadFromClient, Publish, Abort, Forward, Broadcast, Bridge,
        KafkaWorker, Deliver, DeliveryFailed, Assign, ReceiveKafka, Commit, ReceiverExit,
        Process, Start, Stop, StopBegin, StopWaits, StopFlushes, StopEnds, Crash, End, vars
  <2>1. PICK h \in Servers \cup {None} : ReadMsg(c, h)
    <3>1. PICK b \in Clients, h \in Servers \cup {None} : ReadMsg(b, h)
      BY <2>0
    <3>2. sent \in [Clients -> Nat] /\ sent' = [sent EXCEPT ![b] = @ + 1]
      BY <3>1 DEF ReadMsg, TypeOK
    <3>3. b = c
      BY <1>3, <3>2
    <3> QED
      BY <3>1, <3>3
  <2>2. CASE n = sent[c] + 1
    BY <2>1, <2>2 DEF ReadMsg, Message, TypeOK, Accounted
  <2>3. CASE n # sent[c] + 1
    <3>1. n \in 1..sent[c] /\ phase[Home[c]] = "up" /\ reader[c] = "read"
      BY <2>1, <2>3 DEF ReadMsg, TypeOK
    <3>2. Accounted(c, n)
      BY <3>1 DEF NothingVanishes
    <3> QED
      BY <3>1, <3>2, AccountStep
  <2> QED
    BY <2>2, <2>3
<1> QED
  BY <1>1, <1>2, <1>3
-----------------------------------------------------------------------------
(* The theorems                                                            *)

\* The strengthened invariant holds in every reachable state.
THEOREM Invariant == Spec => []IInv
<1>1. Init => IInv
  BY Constants, QueueEmpty, EmptySeq
  DEF Init, IInv, TypeOK, Positions, Placed, Carried, Routed
<1>2. ASSUME IInv, [Next]_vars PROVE IInv'
  <2>1. CASE (\E c \in Clients : ReadFromClient(c)) \/ (\E s \in Servers : Broadcast(s))
    BY <1>2, <2>1, TypeClients, RoutedClients DEF IInv
  <2>2. ASSUME NEW s \in Servers, Bridge(s) \/ Process(s) PROVE IInv'
    BY <1>2, <2>2, TypeBridge, TypeProcess, RoutedServers DEF IInv
  <2>3. CASE UNCHANGED vars
    BY <1>2, <2>3
    DEF IInv, TypeOK, Positions, Placed, Carried, Routed,
        vars, serverVars, clientVars, localVars, kafkaVars, groupVars
  <2> QED
    BY <1>2, <2>1, <2>2, <2>3 DEF Next
<1> QED
  BY <1>1, <1>2, PTL DEF Spec

\* Types and capacities hold, and no group is ahead of the log.
THEOREM TypeCorrect == Spec => []TypeOK
<1>1. IInv => TypeOK
  BY DEF IInv
<1> QED
  BY <1>1, Invariant, PTL

\* What the topic carries names the server that read it, for any servers.
THEOREM HostsTrue == Spec => []HostTrue
<1>1. IInv => HostTrue
  BY ElementOfSeq, LenProperties DEF IInv, Routed, Truthful, HostTrue
<1> QED
  BY <1>1, Invariant, PTL

\* Without a HostField and without failures of Kafka, every message that a serving
\* server read is in a queue, in the log or counted, for any clients and capacities.
THEOREM AllAccounted == Spec => []NothingVanishes
<1>1. Init => Bare /\ Silent /\ NothingVanishes
  BY Constants, EmptySeq DEF Init, Bare, Silent, NothingVanishes
<1>2. IInv /\ Bare /\ Silent /\ NothingVanishes /\ [Next]_vars => (Bare /\ Silent /\ NothingVanishes)'
  BY BareStep, SilentStep, VanishStep DEF IInv
<1> QED
  BY <1>1, <1>2, Invariant, PTL DEF Spec
=============================================================================
