----------------------------- MODULE Federation -----------------------------
(***************************************************************************)
(* Several chat servers joined by a Kafka topic (internal/kafka/kafka.go,  *)
(* the reader of internal/wsserver/client.go, Start and Stop of server.go, *)
(* docker-compose.yml).  Hub has the inside of one server; here a server   *)
(* is the way of a message: reader, broadcast channel and what it showed;  *)
(* reader, KChan, producer, topic, consumer, broadcast channel.  The topic *)
(* has one partition, so it is one log; every server has a consumer group  *)
(* of its own, so it reads the whole log from its position.  A process may *)
(* stop, or crash, and be started again under the same host name.          *)
(***************************************************************************)
EXTENDS Integers, Sequences, SequencesExt

CONSTANTS
    Clients,     \* connections that send messages; each belongs to one process
    Servers,     \* the hosts
    Home,        \* Home[c]: the server that nginx gave connection c
    None,        \* no Host; no message; no position
    BcastCap, KCap, OutCap,  \* capacities of broadcast, KChan, the producer's queue
    MaxSent,     \* bound: messages of one client
    MaxStarts,   \* bound: starts of one server
    HostField,   \* may a client fill in the "host" of its JSON message?
    Failures,    \* may Kafka refuse, or fail to deliver, a message?
    Stops,       \* the servers that may get a SIGTERM
    Crashes      \* the servers whose process may be killed

ASSUME HomeAssumption == Home \in [Clients -> Servers]
ASSUME NoneAssumption == None \notin Servers
ASSUME BoundAssumption == {BcastCap, KCap, OutCap, MaxSent, MaxStarts} \subseteq Nat \ {0}
ASSUME SwitchAssumption == {HostField, Failures} \subseteq BOOLEAN
ASSUME StopsAssumption == Stops \cup Crashes \subseteq Servers

VARIABLES
    phase,      \* phase[s]: "down", "up", and then where Stop is: "stopping" (after
                \* KCancel), "flushing", "closing"
    starts,     \* starts[s]: how often the server was started
    reader,     \* reader[c]: where ReadFromClient is
    held,       \* held[c]: the message the reader carries
    sent,       \* sent[c]: messages read from c so far
    broadcast,  \* broadcast[s]
    view,       \* view[s]: messages ReadFromBroadCastWriteToClients took, in order
    kChan,      \* kChan[s]
    out,        \* out[s]: messages of the producer that are not yet in the topic
    topic,      \* the log
    receiver,   \* receiver[s]: the consumer: "off", "join", or "poll"
    cursor,     \* cursor[s]: how much of the log it has read, or None
    committed,  \* committed[s]: the position its group has stored, or None
    dropped,    \* dropped[s]: the messages that KafkaDropped counted
    after       \* history: <<m, r>>: r was sent where m, of another server, was shown

serverVars == <<phase, starts>>
clientVars == <<reader, held, sent, after>>
localVars  == <<broadcast, view>>
kafkaVars  == <<kChan, out, topic>>
groupVars  == <<receiver, cursor, committed>>
vars == <<serverVars, clientVars, localVars, kafkaVars, groupVars, dropped>>

\* WsMessage: whose it is, which of that client's, and its Host.
Message(c, n, h) == [client |-> c, n |-> n, host |-> h]
Running(s) == phase[s] # "down"
KCancelled(s) == phase[s] # "up"
Locals(s) == {c \in Clients : Home[c] = s}
-----------------------------------------------------------------------------
Init ==
    /\ phase = [s \in Servers |-> "down"] /\ starts = [s \in Servers |-> 0]
    /\ reader = [c \in Clients |-> "read"] /\ held = [c \in Clients |-> None]
    /\ sent = [c \in Clients |-> 0] /\ after = {}
    /\ broadcast = [s \in Servers |-> <<>>] /\ view = [s \in Servers |-> <<>>]
    /\ kChan = [s \in Servers |-> <<>>] /\ out = [s \in Servers |-> <<>>] /\ topic = <<>>
    /\ receiver = [s \in Servers |-> "off"]
    /\ cursor = [s \in Servers |-> None] /\ committed = [s \in Servers |-> None]
    /\ dropped = [s \in Servers |-> {}]
-----------------------------------------------------------------------------
(* ReadFromClient.  A connection that says nothing more is not told from   *)
(* one that is closed, nor from one that is not yet made.                  *)

\* What server s has shown of the clients of other servers.
Heard(s) == {m \in Range(view[s]) : Home[m.client] # s}

\* Stop closes the connections before it flushes.
ReadMsg(c, h) ==
    /\ reader[c] = "read" /\ phase[Home[c]] \in {"up", "stopping"} /\ sent[c] < MaxSent
    /\ reader' = [reader EXCEPT ![c] = "publish"]
    /\ sent' = [sent EXCEPT ![c] = @ + 1]
    /\ held' = [held EXCEPT ![c] = Message(c, sent[c] + 1, h)]
    /\ after' = after \cup {<<[client |-> m.client, n |-> m.n], [client |-> c, n |-> sent[c] + 1]>> :
                               m \in Heard(Home[c])}
    /\ UNCHANGED <<serverVars, localVars, kafkaVars, groupVars, dropped>>

Publish(c) ==
    LET s == Home[c] IN
    /\ reader[c] = "publish" /\ Len(broadcast[s]) < BcastCap
    /\ broadcast' = [broadcast EXCEPT ![s] = Append(@, held[c])]
    /\ reader' = [reader EXCEPT ![c] = "forward"]
    /\ UNCHANGED <<serverVars, held, sent, after, view, kafkaVars, groupVars, dropped>>

\* The connection is closed while the reader waits for room in broadcast.
Abort(c) ==
    /\ reader[c] = "publish"
    /\ reader' = [reader EXCEPT ![c] = "gone"]
    /\ held' = [held EXCEPT ![c] = None]
    /\ UNCHANGED <<serverVars, sent, after, localVars, kafkaVars, groupVars, dropped>>

CountForgotten(s, m) == UNCHANGED dropped
Count(s, m) == dropped' = [dropped EXCEPT ![s] = @ \cup {m}]

\* A full KChan drops the message and counts it; a cancelled KCtx may drop it too.
Forward(c) ==
    LET s == Home[c] IN
    /\ reader[c] = "forward"
    /\ \/ /\ Len(kChan[s]) < KCap
          /\ kChan' = [kChan EXCEPT ![s] = Append(@, held[c])] /\ UNCHANGED dropped
       \/ Len(kChan[s]) = KCap /\ ~KCancelled(s) /\ Count(s, held[c]) /\ UNCHANGED kChan
       \/ KCancelled(s) /\ UNCHANGED <<kChan, dropped>>
    /\ reader' = [reader EXCEPT ![c] = "read"]
    /\ held' = [held EXCEPT ![c] = None]
    /\ UNCHANGED <<serverVars, sent, after, localVars, out, topic, groupVars>>

ReadFromClient(c) ==
    \/ \E h \in {None} \cup (IF HostField THEN Servers ELSE {}) : ReadMsg(c, h)
    \/ Publish(c) \/ Abort(c) \/ Forward(c)

\* ReadFromBroadCastWriteToClients hands the next message to the clients.
Broadcast(s) ==
    /\ phase[s] \in {"up", "stopping"} /\ broadcast[s] # <<>>
    /\ broadcast' = [broadcast EXCEPT ![s] = Tail(@)]
    /\ view' = [view EXCEPT ![s] = Append(@, Head(broadcast[s]))]
    /\ UNCHANGED <<serverVars, clientVars, kafkaVars, groupVars, dropped>>
-----------------------------------------------------------------------------
(* The producer's side of the bridge                                       *)

MayProduce(m) == m.host = None
StampForgotten(m, s) == m
Stamped(m, s) == [m EXCEPT !.host = s]

\* KafkaWorker takes a message and calls SendToKafka, which keeps one that has a
\* Host to itself.  Produce may find the producer's queue full, or fail.  After
\* KCancel the worker may return, or take another message first.
KafkaWorker(s) ==
    LET m == Head(kChan[s]) IN
    /\ Running(s) /\ kChan[s] # <<>>
    /\ kChan' = [kChan EXCEPT ![s] = Tail(@)]
    /\ \/ ~MayProduce(m) /\ UNCHANGED <<out, dropped>>
       \/ /\ MayProduce(m) /\ Len(out[s]) < OutCap
          /\ out' = [out EXCEPT ![s] = Append(@, Stamped(m, s))] /\ UNCHANGED dropped
       \/ /\ MayProduce(m)
          /\ Failures \/ Len(out[s]) = OutCap
          /\ Count(s, m) /\ UNCHANGED out
    /\ UNCHANGED <<serverVars, clientVars, localVars, topic, groupVars>>

\* The idempotent producer delivers in order, each message once.
Deliver(s) ==
    /\ Running(s) /\ out[s] # <<>>
    /\ out' = [out EXCEPT ![s] = Tail(@)]
    /\ topic' = Append(topic, Head(out[s]))
    /\ UNCHANGED <<serverVars, clientVars, localVars, kChan, groupVars, dropped>>

\* The retries are used up: GetProducerEventsKafka logs it.
DeliveryFailed(s) ==
    /\ Failures /\ Running(s) /\ out[s] # <<>>
    /\ out' = [out EXCEPT ![s] = Tail(@)]
    /\ UNCHANGED <<serverVars, clientVars, localVars, kChan, topic, groupVars, dropped>>
-----------------------------------------------------------------------------
(* The consumer's side of the bridge                                       *)

\* The group's assignment: the stored position, else ("latest") the end.
Assign(s) ==
    /\ receiver[s] = "join"
    /\ receiver' = [receiver EXCEPT ![s] = "poll"]
    /\ cursor' = [cursor EXCEPT ![s] = IF committed[s] = None THEN Len(topic) ELSE committed[s]]
    /\ UNCHANGED <<serverVars, clientVars, localVars, kafkaVars, committed, dropped>>

OwnNever(s, m) == FALSE
OwnReversed(s, m) == m.host # s
Own(s, m) == m.host = s

AdvanceTwice(s) == cursor' = [cursor EXCEPT ![s] = @ + 2]
AdvanceForgotten(s) == UNCHANGED cursor
Advance(s) == cursor' = [cursor EXCEPT ![s] = @ + 1]

\* One round of ReceiveKafka: a message of this host is skipped, and a full
\* broadcast channel drops one.  Of the rounds after KCancel only the one that was
\* polling already takes a message, and may give it up.
ReceiveKafka(s) ==
    LET m == topic[cursor[s] + 1] IN
    /\ receiver[s] = "poll" /\ cursor[s] < Len(topic)
    /\ Advance(s)
    /\ \/ Own(s, m) /\ UNCHANGED <<broadcast, dropped>>
       \/ /\ ~Own(s, m) /\ Len(broadcast[s]) < BcastCap
          /\ broadcast' = [broadcast EXCEPT ![s] = Append(@, m)] /\ UNCHANGED dropped
       \/ /\ ~Own(s, m) /\ ~KCancelled(s) /\ Len(broadcast[s]) = BcastCap
          /\ Count(s, m) /\ UNCHANGED broadcast
       \/ ~Own(s, m) /\ KCancelled(s) /\ UNCHANGED <<broadcast, dropped>>
    /\ IF KCancelled(s)
         THEN /\ receiver' = [receiver EXCEPT ![s] = "off"]
              /\ committed' = [committed EXCEPT ![s] = cursor[s] + 1]
         ELSE UNCHANGED <<receiver, committed>>
    /\ UNCHANGED <<serverVars, clientVars, view, kafkaVars>>

\* The consumer stores its position from time to time (which shows only when the
\* process crashes), and when it is closed.
Commit(s) ==
    /\ s \in Crashes /\ receiver[s] = "poll"
    /\ committed' = [committed EXCEPT ![s] = cursor[s]]
    /\ UNCHANGED <<serverVars, clientVars, localVars, kafkaVars, receiver, cursor, dropped>>

ReceiverExit(s) ==
    /\ KCancelled(s) /\ receiver[s] # "off"
    /\ receiver' = [receiver EXCEPT ![s] = "off"]
    /\ committed' = [committed EXCEPT ![s] = IF receiver[s] = "poll" THEN cursor[s] ELSE @]
    /\ UNCHANGED <<serverVars, clientVars, localVars, kafkaVars, cursor, dropped>>
-----------------------------------------------------------------------------
(* Start, Stop, and a crash                                                *)

Start(s) ==
    /\ phase[s] = "down" /\ starts[s] < MaxStarts
    /\ phase' = [phase EXCEPT ![s] = "up"]
    /\ starts' = [starts EXCEPT ![s] = @ + 1]
    /\ receiver' = [receiver EXCEPT ![s] = "join"]
    /\ UNCHANGED <<clientVars, localVars, kafkaVars, cursor, committed, dropped>>

\* KCancel.
StopBegin(s) ==
    /\ s \in Stops /\ phase[s] = "up"
    /\ phase' = [phase EXCEPT ![s] = "stopping"]
    /\ UNCHANGED <<starts, clientVars, localVars, kafkaVars, groupVars, dropped>>

\* clientsWg.Wait and wg.Wait: no connection is open, no hub goroutine runs.
StopWaits(s) ==
    /\ phase[s] = "stopping"
    /\ phase' = [phase EXCEPT ![s] = "flushing"]
    /\ UNCHANGED <<starts, clientVars, localVars, kafkaVars, groupVars, dropped>>

\* The end of the process: its memory, its metrics and its connections are lost.
End(s, position) ==
    /\ phase' = [phase EXCEPT ![s] = "down"]
    /\ reader' = [c \in Clients |-> IF c \in Locals(s) /\ sent[c] > 0 THEN "gone" ELSE reader[c]]
    /\ held' = [c \in Clients |-> IF c \in Locals(s) THEN None ELSE held[c]]
    /\ broadcast' = [broadcast EXCEPT ![s] = <<>>] /\ view' = [view EXCEPT ![s] = <<>>]
    /\ kChan' = [kChan EXCEPT ![s] = <<>>] /\ out' = [out EXCEPT ![s] = <<>>]
    /\ receiver' = [receiver EXCEPT ![s] = "off"]
    /\ cursor' = [cursor EXCEPT ![s] = None]
    /\ committed' = [committed EXCEPT ![s] = position]
    /\ dropped' = [dropped EXCEPT ![s] = {}]
    /\ UNCHANGED <<starts, sent, after, topic>>

FlushSkipped(s) == TRUE
Flushed(s) == out[s] = <<>>

\* Flush waits for the producer, but for 15 seconds at most.
StopFlushes(s) ==
    /\ phase[s] = "flushing" /\ (Flushed(s) \/ Failures)
    /\ phase' = [phase EXCEPT ![s] = "closing"]
    /\ UNCHANGED <<starts, clientVars, localVars, kafkaVars, groupVars, dropped>>

\* The two Closes, of which that of the consumer stores its position.
StopEnds(s) ==
    /\ phase[s] = "closing"
    /\ End(s, IF receiver[s] = "poll" THEN cursor[s] ELSE committed[s])

Crash(s) == s \in Crashes /\ Running(s) /\ End(s, committed[s])
-----------------------------------------------------------------------------
Bridge(s) ==
    \/ KafkaWorker(s) \/ Deliver(s) \/ DeliveryFailed(s)
    \/ Assign(s) \/ ReceiveKafka(s) \/ Commit(s) \/ ReceiverExit(s)

Stop(s) == StopBegin(s) \/ StopWaits(s) \/ StopFlushes(s) \/ StopEnds(s)

Process(s) == Start(s) \/ Stop(s) \/ Crash(s)

Next ==
    \/ \E c \in Clients : ReadFromClient(c)
    \/ \E s \in Servers : Broadcast(s) \/ Bridge(s) \/ Process(s)

Spec == Init /\ [][Next]_vars
=============================================================================
