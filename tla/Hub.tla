-------------------------------- MODULE Hub --------------------------------
(***************************************************************************)
(* One chat server process: the three hub goroutines that own the registry *)
(* of clients (internal/wsserver/hub.go), the reader and writer goroutines *)
(* of every WebSocket client (client.go), the HTTP handler that creates    *)
(* them (internal/handlers/handlers.go) and the graceful shutdown          *)
(* (server.go, Stop).  A Go channel is a sequence with a capacity; a       *)
(* select with several ready cases is a disjunction; a critical section    *)
(* with no blocking call inside is one step that needs the mutex.          *)
(***************************************************************************)
EXTENDS Integers, Sequences, FiniteSets

CONSTANTS
    Clients,    \* the connections that may be made; each is made at most once
    Msgs,       \* what a chat message may be
    None,       \* no client, or no message
    ConnCap,    \* capacity of connChan (1024 in server.go)
    DelCap,     \* capacity of delConnChan (1024)
    BcastCap,   \* capacity of broadcast (1024)
    KCap,       \* capacity of KChan (1024)
    SendCap,    \* capacity of a client's Send (256)
    UseKafka,   \* EnvConfig.UseKafka
    Debug,      \* the log level is debug, so log.Debug formats its arguments
    CanStop     \* may SIGTERM, SIGINT or a failed listener stop the server?

ASSUME ClientsAssumption == IsFiniteSet(Clients) /\ None \notin Clients \cup Msgs
ASSUME CapAssumption == {ConnCap, DelCap, BcastCap, KCap, SendCap} \subseteq Nat \ {0}
ASSUME FlagAssumption == {UseKafka, Debug, CanStop} \subseteq BOOLEAN

VARIABLES
    connChan, delConnChan, broadcast, kChan,  \* the channels of wsSrv and Kafka
    send,      \* send[c]: the channel SClient.Send
    wsClients, \* the keys of clients.wsClients
    mutex,     \* clients.mutex: "add" or "del" while that goroutine's Lock waits
               \* for Stop's read lock (and keeps later RLocks out), else "free"
    clientsWg, \* counter of the WaitGroup clientsWg
    gauge,     \* metrics.WsActiveConnections
    adder,     \* AddClientConn: where it is, the client it holds
    deleter,   \* DelClientConn: where it is, the client it holds
    caster,    \* ReadFromBroadCastWriteToClients: where, the message, clients left
    conn,      \* conn[c]: "none", "open", or "closed" by SClient.Close
    reader,    \* reader[c]: where ReadFromClient is
    held,      \* held[c]: the message the reader carries
    writer,    \* writer[c]: where WriteToClient is
    missed,    \* history: clients whose Send overflowed and whose removal was queued
    stop,      \* where Stop is
    toStop,    \* clients Stop has still to send to delConnChan
    worker,    \* where KafkaWorker is
    receiver   \* where ReceiveKafka is

chanVars   == <<connChan, delConnChan, broadcast, kChan, send>>
regVars    == <<wsClients, mutex, clientsWg, gauge>>
hubVars    == <<adder, deleter, caster>>
clientVars == <<conn, reader, held, writer, missed>>
stopVars   == <<stop, toStop>>
kafkaVars  == <<worker, receiver>>
vars == <<chanVars, regVars, hubVars, clientVars, stopVars, kafkaVars>>

\* Frames: of the variables of one group, a step changes at most the one named.
OnlyConnChan    == UNCHANGED <<delConnChan, broadcast, kChan, send>>
OnlyDelConnChan == UNCHANGED <<connChan, broadcast, kChan, send>>
OnlyBroadcast   == UNCHANGED <<connChan, delConnChan, kChan, send>>
OnlyKChan       == UNCHANGED <<connChan, delConnChan, broadcast, send>>
OnlySend        == UNCHANGED <<connChan, delConnChan, broadcast, kChan>>
OnlyReader      == UNCHANGED <<regVars, hubVars, conn, writer, missed, stopVars, kafkaVars>>
OnlyWriter      == UNCHANGED <<regVars, hubVars, conn, reader, held, missed, stopVars, kafkaVars>>
OnlyStop        == UNCHANGED <<regVars, hubVars, clientVars, kafkaVars>>
OnlyKafka       == UNCHANGED <<regVars, hubVars, clientVars, stopVars>>
OnlyHub         == UNCHANGED <<clientVars, stopVars, kafkaVars>>
-----------------------------------------------------------------------------
(* What the steps test and compute.                                        *)

\* The listener still accepts: http.Server.Shutdown has not returned.
Listening == stop \in {"running", "print"}
\* KCtx is cancelled.
KCancelled == ~Listening
CancelledEarly == stop \in {"push", "wait", "asleep", "woken", "drained", "cancelled", "returned"}
\* ws.ctx is cancelled.
Cancelled == stop \in {"cancelled", "returned"}
\* Stop holds the read lock while it sends to delConnChan.
StopReads == stop = "push"
\* main has not returned, nor a panic or a fatal runtime error ended the process.
Alive == stop # "crashed" /\ (stop = "returned" => adder.pc = "new")

\* A goroutine of the process is at this point of its code.
At(goroutine, pc) == Alive /\ goroutine.pc = pc
ReaderAt(c, pc) == Alive /\ reader[c] = pc
WriterAt(c, pc) == Alive /\ writer[c] = pc

OfferUnbounded(ch, x, cap) == Append(ch, x)
\* select { case ch <- x: default: }
Offer(ch, x, cap) == IF Len(ch) < cap THEN Append(ch, x) ELSE ch

RegisteredUnchecked(c) == TRUE
Registered(c) == c \in wsClients

\* Where the three hub goroutines are, and what they hold.
Carrier(pc, c) == [pc |-> pc, conn |-> c]
Casting(pc, m, S) == [pc |-> pc, msg |-> m, todo |-> S]
Idle == Carrier("recv", None)
CastIdle == Casting("recv", None, {})

\* log.Debug formats wsClients without the mutex, before and after Stop's work;
\* the Go runtime may end a process that writes the map meanwhile.
MapRace == Debug /\ stop \in {"print", "drained"}
-----------------------------------------------------------------------------
Init ==
    /\ connChan = <<>> /\ delConnChan = <<>> /\ broadcast = <<>> /\ kChan = <<>>
    /\ send = [c \in Clients |-> <<>>]
    /\ wsClients = {} /\ mutex = "free" /\ clientsWg = 0 /\ gauge = 0
    /\ adder = Carrier("new", None) /\ deleter = Carrier("new", None)
    /\ caster = Casting("new", None, {})
    /\ conn = [c \in Clients |-> "none"]
    /\ reader = [c \in Clients |-> "none"] /\ writer = [c \in Clients |-> "none"]
    /\ held = [c \in Clients |-> None]
    /\ missed = {}
    /\ stop = "running" /\ toStop = {}
    /\ worker = "off" /\ receiver = "off"

\* Start launches the goroutines.  Stop may already be running.
Start ==
    /\ At(adder, "new")
    /\ adder' = Idle /\ deleter' = Idle /\ caster' = CastIdle
    /\ IF UseKafka THEN worker' = "run" /\ receiver' = "check"
                   ELSE UNCHANGED kafkaVars
    /\ UNCHANGED <<chanVars, regVars, clientVars, stopVars>>
-----------------------------------------------------------------------------
(* AddClientConn                                                           *)

AddRecvTwice ==
    /\ At(adder, "recv") /\ connChan # <<>>
    /\ adder' = Carrier("lock", Head(connChan))
    /\ UNCHANGED <<chanVars, regVars, deleter, caster>> /\ OnlyHub

AddRecv ==
    /\ At(adder, "recv") /\ connChan # <<>>
    /\ adder' = Carrier("lock", Head(connChan))
    /\ connChan' = Tail(connChan)
    /\ OnlyConnChan /\ UNCHANGED <<regVars, deleter, caster>> /\ OnlyHub

AddLockWaits ==
    /\ At(adder, "lock") /\ mutex = "free" /\ StopReads
    /\ mutex' = "add"
    /\ UNCHANGED <<chanVars, wsClients, clientsWg, gauge, hubVars>> /\ OnlyHub

AddUpdate ==
    /\ At(adder, "lock") /\ mutex \in {"free", "add"} /\ ~StopReads
    /\ wsClients' = wsClients \cup {adder.conn}
    /\ clientsWg' = IF Registered(adder.conn) THEN clientsWg ELSE clientsWg + 1
    /\ mutex' = "free"
    /\ adder' = Carrier("inc", None)
    /\ stop' = stop \/ (MapRace /\ stop' = "crashed")
    /\ UNCHANGED <<chanVars, gauge, deleter, caster, clientVars, toStop, kafkaVars>>

\* The gauge is incremented after Unlock, whether or not the client was new.
AddInc ==
    /\ At(adder, "inc")
    /\ gauge' = gauge + 1
    /\ adder' = Idle
    /\ UNCHANGED <<chanVars, wsClients, mutex, clientsWg, deleter, caster>> /\ OnlyHub

AddExit ==
    /\ At(adder, "recv") /\ Cancelled
    /\ adder' = Carrier("exit", None)
    /\ UNCHANGED <<chanVars, regVars, deleter, caster>> /\ OnlyHub

AddClientConn == AddRecv \/ AddLockWaits \/ AddUpdate \/ AddInc \/ AddExit
-----------------------------------------------------------------------------
(* DelClientConn                                                           *)

DelRecv ==
    /\ At(deleter, "recv") /\ delConnChan # <<>>
    /\ deleter' = Carrier("lock", Head(delConnChan))
    /\ delConnChan' = Tail(delConnChan)
    /\ OnlyDelConnChan /\ UNCHANGED <<regVars, adder, caster>> /\ OnlyHub

DelTryLock ==
    /\ At(deleter, "lock") /\ mutex = "free" /\ StopReads
    /\ deleter' = Idle
    /\ UNCHANGED <<chanVars, regVars, adder, caster>> /\ OnlyHub

DelLockWaits ==
    /\ At(deleter, "lock") /\ mutex = "free" /\ StopReads
    /\ mutex' = "del"
    /\ UNCHANGED <<chanVars, wsClients, clientsWg, gauge, hubVars>> /\ OnlyHub

GaugeDownAlways(c) == gauge - 1
GaugeDown(c) == IF Registered(c) THEN gauge - 1 ELSE gauge

\* A request for a client that is not in the map does nothing.  SClient.Close
\* cancels the client's context and closes its connection.  The last Done
\* releases a Stop that sleeps in clientsWg.Wait.
DelUpdate ==
    LET c == deleter.conn IN
    /\ At(deleter, "lock") /\ mutex \in {"free", "del"} /\ ~StopReads
    /\ IF Registered(c)
         THEN /\ wsClients' = wsClients \ {c}
              /\ conn' = [conn EXCEPT ![c] = "closed"]
              /\ clientsWg' = clientsWg - 1
              /\ \/ stop' = IF stop = "asleep" /\ clientsWg = 1 THEN "woken" ELSE stop
                 \/ MapRace /\ stop' = "crashed"
         ELSE UNCHANGED <<wsClients, conn, clientsWg, stop>>
    /\ gauge' = GaugeDown(c)
    /\ mutex' = "free"
    /\ deleter' = Idle
    /\ UNCHANGED <<chanVars, adder, caster, reader, held, writer, missed, toStop, kafkaVars>>

DelExit ==
    /\ At(deleter, "recv") /\ Cancelled
    /\ deleter' = Carrier("exit", None)
    /\ UNCHANGED <<chanVars, regVars, adder, caster>> /\ OnlyHub

DelClientConn == DelRecv \/ DelLockWaits \/ DelUpdate \/ DelExit
-----------------------------------------------------------------------------
(* ReadFromBroadCastWriteToClients                                         *)

CastRecv ==
    /\ At(caster, "recv") /\ broadcast # <<>>
    /\ caster' = Casting("lock", Head(broadcast), {})
    /\ broadcast' = Tail(broadcast)
    /\ OnlyBroadcast /\ UNCHANGED <<regVars, adder, deleter>> /\ OnlyHub

\* RLock is kept out by a Lock that waits, even for Stop's read lock.  The copy
\* of the map is used after RUnlock.
CastCopy ==
    /\ At(caster, "lock") /\ mutex = "free"
    /\ caster' = IF wsClients = {} THEN CastIdle
                                   ELSE Casting("fan", caster.msg, wsClients)
    /\ UNCHANGED <<chanVars, regVars, adder, deleter>> /\ OnlyHub

HasRoomSpare(c) == Len(send[c]) < SendCap - 1
HasRoom(c) == Len(send[c]) < SendCap

\* A client whose Send is full does not get the message; its removal is requested.
OverflowLost(c) == UNCHANGED <<delConnChan, missed>>
Overflow(c) ==
    /\ delConnChan' = Offer(delConnChan, c, DelCap)
    /\ missed' = IF Len(delConnChan) < DelCap THEN missed \cup {c} ELSE missed

CastSend(c) ==
    /\ At(caster, "fan") /\ c \in caster.todo
    /\ caster' = IF caster.todo = {c} THEN CastIdle ELSE [caster EXCEPT !.todo = @ \ {c}]
    /\ \/ /\ HasRoom(c)
          /\ send' = [send EXCEPT ![c] = Append(@, caster.msg)]
          /\ UNCHANGED <<delConnChan, missed>>
       \/ /\ ~HasRoom(c)
          /\ Overflow(c)
          /\ UNCHANGED send
    /\ UNCHANGED <<connChan, broadcast, kChan, regVars, adder, deleter, conn, reader, held,
                   writer, stopVars, kafkaVars>>

CastSendBlocking(c) == HasRoom(c) /\ CastSend(c)

CastExit ==
    /\ At(caster, "recv") /\ Cancelled
    /\ caster' = Casting("exit", None, {})
    /\ UNCHANGED <<chanVars, regVars, adder, deleter>> /\ OnlyHub

FanOutBlocking == \E c \in Clients : CastSendBlocking(c)
FanOut == \E c \in Clients : CastSend(c)

ReadFromBroadCastWriteToClients == CastRecv \/ CastCopy \/ FanOut \/ CastExit
-----------------------------------------------------------------------------
(* CreateWsConnection                                                      *)

Upgrade(c) ==
    /\ conn[c] = "none" /\ Listening /\ adder.pc # "new"
    /\ conn' = [conn EXCEPT ![c] = "open"]
    /\ UNCHANGED <<chanVars, regVars, hubVars, reader, held, writer, missed, stopVars, kafkaVars>>

\* The blocking send to connChan, then the two go statements.  Shutdown does not
\* wait for the handler of a hijacked connection.
Connect(c) ==
    /\ conn[c] = "open" /\ ReaderAt(c, "none") /\ Len(connChan) < ConnCap
    /\ connChan' = Append(connChan, c)
    /\ reader' = [reader EXCEPT ![c] = "read"]
    /\ writer' = [writer EXCEPT ![c] = "select"]
    /\ OnlyConnChan
    /\ UNCHANGED <<regVars, hubVars, conn, held, missed, stopVars, kafkaVars>>

CreateWsConnection(c) == Upgrade(c) \/ Connect(c)
-----------------------------------------------------------------------------
(* ReadFromClient                                                          *)

\* A frame that was buffered before Close may still be read.
ReadMsg(c, m) ==
    /\ ReaderAt(c, "read")
    /\ reader' = [reader EXCEPT ![c] = "publish"]
    /\ held' = [held EXCEPT ![c] = m]
    /\ UNCHANGED chanVars /\ OnlyReader

\* ReadJSON fails: the peer left, the connection was closed, the read deadline
\* passed, or what was read is too long or is no JSON message.
ReadFail(c) ==
    /\ ReaderAt(c, "read")
    /\ reader' = [reader EXCEPT ![c] = "exit"]
    /\ UNCHANGED <<chanVars, held>> /\ OnlyReader

Publish(c) ==
    /\ ReaderAt(c, "publish") /\ Len(broadcast) < BcastCap
    /\ broadcast' = Append(broadcast, held[c])
    /\ reader' = [reader EXCEPT ![c] = IF UseKafka THEN "forward" ELSE "read"]
    /\ held' = [held EXCEPT ![c] = IF UseKafka THEN @ ELSE None]
    /\ OnlyBroadcast /\ OnlyReader

PublishAbort(c) ==
    /\ ReaderAt(c, "publish") /\ conn[c] = "closed"
    /\ reader' = [reader EXCEPT ![c] = "exit"]
    /\ held' = [held EXCEPT ![c] = None]
    /\ UNCHANGED chanVars /\ OnlyReader

OfferKChanBlocking(c) == Len(kChan) < KCap /\ kChan' = Append(kChan, held[c])

\* A full KChan drops the message, and a cancelled KCtx may.
OfferKChan(c) ==
    \/ kChan' = Offer(kChan, held[c], KCap)
    \/ KCancelled /\ UNCHANGED kChan

Forward(c) ==
    /\ ReaderAt(c, "forward")
    /\ OfferKChan(c)
    /\ reader' = [reader EXCEPT ![c] = "read"]
    /\ held' = [held EXCEPT ![c] = None]
    /\ OnlyKChan /\ OnlyReader

\* The deferred request for removal; it is lost when delConnChan is full.
ReadExit(c) ==
    /\ ReaderAt(c, "exit")
    /\ reader' = [reader EXCEPT ![c] = "done"]
    /\ delConnChan' = Offer(delConnChan, c, DelCap)
    /\ UNCHANGED held /\ OnlyDelConnChan /\ OnlyReader

ReadFromClient(c) ==
    \/ \E m \in Msgs : ReadMsg(c, m)
    \/ ReadFail(c) \/ Publish(c) \/ PublishAbort(c) \/ Forward(c) \/ ReadExit(c)
-----------------------------------------------------------------------------
(* WriteToClient                                                           *)

\* WriteJSON of the next message succeeds or fails; it fails once the
\* connection is closed.
WriteMsg(c) ==
    /\ WriterAt(c, "select") /\ send[c] # <<>>
    /\ send' = [send EXCEPT ![c] = Tail(@)]
    /\ \/ writer' = [writer EXCEPT ![c] = "exit"]
       \/ conn[c] # "closed" /\ UNCHANGED writer
    /\ OnlySend /\ OnlyWriter

\* A ping fails (one that succeeds changes nothing), or c.Ctx is done.
WriteStop(c) ==
    /\ WriterAt(c, "select")
    /\ writer' = [writer EXCEPT ![c] = "exit"]
    /\ UNCHANGED chanVars /\ OnlyWriter

WriteExit(c) ==
    /\ WriterAt(c, "exit")
    /\ writer' = [writer EXCEPT ![c] = "done"]
    /\ delConnChan' = Offer(delConnChan, c, DelCap)
    /\ OnlyDelConnChan /\ OnlyWriter

WriteToClient(c) == WriteMsg(c) \/ WriteStop(c) \/ WriteExit(c)
-----------------------------------------------------------------------------
(* Stop                                                                    *)

\* A step of Stop that only moves on.
StopMove(from, to) ==
    /\ stop = from
    /\ stop' = to
    /\ UNCHANGED <<chanVars, toStop>> /\ OnlyStop

\* SIGTERM, SIGINT or an error of Start cancels the errgroup's context.
StopBegin == CanStop /\ StopMove("running", "print")

\* srv.Shutdown returns and KCancel is called.
StopShutdown == StopMove("print", "rlock")

StopRLock ==
    /\ stop = "rlock" /\ mutex = "free"
    /\ toStop' = wsClients
    /\ stop' = IF wsClients = {} THEN "wait" ELSE "push"
    /\ UNCHANGED chanVars /\ OnlyStop

\* The send blocks while delConnChan is full, with the read lock held.
StopPush(c) ==
    /\ StopReads /\ c \in toStop /\ Len(delConnChan) < DelCap
    /\ delConnChan' = Append(delConnChan, c)
    /\ toStop' = toStop \ {c}
    /\ stop' = IF toStop = {c} THEN "wait" ELSE "push"
    /\ OnlyDelConnChan /\ OnlyStop

StopWaitSkipped == StopMove("wait", "drained")
StopWait == StopMove("wait", IF clientsWg = 0 THEN "drained" ELSE "asleep")

\* WaitGroup.Wait panics when the counter has moved again before it returns.
StopResume == StopMove("woken", IF clientsWg = 0 THEN "drained" ELSE "crashed")

StopCancel == StopMove("drained", "cancelled")

\* wg.Wait returns when no hub goroutine runs; then Flush and the two Closes.
StopReturn ==
    /\ {adder.pc, deleter.pc, caster.pc} \subseteq {"new", "exit"}
    /\ StopMove("cancelled", "returned")

Stop ==
    \/ StopBegin \/ StopShutdown \/ StopRLock \/ StopWait \/ StopResume
    \/ StopCancel \/ StopReturn
    \/ \E c \in Clients : StopPush(c)
-----------------------------------------------------------------------------
(* The Kafka goroutines, as far as this process sees them                  *)

WorkerSend ==
    /\ kChan # <<>>
    /\ kChan' = Tail(kChan)
    /\ UNCHANGED kafkaVars /\ OnlyKChan

WorkerExit ==
    /\ KCancelled
    /\ worker' = "exit"
    /\ UNCHANGED <<chanVars, receiver>>

\* Its loop is one select.
KafkaWorker ==
    /\ Alive /\ worker = "run"
    /\ WorkerSend \/ WorkerExit
    /\ OnlyKafka

ReceiverCheck ==
    /\ Alive /\ receiver = "check"
    /\ receiver' = IF KCancelled THEN "exit" ELSE "poll"
    /\ UNCHANGED <<chanVars, worker>> /\ OnlyKafka

\* ReadMessage times out or fails, or its message cannot be decoded or is our own.
ReceiverSkip ==
    /\ Alive /\ receiver = "poll"
    /\ receiver' = "check"
    /\ UNCHANGED <<chanVars, worker>> /\ OnlyKafka

\* A full broadcast channel drops the message.
ReceiverPush(m) ==
    /\ Alive /\ receiver = "poll"
    /\ \/ broadcast' = Offer(broadcast, m, BcastCap) /\ receiver' = "check"
       \/ KCancelled /\ receiver' = "exit" /\ UNCHANGED broadcast
    /\ UNCHANGED worker /\ OnlyBroadcast /\ OnlyKafka

ReceiveKafka == ReceiverCheck \/ ReceiverSkip \/ \E m \in Msgs : ReceiverPush(m)
-----------------------------------------------------------------------------
ClientStep(c) == CreateWsConnection(c) \/ ReadFromClient(c) \/ WriteToClient(c)

Next ==
    \/ Start
    \/ AddClientConn \/ DelClientConn \/ ReadFromBroadCastWriteToClients
    \/ \E c \in Clients : ClientStep(c)
    \/ Stop
    \/ KafkaWorker \/ ReceiveKafka

Spec == Init /\ [][Next]_vars
=============================================================================
