------------------------------ MODULE HubProps ------------------------------
(***************************************************************************)
(* What a chat server process promises: invariants of the registry of      *)
(* clients, the fairness of its goroutines, and what must eventually       *)
(* happen.                                                                 *)
(***************************************************************************)
EXTENDS Hub

CarrierOK(carrier, pcs) ==
    /\ carrier \in [pc : pcs, conn : Clients \cup {None}]
    /\ carrier.pc = "lock" <=> carrier.conn # None

CasterOK ==
    /\ caster \in [pc : {"new", "recv", "lock", "fan", "exit"},
                   msg : Msgs \cup {None}, todo : SUBSET Clients]
    /\ caster.pc \in {"lock", "fan"} <=> caster.msg # None

\* What a Go channel of elements of S with the given capacity may hold.
Chan(S, cap) == {ch \in Seq(S) : Len(ch) <= cap}

ChannelsOK ==
    /\ connChan \in Chan(Clients, ConnCap)
    /\ delConnChan \in Chan(Clients, DelCap)
    /\ broadcast \in Chan(Msgs, BcastCap)
    /\ kChan \in Chan(Msgs, KCap)
    /\ send \in [Clients -> Chan(Msgs, SendCap)]

ClientsOK ==
    /\ conn \in [Clients -> {"none", "open", "closed"}]
    /\ reader \in [Clients -> {"none", "read", "publish", "forward", "exit", "done"}]
    /\ writer \in [Clients -> {"none", "select", "exit", "done"}]
    /\ held \in [Clients -> Msgs \cup {None}]
    /\ \A c \in Clients : reader[c] \in {"publish", "forward"} <=> held[c] # None
    /\ missed \subseteq Clients

\* Every variable has its type, every channel stays within its capacity, and a
\* goroutine carries a client or a message exactly where the code holds one; the
\* hub goroutines start together.
TypeOK ==
    /\ ChannelsOK
    /\ wsClients \subseteq Clients
    /\ mutex \in {"free", "add", "del"}
    /\ clientsWg \in Int /\ gauge \in Int
    /\ CarrierOK(adder, {"new", "recv", "lock", "inc", "exit"})
    /\ CarrierOK(deleter, {"new", "recv", "lock", "exit"})
    /\ CasterOK
    /\ adder.pc = "new" <=> deleter.pc = "new"
    /\ adder.pc = "new" <=> caster.pc = "new"
    /\ ClientsOK
    /\ stop \in {"running", "print", "rlock", "push", "wait", "asleep", "woken",
                 "drained", "cancelled", "returned", "crashed"}
    /\ toStop \subseteq Clients
    /\ worker \in {"off", "run", "exit"}
    /\ receiver \in {"off", "check", "poll", "exit"}
-----------------------------------------------------------------------------
(* Safety                                                                  *)

InChan(ch, c) == \E i \in DOMAIN ch : ch[i] = c

\* A request to remove c is queued, or is being served.
Pending(c) == deleter.conn = c \/ InChan(delConnChan, c)

\* The WaitGroup that Stop waits for counts exactly the registered clients,
\* whichever of reader, writer, broadcaster and Stop asked, how often, for a
\* removal (hub.go, Add and Done): it never goes negative, which would panic.
WgBalance == clientsWg = Cardinality(wsClients)

\* The gauge of active connections is the number of registered clients, except
\* between AddClientConn's Unlock and its Inc, when it is one behind (and may
\* even be -1).  Inc is outside the test for a new client and Dec inside it, so
\* this needs every client to come through connChan once.
GaugeBalance == gauge = Cardinality(wsClients) - (IF adder.pc = "inc" THEN 1 ELSE 0)

\* A registered client that missed a message because its Send was full, and
\* whose removal was queued for that, is still about to be removed: the request
\* is not lost between the queue and the map, even while Stop holds the mutex.
LaggardPending == \A c \in missed \cap wsClients : Pending(c)

NoRepeat(ch) == \A i, j \in DOMAIN ch : ch[i] = ch[j] => i = j

\* c is on its way into the map.
Arriving(c) == InChan(connChan, c) \/ adder.conn = c

\* Every client comes through connChan at most once: one that is on its way into
\* the map is open, in one place only, and was never in the map, so the
\* broadcaster and the history of overflows do not know it.
OncePerClient ==
    /\ NoRepeat(connChan)
    /\ ~InChan(connChan, adder.conn)
    /\ \A c \in Clients : Arriving(c) =>
          conn[c] = "open" /\ c \notin wsClients \cup missed \cup caster.todo
    /\ \A c \in wsClients : conn[c] = "open"
    /\ \A c \in Clients : reader[c] = "none" =>
          ~Arriving(c) /\ c \notin wsClients \cup missed \cup caster.todo

\* The conjunction that every step preserves.
IInv == TypeOK /\ WgBalance /\ GaugeBalance /\ OncePerClient /\ LaggardPending

\* Both goroutines of a registered client are gone.
Dead(c) == c \in wsClients /\ reader[c] = "done" /\ writer[c] = "done"

\* "client dead" (client.go): a registered client both of whose goroutines have
\* ended has a request for its removal under way.  The code may lose it: the
\* requests may come before the client is registered, or find delConnChan full.
DeadClientPending == \A c \in Clients : Dead(c) => Pending(c)

\* "Clients list after close" (server.go): once Stop has waited for the clients,
\* none is registered any more.  A client that connChan still held when Stop
\* copied the map is registered later, and nobody removes it.
ClosedListEmpty == stop \in {"drained", "cancelled", "returned"} => wsClients = {}

\* A send to delConnChan does not block (the comment in client.go at the
\* writer's) while DelClientConn, its only receiver, waits for the sender.  Stop
\* sends with the read lock held and without a default case.
NoLockCycle == ~(StopReads /\ Len(delConnChan) = DelCap /\ deleter.pc = "lock")
-----------------------------------------------------------------------------
(* Fairness.  The Go scheduler runs every goroutine that can go on; a Mutex *)
(* in starvation mode and the first-in first-out queue of senders blocked   *)
(* on a channel make that strong for a Lock and for a blocking send.        *)

HubFairness ==
    /\ WF_vars(Start)
    /\ SF_vars(AddClientConn)
    /\ SF_vars(DelClientConn)
    /\ SF_vars(ReadFromBroadCastWriteToClients)

\* After a write failed or the connection closed no pong comes any more, so the
\* read deadline (PongWait) ends the reader.  A live peer may stay silent.
ReaderFairness(c) ==
    /\ SF_vars(Publish(c))
    /\ WF_vars(PublishAbort(c))
    /\ WF_vars(Forward(c))
    /\ WF_vars(ReadExit(c))
    /\ SF_vars((conn[c] = "closed" \/ writer[c] \in {"exit", "done"}) /\ ReadFail(c))

StopFairness ==
    /\ WF_vars(StopShutdown) /\ SF_vars(StopRLock)
    /\ \A c \in Clients : SF_vars(StopPush(c))
    /\ WF_vars(StopWait) /\ WF_vars(StopResume)
    /\ WF_vars(StopCancel) /\ WF_vars(StopReturn)

\* Nothing is assumed of the peers, of the writers they may block and of Kafka.
ServeSpec == Spec /\ HubFairness /\ \A c \in Clients : ReaderFairness(c)

CollectSpec == Spec /\ SF_vars(DelClientConn)

StopSpec == Spec /\ HubFairness /\ StopFairness
-----------------------------------------------------------------------------
(* Liveness                                                                *)

\* A reader that has a message to pass on gets back to its connection, however
\* slow the other clients' peers and Kafka are: the broadcaster never waits for
\* a client, nor the reader for Kafka (the default cases of hub.go, client.go).
ReaderReturns ==
    \A c \in Clients :
        reader[c] \in {"publish", "forward"} ~> reader[c] \notin {"publish", "forward"}

\* A dead client that nobody asked to remove is found by traffic: as long as
\* messages keep being offered to it, its Send overflows and it is removed,
\* although the request that follows an overflow may itself be dropped.
DeadClientCollected ==
    \A c \in Clients :
        []<><<CastSend(c)>>_vars => (Dead(c) ~> c \notin wsClients)

\* No connection is on its way into the map.
Quiet ==
    /\ connChan = <<>> /\ adder.pc = "recv"
    /\ \A c \in Clients : ~(conn[c] = "open" /\ reader[c] = "none")

\* Stop has not begun, or clientsWg.Wait has not returned.
BeforeDrain == stop \in {"running", "print", "rlock", "push", "wait", "asleep"}

\* When Stop copied the map with no connection on its way, and delConnChan has
\* room for all the requests of all the clients, Stop removes every client and
\* returns: no deadlock, no panic of WaitGroup or map, nobody left out.
QuietStopCompletes ==
    (StopReads /\ Quiet) ~> (stop = "returned" /\ wsClients = {})

\* When no connection is on its way before Stop's wait for the clients is over, then
\* whatever else happens neither the WaitGroup nor the map ends the process, and
\* every client is removed before the goroutines are told to end.  Unlike
\* QuietStopCompletes this needs no room in delConnChan.
QuietStopClean ==
    [](stop \in {"rlock", "push", "wait", "asleep"} /\ Quiet =>
         [](/\ stop # "crashed"
            /\ stop \in {"drained", "cancelled", "returned"} => wsClients = {}))

\* Even with connections on their way and no room in delConnChan: a client that was
\* registered at any moment before Stop's wait for the clients was over is removed
\* before the goroutines are told to end, and does not come back.  Only a client that
\* AddClientConn registers after the wait is left behind.
WaitedForLeave ==
    \A c \in Clients :
        [](BeforeDrain /\ c \in wsClients =>
             [](stop \in {"drained", "cancelled", "returned"} => c \notin wsClients))
=============================================================================
