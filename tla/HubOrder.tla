------------------------------ MODULE HubOrder ------------------------------
(***************************************************************************)
(* Hub with the history of what it took and what it wrote, to compare it   *)
(* with Multicast: the broadcaster works on copies of the registry, while  *)
(* clients are added, evicted and removed.                                 *)
(***************************************************************************)
EXTENDS HubProps

CONSTANT MaxLog  \* bound: the messages that enter the channel broadcast

ASSUME MaxLogAssumption == MaxLog \in Nat

VARIABLES
    log,   \* the messages ReadFromBroadCastWriteToClients took from broadcast
    shown  \* shown[c]: the messages WriteToClient took from Send and wrote; of the
           \* last one the write may have failed

orderVars == <<vars, log, shown>>

OrderInit == Init /\ log = <<>> /\ shown = [c \in Clients |-> <<>>]

Take ==
    /\ CastRecv
    /\ log' = Append(log, Head(broadcast))
    /\ UNCHANGED shown

Write(c) ==
    /\ WriteMsg(c)
    /\ shown' = [shown EXCEPT ![c] = Append(@, Head(send[c]))]
    /\ UNCHANGED log

\* The steps of a client that write nothing.
ClientRest(c) ==
    CreateWsConnection(c) \/ ReadFromClient(c) \/ WriteStop(c) \/ WriteExit(c)

Rest ==
    \/ Start
    \/ AddClientConn \/ DelClientConn \/ CastCopy \/ FanOut \/ CastExit
    \/ \E c \in Clients : ClientRest(c)
    \/ Stop
    \/ KafkaWorker \/ ReceiveKafka

Bound == Len(log) + Len(broadcast) <= MaxLog

OrderNext ==
    /\ \/ Take
       \/ \E c \in Clients : Write(c)
       \/ Rest /\ UNCHANGED <<log, shown>>
    /\ Bound'

OrderSpec == OrderInit /\ [][OrderNext]_orderVars
-----------------------------------------------------------------------------
\* The message a client is offered next: the last one, while the broadcaster has
\* still to copy the registry or has c on its copy, or the one after it.
Due(c) ==
    IF c \in caster.todo \/ (c \in wsClients /\ caster.pc = "lock") THEN Len(log)
    ELSE IF c \in wsClients THEN Len(log) + 1
    ELSE IF conn[c] = "closed" THEN -1 ELSE 0

Group == INSTANCE Multicast
    WITH Room <- SendCap, due <- [c \in Clients |-> Due(c)], queue <- send

\* The hub implements the multicast: although the broadcaster works on copies of the
\* registry made without regard to what is added and removed meanwhile, a registered
\* client gets every message in the order they were taken, and misses one only when
\* its Send is full; nobody is registered twice or after a removal.
MulticastImplemented == Group!Spec
=============================================================================
