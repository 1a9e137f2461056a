--------------------------- MODULE HubOrderProofs ---------------------------
(***************************************************************************)
(* Proofs that the hub implements the multicast, for every set of clients, *)
(* every set of messages, every capacity and every configuration.          *)
(***************************************************************************)
EXTENDS HubOrder, HubProofs

USE DEF chanVars, regVars, hubVars, clientVars, stopVars, kafkaVars, At, ReaderAt, WriterAt

\* The histories are sequences of messages.
HistoryOK ==
    /\ log \in Seq(Msgs)
    /\ shown \in [Clients -> Seq(Msgs)]

\* What the broadcaster holds is the last message it took.
LastTaken == caster.pc \in {"lock", "fan"} => log # <<>> /\ caster.msg = log[Len(log)]

\* Who is on the broadcaster's copy was on the map: it is registered or was removed
\* since, but it is not new.
CopyKnown ==
    /\ caster.todo # {} => caster.pc = "fan"
    /\ \A c \in caster.todo : c \in wsClients \/ conn[c] = "closed"

\* The strengthening of IInv that the refinement needs.
OrderInv == HistoryOK /\ LastTaken /\ CopyKnown

\* A step in which nobody joins or leaves and no message moves: the broadcaster may
\* be launched or exit.
Steady ==
    /\ UNCHANGED <<wsClients, send>>
    /\ \/ UNCHANGED caster
       \/ /\ caster.pc \in {"new", "recv"} /\ caster'.pc \in {"recv", "exit"}
          /\ caster'.todo = {}
    /\ \A c \in Clients : conn'[c] = "closed" <=> conn[c] = "closed"
-----------------------------------------------------------------------------
(* The steps of the hub                                                    *)

\* The histories add no behaviour: every step is one of Hub.
LEMMA StepOfHub == [OrderNext]_orderVars => [Next]_vars
  BY DEF OrderNext, Take, Write, Rest, ClientRest, orderVars, Next, ClientStep, WriteToClient,
         ReadFromBroadCastWriteToClients

\* Only four steps other than a receive and a write touch what the multicast shows.
LEMMA RestCases ==
    ASSUME TypeOK, Rest
    PROVE  AddUpdate \/ DelUpdate \/ CastCopy \/ FanOut \/ Steady
<1>1. CASE Start
  BY <1>1 DEF Start, Steady, CastIdle, Casting, TypeOK
<1>2. CASE AddClientConn
  BY <1>2 DEF AddClientConn, AddRecv, AddLockWaits, AddInc, AddExit, OnlyConnChan, OnlyHub, Steady
<1>3. CASE DelClientConn
  BY <1>3 DEF DelClientConn, DelRecv, DelLockWaits, DelExit, OnlyDelConnChan, OnlyHub, Steady
<1>4. CASE CastExit
  BY <1>4 DEF CastExit, Casting, OnlyHub, Steady
<1>5. ASSUME NEW c \in Clients, ClientRest(c) PROVE Steady
  <2>1. CASE Upgrade(c)
    BY <2>1 DEF Upgrade, Steady, TypeOK, ClientsOK
  <2>2. CASE Connect(c)
    BY <2>2 DEF Connect, OnlyConnChan, Steady
  <2>3. CASE ReadFromClient(c)
    BY <2>3 DEF ReadFromClient, ReadMsg, ReadFail, Publish, PublishAbort, Forward, ReadExit,
                OnlyBroadcast, OnlyKChan, OnlyDelConnChan, OnlyReader, Steady
  <2>4. CASE WriteStop(c) \/ WriteExit(c)
    BY <2>4 DEF WriteStop, WriteExit, OnlyDelConnChan, OnlyWriter, Steady
  <2> QED
    BY <1>5, <2>1, <2>2, <2>3, <2>4 DEF ClientRest, CreateWsConnection
<1>6. CASE Stop
  BY <1>6 DEF Stop, StopBegin, StopShutdown, StopRLock, StopPush, StopWait, StopResume, StopCancel,
              StopReturn, StopMove, OnlyDelConnChan, OnlyStop, Steady
<1>7. CASE KafkaWorker \/ ReceiveKafka
  BY <1>7 DEF KafkaWorker, WorkerSend, WorkerExit, ReceiveKafka, ReceiverCheck, ReceiverSkip,
              ReceiverPush, OnlyBroadcast, OnlyKChan, OnlyKafka, Steady
<1> QED
  BY <1>1, <1>2, <1>3, <1>4, <1>5, <1>6, <1>7 DEF Rest
-----------------------------------------------------------------------------
(* The invariant                                                           *)

\* At first there is no history, and nobody is on the copy.
LEMMA OrderInvInit == OrderInit => OrderInv
  BY EmptySeq DEF OrderInit, Init, Casting, OrderInv, HistoryOK, LastTaken, CopyKnown

\* Every step extends the histories by messages, if at all.
LEMMA HistoryStep ==
    ASSUME TypeOK, HistoryOK, [OrderNext]_orderVars
    PROVE  HistoryOK'
<1>1. CASE Take
  <2>1. Head(broadcast) \in Msgs
    BY <1>1, ChanTail, Capacities DEF Take, CastRecv, TypeOK, ChannelsOK
  <2> QED
    BY <1>1, <2>1, AppendProperties DEF Take, HistoryOK
<1>2. ASSUME NEW c \in Clients, Write(c) PROVE HistoryOK'
  <2>1. Head(send[c]) \in Msgs
    BY <1>2, ChanTail, Capacities DEF Write, WriteMsg, TypeOK, ChannelsOK
  <2>2. Append(shown[c], Head(send[c])) \in Seq(Msgs)
    BY <2>1, AppendProperties DEF HistoryOK
  <2> QED
    BY <1>2, <2>2 DEF Write, HistoryOK
<1>3. CASE UNCHANGED <<log, shown>>
  BY <1>3 DEF HistoryOK
<1> QED
  BY <1>1, <1>2, <1>3 DEF OrderNext, orderVars

\* The broadcaster takes the next message only when it has done with the last one.
LEMMA LastTakenStep ==
    ASSUME TypeOK, HistoryOK, LastTaken, [OrderNext]_orderVars
    PROVE  LastTaken'
<1> USE DEF LastTaken
<1>1. CASE Take
  <2>1. caster'.msg = Head(broadcast) /\ log' = Append(log, Head(broadcast))
    BY <1>1 DEF Take, CastRecv, Casting
  <2>2. Head(broadcast) \in Msgs
    BY <1>1, ChanTail, Capacities DEF Take, CastRecv, TypeOK, ChannelsOK
  <2> QED
    BY <2>1, <2>2, AppendProperties DEF HistoryOK
<1>2. ASSUME NEW c \in Clients, Write(c) PROVE LastTaken'
  BY <1>2 DEF Write, WriteMsg, OnlyWriter
<1>3. CASE Rest /\ UNCHANGED <<log, shown>>
  <2>1. CASE AddUpdate \/ DelUpdate
    BY <1>3, <2>1 DEF AddUpdate, DelUpdate
  <2>2. CASE CastCopy
    BY <1>3, <2>2 DEF CastCopy, CastIdle, Casting
  <2>3. CASE FanOut
    BY <1>3, <2>3 DEF FanOut, CastSend, CastIdle, Casting, TypeOK, CasterOK
  <2>4. CASE Steady
    BY <1>3, <2>4 DEF Steady
  <2> QED
    BY <1>3, <2>1, <2>2, <2>3, <2>4, RestCases
<1>4. CASE UNCHANGED orderVars
  BY <1>4 DEF orderVars, vars
<1> QED
  BY <1>1, <1>2, <1>3, <1>4 DEF OrderNext

\* A client that is new is not on the copy, since it comes only once; one that is
\* taken off the map while it is on the copy was closed.
LEMMA CopyKnownStep ==
    ASSUME TypeOK, CopyKnown, [OrderNext]_orderVars
    PROVE  CopyKnown'
<1> USE DEF CopyKnown
<1>1. CASE Take
  BY <1>1 DEF Take, CastRecv, Casting, OnlyHub
<1>2. ASSUME NEW c \in Clients, Write(c) PROVE CopyKnown'
  BY <1>2 DEF Write, WriteMsg, OnlyWriter
<1>3. CASE Rest /\ UNCHANGED <<log, shown>>
  <2>1. CASE AddUpdate
    BY <2>1 DEF AddUpdate
  <2>2. CASE DelUpdate
    BY <2>2 DEF DelUpdate, TypeOK, ClientsOK, CasterOK
  <2>3. CASE CastCopy
    BY <2>3 DEF CastCopy, CastIdle, Casting, OnlyHub
  <2>4. CASE FanOut
    BY <2>4 DEF FanOut, CastSend, CastIdle, Casting, TypeOK, CasterOK
  <2>5. CASE Steady
    BY <2>5 DEF Steady, TypeOK, CasterOK
  <2> QED
    BY <1>3, <2>1, <2>2, <2>3, <2>4, <2>5, RestCases
<1>4. CASE UNCHANGED orderVars
  BY <1>4 DEF orderVars, vars
<1> QED
  BY <1>1, <1>2, <1>3, <1>4 DEF OrderNext

\* The histories with Hub's own invariant.
THEOREM OrderInvariant == OrderSpec => [](IInv /\ OrderInv)
<1>1. OrderInit => IInv /\ OrderInv
  BY InvInit, OrderInvInit DEF OrderInit
<1>2. IInv /\ OrderInv /\ [OrderNext]_orderVars => (IInv /\ OrderInv)'
  BY StepOfHub, InvStep, HistoryStep, LastTakenStep, CopyKnownStep DEF IInv, OrderInv
<1> QED
  BY <1>1, <1>2, PTL DEF OrderSpec
-----------------------------------------------------------------------------
(* The refinement                                                          *)

\* A client's place is known by its being on the copy, on the map, or closed.
LEMMA DueCases ==
    ASSUME TypeOK, OrderInv, NEW c \in Clients
    PROVE  /\ Due(c) \in Int
           /\ c \in caster.todo => Due(c) = Len(log) /\ Len(log) > 0
           /\ c \in wsClients /\ caster.pc = "lock" => Due(c) = Len(log) /\ Len(log) > 0
           /\ c \in wsClients /\ caster.pc # "lock" /\ c \notin caster.todo => Due(c) = Len(log) + 1
           /\ c \notin wsClients \cup caster.todo => Due(c) = IF conn[c] = "closed" THEN -1 ELSE 0
<1>1. log \in Seq(Msgs) /\ Len(log) \in Nat
  BY LenProperties DEF OrderInv, HistoryOK
<1>2. caster.pc \in {"lock", "fan"} => Len(log) > 0
  BY <1>1, EmptySeq, LenProperties DEF OrderInv, LastTaken
<1> QED
  BY <1>1, <1>2 DEF Due, OrderInv, CopyKnown

\* The hub starts as the multicast does: every client is new.
LEMMA GroupInit == OrderInit => Group!Init
  BY DEF OrderInit, Init, Casting, Due, Group!Init, Group!New

\* The broadcaster takes a message.
LEMMA TakePosts ==
    ASSUME TypeOK, OrderInv, Take
    PROVE  \E m \in Msgs : Group!Post(m)
<1> DEFINE m == Head(broadcast)
<1>1. m \in Msgs
  BY ChanTail, Capacities DEF Take, CastRecv, TypeOK, ChannelsOK
<1>2. caster.pc = "recv" /\ caster.todo = {}
  BY DEF Take, CastRecv, OrderInv, CopyKnown
<1>3. log' = Append(log, m) /\ Len(log') = Len(log) + 1 /\ Len(log) \in Nat
  BY <1>1, AppendProperties, LenProperties DEF Take, OrderInv, HistoryOK
<1>4. caster'.pc = "lock" /\ caster'.todo = {} /\ UNCHANGED <<wsClients, conn, send, shown>>
  BY DEF Take, CastRecv, Casting, OnlyBroadcast, OnlyHub
<1>5. ASSUME NEW c \in Clients PROVE Due(c)' = Due(c)
  BY <1>2, <1>3, <1>4 DEF Due
<1>6. ASSUME NEW c \in Clients PROVE Due(c) > 0 => Due(c) > Len(log)
  BY <1>2, <1>3 DEF Due
<1>7. Group!Post(m)
  BY <1>3, <1>4, <1>5, <1>6 DEF Group!Post, Group!Member
<1> QED
  BY <1>1, <1>7

\* The writer takes a message.
LEMMA WriteShows ==
    ASSUME TypeOK, NEW c \in Clients, Write(c)
    PROVE  Group!Show(c)
<1>1. /\ send[c] # <<>> /\ send' = [send EXCEPT ![c] = Tail(@)]
      /\ shown' = [shown EXCEPT ![c] = Append(@, Head(send[c]))]
      /\ UNCHANGED <<caster, wsClients, conn, log>>
  BY DEF Write, WriteMsg, OnlySend, OnlyWriter
<1>2. ASSUME NEW d \in Clients PROVE Due(d)' = Due(d)
  BY <1>1 DEF Due
<1> QED
  BY <1>1, <1>2 DEF Group!Show

\* AddClientConn registers a client that is new, whatever the broadcaster is at.
LEMMA AddJoins ==
    ASSUME IInv, OrderInv, AddUpdate, UNCHANGED <<log, shown>>
    PROVE  \E c \in Clients : Group!Join(c)
<1> DEFINE n == IF caster.pc = "lock" THEN Len(log) ELSE Len(log) + 1
<1>1. adder.conn \in Clients
  BY Capacities DEF AddUpdate, IInv, TypeOK, CarrierOK
<1>2. PICK c \in Clients : c = adder.conn
  BY <1>1
<1>3. conn[c] = "open" /\ c \notin wsClients \cup caster.todo
  BY <1>2 DEF IInv, OncePerClient, Arriving
<1>4. wsClients' = wsClients \cup {c} /\ UNCHANGED <<caster, conn, send>>
  BY <1>2 DEF AddUpdate
<1>5. Due(c) = 0
  BY <1>3 DEF Due
<1>6. Due(c)' = n
  BY <1>3, <1>4 DEF Due
<1>7. ASSUME NEW d \in Clients \ {c} PROVE Due(d)' = Due(d)
  BY <1>4 DEF Due
<1>8. n \in {Len(log), Len(log) + 1} \ {0}
  BY LenProperties, EmptySeq DEF OrderInv, HistoryOK, LastTaken
<1> HIDE DEF n
<1>9. [d \in Clients |-> Due(d)'] = [[d \in Clients |-> Due(d)] EXCEPT ![c] = n]
  BY <1>6, <1>7
<1> QED
  BY <1>4, <1>5, <1>8, <1>9 DEF Group!Join, Group!New

\* DelClientConn takes a client off the map; one that is on the copy is still served.
LEMMA DelLeaves ==
    ASSUME TypeOK, OrderInv, DelUpdate, UNCHANGED <<log, shown>>
    PROVE  UNCHANGED Group!vars \/ \E c \in Clients : Group!Leave(c)
<1>1. PICK c \in Clients : c = deleter.conn
  BY Capacities DEF DelUpdate, TypeOK, CarrierOK
<1>2. UNCHANGED <<caster, send>>
  BY DEF DelUpdate
<1>3. CASE c \notin wsClients
  <2>1. UNCHANGED <<wsClients, conn>>
    BY <1>1, <1>3 DEF DelUpdate, Registered
  <2>2. ASSUME NEW d \in Clients PROVE Due(d)' = Due(d)
    BY <1>2, <2>1 DEF Due
  <2> QED
    BY <1>2, <2>2 DEF Group!vars
<1>4. CASE c \in wsClients
  <2>1. wsClients' = wsClients \ {c} /\ conn' = [conn EXCEPT ![c] = "closed"]
    BY <1>1, <1>4 DEF DelUpdate, Registered
  <2>2. conn'[c] = "closed" /\ \A d \in Clients \ {c} : conn'[d] = conn[d]
    BY <1>1, <2>1 DEF TypeOK, ClientsOK
  <2>3. ASSUME NEW d \in Clients \ {c} PROVE Due(d)' = Due(d)
    BY <1>2, <2>1, <2>2 DEF Due
  <2>4. CASE c \in caster.todo
    <3>1. Due(c)' = Due(c)
      BY <1>2, <2>4 DEF Due
    <3> QED
      BY <1>2, <2>3, <3>1 DEF Group!vars
  <2>5. CASE c \notin caster.todo
    <3>1. Due(c)' = -1
      BY <1>2, <2>1, <2>2, <2>5 DEF Due
    <3>2. Due(c) > 0
      BY <1>1, <1>4, <2>5, DueCases, LenProperties DEF OrderInv, HistoryOK
    <3>3. [d \in Clients |-> Due(d)'] = [[d \in Clients |-> Due(d)] EXCEPT ![c] = -1]
      BY <2>3, <3>1
    <3> QED
      BY <1>2, <3>2, <3>3 DEF Group!Leave, Group!Member, Group!Left
  <2> QED
    BY <2>4, <2>5
<1> QED
  BY <1>3, <1>4

\* The copy is of the map as it is: who was due the last message still is.
LEMMA CopyKeeps ==
    ASSUME OrderInv, CastCopy, UNCHANGED <<log, shown>>
    PROVE  UNCHANGED Group!vars
<1>1. UNCHANGED <<wsClients, conn, send>> /\ caster.pc = "lock" /\ caster.todo = {}
  BY DEF CastCopy, OnlyHub, OrderInv, CopyKnown
<1>2. caster'.pc # "lock" /\ caster'.todo = wsClients
  BY DEF CastCopy, CastIdle, Casting
<1>3. ASSUME NEW c \in Clients PROVE Due(c)' = Due(c)
  BY <1>1, <1>2 DEF Due
<1> QED
  BY <1>1, <1>3 DEF Group!vars

\* The broadcaster offers the last message to a client on its copy, even to one that
\* was taken off the map since.
LEMMA SendServes ==
    ASSUME TypeOK, OrderInv, NEW c \in Clients, CastSend(c), UNCHANGED <<log, shown>>
    PROVE  Group!Serve(c)
<1> DEFINE n == IF c \in wsClients THEN Len(log) + 1 ELSE -1
<1>1. caster.pc = "fan" /\ c \in caster.todo /\ UNCHANGED <<wsClients, conn>>
  BY DEF CastSend
<1>2. caster'.pc # "lock" /\ caster'.todo = caster.todo \ {c}
  BY <1>1 DEF CastSend, CastIdle, Casting, TypeOK, CasterOK
<1>3. Due(c) = Len(log) /\ Due(c) > 0
  BY <1>1, DueCases
<1>4. Due(c)' = n
  BY <1>1, <1>2 DEF Due, OrderInv, CopyKnown
<1>5. ASSUME NEW d \in Clients \ {c} PROVE Due(d)' = Due(d)
  BY <1>1, <1>2 DEF Due
<1>6. IF Len(send[c]) < SendCap THEN send' = [send EXCEPT ![c] = Append(@, log[Len(log)])]
                                ELSE UNCHANGED send
  BY <1>1 DEF CastSend, HasRoom, OrderInv, LastTaken
<1>7. n \in {Len(log) + 1, -1}
  OBVIOUS
<1> HIDE DEF n
<1>8. [d \in Clients |-> Due(d)'] = [[d \in Clients |-> Due(d)] EXCEPT ![c] = n]
  BY <1>4, <1>5
<1> QED
  BY <1>3, <1>6, <1>7, <1>8 DEF Group!Serve, Group!Member, Group!Left

\* Every other step shows nothing.
LEMMA SteadyKeeps ==
    ASSUME OrderInv, Steady, UNCHANGED <<log, shown>>
    PROVE  UNCHANGED Group!vars
<1>1. ASSUME NEW c \in Clients PROVE Due(c)' = Due(c)
  BY DEF Steady, Due, OrderInv, CopyKnown
<1> QED
  BY <1>1 DEF Steady, Group!vars

\* Every step of the hub is a step of the multicast or shows nothing.
LEMMA GroupStep == IInv /\ OrderInv /\ [OrderNext]_orderVars => [Group!Next]_(Group!vars)
<1> SUFFICES ASSUME IInv, OrderInv, [OrderNext]_orderVars
             PROVE  [Group!Next]_(Group!vars)
  OBVIOUS
<1> USE DEF Group!Next
<1>1. TypeOK
  BY DEF IInv
<1>2. CASE Take
  BY <1>1, <1>2, TakePosts
<1>3. ASSUME NEW c \in Clients, Write(c) PROVE Group!Next
  BY <1>1, <1>3, WriteShows
<1>4. CASE Rest /\ UNCHANGED <<log, shown>>
  BY <1>1, <1>4, RestCases, AddJoins, DelLeaves, CopyKeeps, SendServes, SteadyKeeps DEF FanOut
<1>5. CASE UNCHANGED orderVars
  <2>1. ASSUME NEW c \in Clients PROVE Due(c)' = Due(c)
    BY <1>5 DEF orderVars, vars, Due
  <2> QED
    BY <1>5, <2>1 DEF orderVars, vars, Group!vars
<1> QED
  BY <1>2, <1>3, <1>4, <1>5 DEF OrderNext

\* The hub implements the multicast: the broadcaster's copies of the registry, taken
\* without regard to what is added, evicted and removed meanwhile, neither lose,
\* repeat nor reorder what a registered client is sent, except when its Send is full.
THEOREM HubMulticasts == OrderSpec => MulticastImplemented
<1>1. OrderInit => Group!Init
  BY GroupInit
<1>2. IInv /\ OrderInv /\ [OrderNext]_orderVars => [Group!Next]_(Group!vars)
  BY GroupStep
<1> QED
  BY <1>1, <1>2, OrderInvariant, PTL DEF OrderSpec, MulticastImplemented, Group!Spec
=============================================================================
