------------------------------ MODULE HubProofs ------------------------------
(***************************************************************************)
(* Proofs that every behaviour of Hub satisfies its invariants, for every  *)
(* set of clients, every capacity and every configuration.                 *)
(***************************************************************************)
EXTENDS HubProps, SequenceTheorems, FiniteSetTheorems, TLAPS

USE DEF chanVars, regVars, hubVars, clientVars, stopVars, kafkaVars, At, ReaderAt, WriterAt
-----------------------------------------------------------------------------
(* Channels                                                                *)

\* The empty channel has every channel type.
LEMMA ChanEmpty ==
    ASSUME NEW S, NEW cap \in Nat
    PROVE  <<>> \in Chan(S, cap)
  BY EmptySeq DEF Chan

\* A send to a channel that is not full.
LEMMA ChanAppend ==
    ASSUME NEW S, NEW cap \in Nat, NEW ch \in Chan(S, cap), NEW x \in S, Len(ch) < cap
    PROVE  Append(ch, x) \in Chan(S, cap)
  BY AppendProperties, LenProperties DEF Chan

\* A receive from a channel that is not empty.
LEMMA ChanTail ==
    ASSUME NEW S, NEW cap \in Nat, NEW ch \in Chan(S, cap), ch # <<>>
    PROVE  Head(ch) \in S /\ Tail(ch) \in Chan(S, cap)
  BY HeadTailProperties, LenProperties DEF Chan

\* A send with a default case.
LEMMA ChanOffer ==
    ASSUME NEW S, NEW cap \in Nat, NEW ch \in Chan(S, cap), NEW x \in S
    PROVE  Offer(ch, x, cap) \in Chan(S, cap)
  BY ChanAppend DEF Offer

\* What the assumptions on the constants give.
LEMMA Capacities ==
    /\ ConnCap \in Nat /\ DelCap \in Nat /\ BcastCap \in Nat /\ KCap \in Nat /\ SendCap \in Nat
    /\ None \notin Clients /\ None \notin Msgs
  BY CapAssumption, ClientsAssumption
-----------------------------------------------------------------------------
(* Type correctness                                                        *)

\* The initial state, as NewWsServer builds it, is type correct.
LEMMA TypeInit == Init => TypeOK
  BY ChanEmpty, Capacities
     DEF Init, TypeOK, ChannelsOK, CarrierOK, CasterOK, ClientsOK, Carrier, Casting

\* The steps of the three hub goroutines keep the types.
LEMMA TypeHub ==
    ASSUME TypeOK, Start \/ AddClientConn \/ DelClientConn \/ ReadFromBroadCastWriteToClients
    PROVE  TypeOK'
<1> USE Capacities DEF TypeOK, CarrierOK, CasterOK, Carrier, Casting, Idle, CastIdle, OnlyHub
<1>1. CASE Start
  BY <1>1 DEF Start, ChannelsOK, ClientsOK
<1>2. CASE AddRecv
  BY <1>2, ChanTail DEF AddRecv, ChannelsOK, ClientsOK, OnlyConnChan
<1>3. CASE AddLockWaits
  BY <1>3 DEF AddLockWaits, ChannelsOK, ClientsOK
<1>4. CASE AddUpdate
  BY <1>4 DEF AddUpdate, ChannelsOK, ClientsOK
<1>5. CASE AddInc
  BY <1>5 DEF AddInc, ChannelsOK, ClientsOK
<1>6. CASE AddExit
  BY <1>6 DEF AddExit, ChannelsOK, ClientsOK
<1>7. CASE DelRecv
  BY <1>7, ChanTail DEF DelRecv, ChannelsOK, ClientsOK, OnlyDelConnChan
<1>8. CASE DelLockWaits
  BY <1>8 DEF DelLockWaits, ChannelsOK, ClientsOK
<1>9. CASE DelUpdate
  BY <1>9 DEF DelUpdate, GaugeDown, ChannelsOK, ClientsOK
<1>10. CASE DelExit
  BY <1>10 DEF DelExit, ChannelsOK, ClientsOK
<1>11. CASE CastRecv
  BY <1>11, ChanTail DEF CastRecv, ChannelsOK, ClientsOK, OnlyBroadcast
<1>12. CASE CastCopy
  BY <1>12 DEF CastCopy, ChannelsOK, ClientsOK
<1>13. CASE FanOut
  <2>1. PICK c \in Clients : CastSend(c)
    BY <1>13 DEF FanOut
  <2>2. CarrierOK(adder, {"new", "recv", "lock", "inc", "exit"})' /\ CasterOK'
    BY <2>1 DEF CastSend, CastIdle
  <2>3. ChannelsOK'
    <3>1. CASE HasRoom(c)
      <4>1. caster.msg \in Msgs /\ Len(send[c]) < SendCap
        BY <2>1, <3>1 DEF CastSend, HasRoom
      <4>2. Append(send[c], caster.msg) \in Chan(Msgs, SendCap)
        BY <4>1, ChanAppend DEF ChannelsOK
      <4>3. /\ send' = [send EXCEPT ![c] = Append(send[c], caster.msg)]
            /\ UNCHANGED <<connChan, delConnChan, broadcast, kChan>>
        BY <2>1, <3>1 DEF CastSend
      <4> QED
        BY <4>2, <4>3 DEF ChannelsOK
    <3>2. CASE ~HasRoom(c)
      <4>1. Offer(delConnChan, c, DelCap) \in Chan(Clients, DelCap)
        BY ChanOffer DEF ChannelsOK
      <4> QED
        BY <2>1, <3>2, <4>1 DEF CastSend, Overflow, ChannelsOK
    <3> QED
      BY <3>1, <3>2
  <2>4. ClientsOK'
    BY <2>1 DEF CastSend, Overflow, ClientsOK
  <2> QED
    BY <2>1, <2>2, <2>3, <2>4 DEF CastSend
<1>14. CASE CastExit
  BY <1>14 DEF CastExit, ChannelsOK, ClientsOK
<1> QED
  BY <1>1, <1>2, <1>3, <1>4, <1>5, <1>6, <1>7, <1>8, <1>9, <1>10, <1>11, <1>12, <1>13, <1>14
     DEF AddClientConn, DelClientConn, ReadFromBroadCastWriteToClients

\* The steps of a connection's handler, reader and writer keep the types.
LEMMA TypeClient ==
    ASSUME TypeOK, NEW c \in Clients, ClientStep(c)
    PROVE  TypeOK'
<1> USE Capacities DEF TypeOK
<1>1. CASE Upgrade(c)
  BY <1>1 DEF Upgrade, ChannelsOK, CarrierOK, CasterOK, ClientsOK
<1>2. CASE Connect(c)
  BY <1>2, ChanAppend DEF Connect, OnlyConnChan, ChannelsOK, CarrierOK, CasterOK, ClientsOK
<1>3. CASE ReadFromClient(c)
  <2> USE DEF OnlyReader
  <2>1. ASSUME NEW m \in Msgs, ReadMsg(c, m) PROVE TypeOK'
    BY <2>1 DEF ReadMsg, ChannelsOK, CarrierOK, CasterOK, ClientsOK
  <2>2. CASE ReadFail(c)
    BY <2>2 DEF ReadFail, ChannelsOK, CarrierOK, CasterOK, ClientsOK
  <2>3. CASE Publish(c)
    <3>1. held[c] \in Msgs
      BY <2>3 DEF Publish, ClientsOK
    <3>2. ChannelsOK'
      BY <2>3, <3>1, ChanAppend DEF Publish, OnlyBroadcast, ChannelsOK
    <3>3. ClientsOK'
      BY <2>3 DEF Publish, ClientsOK
    <3> QED
      BY <2>3, <3>2, <3>3 DEF Publish, CarrierOK, CasterOK
  <2>4. CASE PublishAbort(c)
    BY <2>4 DEF PublishAbort, ChannelsOK, CarrierOK, CasterOK, ClientsOK
  <2>5. CASE Forward(c)
    <3>1. held[c] \in Msgs
      BY <2>5 DEF Forward, ClientsOK
    <3>2. ChannelsOK'
      BY <2>5, <3>1, ChanOffer DEF Forward, OfferKChan, OnlyKChan, ChannelsOK
    <3>3. ClientsOK'
      BY <2>5 DEF Forward, ClientsOK
    <3> QED
      BY <2>5, <3>2, <3>3 DEF Forward, CarrierOK, CasterOK
  <2>6. CASE ReadExit(c)
    BY <2>6, ChanOffer DEF ReadExit, OnlyDelConnChan, ChannelsOK, CarrierOK, CasterOK, ClientsOK
  <2> QED
    BY <1>3, <2>1, <2>2, <2>3, <2>4, <2>5, <2>6 DEF ReadFromClient
<1>4. CASE WriteToClient(c)
  <2> USE DEF OnlyWriter
  <2>1. CASE WriteMsg(c)
    <3>1. Tail(send[c]) \in Chan(Msgs, SendCap)
      BY <2>1, ChanTail DEF WriteMsg, ChannelsOK
    <3> QED
      BY <2>1, <3>1 DEF WriteMsg, OnlySend, ChannelsOK, CarrierOK, CasterOK, ClientsOK
  <2>2. CASE WriteStop(c)
    BY <2>2 DEF WriteStop, ChannelsOK, CarrierOK, CasterOK, ClientsOK
  <2>3. CASE WriteExit(c)
    BY <2>3, ChanOffer DEF WriteExit, OnlyDelConnChan, ChannelsOK, CarrierOK, CasterOK, ClientsOK
  <2> QED
    BY <1>4, <2>1, <2>2, <2>3 DEF WriteToClient
<1> QED
  BY <1>1, <1>2, <1>3, <1>4 DEF ClientStep, CreateWsConnection

\* The steps of Stop keep the types.
LEMMA TypeStop ==
    ASSUME TypeOK, Stop
    PROVE  TypeOK'
<1> USE Capacities DEF TypeOK, ChannelsOK, CarrierOK, CasterOK, ClientsOK, OnlyStop
<1>1. CASE StopBegin \/ StopShutdown \/ StopWait \/ StopResume \/ StopCancel \/ StopReturn
  BY <1>1 DEF StopBegin, StopShutdown, StopWait, StopResume, StopCancel, StopReturn, StopMove
<1>2. CASE StopRLock
  BY <1>2 DEF StopRLock
<1>3. ASSUME NEW c \in Clients, StopPush(c) PROVE TypeOK'
  BY <1>3, ChanAppend DEF StopPush, OnlyDelConnChan
<1> QED
  BY <1>1, <1>2, <1>3 DEF Stop

\* The steps of KafkaWorker and ReceiveKafka keep the types.
LEMMA TypeKafka ==
    ASSUME TypeOK, KafkaWorker \/ ReceiveKafka
    PROVE  TypeOK'
<1> USE Capacities DEF TypeOK, ChannelsOK, CarrierOK, CasterOK, ClientsOK, OnlyKafka
<1>1. CASE KafkaWorker
  <2>1. CASE WorkerSend
    BY <1>1, <2>1, ChanTail DEF KafkaWorker, WorkerSend, OnlyKChan
  <2>2. CASE WorkerExit
    BY <1>1, <2>2 DEF KafkaWorker, WorkerExit
  <2> QED
    BY <1>1, <2>1, <2>2 DEF KafkaWorker
<1>2. CASE ReceiverCheck \/ ReceiverSkip
  BY <1>2 DEF ReceiverCheck, ReceiverSkip
<1>3. ASSUME NEW m \in Msgs, ReceiverPush(m) PROVE TypeOK'
  BY <1>3, ChanOffer DEF ReceiverPush, OnlyBroadcast
<1> QED
  BY <1>1, <1>2, <1>3 DEF ReceiveKafka

\* Every step keeps the types.
LEMMA TypeStep == TypeOK /\ [Next]_vars => TypeOK'
<1> SUFFICES ASSUME TypeOK, [Next]_vars PROVE TypeOK'
  OBVIOUS
<1>1. CASE Next
  BY <1>1, TypeHub, TypeClient, TypeStop, TypeKafka DEF Next
<1>2. CASE UNCHANGED vars
  BY <1>2 DEF vars, TypeOK, ChannelsOK, CarrierOK, CasterOK, ClientsOK
<1> QED
  BY <1>1, <1>2

\* Every reachable state is type correct: no channel of the server ever holds
\* more than its capacity, whatever the number of clients and messages, and the
\* goroutines carry a client or a message exactly where the code has one.
THEOREM TypeCorrect == Spec => []TypeOK
<1>1. Init => TypeOK
  BY TypeInit
<1>2. TypeOK /\ [Next]_vars => TypeOK'
  BY TypeStep
<1> QED
  BY <1>1, <1>2, PTL DEF Spec
-----------------------------------------------------------------------------
(* What is in a channel                                                    *)

\* What a send adds.
LEMMA InAppend ==
    ASSUME NEW S, NEW ch \in Seq(S), NEW x \in S, NEW y
    PROVE  InChan(Append(ch, x), y) <=> InChan(ch, y) \/ y = x
<1>1. DOMAIN Append(ch, x) = DOMAIN ch \cup {Len(ch) + 1}
  BY AppendProperties, LenProperties
<1> QED
  BY <1>1, AppendProperties, LenProperties DEF InChan

\* What a receive takes.
LEMMA InTail ==
    ASSUME NEW S, NEW ch \in Seq(S), ch # <<>>, NEW y
    PROVE  InChan(ch, y) <=> InChan(Tail(ch), y) \/ y = Head(ch)
<1>1. /\ Tail(ch) \in Seq(S) /\ Len(Tail(ch)) = Len(ch) - 1 /\ Len(ch) \in Nat \ {0}
      /\ \A i \in 1 .. Len(ch) - 1 : Tail(ch)[i] = ch[i + 1]
  BY HeadTailProperties, EmptySeq
<1>2. DOMAIN ch = 1 .. Len(ch) /\ DOMAIN Tail(ch) = 1 .. Len(ch) - 1 /\ Head(ch) = ch[1]
  BY <1>1, LenProperties
<1>3. ASSUME InChan(ch, y) PROVE InChan(Tail(ch), y) \/ y = Head(ch)
  <2>1. PICK i \in 1 .. Len(ch) : ch[i] = y
    BY <1>2, <1>3 DEF InChan
  <2>2. CASE i = 1
    BY <1>2, <2>1, <2>2
  <2>3. CASE i # 1
    <3>1. i - 1 \in 1 .. Len(ch) - 1 /\ Tail(ch)[i - 1] = ch[(i - 1) + 1]
      BY <1>1, <2>1, <2>3
    <3>2. (i - 1) + 1 = i
      BY <2>1
    <3> QED
      BY <1>2, <2>1, <3>1, <3>2 DEF InChan
  <2> QED
    BY <2>2, <2>3
<1>4. ASSUME InChan(Tail(ch), y) PROVE InChan(ch, y)
  <2>1. PICK i \in 1 .. Len(ch) - 1 : Tail(ch)[i] = y
    BY <1>2, <1>4 DEF InChan
  <2>2. i + 1 \in 1 .. Len(ch) /\ ch[i + 1] = y
    BY <1>1, <2>1
  <2> QED
    BY <1>2, <2>2 DEF InChan
<1>5. ASSUME y = Head(ch) PROVE InChan(ch, y)
  BY <1>1, <1>2, <1>5 DEF InChan
<1> QED
  BY <1>3, <1>4, <1>5

\* A send with a default case loses nothing that was queued.
LEMMA InOffer ==
    ASSUME NEW S, NEW ch \in Seq(S), NEW x \in S, NEW cap, NEW y, InChan(ch, y)
    PROVE  InChan(Offer(ch, x, cap), y)
  BY InAppend DEF Offer

\* The first element of a queue without repetition is not in the rest of it.
LEMMA NoRepeatTail ==
    ASSUME NEW S, NEW ch \in Seq(S), ch # <<>>, NoRepeat(ch)
    PROVE  NoRepeat(Tail(ch)) /\ ~InChan(Tail(ch), Head(ch))
<1>1. /\ Tail(ch) \in Seq(S) /\ Len(Tail(ch)) = Len(ch) - 1 /\ Len(ch) \in Nat \ {0}
      /\ \A i \in 1 .. Len(ch) - 1 : Tail(ch)[i] = ch[i + 1]
  BY HeadTailProperties, EmptySeq
<1>2. DOMAIN ch = 1 .. Len(ch) /\ DOMAIN Tail(ch) = 1 .. Len(ch) - 1 /\ Head(ch) = ch[1]
  BY <1>1, LenProperties
<1>3. \A i \in 1 .. Len(ch) - 1 : i + 1 \in DOMAIN ch /\ i + 1 # 1
  BY <1>1, <1>2
<1>4. ASSUME NEW i \in DOMAIN Tail(ch), NEW j \in DOMAIN Tail(ch), Tail(ch)[i] = Tail(ch)[j]
      PROVE  i = j
  <2>1. i + 1 = j + 1
    BY <1>1, <1>2, <1>3, <1>4 DEF NoRepeat
  <2> QED
    BY <1>2, <2>1
<1>5. ASSUME NEW i \in DOMAIN Tail(ch) PROVE Tail(ch)[i] # Head(ch)
  <2>1. Tail(ch)[i] = ch[i + 1] /\ i + 1 \in DOMAIN ch /\ i + 1 # 1 /\ 1 \in DOMAIN ch
    BY <1>1, <1>2, <1>3
  <2> QED
    BY <1>2, <2>1 DEF NoRepeat
<1> QED
  BY <1>4, <1>5 DEF NoRepeat, InChan

\* A send of something new repeats nothing.
LEMMA NoRepeatAppend ==
    ASSUME NEW S, NEW ch \in Seq(S), NEW x \in S, NoRepeat(ch), ~InChan(ch, x)
    PROVE  NoRepeat(Append(ch, x))
<1>1. DOMAIN Append(ch, x) = DOMAIN ch \cup {Len(ch) + 1} /\ DOMAIN ch = 1 .. Len(ch)
  BY AppendProperties, LenProperties
<1>2. /\ \A i \in DOMAIN ch : Append(ch, x)[i] = ch[i] /\ ch[i] # x
      /\ Append(ch, x)[Len(ch) + 1] = x
  BY <1>1, AppendProperties DEF InChan
<1> QED
  BY <1>1, <1>2 DEF NoRepeat
-----------------------------------------------------------------------------
(* What the steps leave alone                                              *)

\* Only AddUpdate, AddInc and DelUpdate touch the map, its counters and the
\* moment between Unlock and Inc.
LEMMA BooksFrame ==
    ASSUME TypeOK, [Next]_vars, ~AddUpdate, ~AddInc, ~DelUpdate
    PROVE  /\ UNCHANGED <<wsClients, clientsWg, gauge>>
           /\ adder'.pc = "inc" <=> adder.pc = "inc"
<1> USE DEF Carrier, Idle, OnlyHub, OnlyReader, OnlyWriter, OnlyStop, OnlyKafka
<1>1. CASE UNCHANGED vars
  BY <1>1 DEF vars
<1>2. CASE Start \/ AddClientConn
  BY <1>2 DEF Start, AddClientConn, AddRecv, AddLockWaits, AddExit
<1>3. CASE DelClientConn \/ ReadFromBroadCastWriteToClients
  BY <1>3 DEF DelClientConn, DelRecv, DelLockWaits, DelExit,
              ReadFromBroadCastWriteToClients, CastRecv, CastCopy, FanOut, CastSend, CastExit
<1>4. ASSUME NEW c \in Clients, ClientStep(c) PROVE UNCHANGED <<regVars, adder>>
  BY <1>4 DEF ClientStep, CreateWsConnection, Upgrade, Connect, ReadFromClient, ReadMsg,
              ReadFail, Publish, PublishAbort, Forward, ReadExit, WriteToClient, WriteMsg,
              WriteStop, WriteExit
<1>5. CASE Stop
  BY <1>5 DEF Stop, StopBegin, StopShutdown, StopRLock, StopPush, StopWait, StopResume,
              StopCancel, StopReturn, StopMove
<1>6. CASE KafkaWorker \/ ReceiveKafka
  BY <1>6 DEF KafkaWorker, WorkerSend, WorkerExit, ReceiveKafka, ReceiverCheck,
              ReceiverSkip, ReceiverPush
<1> QED
  BY <1>1, <1>2, <1>3, <1>4, <1>5, <1>6 DEF Next

\* Apart from DelClientConn every goroutine only adds requests for removal.
LEMMA RequestFrame ==
    ASSUME TypeOK, [Next]_vars, ~DelRecv, ~DelUpdate
    PROVE  /\ deleter.conn # None => deleter' = deleter
           /\ \/ delConnChan' = delConnChan
              \/ \E d \in Clients : \/ delConnChan' = Offer(delConnChan, d, DelCap)
                                   \/ delConnChan' = Append(delConnChan, d)
<1> USE DEF OnlyHub, OnlyReader, OnlyWriter, OnlyStop, OnlyKafka,
            OnlyConnChan, OnlyDelConnChan, OnlyBroadcast, OnlyKChan, OnlySend
<1>1. CASE UNCHANGED vars
  BY <1>1 DEF vars
<1>2. CASE Start
  BY <1>2 DEF Start, TypeOK, CarrierOK
<1>3. CASE AddClientConn
  BY <1>3 DEF AddClientConn, AddRecv, AddLockWaits, AddUpdate, AddInc, AddExit
<1>4. CASE DelClientConn
  BY <1>4 DEF DelClientConn, DelLockWaits, DelExit, TypeOK, CarrierOK
<1>5. CASE ReadFromBroadCastWriteToClients
  BY <1>5 DEF ReadFromBroadCastWriteToClients, CastRecv, CastCopy, FanOut, CastSend,
              Overflow, CastExit
<1>6. ASSUME NEW c \in Clients, ClientStep(c)
      PROVE  UNCHANGED deleter /\ (\/ delConnChan' = delConnChan
                                  \/ delConnChan' = Offer(delConnChan, c, DelCap))
  <2>1. CASE CreateWsConnection(c)
    BY <2>1 DEF CreateWsConnection, Upgrade, Connect
  <2>2. CASE ReadFromClient(c)
    BY <2>2 DEF ReadFromClient, ReadMsg, ReadFail, Publish, PublishAbort, Forward, ReadExit
  <2>3. CASE WriteToClient(c)
    BY <2>3 DEF WriteToClient, WriteMsg, WriteStop, WriteExit
  <2> QED
    BY <1>6, <2>1, <2>2, <2>3 DEF ClientStep
<1>7. CASE Stop
  BY <1>7 DEF Stop, StopBegin, StopShutdown, StopRLock, StopPush, StopWait, StopResume,
              StopCancel, StopReturn, StopMove
<1>8. CASE KafkaWorker \/ ReceiveKafka
  BY <1>8 DEF KafkaWorker, WorkerSend, WorkerExit, ReceiveKafka, ReceiverCheck,
              ReceiverSkip, ReceiverPush
<1> QED
  BY <1>1, <1>2, <1>3, <1>4, <1>5, <1>6, <1>7, <1>8 DEF Next

\* A request for removal stays queued or held until DelClientConn serves it.
LEMMA PendingFrame ==
    ASSUME TypeOK, [Next]_vars, ~DelUpdate, NEW c \in Clients, Pending(c)
    PROVE  Pending(c)'
<1>1. delConnChan \in Seq(Clients) /\ None \notin Clients
  BY Capacities DEF TypeOK, ChannelsOK, Chan
<1>2. CASE DelRecv
  <2>1. /\ delConnChan # <<>> /\ delConnChan' = Tail(delConnChan)
        /\ deleter'.conn = Head(delConnChan)
        /\ deleter.conn = None
    BY <1>2 DEF DelRecv, Carrier, TypeOK, CarrierOK
  <2>2. InChan(delConnChan, c)
    BY <1>1, <2>1 DEF Pending
  <2>3. InChan(Tail(delConnChan), c) \/ c = Head(delConnChan)
    BY <1>1, <2>1, <2>2, InTail
  <2> QED
    BY <2>1, <2>3 DEF Pending, InChan
<1>3. CASE ~DelRecv
  <2>1. deleter.conn = c => deleter'.conn = c
    BY <1>1, <1>3, RequestFrame
  <2>2. ASSUME InChan(delConnChan, c) PROVE InChan(delConnChan', c)
    <3>1. CASE delConnChan' = delConnChan
      BY <2>2, <3>1
    <3>2. ASSUME NEW d \in Clients, delConnChan' = Offer(delConnChan, d, DelCap)
          PROVE  InChan(delConnChan', c)
      BY <1>1, <2>2, <3>2, InOffer
    <3>3. ASSUME NEW d \in Clients, delConnChan' = Append(delConnChan, d)
          PROVE  InChan(delConnChan', c)
      BY <1>1, <2>2, <3>3, InAppend
    <3> QED
      BY <1>3, <3>1, <3>2, <3>3, RequestFrame
  <2> QED
    BY <2>1, <2>2 DEF Pending, InChan
<1> QED
  BY <1>2, <1>3

\* The steps that move a client into the map, or learn of one, are those of
\* AddClientConn, of the broadcaster and of CreateWsConnection.
LEMMA OnceFrame ==
    ASSUME TypeOK, [Next]_vars, ~AddRecv, ~AddUpdate, ~DelUpdate, ~CastCopy, ~FanOut,
           \A c \in Clients : ~CreateWsConnection(c)
    PROVE  /\ UNCHANGED <<connChan, wsClients, missed, conn>>
           /\ adder'.conn = adder.conn
           /\ caster'.todo \subseteq caster.todo
           /\ \A c \in Clients : reader'[c] = "none" <=> reader[c] = "none"
<1> USE DEF OnlyHub, OnlyReader, OnlyWriter, OnlyStop, OnlyKafka,
            OnlyConnChan, OnlyDelConnChan, OnlyBroadcast, OnlyKChan, OnlySend
<1>1. CASE UNCHANGED vars
  BY <1>1 DEF vars
<1>2. CASE Start \/ AddClientConn
  BY <1>2 DEF Start, AddClientConn, AddLockWaits, AddInc, AddExit,
              Idle, CastIdle, Carrier, Casting, TypeOK, CarrierOK
<1>3. CASE DelClientConn \/ ReadFromBroadCastWriteToClients
  BY <1>3 DEF DelClientConn, DelRecv, DelLockWaits, DelExit,
              ReadFromBroadCastWriteToClients, CastRecv, CastExit, Casting
<1>4. ASSUME NEW c \in Clients, ReadFromClient(c)
      PROVE  /\ UNCHANGED <<connChan, wsClients, missed, conn, adder, caster>>
             /\ reader[c] # "none"
             /\ \E pc \in {"read", "publish", "forward", "exit", "done"} :
                    reader' = [reader EXCEPT ![c] = pc]
  <2>1. UNCHANGED <<connChan, wsClients, missed, conn, adder, caster>>
    BY <1>4 DEF ReadFromClient, ReadMsg, ReadFail, Publish, PublishAbort, Forward, ReadExit
  <2>2. reader[c] # "none"
    BY <1>4 DEF ReadFromClient, ReadMsg, ReadFail, Publish, PublishAbort, Forward, ReadExit
  <2>3. CASE Publish(c)
    BY <2>3 DEF Publish
  <2>4. CASE ~Publish(c)
    BY <1>4, <2>4 DEF ReadFromClient, ReadMsg, ReadFail, PublishAbort, Forward, ReadExit
  <2> QED
    BY <2>1, <2>2, <2>3, <2>4
<1>5. ASSUME NEW c \in Clients, WriteToClient(c)
      PROVE  UNCHANGED <<connChan, wsClients, missed, conn, adder, caster, reader>>
  BY <1>5 DEF WriteToClient, WriteMsg, WriteStop, WriteExit
<1>6. CASE Stop
  BY <1>6 DEF Stop, StopBegin, StopShutdown, StopRLock, StopPush, StopWait, StopResume,
              StopCancel, StopReturn, StopMove
<1>7. CASE KafkaWorker \/ ReceiveKafka
  BY <1>7 DEF KafkaWorker, WorkerSend, WorkerExit, ReceiveKafka, ReceiverCheck,
              ReceiverSkip, ReceiverPush
<1>8. ASSUME NEW c \in Clients, ReadFromClient(c)
      PROVE  \A d \in Clients : reader'[d] = "none" <=> reader[d] = "none"
  BY <1>4, <1>8 DEF TypeOK, ClientsOK
<1> QED
  BY <1>1, <1>2, <1>3, <1>4, <1>5, <1>6, <1>7, <1>8 DEF Next, ClientStep
-----------------------------------------------------------------------------
(* The invariant                                                           *)

\* A server starts with an empty map and counters at zero.
LEMMA InvInit == Init => IInv
<1> SUFFICES ASSUME Init PROVE IInv
  OBVIOUS
<1>1. WgBalance /\ GaugeBalance
  BY FS_EmptySet DEF Init, WgBalance, GaugeBalance, Carrier
<1>2. OncePerClient
  BY Capacities DEF Init, OncePerClient, Arriving, InChan, NoRepeat, Carrier, Casting
<1> QED
  BY <1>1, <1>2, TypeInit DEF IInv, LaggardPending, Init

\* The counters follow the map.
LEMMA BalanceStep ==
    ASSUME IInv, [Next]_vars
    PROVE  WgBalance' /\ GaugeBalance'
<1> USE DEF IInv, WgBalance, GaugeBalance
<1>1. IsFiniteSet(wsClients) /\ Cardinality(wsClients) \in Nat
  BY ClientsAssumption, FS_Subset, FS_CardinalityType DEF TypeOK
<1>2. CASE AddUpdate
  <2>1. adder.conn \notin wsClients /\ adder.pc = "lock"
    BY <1>2 DEF AddUpdate, OncePerClient, Arriving, TypeOK, CarrierOK
  <2>2. Cardinality(wsClients') = Cardinality(wsClients) + 1
    BY <1>1, <1>2, <2>1, FS_AddElement DEF AddUpdate
  <2>3. clientsWg' = clientsWg + 1 /\ gauge' = gauge /\ adder'.pc = "inc"
    BY <1>2, <2>1 DEF AddUpdate, Registered, Carrier
  <2> QED
    BY <1>1, <2>1, <2>2, <2>3
<1>3. CASE AddInc
  BY <1>1, <1>3 DEF AddInc, Idle, Carrier
<1>4. CASE DelUpdate
  <2>1. UNCHANGED adder
    BY <1>4 DEF DelUpdate
  <2>2. CASE deleter.conn \in wsClients
    <3>1. Cardinality(wsClients') = Cardinality(wsClients) - 1
      BY <1>1, <1>4, <2>2, FS_RemoveElement DEF DelUpdate, Registered
    <3>2. clientsWg' = clientsWg - 1 /\ gauge' = gauge - 1
      BY <1>4, <2>2 DEF DelUpdate, Registered, GaugeDown
    <3> QED
      BY <1>1, <2>1, <3>1, <3>2
  <2>3. CASE deleter.conn \notin wsClients
    BY <1>4, <2>1, <2>3 DEF DelUpdate, Registered, GaugeDown
  <2> QED
    BY <2>2, <2>3
<1>5. CASE ~AddUpdate /\ ~AddInc /\ ~DelUpdate
  BY <1>5, BooksFrame
<1> QED
  BY <1>2, <1>3, <1>4, <1>5

\* No step brings a client into connChan, or towards the map, a second time.
LEMMA OnceStep ==
    ASSUME IInv, [Next]_vars
    PROVE  OncePerClient'
<1> USE DEF IInv
<1>1. connChan \in Seq(Clients) /\ None \notin Clients /\ wsClients \subseteq Clients
  BY Capacities DEF TypeOK, ChannelsOK, Chan
<1>2. CASE AddRecv
  <2>1. /\ connChan # <<>> /\ connChan' = Tail(connChan) /\ adder'.conn = Head(connChan)
        /\ UNCHANGED <<wsClients, missed, conn, caster, reader>>
    BY <1>2 DEF AddRecv, Carrier, OnlyHub
  <2>2. NoRepeat(connChan') /\ ~InChan(connChan', adder'.conn)
    BY <1>1, <2>1, NoRepeatTail DEF OncePerClient
  <2>3. \A c \in Clients : InChan(connChan', c) \/ adder'.conn = c => InChan(connChan, c)
    BY <1>1, <2>1, InTail
  <2> QED
    BY <2>1, <2>2, <2>3 DEF OncePerClient, Arriving, InChan, NoRepeat
<1>3. CASE AddUpdate
  <2>1. /\ wsClients' = wsClients \cup {adder.conn} /\ adder'.conn = None
        /\ adder.conn \in Clients
        /\ UNCHANGED <<connChan, missed, conn, caster, reader>>
    BY <1>3 DEF AddUpdate, Carrier, TypeOK, CarrierOK
  <2>2. ~InChan(connChan, None)
    BY <1>1, LenProperties DEF InChan
  <2> QED
    BY <1>1, <2>1, <2>2 DEF OncePerClient, Arriving, InChan, NoRepeat
<1>4. CASE DelUpdate
  <2>1. /\ \/ wsClients' = wsClients /\ conn' = conn
           \/ /\ deleter.conn \in wsClients /\ wsClients' = wsClients \ {deleter.conn}
              /\ conn' = [conn EXCEPT ![deleter.conn] = "closed"]
        /\ UNCHANGED <<connChan, adder, missed, caster, reader>>
    BY <1>4 DEF DelUpdate, Registered
  <2> QED
    BY <1>1, <2>1 DEF OncePerClient, Arriving, InChan, NoRepeat, TypeOK, ClientsOK
<1>5. CASE CastCopy
  <2>1. /\ caster'.todo \subseteq wsClients
        /\ UNCHANGED <<connChan, adder, wsClients, missed, conn, reader>>
    BY <1>5 DEF CastCopy, CastIdle, Casting, OnlyHub
  <2> QED
    BY <2>1 DEF OncePerClient, Arriving, InChan, NoRepeat
<1>6. CASE FanOut
  <2>1. PICK c \in Clients : CastSend(c)
    BY <1>6 DEF FanOut
  <2>2. /\ caster'.todo \subseteq caster.todo /\ missed' \subseteq missed \cup caster.todo
        /\ UNCHANGED <<connChan, adder, wsClients, conn, reader>>
    BY <2>1 DEF CastSend, CastIdle, Casting, Overflow, TypeOK, CasterOK
  <2> QED
    BY <2>2 DEF OncePerClient, Arriving, InChan, NoRepeat
<1>7. ASSUME NEW c \in Clients, CreateWsConnection(c) PROVE OncePerClient'
  <2>1. CASE Upgrade(c)
    <3>1. /\ conn[c] = "none" /\ conn' = [conn EXCEPT ![c] = "open"]
          /\ UNCHANGED <<connChan, adder, wsClients, missed, caster, reader>>
      BY <2>1 DEF Upgrade
    <3> QED
      BY <1>1, <3>1 DEF OncePerClient, Arriving, InChan, NoRepeat, TypeOK, ClientsOK
  <2>2. CASE Connect(c)
    <3>1. /\ conn[c] = "open" /\ reader[c] = "none" /\ connChan' = Append(connChan, c)
          /\ reader' = [reader EXCEPT ![c] = "read"]
          /\ UNCHANGED <<adder, wsClients, missed, caster, conn>>
      BY <2>2 DEF Connect
    <3>2. ~InChan(connChan, c) /\ adder.conn # c /\ c \notin wsClients \cup missed \cup caster.todo
      BY <3>1 DEF OncePerClient, Arriving
    <3>3. NoRepeat(connChan') /\ ~InChan(connChan', adder.conn)
      BY <1>1, <3>1, <3>2, NoRepeatAppend, InAppend DEF OncePerClient
    <3>4. \A d \in Clients : InChan(connChan', d) <=> InChan(connChan, d) \/ d = c
      BY <1>1, <3>1, InAppend
    <3>5. \A d \in Clients : reader'[d] = "none" => reader[d] = "none" /\ d # c
      BY <3>1 DEF TypeOK, ClientsOK
    <3> QED
      BY <3>1, <3>2, <3>3, <3>4, <3>5 DEF OncePerClient, Arriving, InChan, NoRepeat
  <2> QED
    BY <1>7, <2>1, <2>2 DEF CreateWsConnection
<1>8. CASE /\ ~AddRecv /\ ~AddUpdate /\ ~DelUpdate /\ ~CastCopy /\ ~FanOut
           /\ \A c \in Clients : ~CreateWsConnection(c)
  BY <1>8, OnceFrame DEF OncePerClient, Arriving, InChan, NoRepeat
<1> QED
  BY <1>2, <1>3, <1>4, <1>5, <1>6, <1>7, <1>8

\* A request for the removal of a client that overflowed is not lost.
LEMMA LaggardStep ==
    ASSUME IInv, [Next]_vars
    PROVE  LaggardPending'
<1> USE DEF IInv
<1> SUFFICES ASSUME NEW c \in missed' \cap wsClients'
             PROVE  Pending(c)'
  BY DEF LaggardPending, Pending, InChan
<1>1. c \in Clients /\ delConnChan \in Seq(Clients)
  BY TypeStep DEF TypeOK, ChannelsOK, ClientsOK, Chan
<1>2. CASE DelUpdate
  <2>1. /\ c \in missed \cap wsClients /\ delConnChan' = delConnChan
        /\ c # deleter.conn
    BY <1>2 DEF DelUpdate, Registered
  <2> QED
    BY <2>1 DEF LaggardPending, Pending, InChan
<1>3. CASE FanOut
  <2>1. PICK d \in Clients : CastSend(d)
    BY <1>3 DEF FanOut
  <2>2. CASE c \in missed
    <3>1. c \in wsClients /\ UNCHANGED <<wsClients, deleter>>
      BY <2>1 DEF CastSend
    <3>2. Pending(c)
      BY <2>2, <3>1 DEF LaggardPending
    <3>3. CASE DelUpdate
      BY <1>1, <1>2, <3>3
    <3>4. CASE ~DelUpdate
      BY <1>1, <3>2, <3>4, PendingFrame
    <3> QED
      BY <3>3, <3>4
  <2>3. CASE c \notin missed
    <3>1. c = d /\ Len(delConnChan) < DelCap /\ delConnChan' = Append(delConnChan, c)
      BY <2>1, <2>3 DEF CastSend, Overflow, Offer
    <3> QED
      BY <1>1, <3>1, InAppend DEF Pending, InChan
  <2> QED
    BY <2>2, <2>3
<1>4. CASE AddUpdate
  <2>1. missed' = missed /\ wsClients' = wsClients \cup {adder.conn} /\ adder.conn \in Clients
    BY <1>4 DEF AddUpdate, TypeOK, CarrierOK
  <2>2. adder.conn \notin missed
    BY <2>1 DEF OncePerClient, Arriving
  <2> QED
    BY <1>1, <1>2, <2>1, <2>2, PendingFrame DEF LaggardPending
<1>5. CASE ~DelUpdate /\ ~FanOut /\ ~AddUpdate
  <2>1. c \in missed \cap wsClients
    <3>1. wsClients' = wsClients
      <4>1. CASE AddInc
        BY <4>1 DEF AddInc
      <4> QED
        BY <1>5, <4>1, BooksFrame
    <3>2. missed' = missed
      <4>1. CASE AddRecv \/ CastCopy
        BY <4>1 DEF AddRecv, CastCopy, OnlyHub
      <4>2. ASSUME NEW d \in Clients, CreateWsConnection(d) PROVE missed' = missed
        BY <4>2 DEF CreateWsConnection, Upgrade, Connect
      <4> QED
        BY <1>5, <4>1, <4>2, OnceFrame
    <3> QED
      BY <3>1, <3>2
  <2> QED
    BY <1>1, <1>5, <2>1, PendingFrame DEF LaggardPending
<1> QED
  BY <1>2, <1>3, <1>4, <1>5

\* The invariant is inductive.
LEMMA InvStep == IInv /\ [Next]_vars => IInv'
  BY TypeStep, BalanceStep, OnceStep, LaggardStep DEF IInv

\* The inductive invariant holds in every reachable state.
THEOREM Invariance == Spec => []IInv
<1>1. Init => IInv
  BY InvInit
<1>2. IInv /\ [Next]_vars => IInv'
  BY InvStep
<1> QED
  BY <1>1, <1>2, PTL DEF Spec

\* However many clients come and go and whoever asks for their removal, the
\* WaitGroup that Stop waits for counts the registered clients, so it never
\* goes negative.
THEOREM WaitGroupBalanced == Spec => []WgBalance
<1>1. IInv => WgBalance
  BY DEF IInv
<1> QED
  BY <1>1, Invariance, PTL

\* The gauge of active connections differs from the number of registered clients
\* by at most the one client between Unlock and Inc.
THEOREM GaugeBalanced == Spec => []GaugeBalance
<1>1. IInv => GaugeBalance
  BY DEF IInv
<1> QED
  BY <1>1, Invariance, PTL

\* Every client comes through connChan, towards the map, at most once.
THEOREM OnePassage == Spec => []OncePerClient
<1>1. IInv => OncePerClient
  BY DEF IInv
<1> QED
  BY <1>1, Invariance, PTL

\* The removal of a slow client, once queued, is carried out before anything
\* else can make the server forget it.
THEOREM LaggardsLeave == Spec => []LaggardPending
<1>1. IInv => LaggardPending
  BY DEF IInv
<1> QED
  BY <1>1, Invariance, PTL
-----------------------------------------------------------------------------
(* A Stop without connections under way                                    *)

\* No connection is on its way into the map, and none can come any more; where Stop
\* has been woken or is past its wait, the map is empty.
CleanStop ==
    /\ stop \in {"rlock", "push", "wait", "asleep", "woken", "drained", "cancelled", "returned"}
    /\ stop \in {"woken", "drained", "cancelled", "returned"} => wsClients = {}
    /\ connChan = <<>> /\ adder.pc \in {"recv", "exit"}
    /\ \A c \in Clients : ~(conn[c] = "open" /\ reader[c] = "none")

\* With the right count in the WaitGroup, the last Done comes with the empty map.
LEMMA LastDone ==
    ASSUME IInv
    PROVE  /\ clientsWg = 0 <=> wsClients = {}
           /\ \A c \in wsClients : clientsWg = 1 => wsClients \ {c} = {}
<1>1. IsFiniteSet(wsClients) /\ clientsWg = Cardinality(wsClients)
  BY ClientsAssumption, FS_Subset DEF IInv, TypeOK, WgBalance
<1>2. clientsWg = 0 <=> wsClients = {}
  BY <1>1, FS_EmptySet
<1>3. ASSUME NEW c \in wsClients, clientsWg = 1 PROVE wsClients \ {c} = {}
  <2>1. IsFiniteSet(wsClients \ {c}) /\ Cardinality(wsClients \ {c}) = Cardinality(wsClients) - 1
    BY <1>1, FS_RemoveElement
  <2>2. Cardinality(wsClients) = 1
    BY <1>1, <1>3
  <2> QED
    BY <2>1, <2>2, FS_EmptySet
<1> QED
  BY <1>2, <1>3

\* The goroutines of the hub keep it: nobody is registered, and a client is removed
\* only while Stop still waits.
LEMMA CleanHub ==
    ASSUME IInv, CleanStop,
           Start \/ AddClientConn \/ DelClientConn \/ ReadFromBroadCastWriteToClients
    PROVE  CleanStop'
<1> USE DEF CleanStop
<1>1. CASE Start
  BY <1>1 DEF Start
<1>2. CASE AddClientConn
  BY <1>2 DEF AddClientConn, AddRecv, AddLockWaits, AddUpdate, AddInc, AddExit, Carrier, OnlyHub
<1>3. CASE DelUpdate
  <2>1. CASE deleter.conn \in wsClients
    <3>1. /\ wsClients' = wsClients \ {deleter.conn}
          /\ stop' = IF stop = "asleep" /\ clientsWg = 1 THEN "woken" ELSE stop
      BY <1>3, <2>1 DEF DelUpdate, Registered, MapRace
    <3>2. \A c \in Clients : conn'[c] = "open" => conn[c] = "open"
      BY <1>3, <2>1 DEF DelUpdate, Registered, IInv, TypeOK, ClientsOK
    <3>3. UNCHANGED <<connChan, adder, reader>>
      BY <1>3 DEF DelUpdate
    <3> QED
      BY <2>1, <3>1, <3>2, <3>3, LastDone
  <2>2. CASE deleter.conn \notin wsClients
    BY <1>3, <2>2 DEF DelUpdate, Registered
  <2> QED
    BY <2>1, <2>2
<1>4. CASE DelRecv \/ DelLockWaits \/ DelExit
  BY <1>4 DEF DelRecv, DelLockWaits, DelExit, OnlyDelConnChan, OnlyHub
<1>5. CASE ReadFromBroadCastWriteToClients
  BY <1>5 DEF ReadFromBroadCastWriteToClients, CastRecv, CastCopy, FanOut, CastSend, CastExit,
              OnlyBroadcast, OnlyHub
<1> QED
  BY <1>1, <1>2, <1>3, <1>4, <1>5 DEF DelClientConn

\* So do the clients, for which the listener is closed, Stop and the Kafka goroutines.
LEMMA CleanRest ==
    ASSUME IInv, CleanStop,
           (\E c \in Clients : ClientStep(c)) \/ Stop \/ KafkaWorker \/ ReceiveKafka
    PROVE  CleanStop'
<1> USE DEF CleanStop
<1>1. ASSUME NEW c \in Clients, CreateWsConnection(c) PROVE CleanStop'
  BY <1>1 DEF CreateWsConnection, Upgrade, Connect, Listening
<1>2. ASSUME NEW c \in Clients, ReadFromClient(c) PROVE CleanStop'
  <2>1. \A d \in Clients : reader[d] # "none" => reader'[d] # "none"
    BY <1>2 DEF ReadFromClient, ReadMsg, ReadFail, Publish, PublishAbort, Forward, ReadExit,
                IInv, TypeOK, ClientsOK
  <2>2. UNCHANGED <<connChan, regVars, adder, conn, stopVars>>
    BY <1>2 DEF ReadFromClient, ReadMsg, ReadFail, Publish, PublishAbort, Forward, ReadExit,
                OnlyReader, OnlyBroadcast, OnlyKChan, OnlyDelConnChan, hubVars
  <2> QED
    BY <2>1, <2>2
<1>3. ASSUME NEW c \in Clients, WriteToClient(c) PROVE CleanStop'
  BY <1>3 DEF WriteToClient, WriteMsg, WriteStop, WriteExit, OnlyWriter, OnlySend, OnlyDelConnChan
<1>4. CASE Stop
  BY <1>4, LastDone DEF Stop, StopBegin, StopShutdown, StopRLock, StopPush, StopWait, StopResume,
              StopCancel, StopReturn, StopMove, OnlyStop, OnlyDelConnChan
<1>5. CASE KafkaWorker \/ ReceiveKafka
  BY <1>5 DEF KafkaWorker, WorkerSend, WorkerExit, ReceiveKafka, ReceiverCheck, ReceiverSkip,
              ReceiverPush, OnlyKChan, OnlyBroadcast, OnlyKafka
<1> QED
  BY <1>1, <1>2, <1>3, <1>4, <1>5 DEF ClientStep

\* A Stop that finds no connection on its way ends neither by a panic of the WaitGroup
\* nor by a race on the map, and tells the goroutines to end only when every client is
\* removed, whatever the clients and Kafka do and however full the channels are.
THEOREM QuietStopsAreClean == Spec => QuietStopClean
<1> DEFINE Early == stop \in {"rlock", "push", "wait", "asleep"} /\ Quiet
           Safe == /\ stop # "crashed"
                   /\ stop \in {"drained", "cancelled", "returned"} => wsClients = {}
<1>1. Early => CleanStop
  BY DEF Quiet, CleanStop
<1>2. IInv /\ CleanStop /\ [Next]_vars => CleanStop'
  BY CleanHub, CleanRest DEF Next, vars, CleanStop
<1>3. CleanStop => Safe
  BY DEF CleanStop
<1>4. QuietStopClean <=> [](Early => []Safe)
  BY DEF QuietStopClean
<1> HIDE DEF Early, Safe
<1> QED
  BY <1>1, <1>2, <1>3, <1>4, Invariance, PTL DEF Spec
-----------------------------------------------------------------------------
(* Any Stop                                                                *)

\* c was registered in time: it still is or it was removed, and where Stop has been
\* woken or is past its wait it was removed.
InTime(c) ==
    /\ c \in wsClients \/ conn[c] = "closed"
    /\ stop \in {"woken", "drained", "cancelled", "returned"} => c \notin wsClients

\* Nobody but DelClientConn opens or closes a connection that was made, registers, or
\* moves Stop.
LEMMA InTimeFrame ==
    ASSUME IInv, [Next]_vars, ~AddUpdate, ~DelUpdate, ~Stop, NEW c \in Clients
    PROVE  /\ UNCHANGED <<wsClients, stop>>
           /\ conn[c] = "closed" => conn'[c] = "closed"
<1> USE DEF OnlyHub, OnlyReader, OnlyWriter, OnlyKafka
<1>1. CASE UNCHANGED vars
  BY <1>1 DEF vars
<1>2. CASE Start \/ AddClientConn
  BY <1>2 DEF Start, AddClientConn, AddRecv, AddLockWaits, AddInc, AddExit
<1>3. CASE DelClientConn \/ ReadFromBroadCastWriteToClients
  BY <1>3 DEF DelClientConn, DelRecv, DelLockWaits, DelExit,
              ReadFromBroadCastWriteToClients, CastRecv, CastCopy, FanOut, CastSend, CastExit
<1>4. ASSUME NEW d \in Clients, CreateWsConnection(d)
      PROVE  UNCHANGED <<wsClients, stop>> /\ (conn[c] = "closed" => conn'[c] = "closed")
  BY <1>4 DEF CreateWsConnection, Upgrade, Connect, IInv, TypeOK, ClientsOK
<1>5. ASSUME NEW d \in Clients, ReadFromClient(d) \/ WriteToClient(d)
      PROVE  UNCHANGED <<wsClients, stop, conn>>
  BY <1>5 DEF ReadFromClient, ReadMsg, ReadFail, Publish, PublishAbort, Forward, ReadExit,
              WriteToClient, WriteMsg, WriteStop, WriteExit
<1>6. CASE KafkaWorker \/ ReceiveKafka
  BY <1>6 DEF KafkaWorker, WorkerSend, WorkerExit, ReceiveKafka, ReceiverCheck,
              ReceiverSkip, ReceiverPush
<1> QED
  BY <1>1, <1>2, <1>3, <1>4, <1>5, <1>6 DEF Next, ClientStep

\* A client that was registered in time stays one that was.
LEMMA InTimeStep ==
    ASSUME IInv, [Next]_vars, NEW c \in Clients, InTime(c)
    PROVE  InTime(c)'
<1> USE DEF InTime
<1>1. CASE AddUpdate
  <2>1. adder.conn \in Clients /\ conn[adder.conn] = "open" /\ adder.conn \notin wsClients
    BY <1>1 DEF AddUpdate, IInv, OncePerClient, Arriving, TypeOK, CarrierOK
  <2> QED
    BY <1>1, <2>1 DEF AddUpdate
<1>2. CASE DelUpdate
  <2>1. CASE deleter.conn \in wsClients
    <3>1. /\ wsClients' = wsClients \ {deleter.conn}
          /\ conn' = [conn EXCEPT ![deleter.conn] = "closed"]
          /\ stop' \in {stop, "crashed"} \/ (stop' = "woken" /\ clientsWg = 1)
      BY <1>2, <2>1 DEF DelUpdate, Registered
    <3>2. clientsWg = 1 => c \notin wsClients'
      BY <2>1, <3>1, LastDone
    <3>3. c \in wsClients' \/ conn'[c] = "closed"
      BY <3>1 DEF IInv, TypeOK, ClientsOK
    <3> QED
      BY <3>1, <3>2, <3>3
  <2>2. CASE deleter.conn \notin wsClients
    BY <1>2, <2>2 DEF DelUpdate, Registered
  <2> QED
    BY <2>1, <2>2
<1>3. CASE Stop
  BY <1>3, LastDone DEF Stop, StopBegin, StopShutdown, StopRLock, StopPush, StopWait, StopResume,
              StopCancel, StopReturn, StopMove, OnlyStop
<1>4. CASE ~AddUpdate /\ ~DelUpdate /\ ~Stop
  BY <1>4, InTimeFrame
<1> QED
  BY <1>1, <1>2, <1>3, <1>4

\* Whatever else connects meanwhile and however full the channels are: Stop ends the
\* goroutines only after every client that was registered before the end of its wait
\* is removed, and none of them comes back.
THEOREM StopWaitsForAll == Spec => WaitedForLeave
<1> SUFFICES ASSUME NEW c \in Clients
             PROVE  Spec => [](BeforeDrain /\ c \in wsClients =>
                      [](stop \in {"drained", "cancelled", "returned"} => c \notin wsClients))
  BY DEF WaitedForLeave
<1> DEFINE Early == BeforeDrain /\ c \in wsClients
           Safe == stop \in {"drained", "cancelled", "returned"} => c \notin wsClients
<1>1. Early => InTime(c)
  BY DEF BeforeDrain, InTime
<1>2. IInv /\ InTime(c) /\ [Next]_vars => InTime(c)'
  BY InTimeStep
<1>3. InTime(c) => Safe
  BY DEF InTime
<1> HIDE DEF Early, Safe
<1>4. Spec => [](Early => []Safe)
  BY <1>1, <1>2, <1>3, Invariance, PTL DEF Spec
<1> QED
  BY <1>4 DEF Early, Safe
=============================================================================
