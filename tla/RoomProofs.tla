------------------------------ MODULE RoomProofs ------------------------------
(***************************************************************************)
(* Federation implements ChatRoom: for any clients and servers, any        *)
(* capacities, and whatever stops, crashes, restarts and failures are      *)
(* allowed, the messages a server shows come in an order ChatRoom allows.  *)
(***************************************************************************)
EXTENDS FederationProofs

\* What a server has shown or is about to show, and what it hands to the others.
Displayed(s) == Range(view[s]) \cup Range(broadcast[s])
Bridged(s) == Range(kChan[s]) \cup Range(out[s]) \cup Range(topic)

\* The pairs of messages of which the second may follow the first: in a queue of
\* the bridge one client's come in order; on a screen, moreover, no message comes
\* after one that answers it.
InOrder == {p \in Messages \X Messages : p[1].client = p[2].client => p[1].n < p[2].n}
MayFollow == {p \in InOrder : <<Name(p[2]), Name(p[1])>> \notin after}

Sorted(q, R) == \A i, j \in DOMAIN q : i < j => <<q[i], q[j]>> \in R
Before(A, B, R) == \A x \in A, y \in B : <<x, y>> \in R

\* Every message in a queue was said, the one a reader carries was said last, and
\* what answers another was said too.
Known ==
    /\ \A s \in Servers : \A m \in Displayed(s) \cup Bridged(s) : m.n <= sent[m.client]
    /\ \A c \in Clients : reader[c] \in {"publish", "forward"} => held[c].n = sent[c]
    /\ \A p \in after : \E c \in Clients : \E n \in 1..sent[c] : p[2] = [client |-> c, n |-> n]

\* What a reader has still to put into broadcast, or into KChan, is not there yet.
Fresh ==
    \A c \in Clients :
        /\ reader[c] = "publish" =>
              \A m \in Displayed(Home[c]) : m.client = c => m.n < sent[c]
        /\ reader[c] \in {"publish", "forward"} =>
              \A m \in Bridged(Home[c]) : m.client = c => m.n < sent[c]

\* The way of a message into the log t: k is a KChan, o what its producer holds.
InLine(t, o, k) ==
    /\ Sorted(o, InOrder) /\ Sorted(k, InOrder)
    /\ Before(Range(t), Range(o) \cup Range(k), InOrder)
    /\ Before(Range(o), Range(k), InOrder)

\* That way, the log included, keeps the order.
Queued == Sorted(topic, InOrder) /\ \A s \in Servers : InLine(topic, out[s], kChan[s])

\* Before its consumer has joined, a process has shown nothing of other servers.
Idle ==
    \A s \in Servers :
        /\ phase[s] = "down" => receiver[s] = "off"
        /\ phase[s] = "down" \/ receiver[s] = "join" =>
              \A m \in Displayed(s) : Home[m.client] = s

\* A server got the messages of the others from the part of the log that its
\* consumer has read in this life of the process.
Read(s, m) == \E i \in 1..Len(topic) : i <= cursor[s] /\ topic[i] = m
Fetched ==
    \A s \in Servers : \A m \in Displayed(s) : Home[m.client] # s =>
        cursor[s] \in Nat /\ Read(s, m)

Seen(s, x) == \E z \in Range(view[s]) : Name(z) = x

\* What a client's message answers is still on its own server's screen.
Heeded ==
    \A p \in after :
        /\ \A s \in Servers : \A m \in Displayed(s) :
              Home[m.client] = s /\ p[2] = Name(m) => Seen(s, p[1])
        /\ \A c \in Clients :
              reader[c] = "publish" /\ p[2] = Name(held[c]) => Seen(Home[c], p[1])

\* What a message answers is in the log, and before it.
Answered ==
    \A p \in after : \E i \in DOMAIN topic :
        /\ Name(topic[i]) = p[1]
        /\ \A j \in DOMAIN topic : Name(topic[j]) = p[2] => i < j

\* What waits for display may be shown in that order after what is shown.
Showable ==
    \A s \in Servers :
        /\ Sorted(broadcast[s], MayFollow)
        /\ Before(Range(view[s]), Range(broadcast[s]), MayFollow)

\* In this step the process at s ends.
Ended(s) == \E p : End(s, p)

\* The conjunction that every step preserves.
RoomInv == Known /\ Fresh /\ Queued /\ Idle /\ Fetched /\ Heeded /\ Answered /\ Showable
-----------------------------------------------------------------------------
(* Queues                                                                  *)

\* What is in a queue after a message was put in, and before one was taken out.
LEMMA RangeAppend ==
    ASSUME NEW S, NEW q \in Seq(S), NEW x \in S
    PROVE  Range(Append(q, x)) = Range(q) \cup {x}
<1>1. Len(q) \in Nat /\ DOMAIN q = 1..Len(q) /\ DOMAIN Append(q, x) = 1..(Len(q) + 1)
  BY LenProperties, AppendProperties
<1>2. /\ \A i \in 1..Len(q) : Append(q, x)[i] = q[i]
      /\ Append(q, x)[Len(q) + 1] = x
  BY AppendProperties
<1>3. ASSUME NEW y \in Range(Append(q, x)) PROVE y \in Range(q) \cup {x}
  <2>1. PICK i \in 1..(Len(q) + 1) : y = Append(q, x)[i]
    BY <1>1, <1>3 DEF Range
  <2>2. i \in 1..Len(q) \/ i = Len(q) + 1
    BY <1>1, <2>1
  <2> QED
    BY <1>1, <1>2, <2>1, <2>2 DEF Range
<1>4. ASSUME NEW y \in Range(q) PROVE y \in Range(Append(q, x))
  <2>1. PICK i \in 1..Len(q) : y = q[i]
    BY <1>1, <1>4 DEF Range
  <2>2. i \in DOMAIN Append(q, x) /\ Append(q, x)[i] = y
    BY <1>1, <1>2, <2>1
  <2> QED
    BY <2>2 DEF Range
<1>5. x \in Range(Append(q, x))
  <2>1. Len(q) + 1 \in DOMAIN Append(q, x)
    BY <1>1
  <2> QED
    BY <1>2, <2>1 DEF Range
<1> QED
  BY <1>3, <1>4, <1>5

LEMMA HeadTail ==
    ASSUME NEW S, NEW q \in Seq(S), q # <<>>
    PROVE  /\ Len(q) \in Nat /\ Len(q) > 0 /\ DOMAIN q = 1..Len(q)
           /\ DOMAIN Tail(q) = 1..(Len(q) - 1) /\ Tail(q) \in Seq(S)
           /\ Head(q) = q[1] /\ \A i \in 1..(Len(q) - 1) : Tail(q)[i] = q[i + 1]
BY HeadTailProperties, LenProperties, EmptySeq

LEMMA RangeTail ==
    ASSUME NEW S, NEW q \in Seq(S), q # <<>>
    PROVE  Range(q) = {Head(q)} \cup Range(Tail(q))
<1>1. ASSUME NEW y \in Range(q) PROVE y = Head(q) \/ y \in Range(Tail(q))
  <2>1. PICK i \in 1..Len(q) : y = q[i]
    BY <1>1, HeadTail DEF Range
  <2>2. CASE i = 1
    BY <2>1, <2>2, HeadTail
  <2>3. CASE i # 1
    <3>1. i - 1 \in DOMAIN Tail(q) /\ Tail(q)[i - 1] = y
      BY <2>1, <2>3, HeadTail
    <3> QED
      BY <3>1 DEF Range
  <2> QED
    BY <2>2, <2>3
<1>2. Head(q) \in Range(q)
  <2>1. 1 \in DOMAIN q /\ q[1] = Head(q)
    BY HeadTail
  <2> QED
    BY <2>1 DEF Range
<1>3. ASSUME NEW y \in Range(Tail(q)) PROVE y \in Range(q)
  <2>1. PICK i \in 1..(Len(q) - 1) : y = Tail(q)[i]
    BY <1>3, HeadTail DEF Range
  <2>2. i + 1 \in DOMAIN q /\ q[i + 1] = y
    BY <2>1, HeadTail
  <2> QED
    BY <2>2 DEF Range
<1> QED
  BY <1>1, <1>2, <1>3

LEMMA RangeEmpty == Range(<<>>) = {}
BY DEF Range

LEMMA RangeIn == ASSUME NEW S, NEW q \in Seq(S) PROVE Range(q) \subseteq S
BY LenProperties DEF Range

LEMMA SortedEmpty == ASSUME NEW R PROVE Sorted(<<>>, R)
BY DEF Sorted

\* A sorted queue stays sorted when what is put in may follow all that is there.
LEMMA SortedAppend ==
    ASSUME NEW S, NEW q \in Seq(S), NEW x \in S, NEW R, Sorted(q, R),
           \A y \in Range(q) : <<y, x>> \in R
    PROVE  Sorted(Append(q, x), R)
<1>1. Len(q) \in Nat /\ DOMAIN q = 1..Len(q) /\ DOMAIN Append(q, x) = 1..(Len(q) + 1)
  BY LenProperties, AppendProperties
<1>2. /\ \A i \in 1..Len(q) : Append(q, x)[i] = q[i]
      /\ Append(q, x)[Len(q) + 1] = x
  BY AppendProperties
<1> SUFFICES ASSUME NEW i \in 1..(Len(q) + 1), NEW j \in 1..(Len(q) + 1), i < j
             PROVE  <<Append(q, x)[i], Append(q, x)[j]>> \in R
  BY <1>1 DEF Sorted
<1>3. i \in 1..Len(q) /\ q[i] \in Range(q)
  BY <1>1 DEF Range
<1>4. CASE j = Len(q) + 1
  BY <1>2, <1>3, <1>4
<1>5. CASE j \in 1..Len(q)
  BY <1>1, <1>2, <1>3, <1>5 DEF Sorted
<1> QED
  BY <1>1, <1>4, <1>5

\* The head of a sorted queue may precede the rest, which is sorted.
LEMMA SortedTail ==
    ASSUME NEW S, NEW q \in Seq(S), q # <<>>, NEW R, Sorted(q, R)
    PROVE  Sorted(Tail(q), R) /\ \A y \in Range(Tail(q)) : <<Head(q), y>> \in R
<1>1. ASSUME NEW i \in 1..(Len(q) - 1), NEW j \in 1..(Len(q) - 1), i < j
      PROVE  <<Tail(q)[i], Tail(q)[j]>> \in R
  <2>1. i + 1 \in DOMAIN q /\ j + 1 \in DOMAIN q /\ i + 1 < j + 1
    BY <1>1, HeadTail
  <2>2. <<q[i + 1], q[j + 1]>> \in R
    BY <2>1 DEF Sorted
  <2> QED
    BY <2>2, HeadTail
<1>2. ASSUME NEW i \in 1..(Len(q) - 1) PROVE <<Head(q), Tail(q)[i]>> \in R
  <2>1. 1 \in DOMAIN q /\ i + 1 \in DOMAIN q /\ 1 < i + 1
    BY <1>2, HeadTail
  <2>2. <<q[1], q[i + 1]>> \in R
    BY <2>1 DEF Sorted
  <2> QED
    BY <2>2, HeadTail
<1> QED
  BY <1>1, <1>2, HeadTail DEF Sorted, Range

\* Only the pairs of what is in the queue matter.
LEMMA SortedWiden ==
    ASSUME NEW q, NEW R, NEW T, Sorted(q, R),
           \A x, y \in Range(q) : <<x, y>> \in R => <<x, y>> \in T
    PROVE  Sorted(q, T)
BY DEF Sorted, Range

\* In a sorted queue of messages an equal name is an equal place.
LEMMA SortedPlace ==
    ASSUME NEW q \in Seq(Messages), Sorted(q, InOrder), NEW i \in DOMAIN q, NEW j \in DOMAIN q,
           q[i].client = q[j].client, q[i].n <= q[j].n
    PROVE  i <= j
<1>1. i \in Nat /\ j \in Nat /\ q[i] \in Messages /\ q[j] \in Messages
  BY LenProperties, ElementOfSeq
<1>2. q[i].n \in Nat /\ q[j].n \in Nat
  BY <1>1, Constants DEF Messages
<1>3. CASE j < i
  <2>1. <<q[j], q[i]>> \in InOrder
    BY <1>3 DEF Sorted
  <2>2. q[j].n < q[i].n
    BY <2>1 DEF InOrder
  <2> QED
    BY <1>2, <2>2
<1> QED
  BY <1>1, <1>3

LEMMA Ordered ==
    ASSUME NEW x, NEW y
    PROVE  <<x, y>> \in InOrder <=>
               x \in Messages /\ y \in Messages /\ (x.client = y.client => x.n < y.n)
BY DEF InOrder

\* The steps of a message into the log: into KChan, on to the producer (or out of
\* the queue), into the log (or out of it); and one of another client.
LEMMA LinePut ==
    ASSUME NEW t, NEW o, NEW k \in Seq(Messages), InLine(t, o, k), NEW x \in Messages,
           \A y \in Range(t) \cup Range(o) \cup Range(k) : <<y, x>> \in InOrder
    PROVE  InLine(t, o, Append(k, x))
<1>1. Range(Append(k, x)) = Range(k) \cup {x}
  BY RangeAppend
<1>2. Sorted(Append(k, x), InOrder)
  BY SortedAppend DEF InLine
<1> QED
  BY <1>1, <1>2 DEF InLine, Before

LEMMA LineMove ==
    ASSUME NEW t, NEW o \in Seq(Messages), NEW k \in Seq(Messages), k # <<>>, InLine(t, o, k),
           NEW y \in Messages, y.client = Head(k).client, y.n = Head(k).n
    PROVE  InLine(t, o, Tail(k)) /\ InLine(t, Append(o, y), Tail(k))
<1>1. Range(k) = {Head(k)} \cup Range(Tail(k)) /\ Range(Append(o, y)) = Range(o) \cup {y}
  BY RangeTail, RangeAppend
<1>2. Sorted(Tail(k), InOrder) /\ \A z \in Range(Tail(k)) : <<Head(k), z>> \in InOrder
  BY SortedTail DEF InLine
<1>3. \A z \in Range(t) \cup Range(o) : <<z, y>> \in InOrder
  <2>1. \A z \in Range(t) \cup Range(o) : <<z, Head(k)>> \in InOrder
    BY <1>1 DEF InLine, Before
  <2> QED
    BY <2>1, Ordered
<1>4. \A z \in Range(Tail(k)) : <<y, z>> \in InOrder
  BY <1>2, Ordered
<1>5. Sorted(Append(o, y), InOrder)
  BY <1>3, SortedAppend DEF InLine
<1> QED
  BY <1>1, <1>2, <1>3, <1>4, <1>5 DEF InLine, Before

LEMMA LineDeliver ==
    ASSUME NEW t \in Seq(Messages), NEW o \in Seq(Messages), NEW k, o # <<>>,
           Sorted(t, InOrder), InLine(t, o, k)
    PROVE  /\ InLine(t, Tail(o), k)
           /\ Sorted(Append(t, Head(o)), InOrder) /\ InLine(Append(t, Head(o)), Tail(o), k)
<1>1. Head(o) \in Messages /\ Range(o) = {Head(o)} \cup Range(Tail(o))
  BY RangeTail, Take
<1>2. Range(Append(t, Head(o))) = Range(t) \cup {Head(o)}
  BY <1>1, RangeAppend
<1>3. Sorted(Tail(o), InOrder) /\ \A z \in Range(Tail(o)) : <<Head(o), z>> \in InOrder
  BY SortedTail DEF InLine
<1>4. Sorted(Append(t, Head(o)), InOrder)
  BY <1>1, SortedAppend DEF InLine, Before
<1> QED
  BY <1>1, <1>2, <1>3, <1>4 DEF InLine, Before

LEMMA LineOther ==
    ASSUME NEW t \in Seq(Messages), NEW o \in Seq(Messages), NEW k \in Seq(Messages),
           InLine(t, o, k), NEW x \in Messages,
           \A y \in Range(o) \cup Range(k) : y.client # x.client
    PROVE  InLine(Append(t, x), o, k)
<1>1. Range(Append(t, x)) = Range(t) \cup {x}
  BY RangeAppend
<1>2. \A y \in Range(o) \cup Range(k) : <<x, y>> \in InOrder
  BY RangeIn DEF InOrder
<1> QED
  BY <1>1, <1>2 DEF InLine, Before

LEMMA LineEmpty == ASSUME NEW t PROVE InLine(t, <<>>, <<>>)
BY SortedEmpty, RangeEmpty DEF InLine, Before
-----------------------------------------------------------------------------
(* What a step does to the queues                                          *)

\* The types of what the queues hold, and where it comes from.
LEMMA Queues ==
    ASSUME IInv
    PROVE  /\ topic \in Seq(Messages)
           /\ view \in [Servers -> Seq(Messages)] /\ broadcast \in [Servers -> Seq(Messages)]
           /\ kChan \in [Servers -> Seq(Messages)] /\ out \in [Servers -> Seq(Messages)]
           /\ \A m \in Range(topic) : m.host = Home[m.client]
           /\ \A s \in Servers :
                 /\ view[s] \in Seq(Messages) /\ broadcast[s] \in Seq(Messages)
                 /\ kChan[s] \in Seq(Messages) /\ out[s] \in Seq(Messages)
                 /\ Displayed(s) \subseteq Messages /\ Bridged(s) \subseteq Messages
                 /\ \A m \in Range(kChan[s]) \cup Range(out[s]) : Home[m.client] = s
<1>1. /\ topic \in Seq(Messages)
      /\ view \in [Servers -> Seq(Messages)] /\ broadcast \in [Servers -> Seq(Messages)]
      /\ kChan \in [Servers -> Seq(Messages)] /\ out \in [Servers -> Seq(Messages)]
      /\ \A s \in Servers : /\ view[s] \in Seq(Messages) /\ broadcast[s] \in Seq(Messages)
                            /\ kChan[s] \in Seq(Messages) /\ out[s] \in Seq(Messages)
  BY DEF IInv, TypeOK, Queue
<1>2. \A s \in Servers : Displayed(s) \subseteq Messages /\ Bridged(s) \subseteq Messages
  BY <1>1, RangeIn DEF Displayed, Bridged
<1>3. Range(topic) \subseteq Truthful
  BY RangeIn DEF IInv, Routed
<1>4. \A s \in Servers : /\ Range(kChan[s]) \subseteq LocalMessages(s)
                         /\ Range(out[s]) \subseteq StampedMessages(s)
  BY RangeIn DEF IInv, Routed
<1> QED
  BY <1>1, <1>2, <1>3, <1>4 DEF Truthful, LocalMessages, StampedMessages

\* The message that ReceiveKafka takes.
LEMMA Received ==
    ASSUME IInv, NEW s \in Servers, receiver[s] = "poll", cursor[s] < Len(topic)
    PROVE  /\ cursor[s] \in Nat /\ cursor[s] + 1 \in DOMAIN topic
           /\ topic[cursor[s] + 1] \in Messages /\ topic[cursor[s] + 1] \in Range(topic)
           /\ Own(s, topic[cursor[s] + 1]) <=> Home[topic[cursor[s] + 1].client] = s
<1>1. topic \in Seq(Messages) /\ DOMAIN topic = 1..Len(topic) /\ Len(topic) \in Nat
  BY Queues, LenProperties
<1>2. cursor[s] \in Nat /\ cursor[s] + 1 \in DOMAIN topic
  BY <1>1 DEF IInv, Placed
<1>3. topic[cursor[s] + 1] \in Messages /\ topic[cursor[s] + 1] \in Range(topic)
  BY <1>1, <1>2, ElementOfSeq DEF Range
<1> QED
  BY <1>2, <1>3, Queues DEF Own

\* Only the Host of a message changes on its way.
LEMMA Stamping ==
    ASSUME NEW s \in Servers, NEW x \in Messages
    PROVE  Stamped(x, s) \in Messages /\ Stamped(x, s).client = x.client /\ Stamped(x, s).n = x.n
BY DEF Stamped, Messages

\* The process at s ends: nothing is left of it.
LEMMA EndedStep ==
    ASSUME IInv, NEW s \in Servers, Ended(s)
    PROVE  /\ phase'[s] = "down" /\ receiver'[s] = "off"
           /\ view'[s] = <<>> /\ broadcast'[s] = <<>> /\ Displayed(s)' = {}
BY RangeEmpty DEF Ended, End, Displayed, IInv, TypeOK

\* What is displayed after a step was so before, or came from a local reader or
\* from the consumer.
LEMMA DisplayedStep ==
    ASSUME IInv, [Next]_vars, NEW s \in Servers, NEW m \in Displayed(s)'
    PROVE  \/ m \in Displayed(s) /\ ~Ended(s)
           \/ \E c \in Clients : Publish(c) /\ Home[c] = s /\ m = held[c]
           \/ /\ ReceiveKafka(s) /\ m = topic[cursor[s] + 1] /\ Home[m.client] # s
              /\ m \in Range(topic)
<1> USE Constants DEF serverVars, clientVars, localVars, kafkaVars, groupVars
<1>6. ~Ended(s)
  BY EndedStep
<1>1. CASE UNCHANGED <<view, broadcast>>
  BY <1>1, <1>6 DEF Displayed
<1>2. ASSUME NEW c \in Clients, Publish(c)
      PROVE  m \in Displayed(s) \/ (Home[c] = s /\ m = held[c])
  <2>1. held[c] \in Messages /\ broadcast[Home[c]] \in Seq(Messages)
    BY <1>2, Queues DEF Publish, IInv, Carried
  <2>2. Range(broadcast'[s]) \subseteq Range(broadcast[s]) \cup
                               (IF Home[c] = s THEN {held[c]} ELSE {})
    BY <1>2, <2>1, RangeAppend DEF Publish, IInv, TypeOK
  <2> QED
    BY <1>2, <2>2 DEF Publish, Displayed
<1>3. ASSUME NEW t \in Servers, Broadcast(t) PROVE m \in Displayed(s)
  <2>1. broadcast[t] \in Seq(Messages) /\ broadcast[t] # <<>> /\ view[t] \in Seq(Messages)
    BY <1>3, Queues DEF Broadcast
  <2>2. Range(broadcast[t]) = {Head(broadcast[t])} \cup Range(Tail(broadcast[t]))
    BY <2>1, RangeTail
  <2>3. Range(Append(view[t], Head(broadcast[t]))) = Range(view[t]) \cup {Head(broadcast[t])}
    BY <2>1, RangeAppend, HeadTailProperties
  <2> QED
    BY <1>3, <2>2, <2>3 DEF Broadcast, Displayed, IInv, TypeOK
<1>4. ASSUME NEW t \in Servers, ReceiveKafka(t)
      PROVE  m \in Displayed(s) \/ (t = s /\ m = topic[cursor[s] + 1]
                                       /\ Home[m.client] # s /\ m \in Range(topic))
  <2> DEFINE x == topic[cursor[t] + 1]
  <2>1. x \in Messages /\ x \in Range(topic) /\ (Own(t, x) <=> Home[x.client] = t)
    BY <1>4, Received DEF ReceiveKafka
  <2>2. CASE UNCHANGED broadcast
    BY <1>4, <2>2 DEF ReceiveKafka, Displayed
  <2>3. CASE ~Own(t, x) /\ broadcast' = [broadcast EXCEPT ![t] = Append(@, x)]
    <3>1. Range(broadcast'[s]) \subseteq Range(broadcast[s]) \cup (IF t = s THEN {x} ELSE {})
      <4>1. broadcast \in [Servers -> Seq(Messages)]
        BY Queues
      <4> HIDE DEF x
      <4>2. broadcast'[s] = IF t = s THEN Append(broadcast[s], x) ELSE broadcast[s]
        BY <2>3, <4>1
      <4>3. Range(Append(broadcast[s], x)) = Range(broadcast[s]) \cup {x}
        BY <2>1, <4>1, RangeAppend
      <4> QED
        BY <4>2, <4>3
    <3> QED
      BY <1>4, <2>1, <2>3, <3>1 DEF ReceiveKafka, Displayed
  <2> QED
    BY <1>4, <2>2, <2>3 DEF ReceiveKafka
<1>5. ASSUME NEW t \in Servers, NEW p, End(t, p) PROVE m \in Displayed(s)
  <2>1. t # s
    BY <1>5, <1>6 DEF Ended
  <2> QED
    BY <1>5, <2>1 DEF End, Displayed, IInv, TypeOK
<1> QED
  BY <1>1, <1>2, <1>3, <1>4, <1>5, <1>6
  DEF Next, ReadFromClient, ReadMsg, Abort, Forward, Bridge, KafkaWorker, Deliver,
      DeliveryFailed, Assign, Commit, ReceiverExit, Process, Start, Stop, StopBegin, StopWaits,
      StopFlushes, StopEnds, Crash, vars

\* What the bridge holds after a step it held before, perhaps without the Host, or
\* it came from a local reader.
LEMMA BridgedStep ==
    ASSUME IInv, [Next]_vars, NEW s \in Servers, NEW m \in Bridged(s)'
    PROVE  \/ \E t \in {s, Home[m.client]} : \E k \in Bridged(t) :
                 t \in Servers /\ k.client = m.client /\ k.n = m.n
           \/ \E c \in Clients : Forward(c) /\ Home[c] = s /\ m = held[c]
<1> USE Constants DEF serverVars, clientVars, localVars, kafkaVars, groupVars
<1> DEFINE Old == \E t \in {s, Home[m.client]} : \E k \in Bridged(t) :
                      t \in Servers /\ k.client = m.client /\ k.n = m.n
<1>0. m \in Bridged(s) => Old
  OBVIOUS
<1>1. CASE UNCHANGED kafkaVars
  BY <1>0, <1>1 DEF Bridged
<1>2. ASSUME NEW c \in Clients, Forward(c) PROVE m \in Bridged(s) \/ (Home[c] = s /\ m = held[c])
  <2>1. held[c] \in Messages /\ kChan[Home[c]] \in Seq(Messages)
    BY <1>2, Queues DEF Forward, IInv, Carried
  <2>2. Range(kChan'[s]) \subseteq Range(kChan[s]) \cup (IF Home[c] = s THEN {held[c]} ELSE {})
    <3>1. kChan' = kChan \/ kChan' = [kChan EXCEPT ![Home[c]] = Append(@, held[c])]
      BY <1>2 DEF Forward
    <3>2. kChan \in [Servers -> Seq(Messages)] /\ Home[c] \in Servers
      BY Queues
    <3>3. kChan'[s] = kChan[s] \/ (Home[c] = s /\ kChan'[s] = Append(kChan[s], held[c]))
      BY <3>1, <3>2
    <3>4. Range(Append(kChan[s], held[c])) = Range(kChan[s]) \cup {held[c]}
      BY <2>1, <3>2, RangeAppend
    <3> QED
      BY <3>3, <3>4
  <2> QED
    BY <1>2, <2>2 DEF Forward, Bridged
<1>3. ASSUME NEW t \in Servers, KafkaWorker(t) PROVE Old
  <2> DEFINE x == Head(kChan[t])
  <2>1. kChan[t] \in Seq(Messages) /\ kChan[t] # <<>> /\ out[t] \in Seq(Messages)
    BY <1>3, Queues DEF KafkaWorker
  <2>0. x \in Messages
    BY <2>1, Take
  <2>2. Stamped(x, t) \in Messages /\ Stamped(x, t).client = x.client /\ Stamped(x, t).n = x.n
    BY <2>0, Stamping
  <2>3. Range(kChan[t]) = {x} \cup Range(Tail(kChan[t]))
    BY <2>1, RangeTail
  <2>4. Range(kChan'[s]) \subseteq Range(kChan[s])
    BY <1>3, <2>3 DEF KafkaWorker, IInv, TypeOK
  <2>5. Range(out'[s]) \subseteq Range(out[s]) \cup (IF t = s THEN {Stamped(x, t)} ELSE {})
    <3>1. out' = out \/ out' = [out EXCEPT ![t] = Append(@, Stamped(x, t))]
      BY <1>3 DEF KafkaWorker
    <3>2. out \in [Servers -> Seq(Messages)]
      BY Queues
    <3> HIDE DEF x
    <3>3. out'[s] = out[s] \/ (t = s /\ out'[s] = Append(out[s], Stamped(x, t)))
      BY <3>1, <3>2
    <3>4. Range(Append(out[s], Stamped(x, t))) = Range(out[s]) \cup {Stamped(x, t)}
      BY <2>2, <3>2, RangeAppend
    <3> QED
      BY <3>3, <3>4
  <2>6. topic' = topic
    BY <1>3 DEF KafkaWorker
  <2>7. m \in Bridged(s) \/ (t = s /\ m = Stamped(x, t))
    BY <2>4, <2>5, <2>6 DEF Bridged
  <2>8. x \in Bridged(t)
    BY <2>3 DEF Bridged
  <2> HIDE DEF x
  <2> QED
    BY <2>0, <2>2, <2>7, <2>8
<1>4. ASSUME NEW t \in Servers, Deliver(t) PROVE Old
  <2> DEFINE x == Head(out[t])
  <2>1. out[t] \in Seq(Messages) /\ out[t] # <<>> /\ topic \in Seq(Messages)
    BY <1>4, Queues DEF Deliver
  <2>2. Range(out[t]) = {x} \cup Range(Tail(out[t])) /\ x \in Messages
    BY <2>1, RangeTail, Take
  <2>3. Range(topic') = Range(topic) \cup {x}
    BY <1>4, <2>1, <2>2, RangeAppend DEF Deliver
  <2>4. Range(out'[s]) \subseteq Range(out[s])
    BY <1>4, <2>2 DEF Deliver, IInv, TypeOK
  <2>5. kChan' = kChan
    BY <1>4 DEF Deliver
  <2>6. m \in Bridged(s) \/ m = x
    BY <2>3, <2>4, <2>5 DEF Bridged
  <2>7. x \in Bridged(t) /\ Home[x.client] = t
    BY <2>2, Queues DEF Bridged
  <2> HIDE DEF x
  <2> QED
    BY <2>6, <2>7
<1>5. ASSUME NEW t \in Servers, DeliveryFailed(t) PROVE m \in Bridged(s)
  <2>1. Range(out[t]) = {Head(out[t])} \cup Range(Tail(out[t]))
    BY <1>5, Queues, RangeTail DEF DeliveryFailed
  <2> QED
    BY <1>5, <2>1 DEF DeliveryFailed, Bridged, IInv, TypeOK
<1>6. ASSUME NEW t \in Servers, NEW p, End(t, p) PROVE m \in Bridged(s)
  BY <1>6, RangeEmpty DEF End, Bridged, IInv, TypeOK
<1> QED
  BY <1>0, <1>1, <1>2, <1>3, <1>4, <1>5, <1>6
  DEF Next, ReadFromClient, ReadMsg, Publish, Abort, Broadcast, Bridge, Assign, ReceiveKafka,
      Commit, ReceiverExit, Process, Start, Stop, StopBegin, StopWaits, StopFlushes, StopEnds,
      Crash, vars

\* What a reader carries after a step it carried before, or has just read.
LEMMA ReaderStep ==
    ASSUME IInv, [Next]_vars, NEW c \in Clients, reader'[c] \in {"publish", "forward"}
    PROVE  \/ /\ reader'[c] = "publish"
              /\ \E h \in Servers \cup {None} : ReadMsg(c, h)
           \/ /\ held'[c] = held[c] /\ sent'[c] = sent[c] /\ ~Forward(c)
              /\ \/ reader'[c] = reader[c] /\ ~Publish(c)
                 \/ reader[c] = "publish" /\ reader'[c] = "forward"
              /\ ~Ended(Home[c])
<1> USE Constants DEF serverVars, clientVars, localVars, kafkaVars, groupVars
<1>0. ~Ended(Home[c])
  <2>1. CASE sent[c] > 0
    BY <2>1 DEF Ended, End, Locals, IInv, TypeOK
  <2>2. CASE ~(sent[c] > 0)
    BY <2>2 DEF Ended, End, Locals, IInv, TypeOK, Carried
  <2> QED
    BY <2>1, <2>2
<1>1. ~Forward(c) /\ (Publish(c) => reader[c] = "publish" /\ reader'[c] = "forward")
  BY DEF Forward, Publish, IInv, TypeOK
<1>2. ASSUME NEW b \in Clients, NEW h \in Servers \cup {None}, ReadMsg(b, h)
      PROVE  \/ b = c /\ reader'[c] = "publish"
             \/ held'[c] = held[c] /\ sent'[c] = sent[c] /\ reader'[c] = reader[c]
  BY <1>2 DEF ReadMsg, IInv, TypeOK
<1>3. ASSUME NEW b \in Clients, Publish(b) \/ Abort(b) \/ Forward(b)
      PROVE  /\ held'[c] = held[c] /\ sent'[c] = sent[c]
             /\ reader'[c] = reader[c] \/ (reader[c] = "publish" /\ reader'[c] = "forward")
  BY <1>3 DEF Publish, Abort, Forward, IInv, TypeOK
<1>4. ASSUME NEW t \in Servers, NEW p, End(t, p)
      PROVE  held'[c] = held[c] /\ sent'[c] = sent[c] /\ reader'[c] = reader[c]
  <2>1. t # Home[c]
    BY <1>0, <1>4 DEF Ended
  <2> QED
    BY <1>4, <2>1 DEF End, Locals, IInv, TypeOK
<1>5. CASE UNCHANGED <<reader, held, sent>>
  BY <1>0, <1>1, <1>5
<1> QED
  BY <1>0, <1>1, <1>2, <1>3, <1>4, <1>5
  DEF Next, ReadFromClient, Broadcast, Bridge, KafkaWorker, Deliver, DeliveryFailed, Assign,
      ReceiveKafka, Commit, ReceiverExit, Process, Start, Stop, StopBegin, StopWaits,
      StopFlushes, StopEnds, Crash, vars

\* What a step does to the numbers and the history of answers.
LEMMA SaidStep ==
    ASSUME IInv, [Next]_vars
    PROVE  \/ UNCHANGED <<sent, after>>
           \/ \E c \in Clients, h \in Servers \cup {None} : ReadMsg(c, h)
BY DEF Next, ReadFromClient, Publish, Abort, Forward, Broadcast, Bridge, KafkaWorker, Deliver,
       DeliveryFailed, Assign, ReceiveKafka, Commit, ReceiverExit, Process, Start, Stop,
       StopBegin, StopWaits, StopFlushes, StopEnds, Crash, End, vars,
       serverVars, clientVars, localVars, kafkaVars, groupVars

\* A client that says a new message, and what it changes.
LEMMA Saying ==
    ASSUME IInv, NEW c \in Clients, NEW h \in Servers \cup {None}, ReadMsg(c, h)
    PROVE  /\ sent'[c] = sent[c] + 1 /\ \A b \in Clients \ {c} : sent'[b] = sent[b]
           /\ held'[c] = [client |-> c, n |-> sent[c] + 1, host |-> h]
           /\ UNCHANGED <<view, broadcast, kChan, out, topic, cursor>>
BY DEF ReadMsg, Message, IInv, TypeOK, localVars, kafkaVars, groupVars

\* It answers what its server shows of the clients of others.
LEMMA Answering ==
    ASSUME NEW c \in Clients, NEW h \in Servers \cup {None}, ReadMsg(c, h),
           NEW p \in after', p \notin after
    PROVE  /\ p[2] = [client |-> c, n |-> sent[c] + 1]
           /\ \E m \in Range(view[Home[c]]) : Home[m.client] # Home[c] /\ p[1] = Name(m)
BY DEF ReadMsg, Heard, Name

\* What a step does to the log.
LEMMA LogStep ==
    ASSUME IInv, [Next]_vars
    PROVE  /\ UNCHANGED topic \/ \E t \in Servers : Deliver(t)
           /\ Len(topic) \in Nat /\ DOMAIN topic = 1..Len(topic)
           /\ DOMAIN topic' = 1..Len(topic') /\ Len(topic') \in {Len(topic), Len(topic) + 1}
           /\ \A i \in DOMAIN topic : topic'[i] = topic[i]
<1>1. topic \in Seq(Messages) /\ Len(topic) \in Nat /\ DOMAIN topic = 1..Len(topic)
  BY Queues, LenProperties
<1>2. UNCHANGED topic \/ \E t \in Servers : Deliver(t)
  BY DEF Next, ReadFromClient, ReadMsg, Publish, Abort, Forward, Broadcast, Bridge, KafkaWorker,
         DeliveryFailed, Assign, ReceiveKafka, Commit, ReceiverExit, Process, Start, Stop,
         StopBegin, StopWaits, StopFlushes, StopEnds, Crash, End, vars,
         serverVars, clientVars, localVars, kafkaVars, groupVars
<1>3. ASSUME NEW t \in Servers, Deliver(t)
      PROVE  /\ DOMAIN topic' = 1..Len(topic') /\ Len(topic') = Len(topic) + 1
             /\ \A i \in DOMAIN topic : topic'[i] = topic[i]
  <2>1. Head(out[t]) \in Messages
    BY <1>3, Queues, Take DEF Deliver
  <2>2. topic' = Append(topic, Head(out[t]))
    BY <1>3 DEF Deliver
  <2> QED
    BY <1>1, <2>1, <2>2, AppendProperties, LenProperties
<1> QED
  BY <1>1, <1>2, <1>3
-----------------------------------------------------------------------------
(* Every step preserves the parts of the invariant                         *)

LEMMA KnownStep == ASSUME IInv, Known, [Next]_vars PROVE Known'
<1> USE Constants
<1>0. sent \in [Clients -> Nat]
  BY DEF IInv, TypeOK
<1>1. \A c \in Clients : sent'[c] \in Nat /\ sent[c] <= sent'[c]
  <2>1. ASSUME NEW b \in Clients, NEW h \in Servers \cup {None}, ReadMsg(b, h), NEW c \in Clients
        PROVE  sent'[c] \in Nat /\ sent[c] <= sent'[c]
    <3>1. sent'[b] = sent[b] + 1 /\ (c # b => sent'[c] = sent[c])
      BY <2>1, Saying
    <3> QED
      BY <1>0, <3>1
  <2>2. CASE UNCHANGED sent
    BY <1>0, <2>2
  <2> QED
    BY <2>1, <2>2, SaidStep
<1>2. ASSUME NEW s \in Servers, NEW m \in Displayed(s)' PROVE m.n <= sent'[m.client]
  <2>1. CASE m \in Displayed(s) \/ m \in Range(topic)
    <3>1. m.client \in Clients /\ m.n \in Nat /\ m.n <= sent[m.client]
      BY <2>1, Queues DEF Known, Displayed, Bridged, Messages
    <3> QED
      BY <1>0, <1>1, <3>1
  <2>2. ASSUME NEW c \in Clients, Publish(c), m = held[c] PROVE m.n <= sent'[m.client]
    BY <1>0, <2>2 DEF Publish, Known, IInv, Carried
  <2> QED
    BY <2>1, <2>2, DisplayedStep
<1>3. ASSUME NEW s \in Servers, NEW m \in Bridged(s)' PROVE m.n <= sent'[m.client]
  <2>1. ASSUME NEW t \in Servers, NEW k \in Bridged(t), k.client = m.client, k.n = m.n
        PROVE  m.n <= sent'[m.client]
    <3>1. m.client \in Clients /\ m.n \in Nat /\ m.n <= sent[m.client]
      BY <2>1, Queues DEF Known, Messages
    <3> QED
      BY <1>0, <1>1, <3>1
  <2>2. ASSUME NEW c \in Clients, Forward(c), m = held[c] PROVE m.n <= sent'[m.client]
    BY <1>0, <2>2 DEF Forward, Known, IInv, Carried
  <2> QED
    BY <2>1, <2>2, BridgedStep
<1>4. ASSUME NEW c \in Clients, reader'[c] \in {"publish", "forward"} PROVE held'[c].n = sent'[c]
  <2>1. ASSUME NEW h \in Servers \cup {None}, ReadMsg(c, h) PROVE held'[c].n = sent'[c]
    <3>1. held'[c] = [client |-> c, n |-> sent[c] + 1, host |-> h] /\ sent'[c] = sent[c] + 1
      BY <2>1, Saying
    <3> QED
      BY <3>1
  <2> QED
    BY <1>4, <2>1, ReaderStep DEF Known
<1>5. ASSUME NEW p \in after'
      PROVE  \E c \in Clients : \E n \in 1..sent'[c] : p[2] = [client |-> c, n |-> n]
  <2>1. CASE p \in after
    <3>1. PICK c \in Clients : \E n \in 1..sent[c] : p[2] = [client |-> c, n |-> n]
      BY <2>1 DEF Known
    <3>2. PICK n \in 1..sent[c] : p[2] = [client |-> c, n |-> n]
      BY <3>1
    <3>3. n \in 1..sent'[c]
      BY <1>0, <1>1
    <3> QED
      BY <3>2, <3>3
  <2>2. CASE p \notin after
    <3>1. PICK c \in Clients, h \in Servers \cup {None} : ReadMsg(c, h)
      BY <1>5, <2>2, SaidStep
    <3>2. p[2] = [client |-> c, n |-> sent[c] + 1] /\ sent'[c] = sent[c] + 1
      BY <1>5, <2>2, <3>1, Saying, Answering
    <3>3. sent[c] + 1 \in 1..sent'[c]
      BY <1>0, <3>2
    <3> QED
      BY <3>2, <3>3
  <2> QED
    BY <2>1, <2>2
<1> QED
  BY <1>2, <1>3, <1>4, <1>5 DEF Known

LEMMA FreshStep == ASSUME IInv, Known, Fresh, [Next]_vars PROVE Fresh'
<1> USE Constants
<1>0. sent \in [Clients -> Nat]
  BY DEF IInv, TypeOK
<1> SUFFICES ASSUME NEW c \in Clients, reader'[c] \in {"publish", "forward"}
             PROVE  /\ reader'[c] = "publish" =>
                          \A m \in Displayed(Home[c])' : m.client = c => m.n < sent'[c]
                    /\ \A m \in Bridged(Home[c])' : m.client = c => m.n < sent'[c]
  BY DEF Fresh
<1>1. ASSUME NEW h \in Servers \cup {None}, ReadMsg(c, h),
             NEW m \in Displayed(Home[c])' \cup Bridged(Home[c])', m.client = c
      PROVE  m.n < sent'[c]
  <2>1. m \in Displayed(Home[c]) \cup Bridged(Home[c])
    BY <1>1, Saying DEF Displayed, Bridged
  <2>2. m.n \in Nat /\ m.n <= sent[c]
    BY <1>1, <2>1, Queues DEF Known, Messages
  <2>3. sent'[c] = sent[c] + 1
    BY <1>1, Saying
  <2> QED
    BY <1>0, <2>2, <2>3
<1>2. ASSUME sent'[c] = sent[c], reader'[c] = "publish", reader[c] = "publish", ~Publish(c),
             NEW m \in Displayed(Home[c])', m.client = c
      PROVE  m.n < sent'[c]
  <2>1. \/ m \in Displayed(Home[c])
        \/ \E b \in Clients : Publish(b) /\ m = held[b]
    BY <1>2, DisplayedStep
  <2>2. \A b \in Clients : Publish(b) /\ m = held[b] => b = c
    BY <1>2 DEF Publish, IInv, Carried
  <2> QED
    BY <1>2, <2>1, <2>2 DEF Fresh
<1>3. ASSUME sent'[c] = sent[c], reader[c] \in {"publish", "forward"}, ~Forward(c),
             NEW m \in Bridged(Home[c])', m.client = c
      PROVE  m.n < sent'[c]
  <2>1. \/ \E k \in Bridged(Home[c]) : k.client = c /\ k.n = m.n
        \/ \E b \in Clients : Forward(b) /\ m = held[b]
    BY <1>3, BridgedStep
  <2>2. \A b \in Clients : Forward(b) /\ m = held[b] => b = c
    BY <1>3 DEF Forward, IInv, Carried
  <2> QED
    BY <1>3, <2>1, <2>2 DEF Fresh
<1> QED
  BY <1>1, <1>2, <1>3, ReaderStep

LEMMA QueuedStep == ASSUME IInv, Known, Fresh, Queued, [Next]_vars PROVE Queued'
<1> USE Constants DEF serverVars, clientVars, localVars, kafkaVars, groupVars
<1>0. /\ topic \in Seq(Messages) /\ Sorted(topic, InOrder)
      /\ kChan \in [Servers -> Seq(Messages)] /\ out \in [Servers -> Seq(Messages)]
      /\ \A s \in Servers : InLine(topic, out[s], kChan[s])
  BY Queues DEF Queued
<1>1. CASE UNCHANGED kafkaVars
  BY <1>1 DEF Queued
<1>2. ASSUME NEW c \in Clients, Forward(c) PROVE Queued'
  <2> DEFINE s == Home[c]
  <2>1. held[c] \in Messages /\ held[c].client = c /\ held[c].n = sent[c] /\ s \in Servers
    BY <1>2 DEF Forward, IInv, Carried, Known
  <2>2. \A y \in Bridged(s) : y \in Messages /\ (y.client = c => y.n < sent[c])
    BY <1>2, <2>1, Queues DEF Forward, Fresh
  <2>3. \A y \in Range(topic) \cup Range(out[s]) \cup Range(kChan[s]) : <<y, held[c]>> \in InOrder
    BY <2>1, <2>2, Ordered DEF Bridged
  <2>4. InLine(topic, out[s], Append(kChan[s], held[c]))
    BY <1>0, <2>1, <2>3, LinePut
  <2>5. UNCHANGED <<topic, out>> /\ (kChan' = kChan \/ kChan' = [kChan EXCEPT ![s] = Append(@, held[c])])
    BY <1>2 DEF Forward
  <2> HIDE DEF s
  <2>6. \A u \in Servers : kChan'[u] = kChan[u] \/ (u = s /\ kChan'[u] = Append(kChan[s], held[c]))
    BY <1>0, <2>5
  <2> QED
    BY <1>0, <2>4, <2>5, <2>6 DEF Queued
<1>3. ASSUME NEW t \in Servers, KafkaWorker(t) PROVE Queued'
  <2> DEFINE y == Stamped(Head(kChan[t]), t)
  <2>1. kChan[t] # <<>> /\ Head(kChan[t]) \in Messages
    BY <1>0, <1>3, Take DEF KafkaWorker
  <2>2. y \in Messages /\ y.client = Head(kChan[t]).client /\ y.n = Head(kChan[t]).n
    BY <2>1, Stamping
  <2>3. /\ topic' = topic /\ kChan' = [kChan EXCEPT ![t] = Tail(@)]
        /\ out' = out \/ out' = [out EXCEPT ![t] = Append(@, y)]
    BY <1>3 DEF KafkaWorker
  <2> HIDE DEF y
  <2>4. InLine(topic, out[t], Tail(kChan[t])) /\ InLine(topic, Append(out[t], y), Tail(kChan[t]))
    BY <1>0, <2>1, <2>2, LineMove
  <2>5. kChan'[t] = Tail(kChan[t]) /\ (out'[t] = out[t] \/ out'[t] = Append(out[t], y))
    BY <1>0, <2>3
  <2>6. \A u \in Servers \ {t} : kChan'[u] = kChan[u] /\ out'[u] = out[u]
    BY <1>0, <2>3
  <2> QED
    BY <1>0, <2>3, <2>4, <2>5, <2>6 DEF Queued
<1>4. ASSUME NEW t \in Servers, Deliver(t) PROVE Queued'
  <2> DEFINE x == Head(out[t])
  <2>1. out[t] # <<>> /\ x \in Messages /\ Range(out[t]) = {x} \cup Range(Tail(out[t]))
    BY <1>0, <1>4, Take, RangeTail DEF Deliver
  <2>2. topic' = Append(topic, x) /\ kChan' = kChan /\ out' = [out EXCEPT ![t] = Tail(@)]
    BY <1>4 DEF Deliver
  <2>3. Sorted(topic', InOrder) /\ InLine(topic', Tail(out[t]), kChan[t])
    BY <1>0, <2>1, <2>2, LineDeliver
  <2>4. Home[x.client] = t
    BY <2>1, Queues
  <2> HIDE DEF x
  <2>5. ASSUME NEW u \in Servers, u # t PROVE InLine(topic', out[u], kChan[u])
    <3>1. \A y \in Range(out[u]) \cup Range(kChan[u]) : y.client # x.client
      BY <2>4, <2>5, Queues
    <3>2. out[u] \in Seq(Messages) /\ kChan[u] \in Seq(Messages) /\ InLine(topic, out[u], kChan[u])
      BY <1>0
    <3> QED
      BY <1>0, <2>1, <2>2, <3>1, <3>2, LineOther
  <2>6. out'[t] = Tail(out[t]) /\ \A u \in Servers \ {t} : out'[u] = out[u]
    BY <1>0, <2>2
  <2> QED
    BY <2>2, <2>3, <2>5, <2>6 DEF Queued
<1>5. ASSUME NEW t \in Servers, DeliveryFailed(t) PROVE Queued'
  <2>1. out[t] # <<>> /\ UNCHANGED <<topic, kChan>> /\ out' = [out EXCEPT ![t] = Tail(@)]
    BY <1>5 DEF DeliveryFailed
  <2>2. InLine(topic, Tail(out[t]), kChan[t])
    BY <1>0, <2>1, LineDeliver
  <2>3. out'[t] = Tail(out[t]) /\ \A u \in Servers \ {t} : out'[u] = out[u]
    BY <1>0, <2>1
  <2> QED
    BY <1>0, <2>1, <2>2, <2>3 DEF Queued
<1>6. ASSUME NEW t \in Servers, NEW p, End(t, p) PROVE Queued'
  <2>1. topic' = topic /\ kChan'[t] = <<>> /\ out'[t] = <<>>
        /\ \A u \in Servers \ {t} : kChan'[u] = kChan[u] /\ out'[u] = out[u]
    BY <1>0, <1>6 DEF End
  <2> QED
    BY <1>0, <2>1, LineEmpty DEF Queued
<1> QED
  BY <1>1, <1>2, <1>3, <1>4, <1>5, <1>6
  DEF Next, ReadFromClient, ReadMsg, Publish, Abort, Broadcast, Bridge, Assign, ReceiveKafka,
      Commit, ReceiverExit, Process, Start, Stop, StopBegin, StopWaits, StopFlushes, StopEnds,
      Crash, vars

\* What a step does to a server's consumer, and to the phase it depends on.
LEMMA ConsumerStep ==
    ASSUME IInv, [Next]_vars, NEW s \in Servers, ~Ended(s)
    PROVE  /\ phase'[s] = "down" => phase[s] = "down"
           /\ receiver'[s] = "join" => receiver[s] = "join" \/ phase[s] = "down"
           /\ receiver'[s] \in {receiver[s], "off"} \/ receiver[s] = "join" \/ phase'[s] # "down"
           /\ \/ cursor'[s] = cursor[s] \/ receiver[s] = "join"
              \/ receiver[s] = "poll" /\ cursor'[s] = cursor[s] + 1
<1> USE Constants DEF serverVars, clientVars, localVars, kafkaVars, groupVars
<1> DEFINE Goal == /\ phase'[s] = "down" => phase[s] = "down"
                   /\ receiver'[s] = "join" => receiver[s] = "join" \/ phase[s] = "down"
                   /\ receiver'[s] \in {receiver[s], "off"} \/ receiver[s] = "join"
                      \/ phase'[s] # "down"
                   /\ \/ cursor'[s] = cursor[s] \/ receiver[s] = "join"
                      \/ receiver[s] = "poll" /\ cursor'[s] = cursor[s] + 1
<1>1. CASE UNCHANGED <<phase, receiver, cursor>>
  BY <1>1
<1>2. ASSUME NEW t \in Servers, Assign(t) \/ ReceiveKafka(t) \/ ReceiverExit(t) \/ Commit(t)
      PROVE  Goal
  BY <1>2 DEF Assign, ReceiveKafka, ReceiverExit, Commit, Advance, IInv, TypeOK
<1>3. ASSUME NEW t \in Servers, Start(t) \/ StopBegin(t) \/ StopWaits(t) \/ StopFlushes(t)
      PROVE  Goal
  BY <1>3 DEF Start, StopBegin, StopWaits, StopFlushes, IInv, TypeOK
<1>4. ASSUME NEW t \in Servers, NEW p, End(t, p) PROVE Goal
  <2>1. t # s
    BY <1>4 DEF Ended
  <2> QED
    BY <1>4, <2>1 DEF End, IInv, TypeOK
<1> QED
  BY <1>1, <1>2, <1>3, <1>4
  DEF Next, ReadFromClient, ReadMsg, Publish, Abort, Forward, Broadcast, Bridge, KafkaWorker,
      Deliver, DeliveryFailed, Process, Stop, StopEnds, Crash, vars

LEMMA IdleStep == ASSUME IInv, Idle, [Next]_vars PROVE Idle'
<1> USE Constants
<1> SUFFICES ASSUME NEW s \in Servers
             PROVE  /\ phase'[s] = "down" => receiver'[s] = "off"
                    /\ phase'[s] = "down" \/ receiver'[s] = "join" =>
                          \A m \in Displayed(s)' : Home[m.client] = s
  BY DEF Idle
<1>1. phase'[s] = "down" => receiver'[s] = "off"
  BY ConsumerStep, EndedStep DEF Idle
<1>2. ASSUME phase'[s] = "down" \/ receiver'[s] = "join", NEW m \in Displayed(s)'
      PROVE  Home[m.client] = s
  <2>1. CASE m \in Displayed(s) /\ ~Ended(s)
    BY <1>2, <2>1, ConsumerStep DEF Idle
  <2>2. ASSUME NEW c \in Clients, Publish(c), Home[c] = s, m = held[c] PROVE Home[m.client] = s
    BY <2>2 DEF Publish, IInv, Carried
  <2>3. CASE ReceiveKafka(s)
    <3>1. receiver[s] = "poll" /\ phase' = phase /\ receiver'[s] \in {"poll", "off"}
      BY <2>3 DEF ReceiveKafka, serverVars, IInv, TypeOK
    <3> QED
      BY <1>2, <3>1 DEF Idle
  <2> QED
    BY <1>2, <2>1, <2>2, <2>3, DisplayedStep
<1> QED
  BY <1>1, <1>2

LEMMA FetchedStep == ASSUME IInv, Idle, Fetched, [Next]_vars PROVE Fetched'
<1> USE Constants
<1> SUFFICES ASSUME NEW s \in Servers, NEW m \in Displayed(s)', Home[m.client] # s
             PROVE  cursor'[s] \in Nat /\ \E i \in 1..Len(topic') : i <= cursor'[s] /\ topic'[i] = m
  BY DEF Fetched, Read
<1>1. CASE m \in Displayed(s) /\ ~Ended(s)
  <2>1. cursor[s] \in Nat /\ Read(s, m) /\ receiver[s] # "join"
    BY <1>1 DEF Fetched, Idle
  <2>2. PICK i \in 1..Len(topic) : i <= cursor[s] /\ topic[i] = m
    BY <2>1 DEF Read
  <2>3. cursor'[s] \in {cursor[s], cursor[s] + 1}
    BY <1>1, <2>1, ConsumerStep
  <2>4. i \in 1..Len(topic') /\ topic'[i] = m
    BY <2>2, LogStep
  <2> QED
    BY <2>1, <2>2, <2>3, <2>4
<1>2. ASSUME NEW c \in Clients, Publish(c), Home[c] = s, m = held[c] PROVE FALSE
  BY <1>2 DEF Publish, IInv, Carried
<1>3. CASE ReceiveKafka(s) /\ m = topic[cursor[s] + 1]
  <2>1. /\ receiver[s] = "poll" /\ cursor[s] < Len(topic)
        /\ topic' = topic /\ cursor'[s] = cursor[s] + 1
    BY <1>3 DEF ReceiveKafka, Advance, kafkaVars, IInv, TypeOK
  <2>2. cursor[s] \in Nat /\ cursor[s] + 1 \in DOMAIN topic
    BY <2>1, Received
  <2> QED
    BY <1>3, <2>1, <2>2, LogStep
<1> QED
  BY <1>1, <1>2, <1>3, DisplayedStep

\* What a step does to a server's screen, and to what waits for it.
LEMMA ScreenStep ==
    ASSUME IInv, [Next]_vars, NEW s \in Servers
    PROVE  \/ UNCHANGED <<view[s], broadcast[s]>>
           \/ UNCHANGED <<view[s], after>> /\ \E c \in Clients :
                  Publish(c) /\ Home[c] = s /\ broadcast'[s] = Append(broadcast[s], held[c])
           \/ /\ UNCHANGED <<view[s], after>> /\ ReceiveKafka(s) /\ ~Own(s, topic[cursor[s] + 1])
              /\ broadcast'[s] = Append(broadcast[s], topic[cursor[s] + 1])
           \/ /\ UNCHANGED after /\ broadcast[s] # <<>> /\ broadcast'[s] = Tail(broadcast[s])
              /\ view'[s] = Append(view[s], Head(broadcast[s]))
           \/ Ended(s) /\ view'[s] = <<>> /\ broadcast'[s] = <<>>
<1> USE Constants DEF serverVars, clientVars, localVars, kafkaVars, groupVars
<1>0. view \in [Servers -> Seq(Messages)] /\ broadcast \in [Servers -> Seq(Messages)]
  BY Queues
<1>1. CASE UNCHANGED <<view, broadcast>>
  BY <1>1
<1>2. ASSUME NEW c \in Clients, Publish(c)
      PROVE  /\ UNCHANGED <<view[s], after>>
             /\ \/ UNCHANGED <<view[s], broadcast[s]>>
                \/ Home[c] = s /\ broadcast'[s] = Append(broadcast[s], held[c])
  BY <1>0, <1>2 DEF Publish
<1>3. ASSUME NEW t \in Servers, Broadcast(t)
      PROVE  /\ UNCHANGED after
             /\ \/ UNCHANGED <<view[s], broadcast[s]>>
                \/ /\ broadcast[s] # <<>> /\ broadcast'[s] = Tail(broadcast[s])
                   /\ view'[s] = Append(view[s], Head(broadcast[s]))
  BY <1>0, <1>3 DEF Broadcast
<1>4. ASSUME NEW t \in Servers, ReceiveKafka(t)
      PROVE  /\ UNCHANGED <<view[s], after>>
             /\ \/ UNCHANGED <<view[s], broadcast[s]>>
                \/ /\ t = s /\ ~Own(s, topic[cursor[s] + 1])
                   /\ broadcast'[s] = Append(broadcast[s], topic[cursor[s] + 1])
  BY <1>0, <1>4 DEF ReceiveKafka
<1>5. ASSUME NEW t \in Servers, NEW p, End(t, p)
      PROVE  \/ UNCHANGED <<view[s], broadcast[s]>>
             \/ Ended(s) /\ view'[s] = <<>> /\ broadcast'[s] = <<>>
  BY <1>0, <1>5 DEF Ended, End
<1> QED
  BY <1>1, <1>2, <1>3, <1>4, <1>5
  DEF Next, ReadFromClient, ReadMsg, Abort, Forward, Bridge, KafkaWorker, Deliver,
      DeliveryFailed, Assign, Commit, ReceiverExit, Process, Start, Stop, StopBegin, StopWaits,
      StopFlushes, StopEnds, Crash, vars

\* A message stays on the screen as long as the process lives.
LEMMA SeenStep ==
    ASSUME IInv, [Next]_vars, NEW s \in Servers, ~Ended(s), NEW x, Seen(s, x)
    PROVE  Seen(s, x)'
<1>1. PICK z \in Range(view[s]) : Name(z) = x
  BY DEF Seen
<1>2. CASE view'[s] = view[s]
  BY <1>1, <1>2 DEF Seen
<1>3. CASE broadcast[s] # <<>> /\ view'[s] = Append(view[s], Head(broadcast[s]))
  <2>1. Head(broadcast[s]) \in Messages /\ view[s] \in Seq(Messages)
    BY <1>3, Queues, Take
  <2>2. z \in Range(view'[s])
    BY <1>1, <1>3, <2>1, RangeAppend
  <2> QED
    BY <1>1, <2>2 DEF Seen
<1> QED
  BY <1>2, <1>3, ScreenStep

LEMMA HeededStep == ASSUME IInv, Known, Heeded, [Next]_vars PROVE Heeded'
<1> USE Constants
<1>0. sent \in [Clients -> Nat]
  BY DEF IInv, TypeOK
<1>1. ASSUME NEW p \in after', p \notin after
      PROVE  \E b \in Clients, h \in Servers \cup {None} :
                 ReadMsg(b, h) /\ p[2] = [client |-> b, n |-> sent[b] + 1]
                               /\ \E m \in Range(view[Home[b]]) : p[1] = Name(m)
  BY <1>1, SaidStep, Answering
<1>2. ASSUME NEW p \in after', NEW s \in Servers, NEW m \in Displayed(s)', Home[m.client] = s,
             p[2] = Name(m)
      PROVE  Seen(s, p[1])'
  <2>1. CASE m \in Displayed(s) /\ ~Ended(s)
    <3>1. p \in after
      <4>1. m.client \in Clients /\ m.n \in Nat /\ m.n <= sent[m.client]
        BY <2>1, Queues DEF Known, Messages
      <4>2. ASSUME NEW b \in Clients, Name(m) = [client |-> b, n |-> sent[b] + 1] PROVE FALSE
        <5>1. m.client = b /\ m.n = sent[b] + 1
          BY <4>2 DEF Name
        <5> QED
          BY <1>0, <4>1, <5>1
      <4> QED
        BY <1>1, <1>2, <4>2
    <3> QED
      BY <1>2, <2>1, <3>1, SeenStep DEF Heeded
  <2>2. ASSUME NEW c \in Clients, Publish(c), Home[c] = s, m = held[c] PROVE Seen(s, p[1])'
    <3>1. reader[c] = "publish" /\ UNCHANGED <<after, view>>
      BY <2>2 DEF Publish
    <3>2. Seen(s, p[1])
      BY <1>2, <2>2, <3>1 DEF Heeded
    <3> QED
      BY <3>1, <3>2 DEF Seen
  <2> QED
    BY <1>2, <2>1, <2>2, DisplayedStep
<1>3. ASSUME NEW p \in after', NEW c \in Clients, reader'[c] = "publish", p[2] = Name(held'[c])
      PROVE  Seen(Home[c], p[1])'
  <2>1. ASSUME NEW h \in Servers \cup {None}, ReadMsg(c, h) PROVE Seen(Home[c], p[1])'
    <3>1. Name(held'[c]) = [client |-> c, n |-> sent[c] + 1] /\ view' = view
      <4>1. held'[c] = [client |-> c, n |-> sent[c] + 1, host |-> h] /\ view' = view
        BY <2>1, Saying
      <4> QED
        BY <4>1 DEF Name
    <3>2. CASE p \in after
      <4>1. PICK b \in Clients : \E n \in 1..sent[b] : p[2] = [client |-> b, n |-> n]
        BY <3>2 DEF Known
      <4>2. PICK n \in 1..sent[b] : p[2] = [client |-> b, n |-> n]
        BY <4>1
      <4>3. b = c /\ n = sent[c] + 1
        BY <1>3, <3>1, <4>2
      <4> QED
        BY <1>0, <4>2, <4>3
    <3>3. CASE p \notin after
      BY <1>3, <2>1, <3>1, <3>3, Answering DEF Seen
    <3> QED
      BY <3>2, <3>3
  <2>2. CASE held'[c] = held[c] /\ reader[c] = "publish" /\ ~Ended(Home[c])
    <3>1. p \in after
      <4>1. Name(held[c]) = [client |-> c, n |-> sent[c]]
        BY <2>2 DEF Name, Known, IInv, Carried
      <4>2. ASSUME NEW b \in Clients, [client |-> c, n |-> sent[c]] = [client |-> b, n |-> sent[b] + 1]
            PROVE  FALSE
        <5>1. c = b /\ sent[c] = sent[b] + 1
          BY <4>2
        <5> QED
          BY <1>0, <5>1
      <4> QED
        BY <1>1, <1>3, <2>2, <4>1, <4>2
    <3>2. Seen(Home[c], p[1])
      BY <1>3, <2>2, <3>1 DEF Heeded
    <3> QED
      BY <2>2, <3>2, SeenStep
  <2> QED
    BY <1>3, <2>1, <2>2, ReaderStep
<1> QED
  BY <1>2, <1>3 DEF Heeded

LEMMA AnsweredStep == ASSUME IInv, Known, Fetched, Answered, [Next]_vars PROVE Answered'
<1> USE Constants
<1>0. sent \in [Clients -> Nat] /\ Len(topic) \in Nat /\ DOMAIN topic = 1..Len(topic)
  BY LogStep DEF IInv, TypeOK
<1> SUFFICES ASSUME NEW p \in after'
             PROVE  \E i \in DOMAIN topic' :
                       /\ Name(topic'[i]) = p[1]
                       /\ \A j \in DOMAIN topic' : Name(topic'[j]) = p[2] => i < j
  BY DEF Answered, Name
<1>1. CASE p \in after
  <2>1. PICK i \in DOMAIN topic : /\ Name(topic[i]) = p[1]
                                  /\ \A j \in DOMAIN topic : Name(topic[j]) = p[2] => i < j
    BY <1>1 DEF Answered
  <2>2. i \in DOMAIN topic' /\ topic'[i] = topic[i]
    BY <2>1, LogStep
  <2>3. ASSUME NEW j \in DOMAIN topic', Name(topic'[j]) = p[2] PROVE i < j
    <3>1. CASE j \in DOMAIN topic
      BY <2>1, <2>3, <3>1, LogStep
    <3>2. CASE j \notin DOMAIN topic
      BY <1>0, <2>1, <3>2, LogStep
    <3> QED
      BY <3>1, <3>2
  <2> QED
    BY <2>1, <2>2, <2>3
<1>2. CASE p \notin after
  <2>1. PICK c \in Clients, h \in Servers \cup {None} : ReadMsg(c, h)
    BY <1>2, SaidStep
  <2>2. p[2] = [client |-> c, n |-> sent[c] + 1] /\ topic' = topic
    BY <1>2, <2>1, Saying, Answering
  <2>3. PICK m \in Range(view[Home[c]]) : Home[m.client] # Home[c] /\ p[1] = Name(m)
    BY <1>2, <2>1, Answering
  <2>4. PICK i \in 1..Len(topic) : topic[i] = m
    BY <2>3 DEF Fetched, Displayed, Read
  <2>5. ASSUME NEW j \in DOMAIN topic, Name(topic[j]) = p[2] PROVE FALSE
    <3>1. topic[j] \in Bridged(Home[c])
      BY DEF Bridged, Range
    <3>2. topic[j].client = c /\ topic[j].n = sent[c] + 1
      BY <2>2, <2>5 DEF Name
    <3>3. topic[j].n <= sent[c]
      BY <3>1, <3>2 DEF Known
    <3> QED
      BY <1>0, <3>2, <3>3
  <2> QED
    BY <1>0, <2>2, <2>3, <2>4, <2>5
<1> QED
  BY <1>1, <1>2

\* The pairs that may follow one another change only when something is said.
LEMMA FollowStep ==
    ASSUME IInv, Known, [Next]_vars, NEW s \in Servers,
           NEW x \in Displayed(s), NEW y \in Displayed(s), <<x, y>> \in MayFollow
    PROVE  <<x, y>> \in MayFollow'
<1>1. <<x, y>> \in InOrder /\ <<Name(y), Name(x)>> \notin after
  BY DEF MayFollow
<1>2. ASSUME NEW b \in Clients, Name(x) = [client |-> b, n |-> sent[b] + 1] PROVE FALSE
  <2>1. x.client = b /\ x.n = sent[b] + 1 /\ x.n <= sent[b] /\ sent[b] \in Nat
    BY <1>2 DEF Name, Known, IInv, TypeOK
  <2> QED
    BY <2>1
<1>3. <<Name(y), Name(x)>> \notin after'
  BY <1>1, <1>2, SaidStep, Answering
<1> QED
  BY <1>1, <1>3 DEF MayFollow

\* What a reader puts into broadcast may follow everything that is there or shown.
LEMMA PublishFollows ==
    ASSUME IInv, Known, Fresh, Answered, NEW c \in Clients, Publish(c),
           NEW y \in Displayed(Home[c])
    PROVE  <<y, held[c]>> \in MayFollow
<1> USE Constants
<1>1. /\ reader[c] = "publish" /\ held[c] \in Messages /\ held[c].client = c
      /\ held[c].n = sent[c] /\ sent[c] \in Nat /\ y \in Messages
  BY Queues DEF Publish, IInv, Carried, Known, TypeOK
<1>2. <<y, held[c]>> \in InOrder
  BY <1>1, Ordered DEF Fresh
<1>3. ASSUME <<Name(held[c]), Name(y)>> \in after PROVE FALSE
  <2>1. PICK i \in DOMAIN topic : Name(topic[i]) = Name(held[c])
    BY <1>3 DEF Answered
  <2>2. topic[i] \in Bridged(Home[c])
    BY DEF Bridged, Range
  <2>3. topic[i].client = c /\ topic[i].n = sent[c]
    BY <1>1, <2>1 DEF Name
  <2> QED
    BY <1>1, <2>2, <2>3 DEF Fresh
<1> QED
  BY <1>2, <1>3 DEF MayFollow

\* And what the consumer hands on may follow it too: what it has not read yet can
\* neither precede nor be answered by what is on display.
LEMMA ReceiveFollows ==
    ASSUME IInv, Queued, Fetched, Heeded, Answered, NEW s \in Servers, ReceiveKafka(s),
           ~Own(s, topic[cursor[s] + 1]), NEW y \in Displayed(s)
    PROVE  <<y, topic[cursor[s] + 1]>> \in MayFollow
<1> DEFINE x == topic[cursor[s] + 1]
<1>1. /\ cursor[s] \in Nat /\ cursor[s] + 1 \in DOMAIN topic /\ x \in Messages
      /\ Home[x.client] # s
  BY Received DEF ReceiveKafka
<1>2. topic \in Seq(Messages) /\ Sorted(topic, InOrder) /\ DOMAIN topic = 1..Len(topic)
      /\ Len(topic) \in Nat
  BY Queues, LenProperties DEF Queued
<1>3. ASSUME NEW z \in Displayed(s), Home[z.client] # s
      PROVE  \E i \in DOMAIN topic : i <= cursor[s] /\ topic[i] = z
  BY <1>2, <1>3 DEF Fetched, Read
<1>4. ASSUME NEW z \in Displayed(s) PROVE <<z, x>> \in InOrder
  <2>1. CASE Home[z.client] = s
    BY <1>1, <2>1, Queues, Ordered
  <2>2. CASE Home[z.client] # s
    <3>1. PICK i \in DOMAIN topic : i <= cursor[s] /\ topic[i] = z
      BY <1>3, <2>2
    <3>2. i < cursor[s] + 1
      BY <1>1, <1>2, <3>1
    <3> QED
      BY <1>1, <1>2, <3>1, <3>2 DEF Sorted
  <2> QED
    BY <2>1, <2>2
<1>5. ASSUME <<Name(x), Name(y)>> \in after PROVE FALSE
  <2>1. PICK k \in DOMAIN topic : /\ Name(topic[k]) = Name(x)
                                  /\ \A j \in DOMAIN topic : Name(topic[j]) = Name(y) => k < j
    BY <1>5 DEF Answered
  <2>2. topic[k].client = x.client /\ topic[k].n = x.n /\ x.n \in Nat
    BY <1>1, <2>1 DEF Name, Messages
  <2>3. cursor[s] + 1 <= k
    BY <1>1, <1>2, <2>2, SortedPlace
  <2>4. CASE Home[y.client] # s
    <3>1. PICK i \in DOMAIN topic : i <= cursor[s] /\ topic[i] = y
      BY <1>3, <2>4
    <3>2. k < i
      BY <2>1, <3>1
    <3> QED
      BY <1>1, <1>2, <2>3, <3>1, <3>2
  <2>5. CASE Home[y.client] = s
    <3>1. Seen(s, Name(x))
      BY <1>5, <2>5 DEF Heeded
    <3>2. PICK z \in Range(view[s]) : Name(z) = Name(x)
      BY <3>1 DEF Seen
    <3>3. <<z, x>> \in InOrder
      BY <1>4, <3>2 DEF Displayed
    <3>4. z.client = x.client /\ z.n = x.n
      BY <3>2 DEF Name
    <3> QED
      BY <2>2, <3>3, <3>4, Ordered
  <2> QED
    BY <2>4, <2>5
<1> QED
  BY <1>4, <1>5 DEF MayFollow

LEMMA ShowableStep == ASSUME IInv, RoomInv, [Next]_vars PROVE Showable'
<1> USE Constants DEF RoomInv
<1> SUFFICES ASSUME NEW s \in Servers
             PROVE  /\ Sorted(broadcast'[s], MayFollow')
                    /\ Before(Range(view'[s]), Range(broadcast'[s]), MayFollow')
  BY DEF Showable, Sorted, Before
<1> DEFINE v == view[s]
           b == broadcast[s]
<1>0. v \in Seq(Messages) /\ b \in Seq(Messages) /\ Range(v) \cup Range(b) = Displayed(s)
  BY Queues DEF Displayed
<1>1. Sorted(b, MayFollow) /\ Before(Range(v), Range(b), MayFollow)
  BY DEF Showable
<1>2. CASE view'[s] = v /\ broadcast'[s] = b
  <2>1. \A x, y \in Displayed(s) : <<x, y>> \in MayFollow => <<x, y>> \in MayFollow'
    BY FollowStep
  <2>2. Sorted(b, MayFollow')
    BY <1>0, <1>1, <2>1, SortedWiden
  <2> QED
    BY <1>0, <1>1, <1>2, <2>1, <2>2 DEF Before
<1>3. ASSUME view'[s] = v, after' = after, NEW x \in Messages, broadcast'[s] = Append(b, x),
             \A y \in Displayed(s) : <<y, x>> \in MayFollow
      PROVE  Sorted(broadcast'[s], MayFollow') /\ Before(Range(view'[s]), Range(broadcast'[s]), MayFollow')
  <2>1. MayFollow' = MayFollow
    BY <1>3 DEF MayFollow
  <2>2. Sorted(Append(b, x), MayFollow)
    BY <1>0, <1>1, <1>3, SortedAppend
  <2>3. Range(Append(b, x)) = Range(b) \cup {x}
    BY <1>0, <1>3, RangeAppend
  <2> QED
    BY <1>0, <1>1, <1>3, <2>1, <2>2, <2>3 DEF Before
<1>4. ASSUME NEW c \in Clients, Publish(c), Home[c] = s
      PROVE  held[c] \in Messages /\ \A y \in Displayed(s) : <<y, held[c]>> \in MayFollow
  BY <1>4, PublishFollows DEF Publish, IInv, Carried
<1>5. ASSUME ReceiveKafka(s), ~Own(s, topic[cursor[s] + 1])
      PROVE  /\ topic[cursor[s] + 1] \in Messages
             /\ \A y \in Displayed(s) : <<y, topic[cursor[s] + 1]>> \in MayFollow
  BY <1>5, Received, ReceiveFollows DEF ReceiveKafka
<1>6. CASE /\ after' = after /\ b # <<>> /\ broadcast'[s] = Tail(b)
           /\ view'[s] = Append(v, Head(b))
  <2>1. MayFollow' = MayFollow
    BY <1>6 DEF MayFollow
  <2>2. Sorted(Tail(b), MayFollow) /\ \A y \in Range(Tail(b)) : <<Head(b), y>> \in MayFollow
    BY <1>0, <1>1, <1>6, SortedTail
  <2>3. Range(b) = {Head(b)} \cup Range(Tail(b)) /\ Head(b) \in Messages
    BY <1>0, <1>6, RangeTail, Take
  <2>4. Range(Append(v, Head(b))) = Range(v) \cup {Head(b)}
    BY <1>0, <2>3, RangeAppend
  <2> QED
    BY <1>1, <1>6, <2>1, <2>2, <2>3, <2>4 DEF Before
<1>7. CASE view'[s] = <<>> /\ broadcast'[s] = <<>>
  BY <1>7, SortedEmpty, RangeEmpty DEF Before
<1> HIDE DEF v, b
<1> QED
  BY <1>2, <1>3, <1>4, <1>5, <1>6, <1>7, ScreenStep DEF v, b
-----------------------------------------------------------------------------
(* The refinement                                                          *)

\* The messages of a queue by name, and what one more message adds.
Names(q) == [i \in DOMAIN q |-> Name(q[i])]
Named == [client : Clients, n : Nat]

LEMMA NamesSeq == ASSUME NEW q \in Seq(Messages) PROVE Names(q) \in Seq(Named)
<1>1. Len(q) \in Nat /\ DOMAIN q = 1..Len(q) /\ \A i \in 1..Len(q) : q[i] \in Messages
  BY LenProperties, ElementOfSeq
<1>2. Names(q) \in [1..Len(q) -> Named]
  BY <1>1, Constants DEF Names, Name, Named, Messages
<1> QED
  BY <1>1, <1>2, SeqDef

LEMMA NamesAppend ==
    ASSUME NEW q \in Seq(Messages), NEW x \in Messages
    PROVE  Names(Append(q, x)) = Append(Names(q), Name(x))
<1>1. /\ Append(q, x) \in Seq(Messages) /\ Len(q) \in Nat /\ DOMAIN q = 1..Len(q)
      /\ DOMAIN Append(q, x) = 1..(Len(q) + 1)
      /\ \A i \in 1..Len(q) : Append(q, x)[i] = q[i]
      /\ Append(q, x)[Len(q) + 1] = x
  BY AppendProperties, LenProperties
<1>2. Names(q) \in Seq(Named) /\ Names(Append(q, x)) \in Seq(Named) /\ Name(x) \in Named
  <2>1. x.client \in Clients /\ x.n \in Nat
    BY Constants DEF Messages
  <2> QED
    BY <1>1, <2>1, NamesSeq DEF Name, Named
<1>3. Len(Names(q)) = Len(q) /\ Len(Names(Append(q, x))) = Len(q) + 1
  <2>1. DOMAIN Names(q) = 1..Len(q) /\ DOMAIN Names(Append(q, x)) = 1..(Len(q) + 1)
    BY <1>1 DEF Names
  <2>2. DOMAIN Names(q) = 1..Len(Names(q)) /\ Len(Names(q)) \in Nat
        /\ DOMAIN Names(Append(q, x)) = 1..Len(Names(Append(q, x)))
        /\ Len(Names(Append(q, x))) \in Nat
    BY <1>2, LenProperties
  <2> QED
    BY <1>1, <2>1, <2>2
<1>4. /\ Append(Names(q), Name(x)) \in Seq(Named) /\ Len(Append(Names(q), Name(x))) = Len(q) + 1
      /\ \A i \in 1..Len(q) : Append(Names(q), Name(x))[i] = Names(q)[i]
      /\ Append(Names(q), Name(x))[Len(q) + 1] = Name(x)
  BY <1>2, <1>3, AppendProperties
<1>5. ASSUME NEW i \in 1..(Len(q) + 1)
      PROVE  Names(Append(q, x))[i] = Append(Names(q), Name(x))[i]
  <2>1. i \in 1..Len(q) \/ i = Len(q) + 1
    BY <1>1
  <2> QED
    BY <1>1, <1>4, <2>1 DEF Names
<1> QED
  BY <1>2, <1>3, <1>4, <1>5, SeqEqual

Shown == [s \in Servers |-> Names(view[s])]

LEMMA RoomInit == Init => Room!Init
<1> SUFFICES ASSUME Init PROVE Room!Init
  OBVIOUS
<1>1. \A s \in Servers : [i \in DOMAIN view[s] |-> Name(view[s][i])] = <<>>
  BY DEF Init
<1> QED
  BY <1>1 DEF Init, Room!Init

\* Every step of the federation is a step of the chat room, or invisible there.
LEMMA RoomStep == IInv /\ RoomInv /\ [Next]_vars => [Room!Next]_(Room!vars)
<1> SUFFICES ASSUME IInv, RoomInv, [Next]_vars PROVE Room!Next \/ UNCHANGED Room!vars
  OBVIOUS
<1> USE Constants DEF serverVars, clientVars, localVars, kafkaVars, groupVars
<1>0. view \in [Servers -> Seq(Messages)]
  BY Queues
<1>1. ASSUME NEW c \in Clients, NEW h \in Servers \cup {None}, ReadMsg(c, h) PROVE Room!Next
  <2>1. sent' = [sent EXCEPT ![c] = @ + 1] /\ view' = view
    BY <1>1 DEF ReadMsg
  <2>2. Room!Heard(Home[c]) = {Name(m) : m \in Heard(Home[c])}
    <3> DEFINE v == view[Home[c]]
    <3>1. Room!Heard(Home[c]) = {m \in {Name(v[i]) : i \in DOMAIN v} : Home[m.client] # Home[c]}
      BY DEF Room!Heard
    <3>2. Heard(Home[c]) = {m \in {v[i] : i \in DOMAIN v} : Home[m.client] # Home[c]}
      BY DEF Heard, Range
    <3>3. \A i \in DOMAIN v : Name(v[i]).client = v[i].client
      BY DEF Name
    <3> HIDE DEF v
    <3> QED
      BY <3>1, <3>2, <3>3
  <2>3. after' = after \cup (Room!Heard(Home[c]) \X {Room!Message(c, sent[c] + 1)})
    BY <1>1, <2>2 DEF ReadMsg, Room!Message, Name
  <2> QED
    BY <2>1, <2>3 DEF Room!Next, Room!Say
<1>2. ASSUME NEW s \in Servers, Broadcast(s) PROVE Room!Next
  <2> DEFINE x == Head(broadcast[s])
  <2>1. /\ broadcast[s] # <<>> /\ broadcast[s] \in Seq(Messages)
        /\ view' = [view EXCEPT ![s] = Append(@, x)] /\ UNCHANGED <<sent, after>>
    BY <1>2, Queues DEF Broadcast
  <2>2. x \in Messages /\ x \in Range(broadcast[s])
    BY <2>1, Take, RangeTail
  <2>3. Name(x) = Room!Message(x.client, x.n) /\ x.client \in Clients /\ x.n \in 1..sent[x.client]
    <3>1. x.n <= sent[x.client] /\ x.client \in Clients /\ x.n \in 1..MaxSent
      BY <2>2 DEF RoomInv, Known, Displayed, Messages
    <3>2. sent[x.client] \in Nat
      BY <3>1 DEF IInv, TypeOK
    <3> QED
      BY <3>1, <3>2 DEF Name, Room!Message
  <2> HIDE DEF x
  <2>4. ASSUME NEW i \in DOMAIN view[s]
        PROVE  /\ view[s][i].client = x.client => view[s][i].n < x.n
               /\ <<Name(x), Name(view[s][i])>> \notin after
    <3>1. view[s][i] \in Range(view[s])
      BY DEF Range
    <3>2. <<view[s][i], x>> \in MayFollow
      BY <2>2, <3>1 DEF RoomInv, Showable, Before
    <3> QED
      BY <3>2, Ordered DEF MayFollow
  <2>5. Names(view[s]) = [i \in DOMAIN view[s] |-> Name(view[s][i])]
    BY DEF Names
  <2>6. \A t \in Servers : view'[t] = IF t = s THEN Append(view[s], x) ELSE view[t]
    BY <1>0, <2>1
  <2>7. Names(view'[s]) = Append(Names(view[s]), Name(x))
    BY <1>0, <2>2, <2>6, NamesAppend
  <2>8. Shown' = [Shown EXCEPT ![s] = Append(@, Name(x))]
    BY <2>6, <2>7 DEF Shown
  <2>9. PICK c \in Clients : \E n \in 1..sent[c] : Name(x) = Room!Message(c, n)
    BY <2>3
  <2>10. PICK n \in 1..sent[c] : Name(x) = Room!Message(c, n)
    BY <2>9
  <2>11. Room!Show(s, Room!Message(c, n))
    <3>1. Shown[s] = Names(view[s]) /\ DOMAIN Names(view[s]) = DOMAIN view[s]
          /\ \A i \in DOMAIN view[s] : Names(view[s])[i] = Name(view[s][i])
      BY DEF Shown, Names
    <3>2. ASSUME NEW i \in DOMAIN Shown[s]
          PROVE  /\ Shown[s][i].client = Name(x).client => Shown[s][i].n < Name(x).n
                 /\ <<Name(x), Shown[s][i]>> \notin after
      <4>1. i \in DOMAIN view[s] /\ Shown[s][i] = Name(view[s][i])
        BY <3>1
      <4>2. \A y : Name(y).client = y.client /\ Name(y).n = y.n
        BY DEF Name
      <4> QED
        BY <2>4, <4>1, <4>2
    <3>3. Shown = [t \in Servers |-> [i \in DOMAIN view[t] |-> Name(view[t][i])]]
          /\ Shown' = [t \in Servers |-> [i \in DOMAIN view'[t] |-> Name(view'[t][i])]]
      BY DEF Shown, Names, Name
    <3> QED
      BY <2>1, <2>8, <2>10, <3>2, <3>3 DEF Room!Show
  <2> QED
    BY <2>11 DEF Room!Next
<1>3. ASSUME NEW s \in Servers, NEW p, End(s, p) PROVE Room!Next
  <2>1. UNCHANGED <<sent, after>> /\ view' = [view EXCEPT ![s] = <<>>]
    BY <1>3 DEF End
  <2>2. Names(<<>>) = <<>>
    BY DEF Names
  <2>3. \A t \in Servers : view'[t] = IF t = s THEN <<>> ELSE view[t]
    BY <1>0, <2>1
  <2>4. Shown' = [Shown EXCEPT ![s] = <<>>]
    BY <2>2, <2>3 DEF Shown
  <2> QED
    BY <2>1, <2>4 DEF Room!Next, Room!End, Shown, Names
<1>4. CASE UNCHANGED <<sent, view, after>>
  BY <1>4 DEF Room!vars, Name
<1> QED
  BY <1>1, <1>2, <1>3, <1>4
  DEF Next, ReadFromClient, Publish, Abort, Forward, Bridge, KafkaWorker, Deliver,
      DeliveryFailed, Assign, ReceiveKafka, Commit, ReceiverExit, Process, Start, Stop,
      StopBegin, StopWaits, StopFlushes, StopEnds, Crash, vars
-----------------------------------------------------------------------------
(* The theorems                                                            *)

\* The order that lets the messages be shown holds in every queue, always.
THEOREM RoomInvariant == Spec => []RoomInv
<1>1. Init => RoomInv
  BY RangeEmpty, SortedEmpty, LineEmpty
  DEF Init, RoomInv, Known, Fresh, Queued, Idle, Fetched, Heeded, Answered, Showable,
      Displayed, Bridged, Before
<1>2. IInv /\ RoomInv /\ [Next]_vars => RoomInv'
  BY KnownStep, FreshStep, QueuedStep, IdleStep, FetchedStep, HeededStep, AnsweredStep,
     ShowableStep
  DEF RoomInv
<1> QED
  BY <1>1, <1>2, Invariant, PTL DEF Spec

\* The servers and the topic implement the chat room: no server shows a message twice
\* in a life of its process, or those of one client out of order, or one before a
\* message of another server that it answers; for any number of clients and servers,
\* any capacities, and whatever is dropped, fails, stops or crashes.
THEOREM Implements == Spec => ChatRoomImplemented
BY Invariant, RoomInvariant, RoomInit, RoomStep, PTL
DEF Spec, ChatRoomImplemented, Room!Spec
=============================================================================
