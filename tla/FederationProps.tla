-------------------------- MODULE FederationProps --------------------------
(***************************************************************************)
(* What the bridge promises: the order in which a message may be shown     *)
(* (the refinement of ChatRoom), that no message vanishes unaccounted, and *)
(* that messages cross.                                                    *)
(***************************************************************************)
EXTENDS Federation

Messages == [client : Clients, n : 1..MaxSent, host : Servers \cup {None}]
Queue(cap) == {q \in Seq(Messages) : Len(q) <= cap}
Positions == 0..Len(topic) \cup {None}

\* Every variable has its type, a queue stays within its capacity, and no group
\* is ahead of the log.
TypeOK ==
    /\ phase \in [Servers -> {"down", "up", "stopping", "flushing", "closing"}]
    /\ starts \in [Servers -> 0..MaxStarts]
    /\ reader \in [Clients -> {"read", "publish", "forward", "gone"}]
    /\ held \in [Clients -> Messages \cup {None}]
    /\ sent \in [Clients -> 0..MaxSent]
    /\ broadcast \in [Servers -> Queue(BcastCap)]
    /\ view \in [Servers -> Seq(Messages)]
    /\ kChan \in [Servers -> Queue(KCap)] /\ out \in [Servers -> Queue(OutCap)]
    /\ topic \in Seq(Messages)
    /\ receiver \in [Servers -> {"off", "join", "poll"}]
    /\ cursor \in [Servers -> Positions] /\ committed \in [Servers -> Positions]
    /\ dropped \in [Servers -> SUBSET Messages]
-----------------------------------------------------------------------------
(* Safety                                                                  *)

Name(m) == [client |-> m.client, n |-> m.n]

Room == INSTANCE ChatRoom
    WITH said <- sent,
         shown <- [s \in Servers |-> [i \in DOMAIN view[s] |-> Name(view[s][i])]]

\* The federation implements the chat room: whatever is dropped, and whenever a
\* process stops, crashes and starts again, no server shows a message twice in a
\* life of its process, or those of one client out of order, or a message before
\* one of another server that it answers.
ChatRoomImplemented == Room!Spec

\* What Kafka carries names the server that read it, so each server skips exactly
\* its own, although the Host field of a message is the client's to fill in.
HostTrue == \A i \in DOMAIN topic : topic[i].host = Home[topic[i].client]

\* m, without its Host, is the n-th message of c.
Is(m, c, n) == m.client = c /\ m.n = n
In(q, c, n) == \E i \in DOMAIN q : Is(q[i], c, n)

\* A message that has left the reader of a serving process is somewhere: in
\* KChan, with the producer, in the log, or counted by KafkaDropped, unless a
\* client filled in its Host or Kafka failed.
Accounted(c, n) ==
    LET s == Home[c] IN
    \/ reader[c] \in {"publish", "forward"} /\ held[c].n = n
    \/ In(kChan[s], c, n) \/ In(out[s], c, n) \/ In(topic, c, n)
    \/ \E m \in dropped[s] : Is(m, c, n)

\* No message vanishes unaccounted while its server serves.
NothingVanishes ==
    ~HostField /\ ~Failures =>
        \A c \in Clients : reader[c] \in {"read", "publish", "forward"} /\ phase[Home[c]] = "up" =>
            \A n \in 1..sent[c] : Accounted(c, n)
-----------------------------------------------------------------------------
(* Fairness: the goroutines of the servers run, and Kafka's client and     *)
(* broker do their work.                                                   *)

BridgeFairness(s) ==
    /\ WF_vars(KafkaWorker(s) /\ phase[s] = "up")
    /\ WF_vars(Deliver(s))
    /\ WF_vars(Assign(s)) /\ WF_vars(ReceiveKafka(s)) /\ WF_vars(Broadcast(s))

StopFairness(s) == WF_vars(StopWaits(s)) /\ WF_vars(StopFlushes(s)) /\ WF_vars(StopEnds(s))

FairSpec == Spec /\ \A s \in Servers : BridgeFairness(s) /\ StopFairness(s)
-----------------------------------------------------------------------------
(* Liveness                                                                *)

\* While the two servers serve, a message without a Host that is in KChan is at
\* last shown by the other server, or KafkaDropped has counted it.
Crosses ==
    \A c \in Clients, s \in Servers : \A n \in 1..MaxSent :
        LET h == Home[c]
            waiting == /\ \E i \in DOMAIN kChan[h] : Is(kChan[h][i], c, n) /\ kChan[h][i].host = None
                       /\ receiver[s] = "poll"
            lost == \E u \in {h, s} : \E m \in dropped[u] : Is(m, c, n)
        IN  (s # h /\ waiting) ~>
                (In(view[s], c, n) \/ lost \/ KCancelled(s) \/ KCancelled(h))

\* "Kafka producer Flush done" (server.go, Stop): what KafkaWorker handed to the
\* producer before Flush returns gets into the log, although the process stops.
FlushKeeps ==
    \A s \in Servers, c \in Clients : \A n \in 1..MaxSent :
        (In(out[s], c, n) /\ phase[s] # "closing") ~> In(topic, c, n)
=============================================================================
