------------------------------ MODULE Multicast ------------------------------
(***************************************************************************)
(* What one chat server promises its clients, whatever goroutines carry it *)
(* out: a client joins once and leaves once; a member is offered every     *)
(* message, in the order in which the server took them; and one misses a   *)
(* message only when as many as it may have unread wait for it.            *)
(***************************************************************************)
EXTENDS Integers, Sequences

CONSTANTS
    Clients,  \* the connections
    Msgs,     \* what a chat message may be
    Room      \* how many messages may wait for a client

VARIABLES
    log,    \* the messages the server took, in order
    due,    \* due[c]: the place in log of the message that c is offered next,
            \* New before c has joined, Left after it has left
    queue,  \* queue[c]: the messages that wait for c
    shown   \* shown[c]: the messages c got, in order

vars == <<log, due, queue, shown>>

New  == 0
Left == -1
Member(c) == due[c] > 0

Init ==
    /\ log = <<>>
    /\ due = [c \in Clients |-> New]
    /\ queue = [c \in Clients |-> <<>>]
    /\ shown = [c \in Clients |-> <<>>]

\* The next message; every member was offered the last one.
Post(m) ==
    /\ \A c \in Clients : Member(c) => due[c] > Len(log)
    /\ log' = Append(log, m)
    /\ UNCHANGED <<due, queue, shown>>

\* A client may still get the last message, if there is one, or only later ones.
Join(c) ==
    /\ due[c] = New
    /\ \E n \in {Len(log), Len(log) + 1} \ {New} : due' = [due EXCEPT ![c] = n]
    /\ UNCHANGED <<log, queue, shown>>

\* c is offered the last message, and may leave meanwhile.
Serve(c) ==
    /\ Member(c) /\ due[c] = Len(log)
    /\ IF Len(queue[c]) < Room THEN queue' = [queue EXCEPT ![c] = Append(@, log[due[c]])]
                               ELSE UNCHANGED queue
    /\ \E n \in {Len(log) + 1, Left} : due' = [due EXCEPT ![c] = n]
    /\ UNCHANGED <<log, shown>>

Leave(c) ==
    /\ Member(c)
    /\ due' = [due EXCEPT ![c] = Left]
    /\ UNCHANGED <<log, queue, shown>>

Show(c) ==
    /\ queue[c] # <<>>
    /\ shown' = [shown EXCEPT ![c] = Append(@, Head(queue[c]))]
    /\ queue' = [queue EXCEPT ![c] = Tail(@)]
    /\ UNCHANGED <<log, due>>

Next ==
    \/ \E m \in Msgs : Post(m)
    \/ \E c \in Clients : Join(c) \/ Serve(c) \/ Leave(c) \/ Show(c)

Spec == Init /\ [][Next]_vars
=============================================================================
