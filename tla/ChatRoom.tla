------------------------------ MODULE ChatRoom ------------------------------
(***************************************************************************)
(* What the chat promises across its servers, whatever carries the         *)
(* messages: a server shows a message at most once in the life of its      *)
(* process, only after its client said it, those of one client in the      *)
(* order they were said, and never a message after one that answers it.    *)
(* A message may be lost, at some servers or at all.                       *)
(***************************************************************************)
EXTENDS Naturals, Sequences

CONSTANTS
    Clients,  \* the connections
    Servers,  \* the chat servers
    Home      \* Home[c]: the server that client c is connected to

VARIABLES
    said,   \* said[c]: how many messages client c has said
    shown,  \* shown[s]: the messages the process at s has shown, in order
    after   \* <<m, r>>: r was said where m, of a client of another server, was shown

vars == <<said, shown, after>>

Message(c, n) == [client |-> c, n |-> n]

Init ==
    /\ said = [c \in Clients |-> 0]
    /\ shown = [s \in Servers |-> <<>>]
    /\ after = {}

\* What server s has shown of the clients of other servers.
Heard(s) == {m \in {shown[s][i] : i \in DOMAIN shown[s]} : Home[m.client] # s}

Say(c) ==
    /\ said' = [said EXCEPT ![c] = @ + 1]
    /\ after' = after \cup (Heard(Home[c]) \X {Message(c, said[c] + 1)})
    /\ UNCHANGED shown

Show(s, m) ==
    /\ \A i \in DOMAIN shown[s] :
          /\ shown[s][i].client = m.client => shown[s][i].n < m.n
          /\ <<m, shown[s][i]>> \notin after
    /\ shown' = [shown EXCEPT ![s] = Append(@, m)]
    /\ UNCHANGED <<said, after>>

\* The process at s ends, and its pages are left.
End(s) ==
    /\ shown' = [shown EXCEPT ![s] = <<>>]
    /\ UNCHANGED <<said, after>>

Next ==
    \/ \E c \in Clients : Say(c)
    \/ \E s \in Servers, c \in Clients : \E n \in 1..said[c] : Show(s, Message(c, n))
    \/ \E s \in Servers : End(s)

Spec == Init /\ [][Next]_vars
=============================================================================
