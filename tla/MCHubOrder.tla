----------------------------- MODULE MCHubOrder -----------------------------
(* Hub with its history on small instances.                                *)
EXTENDS HubOrder, TLC

Symmetry == Permutations(Clients) \cup Permutations(Msgs)

\* A bound: of the messages that enter broadcast each differs from the one before, so
\* that a change of their order shows.  To the hub they are opaque.
Alternating ==
    LET entered == log \o broadcast
    IN  \A i \in 2..Len(entered) : entered[i] # entered[i - 1]
=============================================================================
