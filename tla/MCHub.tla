------------------------------- MODULE MCHub -------------------------------
(* Hub on small instances.  The clients are interchangeable.               *)
EXTENDS HubProps, TLC

Symmetry == Permutations(Clients)
=============================================================================
