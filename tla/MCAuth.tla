------------------------------- MODULE MCAuth -------------------------------
(* Auth on small instances.  Requests are interchangeable, and servers too. *)
EXTENDS Auth, TLC

CONSTANTS typed, shouted, garbage, mail

\* Two ways to type one address, and one that is none.
Spelling == [i \in Inputs |-> IF i = garbage THEN None ELSE mail]

Symmetry == Permutations(Requests) \cup Permutations(Servers)
=============================================================================
