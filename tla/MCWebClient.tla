---------------------------- MODULE MCWebClient ----------------------------
(* WebClient on small instances.  Tabs, and the checks of one tab, are     *)
(* interchangeable.                                                        *)
EXTENDS WebClientProps, TLC

Symmetry == Permutations(Tabs) \cup Permutations(Checks)
=============================================================================
