---------------------------- MODULE MCFederation ----------------------------
(* Federation on small instances: which server each connection has.        *)
EXTENDS FederationProps

CONSTANTS s1, s2, s3, a, b, c

\* c has a server of its own; the others share one.
TwoAndOne == [k \in Clients |-> IF k = c THEN s2 ELSE s1]
=============================================================================
