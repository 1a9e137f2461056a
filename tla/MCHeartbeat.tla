---------------------------- MODULE MCHeartbeat ----------------------------
(* Heartbeat with the durations of types.go, in half seconds.              *)
EXTENDS Heartbeat
=============================================================================
