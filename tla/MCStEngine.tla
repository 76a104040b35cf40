----------------------------- MODULE MCStEngine -----------------------------
(* The watchdog restarts a program, and brings it to its safe state when   *)
(* restarting has not helped.                                              *)
EXTENDS StEngine
MCActionOf == [p \in Programs |-> "restart"]
=============================================================================
