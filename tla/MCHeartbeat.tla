---------------------------- MODULE MCHeartbeat ----------------------------
(* Finite instances of Heartbeat: the .cfg files give the constants, and no   *)
(* symmetry is used, since the properties are temporal.                       *)
EXTENDS Heartbeat
=============================================================================
