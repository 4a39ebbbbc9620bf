---------------------------- MODULE MCSuppression ----------------------------
(* Suppression with three overlapping recorders, one operator and one source,   *)
(* and the threshold of the code.  The counter stops at the threshold, so the *)
(* state space is finite with reactivations as the only bound.                *)
EXTENDS Suppression
==============================================================================
