---------------------------- MODULE MCAutoscaler ----------------------------
(***************************************************************************)
(* Two generations whose autoscalers overlap, an override that doubles the *)
(* baseline, a cooldown of one tick, and load that comes and goes twice.   *)
(***************************************************************************)
EXTENDS Autoscaler
=============================================================================
