------------------------ MODULE MCResizableSemaphore ------------------------
(***************************************************************************)
(* Three workers against capacities one and two: the smallest instance in  *)
(* which a waiter exists while two tokens are out, so that scale-down,     *)
(* scale-up, hand-over, cancellation and panic all meet a parked worker.   *)
(***************************************************************************)
EXTENDS ResizableSemaphore
=============================================================================
