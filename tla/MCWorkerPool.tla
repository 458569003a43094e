---------------------------- MODULE MCWorkerPool ----------------------------
(***************************************************************************)
(* Two pools of two workers over one queue, so that a pool overlaps with  *)
(* what a drain that timed out left of the one before it, and one item     *)
(* with a sentinel map beside the plain item of the same key.              *)
(***************************************************************************)
EXTENDS WorkerPool
=============================================================================
