---------------------------- MODULE MCKordinator ----------------------------
(***************************************************************************)
(* Two CRDs in the shape of the documentation's example: "cert" needs      *)
(* "site" healthy.                                                         *)
(***************************************************************************)
EXTENDS Kordinator

CONSTANTS site, cert

Pair == <<site, cert>>

StartedEdges == [c \in CRD |-> {}]
HealthyEdges == [c \in CRD |-> IF c = cert THEN {site} ELSE {}]
=============================================================================
