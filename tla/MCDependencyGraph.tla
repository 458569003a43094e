------------------------- MODULE MCDependencyGraph -------------------------
(***************************************************************************)
(* Every katalog with at most MaxEdges dependencies between N CRDs and one *)
(* unknown name: with four of each this has every diamond, every cycle of  *)
(* up to four CRDs, self-dependencies and disconnected parts.              *)
(***************************************************************************)
EXTENDS DependencyGraph

CONSTANT MaxEdges   \* bound: dependencies in a katalog

EdgeLists == UNION {[1..m -> CRD \X Name] : m \in 0..MaxEdges}

AllKatalogs ==
    {[n \in CRD |-> {e[i][2] : i \in {j \in DOMAIN e : e[j][1] = n}}] : e \in EdgeLists}
=============================================================================
