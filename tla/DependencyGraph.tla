-------------------------- MODULE DependencyGraph --------------------------
(***************************************************************************)
(* The dependency order of a katalog: the validation of dependsOn          *)
(* (pkg/katalog/validation_methods.go) and the dependency graph built from *)
(* it (pkg/katalog/dependencies.go).                                       *)
(*                                                                         *)
(* A katalog is a map from CRD names to the names they depend on.  CRD     *)
(* names are numbered in the order sort.Strings gives them; 0 stands for a *)
(* name the katalog does not enable.  The runtime validates the katalog    *)
(* before it builds the graph; `ork template --no-validate` does not.      *)
(*                                                                         *)
(* One action per call of the depth-first search and one per round of      *)
(* Kahn's algorithm.  Go's random map iteration is the choice of the next  *)
(* root of the search.                                                     *)
(***************************************************************************)
EXTENDS Integers, Sequences, FiniteSets

CONSTANTS
    N,          \* number of enabled CRDs
    Katalogs    \* the dependsOn maps considered

CRD  == 1..N
Name == 0..N

ASSUME GraphAssumption ==
    /\ N \in Nat
    /\ Katalogs \subseteq [CRD -> SUBSET Name]

VARIABLES
    deps,       \* CRDEntry.DependsOn, names only
    validated,  \* whether the katalog went through validateDependsOn
    phase,      \* "validate", "dfs", "build", "kahn", or how it ended
    roots,      \* CRDs the outer loop of the search has not called dfs for
    visited,    \* CRDs the search has entered
    path,       \* the recursion: frames [node, rest], innermost last
    indegree,   \* StartupOrder's copy of the in-degrees
    queue,      \* StartupOrder's queue, kept sorted: a set, its head the least
    order       \* StartupOrder's result so far

vars == <<deps, validated, phase, roots, visited, path, indegree, queue, order>>

dfsVars == <<roots, visited, path>>
kahnVars == <<indegree, queue, order>>

Least(S) == CHOOSE x \in S : \A y \in S : x <= y

Elements(s) == {s[i] : i \in 1..Len(s)}

Init ==
    /\ deps \in Katalogs
    /\ validated \in BOOLEAN
    /\ phase = IF validated THEN "validate" ELSE "build"
    /\ roots = CRD
    /\ visited = {}
    /\ path = <<>>
    /\ indegree = [n \in CRD |-> 0]
    /\ queue = {}
    /\ order = <<>>

-----------------------------------------------------------------------------
(* validateDependsOn and detectDependencyCycles                            *)

\* Self-dependencies and unknown names are refused before the search.
ValidateDependsOn ==
    /\ phase = "validate"
    /\ phase' = IF \E n \in CRD : n \in deps[n] \/ ~ (deps[n] \subseteq CRD)
                THEN "rejected" ELSE "dfs"
    /\ UNCHANGED <<deps, validated, dfsVars, kahnVars>>

\* The names on the recursion stack, the search's second map.
OnStack == {path[i].node : i \in 1..Len(path)}

\* Mutant: a finished CRD is taken for one on the stack.
EnterVisited(n, frames) ==
    /\ IF n \in visited
       THEN phase' = "rejected" /\ path' = frames /\ UNCHANGED visited
       ELSE /\ path' = Append(frames, [node |-> n, rest |-> deps[n]])
            /\ visited' = visited \cup {n}
            /\ UNCHANGED phase
    /\ UNCHANGED <<deps, validated, kahnVars>>

\* dfs(n), called with the frames below it.
Enter(n, frames) ==
    /\ \/ /\ n \in OnStack
          /\ phase' = "rejected"
          /\ path' = frames
          /\ UNCHANGED visited
       \/ /\ n \notin OnStack
          /\ n \in visited
          /\ path' = frames
          /\ UNCHANGED <<phase, visited>>
       \/ /\ n \notin OnStack
          /\ n \notin visited
          /\ path' = Append(frames, [node |-> n, rest |-> deps[n]])
          /\ visited' = visited \cup {n}
          /\ UNCHANGED phase
    /\ UNCHANGED <<deps, validated, kahnVars>>

\* The outer loop calls dfs for the next CRD.
DfsRoot(n) ==
    /\ phase = "dfs"
    /\ path = <<>>
    /\ n \in roots
    /\ roots' = roots \ {n}
    /\ Enter(n, path)

\* Mutant: the loop does not advance past a dependency it has seen.
DfsDependencyRepeating ==
    /\ phase = "dfs"
    /\ path # <<>>
    /\ LET top == path[Len(path)]
       IN  /\ top.rest # {}
           /\ Enter(Least(top.rest), path)
    /\ UNCHANGED roots

\* The innermost call goes on with its next dependency, in sorted order.
DfsDependency ==
    /\ phase = "dfs"
    /\ path # <<>>
    /\ LET top == path[Len(path)]
           d   == Least(top.rest)
       IN  /\ top.rest # {}
           /\ Enter(d, [path EXCEPT ![Len(path)].rest = @ \ {d}])
    /\ UNCHANGED roots

\* The innermost call returns nil and leaves the stack.
DfsReturn ==
    /\ phase = "dfs"
    /\ path # <<>>
    /\ path[Len(path)].rest = {}
    /\ path' = SubSeq(path, 1, Len(path) - 1)
    /\ UNCHANGED <<deps, validated, phase, roots, visited, kahnVars>>

\* No cycle: the katalog is accepted.
DfsDone ==
    /\ phase = "dfs"
    /\ path = <<>>
    /\ roots = {}
    /\ phase' = "build"
    /\ UNCHANGED <<deps, validated, dfsVars, kahnVars>>

-----------------------------------------------------------------------------
(* NewDependencyGraph and StartupOrder                                     *)

\* g.edges: from a dependency to its dependents.
Edges(d) == {n \in CRD : d \in deps[n]}

\* Mutant: a CRD with dependencies counts one of them too few.
NewDependencyGraphMiscounting ==
    /\ phase = "build"
    /\ IF \E n \in CRD : ~ (deps[n] \subseteq CRD)
       THEN phase' = "exited" /\ UNCHANGED kahnVars
       ELSE /\ phase' = "kahn"
            /\ indegree' = [n \in CRD |-> IF deps[n] = {} THEN 0 ELSE Cardinality(deps[n]) - 1]
            /\ queue' = {n \in CRD : indegree'[n] = 0}
            /\ UNCHANGED order
    /\ UNCHANGED <<deps, validated, dfsVars>>

\* NewDependencyGraph exits on an unknown name, else counts the in-degrees;
\* StartupOrder copies them and queues the CRDs that depend on nothing.
NewDependencyGraph ==
    /\ phase = "build"
    /\ IF \E n \in CRD : ~ (deps[n] \subseteq CRD)
       THEN phase' = "exited" /\ UNCHANGED kahnVars
       ELSE /\ phase' = "kahn"
            /\ indegree' = [n \in CRD |-> Cardinality(deps[n])]
            /\ queue' = {n \in CRD : indegree'[n] = 0}
            /\ UNCHANGED order
    /\ UNCHANGED <<deps, validated, dfsVars>>

\* Mutant: a dependent is queued by the first of its dependencies.
KahnRoundEager ==
    /\ phase = "kahn"
    /\ queue # {}
    /\ LET current == Least(queue)
       IN  /\ order' = Append(order, current)
           /\ indegree' = [n \in CRD |-> IF n \in Edges(current) /\ indegree[n] > 0
                                         THEN indegree[n] - 1 ELSE indegree[n]]
           /\ queue' = (queue \ {current}) \cup (Edges(current) \ Elements(order))
    /\ UNCHANGED <<deps, validated, phase, dfsVars>>

\* Mutant: the queue is not kept sorted, here in the worst way.
KahnRoundUnsorted ==
    /\ phase = "kahn"
    /\ queue # {}
    /\ LET current == CHOOSE x \in queue : \A y \in queue : y <= x
       IN  /\ order' = Append(order, current)
           /\ indegree' = [n \in CRD |-> IF n \in Edges(current)
                                         THEN indegree[n] - 1 ELSE indegree[n]]
           /\ queue' = (queue \ {current})
                         \cup {n \in Edges(current) : indegree[n] = 1}
    /\ UNCHANGED <<deps, validated, phase, dfsVars>>

\* One round: take the least CRD of the queue, and queue the dependents for
\* which it was the last missing dependency.
KahnRound ==
    /\ phase = "kahn"
    /\ queue # {}
    /\ LET current == Least(queue)
       IN  /\ order' = Append(order, current)
           /\ indegree' = [n \in CRD |-> IF n \in Edges(current)
                                         THEN indegree[n] - 1 ELSE indegree[n]]
           /\ queue' = (queue \ {current})
                         \cup {n \in Edges(current) : indegree[n] = 1}
    /\ UNCHANGED <<deps, validated, phase, dfsVars>>

\* Mutant: the length test that detects a cycle is missing.
KahnDoneUnchecked ==
    /\ phase = "kahn"
    /\ queue = {}
    /\ phase' = "ordered"
    /\ UNCHANGED <<deps, validated, dfsVars, kahnVars>>

\* The queue is empty: the order is complete, or the process exits.
KahnDone ==
    /\ phase = "kahn"
    /\ queue = {}
    /\ phase' = IF Len(order) = N THEN "ordered" ELSE "exited"
    /\ UNCHANGED <<deps, validated, dfsVars, kahnVars>>

Next ==
    \/ ValidateDependsOn
    \/ \E n \in CRD : DfsRoot(n)
    \/ DfsDependency \/ DfsReturn \/ DfsDone
    \/ NewDependencyGraph \/ KahnRound \/ KahnDone

Spec == Init /\ [][Next]_vars

\* A single goroutine that nothing blocks.
FairSpec == Spec /\ WF_vars(Next)

-----------------------------------------------------------------------------

Frame == [node : CRD, rest : SUBSET CRD]

TypeOK ==
    /\ deps \in [CRD -> SUBSET Name]
    /\ validated \in BOOLEAN
    /\ phase \in {"validate", "dfs", "rejected", "build", "kahn", "ordered", "exited"}
    /\ roots \in SUBSET CRD
    /\ visited \in SUBSET CRD
    /\ path \in Seq(Frame)
    /\ indegree \in [CRD -> Nat]
    /\ queue \in SUBSET CRD
    /\ order \in Seq(CRD)

\* The reference for both algorithms: no set of CRDs in which each depends on
\* another of the set, and every name known.
Cyclic == \E S \in SUBSET CRD : S # {} /\ \A n \in S : deps[n] \cap S # {}

Sound == ~ Cyclic /\ \A n \in CRD : deps[n] \subseteq CRD

\* The search accepts exactly the katalogs that are sound, in whatever order
\* Go's map iteration calls it.
ValidationExact ==
    /\ phase = "rejected" => ~ Sound
    /\ validated /\ phase \in {"build", "kahn", "ordered", "exited"} => Sound

\* Whoever builds the graph, it exits exactly on the katalogs that are not
\* sound: a katalog that passed validation never takes the process down in
\* StartupOrder.
ExitExact ==
    /\ phase = "exited" => ~ Sound
    /\ phase = "ordered" => Sound

\* Kahn's algorithm, at every round: a CRD comes after everything it depends on,
\* and no CRD comes twice.
OrderTopological ==
    /\ \A i \in 1..Len(order) : \A d \in deps[order[i]] : \E j \in 1..(i - 1) : order[j] = d
    /\ \A i, j \in 1..Len(order) : order[i] = order[j] => i = j

Topological(s) ==
    \A i \in 1..N : \A d \in deps[s[i]] : \E j \in 1..(i - 1) : s[j] = d

\* Every ordering of the CRDs.
Orderings == {s \in [CRD -> CRD] : \A i, j \in CRD : s[i] = s[j] => i = j}

\* "Deterministic" means the least order: at the first place where another
\* valid order differs from the result, the result has the lesser name.
OrderLeast ==
    phase = "ordered" =>
        /\ Elements(order) = CRD
        /\ \A s \in Orderings :
              Topological(s) /\ s # order =>
                  \E i \in CRD : /\ order[i] < s[i]
                                 /\ \A j \in 1..(i - 1) : order[j] = s[j]

\* Validation and ordering end, whatever the katalog.
Terminates == <>(phase \in {"rejected", "ordered", "exited"})
=============================================================================
