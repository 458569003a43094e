---------------------------- MODULE GraphProofs ----------------------------
(***************************************************************************)
(* For every number of CRDs and every katalog: StartupOrder never places a *)
(* CRD before something it depends on, never places one twice, returns the *)
(* least of all the valid orders, and takes the process down exactly when  *)
(* the katalog names an unknown CRD or has a cycle.                        *)
(*                                                                         *)
(* OrderTopological is not inductive alone.  What carries it is that the   *)
(* copied in-degrees count the dependencies not placed yet, and that the   *)
(* queue holds exactly the unplaced CRDs whose count is zero.  That the    *)
(* queue is all of them and its head the least is what makes the order     *)
(* the least one, and that it is empty what makes the rest a cycle.        *)
(***************************************************************************)
EXTENDS DependencyGraph, FiniteSetTheorems, SequenceTheorems, WellFoundedInduction, TLAPS

\* A non-empty set of numbers has a least element, so the head of the sorted
\* queue is well defined.
LEMMA LeastExists ==
    ASSUME NEW S \in SUBSET Nat, S # {}
    PROVE  Least(S) \in S /\ \A y \in S : Least(S) <= y
<1>1. PICK x \in S : \A y \in S : ~ (<<y, x>> \in OpToRel(<, Nat))
    BY NatLessThanWellFounded, WFMin
<1>2. \A a, b \in Nat : a < b => <<a, b>> \in OpToRel(<, Nat)
    BY DEF OpToRel
<1>3. \A y \in S : ~ (y < x) /\ y \in Nat /\ x \in Nat
    BY <1>1, <1>2
<1>4. \A y \in S : x <= y
    BY <1>3
<1>5. QED
    BY <1>4 DEF Least

\* The types that Kahn's algorithm relies on.
KahnTypes ==
    /\ deps \in [CRD -> SUBSET Name]
    /\ indegree \in [CRD -> Nat]
    /\ queue \in SUBSET CRD
    /\ order \in Seq(CRD)

\* The in-degree of a CRD counts its dependencies that have no place yet.
CountsUnplaced ==
    \A n \in CRD : indegree[n] = Cardinality(deps[n] \ Elements(order))

\* The queue holds the CRDs that have no place but whose dependencies all do.
QueueReady ==
    \A n \in CRD : n \in queue <=> n \notin Elements(order) /\ indegree[n] = 0

\* What was placed before the i-th CRD of the order.
Before(i) == {order[j] : j \in 1..(i - 1)}

\* Every CRD was placed before the others that could have had its place.
PlacedLeast ==
    \A i \in 1..Len(order) : \A n \in CRD :
        n \notin Before(i) /\ deps[n] \subseteq Before(i) => order[i] <= n

\* Before the rounds begin nothing is placed; during them the counts are exact.
GraphInv ==
    /\ KahnTypes
    /\ OrderTopological
    /\ PlacedLeast
    /\ phase \in {"validate", "dfs", "rejected", "build"} => order = <<>>
    /\ phase \in {"kahn", "ordered"} => \A n \in CRD : deps[n] \subseteq CRD
    /\ phase = "kahn" => CountsUnplaced /\ QueueReady
    /\ phase = "ordered" => Len(order) = N
    /\ phase = "exited" => ~ Sound

\* There are finitely many CRDs, N of them.
LEMMA FiniteCRD == IsFiniteSet(CRD) /\ Cardinality(CRD) = N
    BY GraphAssumption, FS_Interval DEF CRD

\* An order without repetitions is as long as there are CRDs exactly when it
\* holds them all: the length test of StartupOrder.
LEMMA FullOrder ==
    ASSUME KahnTypes, OrderTopological
    PROVE  Len(order) = N <=> Elements(order) = CRD
<1>1. Len(order) \in Nat /\ order \in [1..Len(order) -> CRD]
    BY DEF KahnTypes
<1>2. order \in Injection(1..Len(order), CRD)
    BY <1>1 DEF Injection, IsInjective, OrderTopological
<1>3. Cardinality(1..Len(order)) = Len(order)
    BY <1>1, FS_Interval
<1>4. Len(order) = N <=> order \in Surjection(1..Len(order), CRD)
    BY <1>2, <1>3, FiniteCRD, FS_Injection
<1>5. order \in Surjection(1..Len(order), CRD) <=> Elements(order) = CRD
    BY <1>1 DEF Surjection, Elements
<1>6. QED
    BY <1>4, <1>5

\* While the counts are exact a CRD's count is zero when all it depends on is
\* placed.
LEMMA ZeroCount ==
    ASSUME CountsUnplaced, \A n \in CRD : deps[n] \subseteq CRD
    PROVE  \A n \in CRD : /\ IsFiniteSet(deps[n] \ Elements(order))
                          /\ Cardinality(deps[n] \ Elements(order)) \in Nat
                          /\ indegree[n] = 0 <=> deps[n] \subseteq Elements(order)
<1>1. \A n \in CRD : deps[n] \ Elements(order) \subseteq CRD
    OBVIOUS
<1>2. \A n \in CRD : /\ IsFiniteSet(deps[n] \ Elements(order))
                     /\ Cardinality(deps[n] \ Elements(order)) \in Nat
    BY <1>1, FiniteCRD, FS_Subset, FS_CardinalityType
<1>3. \A n \in CRD : indegree[n] = 0 <=> deps[n] \ Elements(order) = {}
    BY <1>2, FS_EmptySet DEF CountsUnplaced
<1>4. QED
    BY <1>2, <1>3

\* The rounds stop early only when each CRD left depends on another one left.
LEMMA StuckOnCycle ==
    ASSUME GraphInv, phase = "kahn", queue = {}, Len(order) # N
    PROVE  Cyclic
<1> DEFINE left == CRD \ Elements(order)
<1>1. left # {}
  <2>1. Elements(order) \subseteq CRD
      BY DEF GraphInv, KahnTypes, Elements
  <2>2. QED
      BY <2>1, FullOrder DEF GraphInv
<1>2. ASSUME NEW n \in left PROVE deps[n] \cap left # {}
  <2>1. indegree[n] # 0
      BY <1>2 DEF GraphInv, QueueReady
  <2>2. ~ (deps[n] \subseteq Elements(order)) /\ deps[n] \subseteq CRD
      BY <1>2, <2>1, ZeroCount DEF GraphInv
  <2>3. QED
      BY <2>2
<1>3. QED
    BY <1>1, <1>2 DEF Cyclic

\* A complete order refutes a cycle: the first of its CRDs to be placed would
\* come after one of the others.
LEMMA OrderedSound ==
    ASSUME GraphInv, phase = "ordered"
    PROVE  Sound
<1>1. \A n \in CRD : deps[n] \subseteq CRD
    BY DEF GraphInv
<1>2. Elements(order) = CRD
    BY FullOrder DEF GraphInv
<1>3. ASSUME NEW S \in SUBSET CRD, S # {}, \A n \in S : deps[n] \cap S # {}
      PROVE  FALSE
  <2> DEFINE at == {i \in 1..Len(order) : order[i] \in S}
  <2>1. Len(order) \in Nat
      BY DEF GraphInv, KahnTypes
  <2>2. at \in SUBSET Nat /\ at # {}
      BY <1>2, <1>3, <2>1 DEF Elements
  <2>3. PICK i \in at : \A y \in at : i <= y
      BY <2>2, LeastExists
  <2>4. PICK d \in deps[order[i]] : d \in S
      BY <1>3
  <2>5. PICK j \in 1..(i - 1) : order[j] = d
      BY <2>4 DEF GraphInv, OrderTopological
  <2>6. j \in at /\ j < i /\ i \in Nat
      BY <2>1, <2>4, <2>5
  <2>7. QED
      BY <2>3, <2>6
<1>4. QED
    BY <1>1, <1>3 DEF Sound, Cyclic

\* Before the graph is built nothing is placed or queued.
LEMMA InitGraphInv == Init => GraphInv
<1> SUFFICES ASSUME Init PROVE GraphInv
    OBVIOUS
<1>1. KahnTypes
    BY GraphAssumption DEF Init, KahnTypes
<1>2. OrderTopological /\ PlacedLeast
    BY DEF Init, OrderTopological, PlacedLeast
<1>3. QED
    BY <1>1, <1>2 DEF Init, GraphInv

\* The validation and the end of the rounds do not touch what Kahn works on.
LEMMA QuietStep ==
    ASSUME GraphInv, UNCHANGED <<deps, kahnVars>>,
           \/ phase' = phase
           \/ phase \in {"validate", "dfs"} /\ phase' \in {"dfs", "rejected", "build"}
           \/ phase = "kahn" /\ phase' = "ordered" /\ Len(order) = N
           \/ phase' = "exited" /\ ~ Sound
    PROVE  GraphInv'
<1> USE DEF GraphInv, kahnVars
<1>1. KahnTypes' /\ OrderTopological' /\ PlacedLeast'
    BY DEF KahnTypes, OrderTopological, PlacedLeast, Before
<1>2. (phase' = "kahn" => phase = "kahn") /\ (phase' = "ordered" => phase \in {"kahn", "ordered"})
    OBVIOUS
<1>3. (CountsUnplaced' <=> CountsUnplaced) /\ (QueueReady' <=> QueueReady)
    BY DEF CountsUnplaced, QueueReady, Elements
<1>4. Sound' <=> Sound
    BY DEF Sound, Cyclic
<1>5. QED
    BY <1>1, <1>2, <1>3, <1>4

\* NewDependencyGraph counts the dependencies before anything is placed.
LEMMA BuildStep ==
    ASSUME GraphInv, NewDependencyGraph
    PROVE  GraphInv'
<1> USE DEF GraphInv, NewDependencyGraph
<1>1. CASE \E n \in CRD : ~ (deps[n] \subseteq CRD)
    BY <1>1, QuietStep DEF Sound
<1>2. CASE \A n \in CRD : deps[n] \subseteq CRD
  <2>1. order = <<>> /\ order' = <<>> /\ deps' = deps /\ phase' = "kahn"
      BY <1>2
  <2>2. Elements(order') = {}
      BY <2>1 DEF Elements
  <2>3. \A n \in CRD : IsFiniteSet(deps[n]) /\ Cardinality(deps[n]) \in Nat
    <3>1. IsFiniteSet(CRD)
        BY GraphAssumption, FS_Interval DEF CRD
    <3>2. QED
        BY <3>1, <1>2, FS_Subset, FS_CardinalityType
  <2>4. indegree' = [n \in CRD |-> Cardinality(deps[n])]
      BY <1>2
  <2>5. queue' = {n \in CRD : indegree'[n] = 0}
      BY <1>2
  <2>6. KahnTypes'
      BY <2>1, <2>3, <2>4, <2>5 DEF KahnTypes
  <2>7. OrderTopological' /\ PlacedLeast'
      BY <2>1 DEF OrderTopological, PlacedLeast
  <2>8. CountsUnplaced'
    <3>1. \A n \in CRD : deps'[n] \ Elements(order') = deps[n]
        BY <2>1, <2>2
    <3>2. QED
        BY <3>1, <2>4 DEF CountsUnplaced, Elements
  <2>9. QueueReady'
      BY <2>2, <2>5 DEF QueueReady, Elements
  <2>10. QED
      BY <1>2, <2>1, <2>6, <2>7, <2>8, <2>9
<1>3. QED
    BY <1>1, <1>2

\* A round places a CRD whose dependencies all have their place.
LEMMA RoundStep ==
    ASSUME GraphInv, KahnRound
    PROVE  GraphInv'
<1> DEFINE current == Least(queue)
<1> USE DEF GraphInv
<1>1. /\ phase = "kahn" /\ phase' = "kahn" /\ deps' = deps
      /\ order' = Append(order, current)
      /\ indegree' = [n \in CRD |-> IF n \in Edges(current)
                                    THEN indegree[n] - 1 ELSE indegree[n]]
      /\ queue' = (queue \ {current}) \cup {n \in Edges(current) : indegree[n] = 1}
    BY DEF KahnRound
<1>2. current \in queue /\ \A n \in queue : current <= n
  <2>1. queue \in SUBSET Nat /\ queue # {}
      BY GraphAssumption DEF KahnTypes, KahnRound, CRD
  <2>2. QED
      BY <2>1, LeastExists
<1> HIDE DEF current
<1>3. current \in CRD /\ current \notin Elements(order) /\ indegree[current] = 0
    BY <1>1, <1>2 DEF KahnTypes, QueueReady
<1>4. Len(order) \in Nat /\ order \in Seq(CRD)
    BY DEF KahnTypes
<1>5. /\ order' \in Seq(CRD)
      /\ Len(order') = Len(order) + 1
      /\ \A i \in 1..Len(order) : order'[i] = order[i]
      /\ order'[Len(order) + 1] = current
    BY <1>1, <1>3, <1>4
<1>6. Elements(order') = Elements(order) \cup {current}
    BY <1>4, <1>5 DEF Elements
<1>7. \A n \in CRD : /\ IsFiniteSet(deps[n] \ Elements(order))
                     /\ Cardinality(deps[n] \ Elements(order)) \in Nat
    BY <1>1, ZeroCount
<1>8. \A n \in CRD : indegree[n] = 0 <=> deps[n] \subseteq Elements(order)
    BY <1>1, ZeroCount
<1>9. deps[current] \subseteq Elements(order)
    BY <1>3, <1>8
<1>10. \A n \in CRD : n \in Elements(order) => deps[n] \subseteq Elements(order)
  <2> SUFFICES ASSUME NEW n \in Elements(order), NEW d \in deps[n]
               PROVE  d \in Elements(order)
      OBVIOUS
  <2>1. PICK i \in 1..Len(order) : n = order[i]
      BY DEF Elements
  <2>2. PICK j \in 1..(i - 1) : order[j] = d
      BY <2>1 DEF OrderTopological
  <2>3. j \in 1..Len(order)
      BY <2>1, <2>2, <1>4
  <2>4. QED
      BY <2>2, <2>3 DEF Elements
<1>11. CountsUnplaced'
  <2> SUFFICES ASSUME NEW n \in CRD
               PROVE  indegree'[n] = Cardinality(deps[n] \ Elements(order'))
      BY <1>1 DEF CountsUnplaced, Elements
  <2>1. CASE current \in deps[n]
    <3>1. deps[n] \ Elements(order') = (deps[n] \ Elements(order)) \ {current}
        BY <1>6
    <3>2. current \in deps[n] \ Elements(order)
        BY <2>1, <1>3
    <3>3. Cardinality((deps[n] \ Elements(order)) \ {current})
             = Cardinality(deps[n] \ Elements(order)) - 1
        BY <3>2, <1>7, FS_RemoveElement
    <3>4. indegree'[n] = indegree[n] - 1
        BY <1>1, <2>1 DEF Edges
    <3>5. QED
        BY <3>1, <3>3, <3>4, <1>1 DEF CountsUnplaced
  <2>2. CASE current \notin deps[n]
    <3>1. deps[n] \ Elements(order') = deps[n] \ Elements(order)
        BY <2>2, <1>6
    <3>2. indegree'[n] = indegree[n]
        BY <1>1, <2>2 DEF Edges
    <3>3. QED
        BY <3>1, <3>2, <1>1 DEF CountsUnplaced
  <2>3. QED
      BY <2>1, <2>2
<1>12. \A n \in CRD : current \in deps[n] => indegree[n] # 0 /\ n # current /\ n \notin Elements(order)
    BY <1>3, <1>8, <1>9, <1>10
<1>13. KahnTypes'
  <2>1. \A n \in CRD : indegree'[n] \in Nat
      BY <1>1, <1>12 DEF KahnTypes, Edges
  <2>2. indegree' \in [CRD -> Nat]
      BY <1>1, <2>1
  <2>3. QED
      BY <1>1, <1>5, <2>2 DEF KahnTypes, Edges
<1>14. QueueReady'
  <2> SUFFICES ASSUME NEW n \in CRD
               PROVE  n \in queue' <=> n \notin Elements(order') /\ indegree'[n] = 0
      BY DEF QueueReady, Elements
  <2>1. CASE current \in deps[n]
    <3>1. indegree'[n] = indegree[n] - 1 /\ indegree[n] \in Nat
        BY <1>1, <2>1 DEF Edges, KahnTypes
    <3>2. n \in queue' <=> indegree[n] = 1
        BY <1>1, <1>12, <2>1 DEF Edges, QueueReady
    <3>3. QED
        BY <3>1, <3>2, <1>6, <1>12, <2>1
  <2>2. CASE current \notin deps[n]
    <3>1. indegree'[n] = indegree[n]
        BY <1>1, <2>2 DEF Edges
    <3>2. n \in queue' <=> n \in queue /\ n # current
        BY <1>1, <2>2 DEF Edges
    <3>3. QED
        BY <3>1, <3>2, <1>1, <1>6 DEF QueueReady
  <2>3. QED
      BY <2>1, <2>2
<1>15. OrderTopological'
  <2>1. ASSUME NEW i \in 1..Len(order'), NEW d \in deps'[order'[i]]
        PROVE  \E j \in 1..(i - 1) : order'[j] = d
    <3>1. CASE i \in 1..Len(order)
      <4>1. d \in deps[order[i]]
          BY <2>1, <3>1, <1>1, <1>5
      <4>2. PICK j \in 1..(i - 1) : order[j] = d
          BY <4>1, <3>1 DEF OrderTopological
      <4>3. j \in 1..Len(order)
          BY <4>2, <3>1, <1>4
      <4>4. QED
          BY <4>2, <4>3, <1>5
    <3>2. CASE i = Len(order) + 1
      <4>1. d \in Elements(order)
          BY <2>1, <3>2, <1>1, <1>5, <1>9
      <4>2. PICK j \in 1..Len(order) : order[j] = d
          BY <4>1 DEF Elements
      <4>3. j \in 1..(i - 1)
          BY <4>2, <3>2, <1>4
      <4>4. QED
          BY <4>2, <4>3, <1>5
    <3>3. QED
        BY <3>1, <3>2, <1>4, <1>5
  <2>2. ASSUME NEW i \in 1..Len(order'), NEW j \in 1..Len(order'), order'[i] = order'[j]
        PROVE  i = j
    <3>1. \A l \in 1..Len(order) : order[l] # current
        BY <1>3 DEF Elements
    <3>2. CASE i \in 1..Len(order) /\ j \in 1..Len(order)
        BY <2>2, <3>2, <1>5 DEF OrderTopological
    <3>3. CASE i = Len(order) + 1 \/ j = Len(order) + 1
        BY <2>2, <3>1, <3>3, <1>4, <1>5
    <3>4. QED
        BY <3>2, <3>3, <1>4, <1>5
  <2>3. QED
      BY <2>1, <2>2 DEF OrderTopological
<1>16. PlacedLeast'
  <2> SUFFICES ASSUME NEW i \in 1..Len(order'), NEW n \in CRD,
                      n \notin Before(i)', deps[n] \subseteq Before(i)'
               PROVE  order'[i] <= n
      BY <1>1 DEF PlacedLeast
  <2>1. Before(i)' = Before(i)
    <3>1. i - 1 <= Len(order)
        BY <1>4, <1>5
    <3>2. \A j \in 1..(i - 1) : order'[j] = order[j]
        BY <1>4, <1>5, <3>1
    <3>3. QED
        BY <3>2 DEF Before
  <2>2. CASE i \in 1..Len(order)
      BY <1>5, <2>1, <2>2 DEF PlacedLeast
  <2>3. CASE i = Len(order) + 1
    <3>1. Before(i) = Elements(order)
        BY <1>4, <2>3 DEF Before, Elements
    <3>2. n \in queue
        BY <1>1, <1>8, <2>1, <3>1 DEF QueueReady
    <3>3. QED
        BY <1>2, <1>5, <2>3, <3>2
  <2>4. QED
      BY <1>4, <1>5, <2>2, <2>3
<1>17. QED
    BY <1>1, <1>11, <1>13, <1>14, <1>15, <1>16

\* Every step preserves the invariant.
LEMMA NextGraphInv == GraphInv /\ [Next]_vars => GraphInv'
<1> SUFFICES ASSUME GraphInv, [Next]_vars PROVE GraphInv'
    OBVIOUS
<1>1. CASE UNCHANGED vars
    BY <1>1, QuietStep DEF vars, kahnVars
<1>2. CASE ValidateDependsOn
    BY <1>2, QuietStep DEF ValidateDependsOn
<1>3. ASSUME NEW n \in CRD, DfsRoot(n) PROVE GraphInv'
    BY <1>3, QuietStep DEF DfsRoot, Enter
<1>4. CASE DfsDependency
  <2>1. UNCHANGED <<deps, kahnVars>> /\ phase = "dfs" /\ (phase' = phase \/ phase' = "rejected")
      BY <1>4 DEF DfsDependency, Enter
  <2>2. QED
      BY <2>1, QuietStep
<1>5. CASE DfsReturn
    BY <1>5, QuietStep DEF DfsReturn
<1>6. CASE DfsDone
    BY <1>6, QuietStep DEF DfsDone
<1>7. CASE NewDependencyGraph
    BY <1>7, BuildStep
<1>8. CASE KahnRound
    BY <1>8, RoundStep
<1>9. CASE KahnDone
  <2>1. /\ phase = "kahn" /\ queue = {} /\ UNCHANGED <<deps, kahnVars>>
        /\ phase' = IF Len(order) = N THEN "ordered" ELSE "exited"
      BY <1>9 DEF KahnDone
  <2>2. Len(order) # N => ~ Sound
      BY <2>1, StuckOnCycle DEF Sound
  <2>3. QED
      BY <2>1, <2>2, QuietStep
<1>10. QED
    BY <1>1, <1>2, <1>3, <1>4, <1>5, <1>6, <1>7, <1>8, <1>9 DEF Next

\* The inductive invariant, for every number of CRDs and every katalog.
THEOREM GraphInvariant == Spec => []GraphInv
    BY InitGraphInv, NextGraphInv, PTL DEF Spec

\* Whatever the katalog, every order StartupOrder builds places a CRD after
\* everything it depends on and exactly once.
THEOREM OrderTopologicalHolds == Spec => []OrderTopological
<1>1. GraphInv => OrderTopological
    BY DEF GraphInv
<1>2. QED
    BY <1>1, GraphInvariant, PTL

\* NewDependencyGraph and StartupOrder take the process down exactly on the
\* katalogs with an unknown name or a cycle.
THEOREM ExitExactHolds == Spec => []ExitExact
<1>1. GraphInv => ExitExact
    BY OrderedSound DEF GraphInv, ExitExact
<1>2. QED
    BY <1>1, GraphInvariant, PTL

\* Where another valid order first differs, its CRD was ready too, and the head
\* of the sorted queue was less.
LEMMA FirstDifference ==
    ASSUME GraphInv, phase = "ordered",
           NEW s \in Orderings, Topological(s), s # order
    PROVE  \E i \in CRD : order[i] < s[i] /\ \A j \in 1..(i - 1) : order[j] = s[j]
<1>1. N \in Nat /\ Len(order) = N /\ order \in [CRD -> CRD]
    BY GraphAssumption DEF GraphInv, KahnTypes, CRD
<1>2. s \in [CRD -> CRD] /\ \A i, j \in CRD : s[i] = s[j] => i = j
    BY DEF Orderings
<1> DEFINE differ == {i \in CRD : order[i] # s[i]}
<1>3. differ \in SUBSET Nat /\ differ # {}
  <2>1. differ \in SUBSET Nat
      BY <1>1 DEF CRD
  <2>2. differ # {}
    <3>1. s = [i \in CRD |-> s[i]] /\ order = [i \in CRD |-> order[i]]
        BY <1>1, <1>2
    <3>2. SUFFICES ASSUME \A i \in CRD : order[i] = s[i] PROVE s = order
        OBVIOUS
    <3>3. [i \in CRD |-> s[i]] = [i \in CRD |-> order[i]]
        BY <3>2
    <3>4. QED
        BY <3>1, <3>3, Zenon
  <2>3. QED
      BY <2>1, <2>2
<1>4. PICK i \in differ : \A y \in differ : i <= y
    BY <1>3, LeastExists
<1>5. i \in CRD /\ i \in 1..N /\ order[i] # s[i]
    BY <1>4 DEF CRD
<1>6. ASSUME NEW j \in 1..(i - 1) PROVE j \in CRD /\ j # i /\ order[j] = s[j]
  <2>1. j \in CRD /\ j < i
      BY <1>1, <1>5 DEF CRD
  <2>2. j \notin differ
      BY <1>1, <1>4, <1>5, <2>1 DEF CRD
  <2>3. QED
      BY <1>5, <2>1, <2>2 DEF CRD
<1>7. s[i] \notin Before(i)
    BY <1>2, <1>5, <1>6 DEF Before
<1>8. deps[s[i]] \subseteq Before(i)
    BY <1>5, <1>6 DEF Topological, Before
<1>9. order[i] <= s[i]
    BY <1>1, <1>2, <1>5, <1>7, <1>8 DEF GraphInv, PlacedLeast
<1>10. order[i] < s[i]
  <2>1. order[i] \in CRD /\ s[i] \in CRD
      BY <1>1, <1>2, <1>5
  <2>2. QED
      BY <1>1, <1>5, <1>9, <2>1 DEF CRD
<1>11. QED
    BY <1>5, <1>6, <1>10

\* Of all the orders that respect the dependencies StartupOrder returns the
\* least, for every number of CRDs: what makes the startup order a function of
\* the katalog.
THEOREM OrderLeastHolds == Spec => []OrderLeast
<1>1. GraphInv => OrderLeast
  <2> SUFFICES ASSUME GraphInv, phase = "ordered"
               PROVE  /\ Elements(order) = CRD
                      /\ \A s \in Orderings :
                            Topological(s) /\ s # order =>
                                \E i \in CRD : /\ order[i] < s[i]
                                               /\ \A j \in 1..(i - 1) : order[j] = s[j]
      BY DEF OrderLeast
  <2>1. Elements(order) = CRD
      BY FullOrder DEF GraphInv
  <2>2. QED
      BY <2>1, FirstDifference
<1>2. QED
    BY <1>1, GraphInvariant, PTL
=============================================================================
