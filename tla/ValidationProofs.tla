-------------------------- MODULE ValidationProofs --------------------------
(***************************************************************************)
(* For every number of CRDs, every katalog and every order in which Go's   *)
(* map iteration starts the search: detectDependencyCycles accepts exactly *)
(* the katalogs that are sound.                                            *)
(*                                                                         *)
(* ValidationExact says nothing of a search that is going on.  The         *)
(* invariant does: the recursion is a path of the graph, what the search   *)
(* has left is closed under dependencies and has no cycle, and a call on   *)
(* the recursion has left every dependency it is done with, but for the    *)
(* one it is in.                                                           *)
(***************************************************************************)
EXTENDS GraphProofs

\* The types of the search.
SearchTypes ==
    /\ deps \in [CRD -> SUBSET Name]
    /\ validated \in BOOLEAN
    /\ phase \in {"validate", "dfs", "rejected", "build", "kahn", "ordered", "exited"}
    /\ roots \in SUBSET CRD
    /\ visited \in SUBSET CRD
    /\ path \in Seq(Frame)

\* The CRDs the search has entered and left.
Finished == visited \ OnStack

\* The recursion: every call is for a dependency of the call below it, and none
\* is for the same CRD as another.
Stack ==
    /\ \A i \in 1..Len(path) : path[i].node \in visited /\ path[i].rest \subseteq deps[path[i].node]
    /\ \A i, j \in 1..Len(path) : path[i].node = path[j].node => i = j
    /\ \A i, j \in 1..Len(path) : j = i + 1 => path[j].node \in deps[path[i].node]

\* A call has left the dependencies it is done with, but for the one it is in.
Explored ==
    \A i \in 1..Len(path) : \A d \in deps[path[i].node] :
        \/ d \in path[i].rest
        \/ d \in Finished
        \/ \E j \in 1..Len(path) : j = i + 1 /\ d = path[j].node

\* What the search has left depends on nothing else.
Closed == \A n \in Finished : deps[n] \subseteq Finished

\* What the search has left has no cycle.
Acyclic == \A S \in SUBSET Finished : S # {} => \E n \in S : deps[n] \cap S = {}

\* The search has entered every CRD the outer loop has called it for.
Called == CRD \ roots \subseteq visited

Searching ==
    /\ \A n \in CRD : deps[n] \subseteq CRD
    /\ Stack
    /\ Explored
    /\ Closed
    /\ Acyclic
    /\ Called

SearchInv ==
    /\ SearchTypes
    /\ phase = "validate" => path = <<>> /\ visited = {} /\ roots = CRD
    /\ phase = "dfs" => Searching
    /\ ValidationExact
-----------------------------------------------------------------------------
(* The search                                                              *)

\* Nothing has been entered when the search begins.
LEMMA EmptySearch ==
    ASSUME path = <<>>, visited = {}, roots = CRD, \A n \in CRD : deps[n] \subseteq CRD
    PROVE  Searching
<1>1. Finished = {}
    BY DEF Finished
<1>2. Stack /\ Explored
    BY DEF Stack, Explored
<1>3. Closed /\ Acyclic
    BY <1>1 DEF Closed, Acyclic
<1>4. QED
    BY <1>2, <1>3 DEF Called, Searching

\* What is left of a sequence when its last elements are dropped.
LEMMA Prefix ==
    ASSUME NEW S, NEW s \in Seq(S), NEW m \in Nat, m <= Len(s)
    PROVE  /\ SubSeq(s, 1, m) \in Seq(S)
           /\ Len(SubSeq(s, 1, m)) = m
           /\ \A i \in 1..m : SubSeq(s, 1, m)[i] = s[i]
    OBVIOUS

\* What the type of the recursion says of its frames.
LEMMA FrameTypes ==
    ASSUME SearchTypes
    PROVE  /\ Len(path) \in Nat
           /\ \A i \in 1..Len(path) : path[i].node \in CRD /\ path[i].rest \in SUBSET CRD
<1>1. path \in Seq(Frame)
    BY DEF SearchTypes
<1>2. Len(path) \in Nat /\ \A i \in 1..Len(path) : path[i] \in Frame
    BY <1>1
<1>3. QED
    BY <1>2 DEF Frame

\* dfs(n) called by the innermost frame with n on the stack: the calls from
\* that of n on form a cycle.
LEMMA StackCycle ==
    ASSUME SearchTypes, Stack, path # <<>>, NEW n \in OnStack, n \in deps[path[Len(path)].node]
    PROVE  Cyclic
<1>1. PICK k \in 1..Len(path) : path[k].node = n
    BY DEF OnStack
<1>2. Len(path) \in Nat /\ \A i \in 1..Len(path) : path[i].node \in CRD
    BY FrameTypes
<1> DEFINE S == {path[i].node : i \in k..Len(path)}
<1>3. \A i \in k..Len(path) : i \in 1..Len(path)
    BY <1>1, <1>2
<1>4. S \in SUBSET CRD /\ n \in S
    BY <1>1, <1>2, <1>3
<1>5. ASSUME NEW i \in k..Len(path) PROVE deps[path[i].node] \cap S # {}
  <2>1. CASE i = Len(path)
      BY <1>4, <2>1
  <2>2. CASE i # Len(path)
    <3>1. i \in 1..Len(path) /\ i + 1 \in 1..Len(path) /\ i + 1 \in k..Len(path)
        BY <1>1, <1>2, <2>2
    <3>2. path[i + 1].node \in deps[path[i].node]
        BY <3>1 DEF Stack
    <3>3. path[i + 1].node \in S
        BY <3>1
    <3>4. QED
        BY <3>2, <3>3
  <2>3. QED
      BY <2>1, <2>2
<1>6. \A m \in S : deps[m] \cap S # {}
    BY <1>5
<1> HIDE DEF S
<1>7. QED
    BY <1>4, <1>6 DEF Cyclic

\* A call of dfs: the frames differ from the recursion in what the innermost
\* call has left to do, and n is the dependency it goes on with.
LEMMA EnterSearching ==
    ASSUME SearchTypes, Searching, phase = "dfs", NEW n \in CRD, NEW frames \in Seq(Frame),
           Len(frames) = Len(path),
           \A i \in 1..Len(path) : /\ frames[i].node = path[i].node
                                   /\ frames[i].rest \subseteq path[i].rest
                                   /\ i # Len(path) => frames[i].rest = path[i].rest
                                   /\ path[i].rest \subseteq frames[i].rest \cup {n},
           path # <<>> => n \in deps[path[Len(path)].node],
           CRD \ roots' \subseteq visited \cup {n},
           roots' \in SUBSET CRD,
           Enter(n, frames)
    PROVE  SearchTypes' /\ (phase' = "dfs" => Searching') /\ ValidationExact'
<1>0. Len(path) \in Nat /\ deps' = deps /\ validated' = validated
      /\ \A i \in 1..Len(path) : path[i].node \in CRD /\ path[i].rest \in SUBSET CRD
    BY FrameTypes DEF Enter
<1>1. CASE /\ n \in OnStack
           /\ phase' = "rejected"
           /\ path' = frames
           /\ UNCHANGED visited
  <2>1. path # <<>>
      BY <1>1 DEF OnStack
  <2>2. Cyclic
      BY <1>1, <2>1, StackCycle DEF Searching
  <2>3. Cyclic'
      BY <1>0, <2>2 DEF Cyclic
  <2>4. SearchTypes'
      BY <1>0, <1>1 DEF SearchTypes
  <2>5. QED
      BY <1>1, <2>3, <2>4 DEF ValidationExact, Sound
<1>2. CASE /\ n \notin OnStack
           /\ n \in visited
           /\ path' = frames
           /\ UNCHANGED <<phase, visited>>
  <2>1. /\ Len(path') = Len(path)
        /\ \A i \in 1..Len(path) : /\ path'[i].node = path[i].node
                                   /\ path'[i].rest \subseteq path[i].rest
                                   /\ path[i].rest \subseteq path'[i].rest \cup {n}
      BY <1>2
  <2>2. Finished' = Finished /\ n \in Finished
    <3>1. OnStack' = OnStack
        BY <1>0, <2>1 DEF OnStack
    <3>2. QED
        BY <1>2, <3>1 DEF Finished
  <2>3. SearchTypes'
      BY <1>0, <1>2 DEF SearchTypes
  <2>4. Stack'
      BY <1>0, <1>2, <2>1 DEF Searching, Stack
  <2>5. Explored'
    <3> SUFFICES ASSUME NEW i \in 1..Len(path), NEW d \in deps[path[i].node]
                 PROVE  \/ d \in path'[i].rest
                        \/ d \in Finished'
                        \/ \E j \in 1..Len(path) : j = i + 1 /\ d = path'[j].node
        BY <1>0, <2>1 DEF Explored
    <3>1. \/ d \in path[i].rest
          \/ d \in Finished
          \/ \E j \in 1..Len(path) : j = i + 1 /\ d = path[j].node
        BY DEF Searching, Explored
    <3>2. QED
        BY <2>1, <2>2, <3>1
  <2>6. Closed' /\ Acyclic'
      BY <1>0, <2>2 DEF Searching, Closed, Acyclic
  <2>7. Called' /\ \A m \in CRD : deps'[m] \subseteq CRD
      BY <1>0, <1>2 DEF Searching, Called
  <2>8. ValidationExact'
      BY <1>2 DEF ValidationExact
  <2>9. QED
      BY <2>3, <2>4, <2>5, <2>6, <2>7, <2>8 DEF Searching
<1>3. CASE /\ n \notin OnStack
           /\ n \notin visited
           /\ path' = Append(frames, [node |-> n, rest |-> deps[n]])
           /\ visited' = visited \cup {n}
           /\ UNCHANGED phase
  <2> DEFINE L == Len(path)
  <2>0. deps[n] \in SUBSET CRD /\ [node |-> n, rest |-> deps[n]] \in Frame
      BY DEF Searching, Frame
  <2>1. /\ path' \in Seq(Frame) /\ Len(path') = L + 1
        /\ \A i \in 1..L : path'[i] = frames[i]
        /\ path'[L + 1] = [node |-> n, rest |-> deps[n]]
      BY <1>0, <1>3, <2>0
  <2>2. /\ \A i \in 1..L : /\ path'[i].node = path[i].node
                           /\ path'[i].rest \subseteq path[i].rest
                           /\ i # L => path'[i].rest = path[i].rest
                           /\ path[i].rest \subseteq path'[i].rest \cup {n}
        /\ path'[L + 1].node = n /\ path'[L + 1].rest = deps[n]
      BY <2>1
  <2>3. \A i \in 1..(L + 1) : i \in 1..L \/ i = L + 1
      BY <1>0
  <2> HIDE DEF L
  <2>4. Finished' = Finished
    <3>1. OnStack = {path[i].node : i \in 1..L}
        BY DEF OnStack, L
    <3>2. OnStack' = OnStack \cup {n}
        BY <1>0, <2>1, <2>2, <2>3, <3>1 DEF OnStack, L
    <3>3. QED
        BY <1>3, <3>2 DEF Finished
  <2>5. SearchTypes'
      BY <1>0, <1>3, <2>1 DEF SearchTypes
  <2>6. Stack'
    <3>1. \A i \in 1..L : path[i].node \in visited /\ path[i].rest \subseteq deps[path[i].node]
        BY DEF Searching, Stack, L
    <3>2. \A i \in 1..(L + 1) : path'[i].node \in visited' /\ path'[i].rest \subseteq deps'[path'[i].node]
        BY <1>0, <1>3, <2>2, <2>3, <3>1
    <3>3. ASSUME NEW i \in 1..(L + 1), NEW j \in 1..(L + 1), path'[i].node = path'[j].node
          PROVE  i = j
      <4>1. CASE i \in 1..L /\ j \in 1..L
          BY <2>2, <3>3, <4>1 DEF Searching, Stack, L
      <4>2. CASE i = L + 1 \/ j = L + 1
          BY <1>3, <2>2, <2>3, <3>1, <3>3, <4>2
      <4>3. QED
          BY <2>3, <4>1, <4>2
    <3>4. ASSUME NEW i \in 1..(L + 1), NEW j \in 1..(L + 1), j = i + 1
          PROVE  path'[j].node \in deps'[path'[i].node]
      <4>0. L \in Nat
          BY <1>0 DEF L
      <4>1. CASE j \in 1..L
        <5>1. i \in 1..L
            BY <3>4, <4>0, <4>1
        <5>2. QED
            BY <1>0, <2>2, <3>4, <4>1, <5>1 DEF Searching, Stack, L
      <4>2. CASE j = L + 1
        <5>1. i = L /\ L \in 1..L /\ path # <<>>
            BY <3>4, <4>0, <4>2 DEF L
        <5>2. QED
            BY <1>0, <2>2, <4>2, <5>1 DEF L
      <4>3. QED
          BY <2>3, <4>1, <4>2
    <3>5. QED
        BY <2>1, <3>2, <3>3, <3>4 DEF Stack
  <2>7. Explored'
    <3> SUFFICES ASSUME NEW i \in 1..(L + 1), NEW d \in deps[path'[i].node]
                 PROVE  \/ d \in path'[i].rest
                        \/ d \in Finished'
                        \/ \E j \in 1..(L + 1) : j = i + 1 /\ d = path'[j].node
        BY <1>0, <2>1 DEF Explored
    <3>1. CASE i = L + 1
        BY <2>2, <3>1
    <3>2. CASE i \in 1..L
      <4>1. \/ d \in path[i].rest
            \/ d \in Finished
            \/ \E j \in 1..L : j = i + 1 /\ d = path[j].node
          BY <2>2, <3>2 DEF Searching, Explored, L
      <4>2. CASE d \in path[i].rest
        <5>1. CASE d \in path'[i].rest
            BY <5>1
        <5>2. CASE d \notin path'[i].rest
          <6>1. d = n /\ i = L
              BY <2>2, <3>2, <4>2, <5>2
          <6>2. L + 1 \in 1..(L + 1)
              BY <1>0 DEF L
          <6>3. QED
              BY <2>2, <6>1, <6>2
        <5>3. QED
            BY <5>1, <5>2
      <4>3. CASE d \in Finished
          BY <2>4, <4>3
      <4>4. CASE \E j \in 1..L : j = i + 1 /\ d = path[j].node
        <5>1. PICK j \in 1..L : j = i + 1 /\ d = path[j].node
            BY <4>4
        <5>2. j \in 1..(L + 1) /\ path'[j].node = d
            BY <1>0, <2>2, <5>1 DEF L
        <5>3. QED
            BY <5>1, <5>2
      <4>5. QED
          BY <4>1, <4>2, <4>3, <4>4
    <3>3. QED
        BY <2>3, <3>1, <3>2
  <2>8. Closed' /\ Acyclic'
      BY <1>0, <2>4 DEF Searching, Closed, Acyclic
  <2>9. Called' /\ \A m \in CRD : deps'[m] \subseteq CRD
      BY <1>0, <1>3 DEF Searching, Called
  <2>10. ValidationExact'
      BY <1>3 DEF ValidationExact
  <2>11. QED
      BY <2>5, <2>6, <2>7, <2>8, <2>9, <2>10 DEF Searching
<1>4. QED
    BY <1>1, <1>2, <1>3 DEF Enter

\* The innermost call returns: its CRD joins those the search has left, and
\* closes no cycle with them because none of them depends on it.
LEMMA ReturnSearching ==
    ASSUME SearchTypes, Searching, DfsReturn
    PROVE  SearchTypes' /\ Searching' /\ ValidationExact'
<1> DEFINE L == Len(path)
           top == path[L].node
<1>0. /\ phase = "dfs" /\ path # <<>> /\ path[L].rest = {}
      /\ path' = SubSeq(path, 1, L - 1)
      /\ UNCHANGED <<deps, validated, phase, roots, visited>>
    BY DEF DfsReturn
<1>1. L \in Nat /\ L \in 1..L /\ L - 1 \in Nat /\ path \in Seq(Frame)
    BY <1>0 DEF SearchTypes
<1>2. /\ path' \in Seq(Frame) /\ Len(path') = L - 1
      /\ \A i \in 1..(L - 1) : path'[i] = path[i] /\ i \in 1..L
  <2>1. \A i \in 1..(L - 1) : i \in 1..L
      BY <1>1
  <2>2. PICK m \in Nat : m = L - 1
      BY <1>1
  <2>3. m <= Len(path) /\ path' = SubSeq(path, 1, m)
      BY <1>0, <1>1, <2>2
  <2>4. path' \in Seq(Frame) /\ Len(path') = m /\ \A i \in 1..m : path'[i] = path[i]
      BY <1>1, <2>3, Prefix
  <2>5. QED
      BY <2>1, <2>2, <2>4
<1>3. top \in CRD /\ top \in visited
    BY <1>1, FrameTypes DEF Searching, Stack
<1>4. \A i \in 1..(L - 1) : path[i].node # top
    BY <1>1, <1>2 DEF Searching, Stack
<1>5. \A i \in 1..L : i \in 1..(L - 1) \/ i = L
    BY <1>1
<1>6. OnStack = OnStack' \cup {top} /\ top \notin OnStack'
  <2>1. OnStack' = {path[i].node : i \in 1..(L - 1)}
      BY <1>2 DEF OnStack
  <2>2. OnStack = {path[i].node : i \in 1..L}
      BY DEF OnStack
  <2>3. QED
      BY <1>1, <1>2, <1>4, <1>5, <2>1, <2>2
<1>7. Finished' = Finished \cup {top} /\ top \notin Finished
    BY <1>0, <1>3, <1>6 DEF Finished
<1>8. deps[top] \subseteq Finished
  <2>1. \A j \in 1..L : j # L + 1
      BY <1>1
  <2>2. QED
      BY <1>0, <1>1, <2>1 DEF Searching, Explored
<1> HIDE DEF L, top
<1>9. SearchTypes'
    BY <1>0, <1>2 DEF SearchTypes
<1>10. Stack'
    BY <1>0, <1>2 DEF Searching, Stack, L
<1>11. Explored'
  <2> SUFFICES ASSUME NEW i \in 1..(L - 1), NEW d \in deps[path[i].node]
               PROVE  \/ d \in path[i].rest
                      \/ d \in Finished'
                      \/ \E j \in 1..(L - 1) : j = i + 1 /\ d = path[j].node
      BY <1>0, <1>2 DEF Explored
  <2>1. \/ d \in path[i].rest
        \/ d \in Finished
        \/ \E j \in 1..L : j = i + 1 /\ d = path[j].node
      BY <1>2 DEF Searching, Explored, L
  <2>2. QED
      BY <1>5, <1>7, <2>1 DEF top
<1>12. Closed'
    BY <1>0, <1>7, <1>8 DEF Searching, Closed
<1>13. Acyclic'
  <2> SUFFICES ASSUME NEW S \in SUBSET (Finished \cup {top}), S # {}
               PROVE  \E n \in S : deps[n] \cap S = {}
      BY <1>0, <1>7 DEF Acyclic
  <2>1. CASE S \ {top} = {}
      BY <1>7, <1>8, <2>1
  <2>2. CASE S \ {top} # {}
    <3>1. PICK n \in S \ {top} : deps[n] \cap (S \ {top}) = {}
        BY <2>2 DEF Searching, Acyclic
    <3>2. n \in Finished /\ top \notin deps[n]
        BY <1>7 DEF Searching, Closed
    <3>3. QED
        BY <3>1, <3>2
  <2>3. QED
      BY <2>1, <2>2
<1>14. Called' /\ \A m \in CRD : deps'[m] \subseteq CRD
    BY <1>0 DEF Searching, Called
<1>15. ValidationExact'
    BY <1>0 DEF ValidationExact
<1>16. QED
    BY <1>9, <1>10, <1>11, <1>12, <1>13, <1>14, <1>15 DEF Searching

\* The search is over: it has left every CRD, so there is no cycle.
LEMMA DoneSound ==
    ASSUME SearchTypes, Searching, path = <<>>, roots = {}
    PROVE  Sound
<1>1. Finished = CRD
    BY DEF Finished, OnStack, Searching, Called, SearchTypes
<1>2. QED
    BY <1>1 DEF Searching, Acyclic, Sound, Cyclic

-----------------------------------------------------------------------------
(* The invariant                                                           *)

\* The search has not begun.
LEMMA InitSearchInv == Init => SearchInv
<1> SUFFICES ASSUME Init PROVE SearchInv
    OBVIOUS
<1>1. SearchTypes
    BY GraphAssumption DEF Init, SearchTypes
<1>2. QED
    BY <1>1 DEF Init, SearchInv, ValidationExact

\* What comes after the validation does not undo it.
LEMMA LaterSteps ==
    ASSUME SearchInv, UNCHANGED <<deps, validated, dfsVars>>,
           \/ phase' = phase
           \/ /\ phase \in {"build", "kahn"}
              /\ phase' \in {"kahn", "ordered", "exited"}
    PROVE  SearchInv'
<1> USE DEF SearchInv, dfsVars
<1>1. SearchTypes'
    BY DEF SearchTypes
<1>2. Sound' <=> Sound
    BY DEF Sound, Cyclic
<1>3. Searching' <=> Searching
  <2>1. OnStack' = OnStack /\ Finished' = Finished
      BY DEF OnStack, Finished
  <2>2. (Stack' <=> Stack) /\ (Explored' <=> Explored) /\ (Called' <=> Called)
      BY <2>1 DEF Stack, Explored, Called
  <2>3. (Closed' <=> Closed) /\ (Acyclic' <=> Acyclic)
      BY <2>1 DEF Closed, Acyclic
  <2>4. QED
      BY <2>2, <2>3 DEF Searching
<1>4. ValidationExact'
    BY <1>2 DEF ValidationExact
<1>5. QED
    BY <1>1, <1>3, <1>4

\* Every step preserves the invariant.
LEMMA NextSearchInv == SearchInv /\ [Next]_vars => SearchInv'
<1> SUFFICES ASSUME SearchInv, [Next]_vars PROVE SearchInv'
    OBVIOUS
<1>1. CASE UNCHANGED vars
    BY <1>1, LaterSteps DEF vars, dfsVars
<1>2. CASE ValidateDependsOn
  <2>1. /\ phase = "validate" /\ UNCHANGED <<deps, validated, roots, visited, path>>
        /\ phase' = IF \E n \in CRD : n \in deps[n] \/ ~ (deps[n] \subseteq CRD)
                    THEN "rejected" ELSE "dfs"
      BY <1>2 DEF ValidateDependsOn, dfsVars
  <2>2. SearchTypes'
      BY <2>1 DEF SearchInv, SearchTypes
  <2>3. CASE \E n \in CRD : n \in deps[n] \/ ~ (deps[n] \subseteq CRD)
    <3>1. PICK n \in CRD : n \in deps[n] \/ ~ (deps[n] \subseteq CRD)
        BY <2>3
    <3>2. ~ Sound
      <4>1. CASE n \in deps[n]
        <5>1. {n} \in SUBSET CRD /\ {n} # {} /\ \A m \in {n} : deps[m] \cap {n} # {}
            BY <4>1
        <5>2. QED
            BY <5>1 DEF Sound, Cyclic
      <4>2. CASE ~ (deps[n] \subseteq CRD)
          BY <4>2 DEF Sound
      <4>3. QED
          BY <3>1, <4>1, <4>2
    <3>3. ~ Sound'
        BY <2>1, <3>2 DEF Sound, Cyclic
    <3>4. QED
        BY <2>1, <2>2, <2>3, <3>3 DEF SearchInv, ValidationExact
  <2>4. CASE \A n \in CRD : n \notin deps[n] /\ deps[n] \subseteq CRD
    <3>1. Searching
        BY <2>1, <2>4, EmptySearch DEF SearchInv
    <3>2. phase' = "dfs"
        BY <2>1, <2>4
    <3>3. Searching'
        BY <2>1, <3>1 DEF Searching, Stack, Explored, Closed, Acyclic, Called, Finished, OnStack
    <3>4. QED
        BY <2>2, <3>2, <3>3 DEF SearchInv, ValidationExact
  <2>5. QED
      BY <2>3, <2>4
<1>3. ASSUME NEW n \in CRD, DfsRoot(n) PROVE SearchInv'
  <2>1. /\ phase = "dfs" /\ path = <<>> /\ roots' = roots \ {n} /\ Enter(n, path)
        /\ SearchTypes /\ Searching
      BY <1>3 DEF DfsRoot, SearchInv
  <2>2. CRD \ roots' \subseteq visited \cup {n} /\ roots' \in SUBSET CRD /\ path \in Seq(Frame)
      BY <2>1 DEF Searching, Called, SearchTypes
  <2>3. phase' # "validate"
      BY <2>1 DEF Enter
  <2>4. SearchTypes' /\ (phase' = "dfs" => Searching') /\ ValidationExact'
      BY <2>1, <2>2, EnterSearching
  <2>5. QED
      BY <2>3, <2>4 DEF SearchInv
<1>4. CASE DfsDependency
  <2> DEFINE L == Len(path)
             d == Least(path[L].rest)
             frames == [path EXCEPT ![L].rest = @ \ {d}]
  <2>1. /\ phase = "dfs" /\ path # <<>> /\ path[L].rest # {} /\ Enter(d, frames)
        /\ roots' = roots /\ SearchTypes /\ Searching
      BY <1>4 DEF DfsDependency, SearchInv
  <2>2. L \in Nat /\ L \in 1..L /\ path \in Seq(Frame)
      BY <2>1 DEF SearchTypes
  <2>3. \A i \in 1..L : path[i] \in Frame
      BY <2>2
  <2>4. d \in path[L].rest /\ d \in CRD /\ d \in deps[path[L].node]
    <3>1. path[L].rest \in SUBSET CRD /\ path[L].rest \in SUBSET Nat
        BY <2>1, <2>2, FrameTypes DEF CRD
    <3>2. d \in path[L].rest
        BY <2>1, <3>1, LeastExists
    <3>3. QED
        BY <2>1, <2>2, <3>1, <3>2 DEF Searching, Stack
  <2> HIDE DEF d
  <2>5. /\ frames \in Seq(Frame) /\ Len(frames) = L
        /\ \A i \in 1..L : i # L => frames[i] = path[i]
        /\ frames[L].node = path[L].node /\ frames[L].rest = path[L].rest \ {d}
    <3>1. path[L] \in Frame /\ [path[L] EXCEPT !.rest = @ \ {d}] \in Frame
        BY <2>2, <2>3 DEF Frame
    <3>2. frames = [path EXCEPT ![L] = [path[L] EXCEPT !.rest = @ \ {d}]]
        OBVIOUS
    <3>3. frames \in Seq(Frame) /\ Len(frames) = L
        BY <2>2, <3>1, <3>2
    <3>4. \A i \in 1..L : frames[i] = IF i = L THEN [path[L] EXCEPT !.rest = @ \ {d}] ELSE path[i]
        BY <2>2, <3>2
    <3>5. QED
        BY <2>2, <3>1, <3>3, <3>4 DEF Frame
  <2> HIDE DEF frames
  <2>6. \A i \in 1..L : /\ frames[i].node = path[i].node
                        /\ frames[i].rest \subseteq path[i].rest
                        /\ i # L => frames[i].rest = path[i].rest
                        /\ path[i].rest \subseteq frames[i].rest \cup {d}
      BY <2>5
  <2>7. CRD \ roots' \subseteq visited \cup {d} /\ roots' \in SUBSET CRD
      BY <2>1 DEF Searching, Called, SearchTypes
  <2>8. phase' # "validate"
      BY <2>1 DEF Enter
  <2>9. SearchTypes' /\ (phase' = "dfs" => Searching') /\ ValidationExact'
      BY <2>1, <2>4, <2>5, <2>6, <2>7, EnterSearching
  <2>10. QED
      BY <2>8, <2>9 DEF SearchInv
<1>5. CASE DfsReturn
  <2>1. phase' # "validate" /\ SearchTypes /\ Searching
      BY <1>5 DEF DfsReturn, SearchInv
  <2>2. QED
      BY <1>5, <2>1, ReturnSearching DEF SearchInv
<1>6. CASE DfsDone
  <2>1. /\ phase' = "build" /\ UNCHANGED <<deps, validated, roots, visited, path>>
        /\ SearchTypes /\ Searching /\ path = <<>> /\ roots = {}
      BY <1>6 DEF DfsDone, SearchInv, dfsVars
  <2>2. Sound'
      BY <2>1, DoneSound DEF Sound, Cyclic
  <2>3. SearchTypes'
      BY <2>1 DEF SearchTypes
  <2>4. QED
      BY <2>1, <2>2, <2>3 DEF SearchInv, ValidationExact
<1>7. CASE NewDependencyGraph
    BY <1>7, LaterSteps DEF NewDependencyGraph
<1>8. CASE KahnRound
    BY <1>8, LaterSteps DEF KahnRound
<1>9. CASE KahnDone
    BY <1>9, LaterSteps DEF KahnDone
<1>10. QED
    BY <1>1, <1>2, <1>3, <1>4, <1>5, <1>6, <1>7, <1>8, <1>9 DEF Next

\* The invariant of the search, for every number of CRDs and every katalog.
THEOREM SearchInvariant == Spec => []SearchInv
    BY InitSearchInv, NextSearchInv, PTL DEF Spec

\* validateDependsOn and its search reject exactly the katalogs that have an
\* unknown name or a cycle, whatever order the search is started in.
THEOREM ValidationExactHolds == Spec => []ValidationExact
<1>1. SearchInv => ValidationExact
    BY DEF SearchInv
<1>2. QED
    BY <1>1, SearchInvariant, PTL

\* The search and the rounds keep their types: no in-degree goes below zero, no
\* name outside the katalog is entered or placed.
THEOREM GraphTypeCorrect == Spec => []TypeOK
<1>1. SearchInv /\ GraphInv => TypeOK
    BY DEF SearchInv, SearchTypes, GraphInv, KahnTypes, TypeOK
<1>2. QED
    BY <1>1, SearchInvariant, GraphInvariant, PTL

\* A katalog that passed the validation never takes the process down in
\* NewDependencyGraph or StartupOrder: the two tests of a cycle, written
\* independently, agree.
THEOREM ValidatedNeverExits == Spec => [](validated => phase # "exited")
<1>1. ValidationExact /\ ExitExact => (validated => phase # "exited")
    BY DEF ValidationExact, ExitExact
<1>2. QED
    BY <1>1, ValidationExactHolds, ExitExactHolds, PTL

\* What Kordinator assumes of its katalog and of its startup order
\* (KatalogAssumption): every CRD has one place, after what it needs.
OrderForKordinator ==
    /\ deps \in [CRD -> SUBSET CRD]
    /\ order \in Seq(CRD)
    /\ \A c \in CRD : \E i \in 1..Len(order) : order[i] = c
    /\ \A i, j \in 1..Len(order) : order[i] = order[j] => i = j
    /\ \A i \in 1..Len(order) : \A d \in deps[order[i]] : \E j \in 1..(i - 1) : order[j] = d

\* The order that Kordinate gets from StartupOrder is one Kordinator's theorems
\* are about: its assumption is discharged for every katalog that is ordered,
\* validated or not.
THEOREM KordinatorAssumptionMet == Spec => [](phase = "ordered" => OrderForKordinator)
<1>1. GraphInv => (phase = "ordered" => OrderForKordinator)
  <2> SUFFICES ASSUME GraphInv, phase = "ordered" PROVE OrderForKordinator
      OBVIOUS
  <2>1. deps \in [CRD -> SUBSET CRD] /\ order \in Seq(CRD)
      BY DEF GraphInv, KahnTypes
  <2>2. Elements(order) = CRD
      BY FullOrder DEF GraphInv
  <2>3. \A c \in CRD : \E i \in 1..Len(order) : order[i] = c
      BY <2>2 DEF Elements
  <2>4. QED
      BY <2>1, <2>3 DEF GraphInv, OrderTopological, OrderForKordinator
<1>2. QED
    BY <1>1, GraphInvariant, PTL
=============================================================================
