--------------------------- MODULE DeletionProofs ---------------------------
(***************************************************************************)
(* For any number of replicas, stages and faults: the stages of a deletion *)
(* keep their order and no cluster-scoped resource outlives its CR.        *)
(*                                                                         *)
(* Both need more than they say.  Before a reconcile has read the CR as    *)
(* deleting, nothing is being deleted, the cleanup finalizer is never      *)
(* taken off, and a replica creates children only when it is on the CR;    *)
(* afterwards nothing is created any more, so a stage that is gone stays   *)
(* gone and a replica that takes the finalizer off has deleted the         *)
(* cluster-scoped resources.  Between the two lies the first reading of    *)
(* the deletion, which finds no reconcile under way.                       *)
(***************************************************************************)
EXTENDS Deletion, TLAPS

ServerOK ==
    /\ cr \in CR
    /\ cr.state = "gone" => cr.fin = {}
    /\ child \in [Child -> {"absent", "live", "going"}]

\* A replica that runs has listed the CR.
CacheOK ==
    /\ cache \in [Process -> CR \cup {NoSnapshot}]
    /\ \A p \in Process : phase[p] # "down" => cache[p] # NoSnapshot

\* The part of TypeOK about reconciles; past the waits every stage is done.
ReconcileOK ==
    /\ due \in [Process -> BOOLEAN]
    /\ pc \in [Process -> {"idle", "ensure", "create", "submit", "wait", "cluster", "unfinalize"}]
    /\ snap \in [Process -> CR \cup {NoSnapshot}]
    /\ stage \in [Process -> 0..(NStages + 1)]
    /\ \A p \in Process :
          /\ pc[p] = "idle" <=> snap[p] = NoSnapshot
          /\ pc[p] = "idle" <=> stage[p] = 0
          /\ pc[p] = "wait" => stage[p] <= NStages
          /\ pc[p] \in {"cluster", "unfinalize"} => stage[p] = NStages + 1
          /\ pc[p] \in {"ensure", "create"} => stage[p] = 1

HistoryOK == sawDeletion \in BOOLEAN /\ raced \in BOOLEAN

Shape == ElectionTypeOK /\ ServerOK /\ CacheOK /\ ReconcileOK /\ HistoryOK

\* One reconcile at a time.
Alone == \A p, q \in Process : pc[p] # "idle" /\ pc[q] # "idle" => p = q

HasCleanup(s) == s # NoSnapshot /\ cleanup \in s.fin

\* Until a reconcile has read the deletion the finalizer, once seen, stays.
BeforeDeletion ==
    ~ sawDeletion =>
        /\ \A p \in Process : pc[p] \in {"idle", "ensure", "create"}
        /\ \A c \in Child : child[c] # "going"
        /\ \A p \in Process : HasCleanup(cache[p]) \/ HasCleanup(snap[p]) => cleanup \in cr.fin

\* From then on nothing is created.
AfterDeletion == sawDeletion => \A p \in Process : pc[p] \notin {"ensure", "create"}

\* What makes the finalizer protect the cluster-scoped resources.
Protected ==
    /\ child[0] = "live" => cleanup \in cr.fin
    /\ \A p \in Process : pc[p] = "create" => cleanup \in cr.fin
    /\ \A p \in Process : pc[p] = "unfinalize" => child[0] # "live"

\* The stages a replica has passed are gone.
StagesPassed == \A p \in Process : \A i \in 1..NStages : i < stage[p] => child[i] = "absent"

InOrder ==
    \A i, j \in 1..NStages :
        /\ i < j /\ child[j] = "going" => child[i] = "absent"
        /\ child[0] = "going" => child[i] = "absent"

Orderly ==
    /\ Alone
    /\ BeforeDeletion
    /\ AfterDeletion
    /\ Protected
    /\ StagesPassed
    /\ InOrder

IInv == Shape /\ (~ raced => Orderly)

-----------------------------------------------------------------------------
(* Types and shape                                                         *)

\* The constants are what the arguments below need of them.
LEMMA Constants ==
    /\ NStages \in Nat /\ 0 \in Child /\ NoSnapshot \notin CR
    /\ Child = 0..NStages
    /\ cleanup \in Finalizer /\ foreign \in Finalizer /\ cleanup # foreign
    BY DeletionAssumption DEF Child, CR, Finalizer

\* A new CR, before any reconcile.
LEMMA InitShape == Init => Shape
<1> SUFFICES ASSUME Init PROVE Shape
    OBVIOUS
<1>1. First \in Process
    BY ElectionAssumption DEF First
<1>2. ElectionTypeOK
    BY <1>1, ElectionAssumption DEF Init, ElectionInit, ElectionTypeOK, Phase
<1>3. cr \in CR /\ cr.fin = {} /\ cr.state = "live"
    BY DEF Init, CR
<1>4. ServerOK
    BY <1>3 DEF Init, ServerOK
<1>5. CacheOK
    BY <1>3, Constants DEF Init, CacheOK
<1>6. ReconcileOK
    BY Constants DEF Init, ReconcileOK
<1>7. QED
    BY <1>2, <1>4, <1>5, <1>6 DEF Init, Shape, HistoryOK

\* Faults are counted up to their bound.
LEMMA FaultsBounded ==
    ASSUME ElectionTypeOK, faults' = faults \/ Fault
    PROVE  faults' \in 0..MaxFaults
    BY ElectionAssumption DEF ElectionTypeOK, Fault

\* A replica changes its phase and does not come up or go down.
LEMMA CampaignShape ==
    ASSUME Shape, NEW p \in Process, Campaign(p)
    PROVE  /\ ElectionTypeOK'
           /\ \A q \in Process : phase'[q] # "down" => phase[q] # "down"
<1> USE DEF Campaign, Elected, LoseLease, OnStoppedLeading, RenewalFails, LeaseEnds,
            LeadershipLost, ProbeFails, Sigterm
<1>1. faults' = faults \/ Fault
    OBVIOUS
<1>2. faults' \in 0..MaxFaults
    BY <1>1, FaultsBounded DEF Shape
<1>3. lease' \in Process \cup {NoProcess}
    BY DEF Shape, ElectionTypeOK
<1>4. \/ phase' = phase
      \/ /\ phase[p] # "down"
         /\ \E ph \in Phase : Become(p, ph)
    BY DEF LeaseEnds, Phase
<1>5. QED
    BY <1>2, <1>3, <1>4 DEF Become, Shape, ElectionTypeOK

\* What one replica's reconcile may become keeps the shape: x, y, z and b are its
\* new program counter, snapshot, stage and place in the queue.
LEMMA ReconcileMoves ==
    ASSUME ReconcileOK, NEW p \in Process,
           NEW x \in {"idle", "ensure", "create", "submit", "wait", "cluster", "unfinalize"},
           NEW y \in CR \cup {NoSnapshot}, NEW z \in 0..(NStages + 1), NEW b \in BOOLEAN,
           pc' = [pc EXCEPT ![p] = x], snap' = [snap EXCEPT ![p] = y],
           stage' = [stage EXCEPT ![p] = z], due' = [due EXCEPT ![p] = b],
           x = "idle" <=> y = NoSnapshot, x = "idle" <=> z = 0,
           x = "wait" => z <= NStages, x \in {"cluster", "unfinalize"} => z = NStages + 1,
           x \in {"ensure", "create"} => z = 1
    PROVE  ReconcileOK'
<1>1. /\ pc'[p] = x /\ snap'[p] = y /\ stage'[p] = z
      /\ \A q \in Process : q # p => /\ pc'[q] = pc[q]
                                     /\ snap'[q] = snap[q]
                                     /\ stage'[q] = stage[q]
    BY DEF ReconcileOK
<1>2. /\ due' \in [Process -> BOOLEAN]
      /\ pc' \in [Process -> {"idle", "ensure", "create", "submit", "wait", "cluster", "unfinalize"}]
      /\ snap' \in [Process -> CR \cup {NoSnapshot}]
      /\ stage' \in [Process -> 0..(NStages + 1)]
    BY DEF ReconcileOK
<1>3. QED
    BY <1>1, <1>2 DEF ReconcileOK

\* The reconcile returns.
LEMMA ReturnShape ==
    ASSUME ReconcileOK, NEW p \in Process, NEW err \in BOOLEAN, Return(p, err)
    PROVE  ReconcileOK'
<1> DEFINE b == due[p] \/ err
<1>1. b \in BOOLEAN
    BY DEF ReconcileOK
<1>2. due' = [due EXCEPT ![p] = b]
    BY DEF Return
<1> HIDE DEF b
<1>3. 0 \in 0..(NStages + 1)
    BY Constants
<1>4. QED
    BY <1>1, <1>2, <1>3, ReconcileMoves DEF Return

\* The reconcile goes on at x, or returns.
LEMMA GotoShape ==
    ASSUME ReconcileOK, NEW p \in Process, pc[p] # "idle",
           NEW x \in {"ensure", "create", "submit", "wait", "cluster", "unfinalize"},
           x = "wait" => stage[p] <= NStages,
           x \in {"cluster", "unfinalize"} => stage[p] = NStages + 1,
           x \in {"ensure", "create"} => stage[p] = 1,
           Goto(p, x)
    PROVE  ReconcileOK'
<1>1. CASE Leads(p)
  <2>1. pc' = [pc EXCEPT ![p] = x] /\ UNCHANGED <<snap, stage, due>>
      BY <1>1 DEF Goto
  <2>2. /\ pc' \in [Process -> {"idle", "ensure", "create", "submit", "wait", "cluster", "unfinalize"}]
        /\ pc'[p] = x /\ x # "idle" /\ \A q \in Process : q # p => pc'[q] = pc[q]
      BY <2>1 DEF ReconcileOK
  <2>3. snap[p] # NoSnapshot /\ stage[p] # 0
      BY DEF ReconcileOK
  <2>4. QED
      BY <2>1, <2>2, <2>3 DEF ReconcileOK
<1>2. CASE ~ Leads(p)
    BY <1>2, ReturnShape DEF Goto
<1>3. QED
    BY <1>1, <1>2

\* What the API server makes of a list of finalizers.
LEMMA Patched ==
    ASSUME cr \in CR, NEW fs \in SUBSET Finalizer
    PROVE  /\ WithFinalizers(fs) \in CR
           /\ WithFinalizers(fs).fin = fs
           /\ WithFinalizers(fs).state \in {cr.state, "gone"}
           /\ WithFinalizers(fs).state = "gone" /\ cr.state # "gone" => fs = {}
    BY DEF WithFinalizers, CR

\* A patch that is accepted keeps the server in shape.
LEMMA PatchShape ==
    ASSUME ServerOK, NEW fs \in SUBSET Finalizer, PatchFinalizers(fs), child' = child
    PROVE  ServerOK' /\ cr'.fin = fs
<1>1. cr \in CR /\ cr.state # "gone" /\ cr' = WithFinalizers(fs)
    BY DEF ServerOK, PatchFinalizers, Accepts
<1>2. QED
    BY <1>1, Patched DEF ServerOK

\* The steps of the cluster.
LEMMA ClusterShape ==
    ASSUME Shape,
           UserDeletes \/ ForeignAdds \/ ForeignRemoves \/ \E c \in Child : ChildGone(c)
    PROVE  /\ ServerOK'
           /\ cleanup \in cr'.fin <=> cleanup \in cr.fin
           /\ UNCHANGED <<electionVars, informers, reconcile, history>>
<1>0. cr \in CR /\ cr.fin \in SUBSET Finalizer
    BY DEF Shape, ServerOK, CR
<1>1. CASE UserDeletes
  <2>1. /\ cr' = [cr EXCEPT !.state = IF cr.fin = {} THEN "gone" ELSE "deleting"]
        /\ child' = child
      BY <1>1 DEF UserDeletes
  <2>2. cr' \in CR /\ cr'.fin = cr.fin /\ (cr'.state = "gone" => cr.fin = {})
      BY <1>0, <2>1 DEF CR
  <2>3. QED
      BY <1>1, <2>1, <2>2 DEF UserDeletes, Shape, ServerOK
<1>2. CASE ForeignAdds
  <2>1. cr' = WithFinalizers(cr.fin \cup {foreign}) /\ child' = child /\ cr.state = "live"
      BY <1>2 DEF ForeignAdds
  <2>2. cr.fin \cup {foreign} \in SUBSET Finalizer
      BY <1>0, Constants
  <2>3. ServerOK' /\ cr'.fin = cr.fin \cup {foreign}
      BY <1>0, <2>1, <2>2, Patched DEF Shape, ServerOK
  <2>4. QED
      BY <1>2, <2>3, Constants DEF ForeignAdds
<1>3. CASE ForeignRemoves
  <2>1. cr' = WithFinalizers(cr.fin \ {foreign}) /\ child' = child /\ cr.state = "deleting"
      BY <1>3 DEF ForeignRemoves
  <2>2. cr.fin \ {foreign} \in SUBSET Finalizer
      BY <1>0
  <2>3. ServerOK' /\ cr'.fin = cr.fin \ {foreign}
      BY <1>0, <2>1, <2>2, Patched DEF Shape, ServerOK
  <2>4. QED
      BY <1>3, <2>3, Constants DEF ForeignRemoves
<1>4. CASE \E c \in Child : ChildGone(c)
    BY <1>4 DEF ChildGone, Shape, ServerOK
<1>5. QED
    BY <1>1, <1>2, <1>3, <1>4

\* Election, caches and history are untouched by the steps of a reconcile.
LEMMA StepShape ==
    ASSUME Shape, NEW p \in Process, Step(p) \/ Fail(p)
    PROVE  Shape'
<1> USE DEF Shape
<1>0. /\ CacheOK' /\ HistoryOK' /\ ElectionTypeOK'
  <2>1. UNCHANGED <<lease, phase, cache, history>> /\ (faults' = faults \/ Fault)
      BY DEF Step, EnsureFinalizers, CreateChild, Reconciled, SubmitGroupDeletion,
         WaitForDeletion, WaitTimesOut, DeleteClusterScoped, RemoveFinalizers, Refused, Fail,
         electionVars, informers
  <2>2. QED
      BY <2>1, FaultsBounded DEF CacheOK, HistoryOK, ElectionTypeOK, history
<1>1. CASE EnsureFinalizers(p)
  <2>1. pc[p] = "ensure" /\ Goto(p, "create") /\ child' = child
      BY <1>1 DEF EnsureFinalizers
  <2>2. snap[p] \in CR
      BY <2>1 DEF ReconcileOK
  <2>3. snap[p].fin \cup {cleanup} \in SUBSET Finalizer
      BY <2>2, Constants DEF CR
  <2>4. cr' = cr \/ PatchFinalizers(snap[p].fin \cup {cleanup})
      BY <1>1 DEF EnsureFinalizers
  <2>5. ServerOK'
      BY <2>1, <2>3, <2>4, PatchShape DEF ServerOK
  <2>6. ReconcileOK'
    <3>1. stage[p] = 1
        BY <2>1 DEF ReconcileOK
    <3>2. QED
        BY <2>1, <3>1, GotoShape
  <2>7. QED
      BY <1>0, <2>5, <2>6
<1>2. ASSUME NEW c \in Child, CreateChild(p, c) PROVE Shape'
  <2>1. ServerOK'
      BY <1>2 DEF CreateChild, ServerOK
  <2>2. pc[p] = "create" /\ stage[p] = 1 /\ Goto(p, "create")
      BY <1>2 DEF CreateChild, ReconcileOK
  <2>3. ReconcileOK'
      BY <2>2, GotoShape
  <2>4. QED
      BY <1>0, <2>1, <2>3
<1>3. CASE Reconciled(p) \/ WaitTimesOut(p) \/ Refused(p) \/ Fail(p)
  <2>1. UNCHANGED server /\ \E err \in BOOLEAN : Return(p, err)
      BY <1>3 DEF Reconciled, WaitTimesOut, Refused, Fail
  <2>2. QED
      BY <1>0, <2>1, ReturnShape DEF ServerOK, server
<1>4. CASE SubmitGroupDeletion(p)
  <2>1. ServerOK'
      BY <1>4 DEF SubmitGroupDeletion, ServerOK
  <2>2. CASE stage[p] <= NStages
      BY <1>0, <1>4, <2>1, <2>2, GotoShape DEF SubmitGroupDeletion
  <2>3. CASE ~ (stage[p] <= NStages)
    <3>1. stage[p] = NStages + 1
        BY <2>3, Constants DEF ReconcileOK
    <3>2. QED
        BY <1>0, <1>4, <2>1, <2>3, <3>1, GotoShape DEF SubmitGroupDeletion
  <2>4. QED
      BY <2>2, <2>3
<1>5. CASE WaitForDeletion(p)
  <2>1. /\ pc[p] = "wait" /\ pc' = [pc EXCEPT ![p] = "submit"]
        /\ stage' = [stage EXCEPT ![p] = stage[p] + 1] /\ UNCHANGED <<server, due, snap>>
      BY <1>5 DEF WaitForDeletion, informers
  <2>2. /\ snap' = [snap EXCEPT ![p] = snap[p]] /\ snap[p] \in CR \cup {NoSnapshot}
        /\ due' = [due EXCEPT ![p] = due[p]] /\ due[p] \in BOOLEAN
        /\ snap[p] # NoSnapshot
      BY <2>1 DEF ReconcileOK
  <2>3. stage[p] + 1 \in 0..(NStages + 1) /\ stage[p] + 1 # 0
      BY <2>1, Constants DEF ReconcileOK
  <2>4. ReconcileOK'
      BY <2>1, <2>2, <2>3, ReconcileMoves
  <2>5. QED
      BY <1>0, <2>1, <2>4 DEF ServerOK, server
<1>6. CASE DeleteClusterScoped(p)
  <2>1. ServerOK'
      BY <1>6, Constants DEF DeleteClusterScoped, ServerOK
  <2>2. pc[p] = "cluster" /\ stage[p] = NStages + 1 /\ Goto(p, "unfinalize")
      BY <1>6 DEF DeleteClusterScoped, ReconcileOK
  <2>3. QED
      BY <1>0, <2>1, <2>2, GotoShape
<1>7. CASE RemoveFinalizers(p)
  <2>1. pc[p] = "unfinalize" /\ Return(p, FALSE) /\ child' = child
      BY <1>7 DEF RemoveFinalizers
  <2>2. snap[p] \in CR
      BY <2>1 DEF ReconcileOK
  <2>3. snap[p].fin \ {cleanup} \in SUBSET Finalizer
      BY <2>2 DEF CR
  <2>4. cr' = cr \/ PatchFinalizers(snap[p].fin \ {cleanup})
      BY <1>7 DEF RemoveFinalizers
  <2>5. ServerOK'
      BY <2>1, <2>3, <2>4, PatchShape DEF ServerOK
  <2>6. QED
      BY <1>0, <2>1, <2>5, ReturnShape
<1>8. QED
    BY <1>1, <1>2, <1>3, <1>4, <1>5, <1>6, <1>7 DEF Step

\* A replica that comes up lists the CR; one that goes down forgets everything.
LEMMA LifeShape ==
    ASSUME Shape, NEW p \in Process, (Boot(p) /\ Relist(p)) \/ ((Exit(p) \/ Crash(p)) /\ Dies(p))
    PROVE  Shape'
<1> USE DEF Shape
<1>1. ElectionTypeOK'
  <2>1. /\ (faults' = faults \/ Fault) /\ lease' = lease
        /\ \E ph \in Phase : phase' = [phase EXCEPT ![p] = ph]
      BY DEF Boot, Exit, Crash, Become, Phase
  <2>2. QED
      BY <2>1, FaultsBounded DEF ElectionTypeOK
<1>2. ServerOK' /\ HistoryOK'
    BY DEF Relist, Dies, server, history, ServerOK, HistoryOK
<1>3. CASE Boot(p) /\ Relist(p)
  <2>1. cr \in CR /\ cr # NoSnapshot
      BY Constants DEF ServerOK
  <2>2. CacheOK'
      BY <1>3, <2>1 DEF Boot, Relist, Become, CacheOK, ElectionTypeOK
  <2>3. ReconcileOK'
      BY <1>3 DEF Relist, reconcile, ReconcileOK
  <2>4. QED
      BY <1>1, <1>2, <2>2, <2>3
<1>4. CASE (Exit(p) \/ Crash(p)) /\ Dies(p)
  <2>1. CacheOK'
      BY <1>4 DEF Exit, Crash, Dies, Become, CacheOK, ElectionTypeOK
  <2>2. 0 \in 0..(NStages + 1)
      BY Constants
  <2>3. ReconcileOK'
      BY <1>4, <2>2, ReconcileMoves DEF Dies
  <2>4. QED
      BY <1>1, <1>2, <2>1, <2>3
<1>5. QED
    BY <1>3, <1>4

\* The informer catches up.
LEMMA WatchShape ==
    ASSUME Shape, NEW p \in Process, Watch(p)
    PROVE  Shape'
<1> USE DEF Shape
<1>1. ElectionTypeOK' /\ ServerOK' /\ HistoryOK'
    BY DEF Watch, electionVars, server, history, ElectionTypeOK, ServerOK, HistoryOK
<1>2. CacheOK'
    BY Constants DEF Watch, electionVars, CacheOK, ServerOK
<1>3. ReconcileOK'
    BY DEF Watch, reconcile, ReconcileOK
<1>4. QED
    BY <1>1, <1>2, <1>3

\* A reconcile begins, or finds nothing in the store.
LEMMA ReadShape ==
    ASSUME Shape, NEW p \in Process, Read(p)
    PROVE  Shape'
<1> USE DEF Shape
<1>1. ElectionTypeOK' /\ ServerOK' /\ CacheOK'
    BY DEF Read, electionVars, server, ElectionTypeOK, ServerOK, CacheOK
<1>2. HistoryOK'
    BY DEF Read, history, HistoryOK
<1>3. cache[p] \in CR /\ cache[p] # NoSnapshot
    BY Constants DEF Read, Leads, CacheOK
<1>4. due' = [due EXCEPT ![p] = FALSE]
    BY DEF Read
<1>5. CASE cache[p].state = "gone"
  <2>1. UNCHANGED <<pc, snap, stage>>
      BY <1>5 DEF Read, reconcile
  <2>2. ReconcileOK'
      BY <1>4, <2>1 DEF ReconcileOK
  <2>3. QED
      BY <1>1, <1>2, <2>2
<1>6. CASE cache[p].state # "gone"
  <2>1. PICK x \in {"ensure", "submit"} : pc' = [pc EXCEPT ![p] = x]
      BY <1>6 DEF Read
  <2>2. snap' = [snap EXCEPT ![p] = cache[p]] /\ stage' = [stage EXCEPT ![p] = 1]
      BY <1>6 DEF Read
  <2>3. 1 \in 0..(NStages + 1)
      BY Constants
  <2>4. /\ pc'[p] = x /\ snap'[p] = cache[p] /\ stage'[p] = 1
        /\ \A q \in Process : q # p => /\ pc'[q] = pc[q]
                                       /\ snap'[q] = snap[q]
                                       /\ stage'[q] = stage[q]
      BY <2>1, <2>2 DEF ReconcileOK
  <2>5. /\ due' \in [Process -> BOOLEAN]
        /\ pc' \in [Process -> {"idle", "ensure", "create", "submit", "wait", "cluster", "unfinalize"}]
        /\ snap' \in [Process -> CR \cup {NoSnapshot}]
        /\ stage' \in [Process -> 0..(NStages + 1)]
      BY <1>3, <1>4, <2>1, <2>2, <2>3 DEF ReconcileOK
  <2>6. ReconcileOK'
      BY <1>3, <2>1, <2>4, <2>5 DEF ReconcileOK
  <2>7. QED
      BY <1>1, <1>2, <2>6
<1>7. QED
    BY <1>5, <1>6

\* Every step keeps the shape.
LEMMA NextShape == Shape /\ [Next]_vars => Shape'
<1> SUFFICES ASSUME Shape, [Next]_vars PROVE Shape'
    OBVIOUS
<1>1. CASE UNCHANGED vars
    BY <1>1 DEF Shape, ElectionTypeOK, ServerOK, CacheOK, ReconcileOK, HistoryOK, vars,
       electionVars, server, informers, reconcile, history
<1>2. ASSUME NEW p \in Process, Campaign(p), UNCHANGED <<server, informers, reconcile, history>>
      PROVE  Shape'
    BY <1>2, CampaignShape DEF Shape, ServerOK, CacheOK, ReconcileOK, HistoryOK,
       server, informers, reconcile, history
<1>3. CASE UserDeletes \/ ForeignAdds \/ ForeignRemoves \/ \E c \in Child : ChildGone(c)
    BY <1>3, ClusterShape DEF Shape, ElectionTypeOK, CacheOK, ReconcileOK, HistoryOK,
       electionVars, informers, reconcile, history
<1>4. QED
    BY <1>1, <1>2, <1>3, LifeShape, WatchShape, ReadShape, StepShape DEF Next

-----------------------------------------------------------------------------
(* Histories in which nothing raced                                        *)

\* The first state.
LEMMA InitOrderly == Init => Orderly
<1> SUFFICES ASSUME Init PROVE Orderly
    OBVIOUS
<1>1. Alone /\ AfterDeletion /\ StagesPassed
    BY Constants DEF Init, Alone, AfterDeletion, StagesPassed
<1>2. BeforeDeletion
    BY DEF Init, BeforeDeletion, HasCleanup
<1>3. Protected /\ InOrder
    BY Constants DEF Init, Protected, InOrder
<1>4. QED
    BY <1>1, <1>2, <1>3 DEF Orderly

\* Nobody's reconcile moves, the finalizer stays where it is, no child is created
\* and none is asked to go.
LEMMA QuietOrderly ==
    ASSUME Shape, Orderly, UNCHANGED <<cache, pc, snap, stage, sawDeletion>>,
           cleanup \in cr'.fin <=> cleanup \in cr.fin,
           \A c \in Child : child'[c] = child[c] \/ child'[c] = "absent"
    PROVE  Orderly'
<1>1. Alone' /\ AfterDeletion'
    BY DEF Orderly, Alone, AfterDeletion
<1>2. BeforeDeletion'
    BY DEF Orderly, BeforeDeletion, HasCleanup
<1>3. 0 \in Child /\ \A i \in 1..NStages : i \in Child
    BY Constants
<1>4. Protected'
    BY <1>3 DEF Orderly, Protected
<1>5. StagesPassed'
    BY <1>3 DEF Orderly, StagesPassed
<1>6. InOrder'
    BY <1>3 DEF Orderly, InOrder
<1>7. QED
    BY <1>1, <1>2, <1>4, <1>5, <1>6 DEF Orderly

\* A replica's store becomes the CR of the server, or is lost with the replica.
LEMMA CacheOrderly ==
    ASSUME Shape, Orderly, NEW p \in Process, NEW y \in {cr, NoSnapshot},
           cache' = [cache EXCEPT ![p] = y], UNCHANGED <<cr, child, pc, snap, stage, sawDeletion>>
    PROVE  Orderly'
<1>1. Alone' /\ AfterDeletion' /\ Protected' /\ StagesPassed' /\ InOrder'
    BY DEF Orderly, Alone, AfterDeletion, Protected, StagesPassed, InOrder
<1>2. \A q \in Process : HasCleanup(cache'[q]) => HasCleanup(cache[q]) \/ cleanup \in cr.fin
    BY DEF Shape, CacheOK, HasCleanup
<1>3. BeforeDeletion'
    BY <1>2 DEF Orderly, BeforeDeletion, HasCleanup
<1>4. QED
    BY <1>1, <1>3 DEF Orderly

\* A reconcile ends, and with it what it knew; the server may have changed as above.
LEMMA ReturnOrderly ==
    ASSUME Shape, Orderly, NEW p \in Process, pc' = [pc EXCEPT ![p] = "idle"],
           snap' = [snap EXCEPT ![p] = NoSnapshot], stage' = [stage EXCEPT ![p] = 0],
           UNCHANGED <<cr, child, cache, sawDeletion>>
    PROVE  Orderly'
<1>1. /\ pc'[p] = "idle" /\ snap'[p] = NoSnapshot /\ stage'[p] = 0
      /\ \A q \in Process : q # p => /\ pc'[q] = pc[q]
                                     /\ snap'[q] = snap[q]
                                     /\ stage'[q] = stage[q]
    BY DEF Shape, ReconcileOK
<1>2. Alone' /\ AfterDeletion'
    BY <1>1 DEF Orderly, Alone, AfterDeletion
<1>3. BeforeDeletion'
    BY <1>1 DEF Orderly, BeforeDeletion, HasCleanup
<1>4. Protected' /\ InOrder'
    BY <1>1 DEF Orderly, Protected, InOrder
<1>5. StagesPassed'
    BY <1>1 DEF Orderly, StagesPassed
<1>6. QED
    BY <1>2, <1>3, <1>4, <1>5 DEF Orderly

\* While one replica reconciles no other does, so its step is the only change.
LEMMA Solo ==
    ASSUME Shape, Orderly, NEW p \in Process, pc[p] # "idle", NEW x,
           Goto(p, x) \/ \E err \in BOOLEAN : Return(p, err)
    PROVE  /\ \A q \in Process : q # p => pc'[q] = "idle" /\ snap'[q] = NoSnapshot /\ stage'[q] = 0
           /\ pc'[p] \in {x, "idle"}
           /\ snap'[p] \in {snap[p], NoSnapshot}
           /\ stage'[p] \in {stage[p], 0}
           /\ Alone'
<1>1. \A q \in Process : q # p => pc[q] = "idle" /\ snap[q] = NoSnapshot /\ stage[q] = 0
    BY DEF Shape, ReconcileOK, Orderly, Alone
<1>2. /\ \A q \in Process : q # p => /\ pc'[q] = pc[q]
                                     /\ snap'[q] = snap[q]
                                     /\ stage'[q] = stage[q]
      /\ pc'[p] \in {x, "idle"}
      /\ snap'[p] \in {snap[p], NoSnapshot}
      /\ stage'[p] \in {stage[p], 0}
    BY DEF Goto, Return, Shape, ReconcileOK
<1>3. Alone'
    BY <1>1, <1>2 DEF Alone
<1>4. QED
    BY <1>1, <1>2, <1>3

\* A replica that ensures or creates has not seen the deletion, nobody has.
LEMMA Creating ==
    ASSUME Orderly, NEW p \in Process, pc[p] \in {"ensure", "create"}
    PROVE  ~ sawDeletion
    BY DEF Orderly, AfterDeletion

\* A replica that deletes has seen it.
LEMMA Deleting ==
    ASSUME Orderly, NEW p \in Process, pc[p] \in {"submit", "wait", "cluster", "unfinalize"}
    PROVE  sawDeletion
    BY DEF Orderly, BeforeDeletion

\* ensureFinalizers leaves the finalizer on the CR, also when it finds it there.
LEMMA EnsureOrderly ==
    ASSUME Shape, Orderly, NEW p \in Process, EnsureFinalizers(p)
    PROVE  Orderly'
<1>0. pc[p] = "ensure" /\ Goto(p, "create") /\ UNCHANGED <<child, cache, sawDeletion>>
    BY DEF EnsureFinalizers, history
<1>1. ~ sawDeletion
    BY <1>0, Creating
<1>2. snap[p] \in CR /\ snap[p] # NoSnapshot
    BY <1>0 DEF Shape, ReconcileOK
<1>3. cleanup \in cr'.fin
  <2>1. CASE cleanup \in snap[p].fin
      BY <1>1, <1>2, <2>1 DEF EnsureFinalizers, Orderly, BeforeDeletion, HasCleanup
  <2>2. CASE cleanup \notin snap[p].fin
    <3>1. PatchFinalizers(snap[p].fin \cup {cleanup})
        BY <2>2 DEF EnsureFinalizers
    <3>2. snap[p].fin \cup {cleanup} \in SUBSET Finalizer
        BY <1>2, Constants DEF CR
    <3>3. QED
        BY <1>0, <3>1, <3>2, PatchShape DEF Shape
  <2>3. QED
      BY <2>1, <2>2
<1>4. /\ \A q \in Process : q # p => pc'[q] = "idle" /\ snap'[q] = NoSnapshot /\ stage'[q] = 0
      /\ pc'[p] \in {"create", "idle"} /\ stage'[p] \in {stage[p], 0} /\ Alone'
    BY <1>0, Solo
<1>5. BeforeDeletion' /\ AfterDeletion'
    BY <1>0, <1>1, <1>3, <1>4 DEF Orderly, BeforeDeletion, AfterDeletion
<1>6. Protected'
    BY <1>3, <1>4 DEF Protected
<1>7. StagesPassed'
    BY <1>0, <1>4, Constants DEF Orderly, StagesPassed
<1>8. InOrder'
    BY <1>0 DEF Orderly, InOrder
<1>9. QED
    BY <1>4, <1>5, <1>6, <1>7, <1>8 DEF Orderly

\* A child is created while nothing is being deleted and the finalizer is set.
LEMMA CreateOrderly ==
    ASSUME Shape, Orderly, NEW p \in Process, NEW c \in Child, CreateChild(p, c)
    PROVE  Orderly'
<1>0. /\ pc[p] = "create" /\ Goto(p, "create") /\ UNCHANGED <<cr, cache, sawDeletion>>
      /\ child' = [child EXCEPT ![c] = "live"]
    BY DEF CreateChild, history
<1>1. ~ sawDeletion /\ cleanup \in cr.fin /\ stage[p] = 1
    BY <1>0, Creating DEF Orderly, Protected, Shape, ReconcileOK
<1>2. \A d \in Child : child'[d] \in {child[d], "live"}
    BY <1>0 DEF Shape, ServerOK
<1>3. \A d \in Child : child'[d] # "going"
    BY <1>1, <1>2 DEF Orderly, BeforeDeletion
<1>4. /\ \A q \in Process : q # p => pc'[q] = "idle" /\ snap'[q] = NoSnapshot /\ stage'[q] = 0
      /\ pc'[p] \in {"create", "idle"} /\ stage'[p] \in {1, 0} /\ Alone'
    BY <1>0, <1>1, Solo
<1>5. BeforeDeletion' /\ AfterDeletion'
    BY <1>0, <1>1, <1>3, <1>4 DEF BeforeDeletion, AfterDeletion
<1>6. Protected'
    BY <1>0, <1>1, <1>4 DEF Protected
<1>7. StagesPassed'
    BY <1>4, Constants DEF StagesPassed
<1>8. InOrder'
    BY <1>3, Constants DEF InOrder
<1>9. QED
    BY <1>4, <1>5, <1>6, <1>7, <1>8 DEF Orderly

\* A stage is asked to go after the earlier ones are gone and before the
\* cluster-scoped resources are.
LEMMA SubmitOrderly ==
    ASSUME Shape, Orderly, NEW p \in Process, SubmitGroupDeletion(p)
    PROVE  Orderly'
<1> DEFINE s == stage[p]
<1>0. pc[p] = "submit" /\ UNCHANGED <<cr, cache, sawDeletion>>
    BY DEF SubmitGroupDeletion, history
<1>1. sawDeletion /\ s \in 1..(NStages + 1)
    BY <1>0, Deleting, Constants DEF Shape, ReconcileOK
<1>2. PICK x \in {"wait", "cluster"} : Goto(p, x)
    BY DEF SubmitGroupDeletion
<1>3. \A c \in Child : child'[c] = IF c = s /\ child[c] = "live" THEN "going" ELSE child[c]
    BY <1>1, Constants DEF SubmitGroupDeletion, Shape, ServerOK
<1> HIDE DEF s
<1>4. /\ \A q \in Process : q # p => pc'[q] = "idle" /\ snap'[q] = NoSnapshot /\ stage'[q] = 0
      /\ pc'[p] \in {x, "idle"} /\ stage'[p] \in {s, 0} /\ Alone'
    BY <1>0, <1>2, Solo DEF s
<1>5. BeforeDeletion' /\ AfterDeletion'
    BY <1>0, <1>1, <1>2, <1>4 DEF BeforeDeletion, AfterDeletion
<1>6. child'[0] = child[0] /\ \A i \in 1..NStages : i \in Child
    BY <1>1, <1>3, Constants
<1>7. Protected'
    BY <1>0, <1>2, <1>4, <1>6 DEF Orderly, Protected
<1>8. \A i \in 1..NStages : i < s => child[i] = "absent"
    BY DEF Orderly, StagesPassed, s
<1>9. StagesPassed'
    BY <1>1, <1>3, <1>4, <1>6, <1>8 DEF StagesPassed
<1>10. InOrder'
  <2>1. \A i, j \in 1..NStages : /\ i < j /\ child[j] = "going" => child[i] = "absent"
                                 /\ child[0] = "going" => child[i] = "absent"
      BY DEF Orderly, InOrder
  <2>2. ASSUME NEW i \in 1..NStages, NEW j \in 1..NStages, i < j, child'[j] = "going"
        PROVE  child'[i] = "absent"
    <3>1. CASE child[j] = "going"
        BY <1>3, <1>6, <2>1, <2>2, <3>1
    <3>2. CASE child[j] # "going"
      <4>1. j = s
          BY <1>3, <1>6, <2>2, <3>2
      <4>2. QED
          BY <1>3, <1>6, <1>8, <2>2, <4>1
    <3>3. QED
        BY <3>1, <3>2
  <2>3. ASSUME NEW i \in 1..NStages, child'[0] = "going"
        PROVE  child'[i] = "absent"
      BY <1>3, <1>6, <2>1, <2>3
  <2>4. QED
      BY <2>2, <2>3 DEF InOrder
<1>11. QED
    BY <1>4, <1>5, <1>7, <1>9, <1>10 DEF Orderly

\* A stage that is gone has been passed.
LEMMA WaitOrderly ==
    ASSUME Shape, Orderly, NEW p \in Process, WaitForDeletion(p)
    PROVE  Orderly'
<1>0. /\ pc[p] = "wait" /\ child[stage[p]] = "absent" /\ pc' = [pc EXCEPT ![p] = "submit"]
      /\ stage' = [stage EXCEPT ![p] = stage[p] + 1]
      /\ UNCHANGED <<cr, child, cache, snap, sawDeletion>>
    BY DEF WaitForDeletion, server, informers, history
<1>1. sawDeletion
    BY <1>0, Deleting
<1>2. /\ pc'[p] = "submit" /\ stage'[p] = stage[p] + 1 /\ stage[p] \in 0..(NStages + 1)
      /\ \A q \in Process : q # p => pc'[q] = pc[q] /\ stage'[q] = stage[q]
    BY <1>0 DEF Shape, ReconcileOK
<1>3. Alone'
    BY <1>0, <1>2 DEF Orderly, Alone
<1>4. BeforeDeletion' /\ AfterDeletion'
    BY <1>0, <1>1, <1>2 DEF Orderly, BeforeDeletion, AfterDeletion
<1>5. Protected' /\ InOrder'
    BY <1>0, <1>2 DEF Orderly, Protected, InOrder
<1>6. StagesPassed'
    BY <1>0, <1>2, Constants DEF Orderly, StagesPassed
<1>7. QED
    BY <1>3, <1>4, <1>5, <1>6 DEF Orderly

\* The cluster-scoped resources go after every stage.
LEMMA ClusterScopedOrderly ==
    ASSUME Shape, Orderly, NEW p \in Process, DeleteClusterScoped(p)
    PROVE  Orderly'
<1>0. /\ pc[p] = "cluster" /\ Goto(p, "unfinalize") /\ UNCHANGED <<cr, cache, sawDeletion>>
      /\ child' = [child EXCEPT ![0] = IF child[0] = "live" THEN "going" ELSE child[0]]
    BY DEF DeleteClusterScoped, history
<1>1. sawDeletion /\ stage[p] = NStages + 1
    BY <1>0, Deleting DEF Shape, ReconcileOK
<1>2. child'[0] # "live" /\ \A i \in 1..NStages : child'[i] = child[i]
    BY <1>0, Constants DEF Shape, ServerOK
<1>3. \A i \in 1..NStages : child[i] = "absent"
    BY <1>1, Constants DEF Orderly, StagesPassed
<1>4. /\ \A q \in Process : q # p => pc'[q] = "idle" /\ snap'[q] = NoSnapshot /\ stage'[q] = 0
      /\ pc'[p] \in {"unfinalize", "idle"} /\ Alone'
    BY <1>0, Solo
<1>5. BeforeDeletion' /\ AfterDeletion'
    BY <1>0, <1>1, <1>4 DEF BeforeDeletion, AfterDeletion
<1>6. Protected'
    BY <1>2, <1>4 DEF Protected
<1>7. StagesPassed' /\ InOrder'
    BY <1>2, <1>3 DEF StagesPassed, InOrder
<1>8. QED
    BY <1>4, <1>5, <1>6, <1>7 DEF Orderly

\* The finalizer is taken off after the cluster-scoped resources were deleted.
LEMMA UnfinalizeOrderly ==
    ASSUME Shape, Orderly, NEW p \in Process, RemoveFinalizers(p)
    PROVE  Orderly'
<1>0. pc[p] = "unfinalize" /\ Return(p, FALSE) /\ UNCHANGED <<child, cache, sawDeletion>>
    BY DEF RemoveFinalizers, history
<1>1. sawDeletion /\ child[0] # "live"
    BY <1>0, Deleting DEF Orderly, Protected
<1>2. /\ \A q \in Process : q # p => pc'[q] = "idle" /\ snap'[q] = NoSnapshot /\ stage'[q] = 0
      /\ pc'[p] = "idle" /\ stage'[p] \in {stage[p], 0} /\ Alone'
    BY <1>0, Solo
<1>3. BeforeDeletion' /\ AfterDeletion'
    BY <1>0, <1>1, <1>2 DEF BeforeDeletion, AfterDeletion
<1>4. Protected'
    BY <1>0, <1>1, <1>2 DEF Protected
<1>5. StagesPassed' /\ InOrder'
    BY <1>0, <1>2, Constants DEF Orderly, StagesPassed, InOrder
<1>6. QED
    BY <1>2, <1>3, <1>4, <1>5 DEF Orderly

\* A reconcile begins and does not race: it is alone, and the first to read the
\* deletion finds what the creating reconciles left.
LEMMA ReadOrderly ==
    ASSUME Shape, Orderly, NEW p \in Process, Read(p), ~ raced'
    PROVE  Orderly'
<1>0. pc[p] = "idle" /\ UNCHANGED <<cr, child, cache>>
    BY DEF Read, server
<1>1. CASE cache[p].state = "gone"
    BY <1>0, <1>1, QuietOrderly DEF Read, reconcile, history
<1>2. CASE cache[p].state # "gone"
  <2>1. /\ pc' = [pc EXCEPT ![p] = IF cache[p].state = "live" THEN "ensure" ELSE "submit"]
        /\ snap' = [snap EXCEPT ![p] = cache[p]] /\ stage' = [stage EXCEPT ![p] = 1]
        /\ sawDeletion' = (sawDeletion \/ cache[p].state = "deleting")
        /\ ~ (\E q \in Process \ {p} : pc[q] # "idle") /\ ~ (sawDeletion /\ cache[p].state = "live")
      BY <1>2 DEF Read
  <2>2. cache[p] \in CR /\ cache[p].state \in {"live", "deleting"}
      BY <1>2, Constants DEF Read, Leads, Shape, CacheOK, CR
  <2>3. \A q \in Process : q # p => pc[q] = "idle" /\ snap[q] = NoSnapshot /\ stage[q] = 0
      BY <2>1 DEF Shape, ReconcileOK
  <2>4. /\ pc'[p] = IF cache[p].state = "live" THEN "ensure" ELSE "submit"
        /\ snap'[p] = cache[p] /\ stage'[p] = 1
        /\ \A q \in Process : q # p => pc'[q] = "idle" /\ snap'[q] = NoSnapshot /\ stage'[q] = 0
      BY <2>1, <2>3 DEF Shape, ReconcileOK
  <2>5. Alone'
      BY <2>4 DEF Alone
  <2>6. BeforeDeletion'
      BY <1>0, <2>1, <2>2, <2>4 DEF Orderly, BeforeDeletion, HasCleanup
  <2>7. AfterDeletion'
    <3>1. CASE cache[p].state = "live"
      <4>1. ~ sawDeletion'
          BY <3>1, <2>1
      <4>2. QED
          BY <4>1 DEF AfterDeletion
    <3>2. CASE cache[p].state = "deleting"
      <4>1. pc'[p] = "submit"
          BY <3>2, <2>4
      <4>2. \A q \in Process : pc'[q] \in {"idle", "submit"}
          BY <2>4, <4>1
      <4>3. QED
          BY <4>2 DEF AfterDeletion
    <3>3. QED
        BY <2>2, <3>1, <3>2
  <2>8. Protected' /\ InOrder'
      BY <1>0, <2>4 DEF Orderly, Protected, InOrder
  <2>9. StagesPassed'
      BY <2>4, Constants DEF StagesPassed
  <2>10. QED
      BY <2>5, <2>6, <2>7, <2>8, <2>9 DEF Orderly
<1>3. QED
    BY <1>1, <1>2

\* A history in which nothing raced stays orderly.
LEMMA NextOrderly ==
    ASSUME Shape, ~ raced => Orderly, [Next]_vars, ~ raced'
    PROVE  Orderly'
<1>0. ~ raced /\ Orderly
  <2>1. raced => raced'
      BY DEF Next, Campaign, Boot, Relist, Exit, Crash, Dies, Watch, Read, Step, Fail,
         EnsureFinalizers, CreateChild, Reconciled, SubmitGroupDeletion, WaitForDeletion,
         WaitTimesOut, DeleteClusterScoped, RemoveFinalizers, Refused, UserDeletes,
         ForeignAdds, ForeignRemoves, ChildGone, vars, history
  <2>2. QED
      BY <2>1
<1>1. CASE UNCHANGED vars
    BY <1>0, <1>1, QuietOrderly DEF vars, server, informers, reconcile, history
<1>2. ASSUME NEW p \in Process, Campaign(p), UNCHANGED <<server, informers, reconcile, history>>
      PROVE  Orderly'
    BY <1>0, <1>2, QuietOrderly DEF server, informers, reconcile, history
<1>3. CASE UserDeletes \/ ForeignAdds \/ ForeignRemoves \/ \E c \in Child : ChildGone(c)
  <2>1. \A c \in Child : child'[c] = child[c] \/ child'[c] = "absent"
      BY <1>3 DEF UserDeletes, ForeignAdds, ForeignRemoves, ChildGone, Shape, ServerOK
  <2>2. QED
      BY <1>0, <1>3, <2>1, ClusterShape, QuietOrderly DEF informers, reconcile, history
<1>4. ASSUME NEW p \in Process, (Boot(p) /\ Relist(p)) \/ Watch(p) PROVE Orderly'
    BY <1>0, <1>4, CacheOrderly DEF Relist, Watch, server, reconcile, history
<1>5. ASSUME NEW p \in Process, Dies(p) PROVE Orderly'
  <2>1. /\ cache' = [cache EXCEPT ![p] = NoSnapshot] /\ pc' = [pc EXCEPT ![p] = "idle"]
        /\ snap' = [snap EXCEPT ![p] = NoSnapshot] /\ stage' = [stage EXCEPT ![p] = 0]
        /\ UNCHANGED <<cr, child, sawDeletion>>
      BY <1>5 DEF Dies, server, history
  <2>2. /\ \A q \in Process : HasCleanup(cache'[q]) => HasCleanup(cache[q])
        /\ pc'[p] = "idle" /\ snap'[p] = NoSnapshot /\ stage'[p] = 0
        /\ \A q \in Process : q # p => /\ pc'[q] = pc[q]
                                       /\ snap'[q] = snap[q]
                                       /\ stage'[q] = stage[q]
      BY <2>1 DEF Shape, CacheOK, ReconcileOK, HasCleanup
  <2>3. Alone' /\ AfterDeletion' /\ Protected' /\ InOrder'
      BY <1>0, <2>1, <2>2 DEF Orderly, Alone, AfterDeletion, Protected, InOrder
  <2>4. BeforeDeletion'
      BY <1>0, <2>1, <2>2 DEF Orderly, BeforeDeletion, HasCleanup
  <2>5. StagesPassed'
      BY <1>0, <2>1, <2>2 DEF Orderly, StagesPassed
  <2>6. QED
      BY <2>3, <2>4, <2>5 DEF Orderly
<1>6. ASSUME NEW p \in Process, Reconciled(p) \/ WaitTimesOut(p) \/ Refused(p) \/ Fail(p)
      PROVE  Orderly'
  <2>1. UNCHANGED <<cr, child, cache, sawDeletion>> /\ \E err \in BOOLEAN : Return(p, err)
      BY <1>6 DEF Reconciled, WaitTimesOut, Refused, Fail, server, history
  <2>2. QED
      BY <1>0, <2>1, ReturnOrderly DEF Return
<1>7. ASSUME NEW p \in Process, Step(p) PROVE Orderly'
    BY <1>0, <1>6, <1>7, EnsureOrderly, CreateOrderly, SubmitOrderly, WaitOrderly,
       ClusterScopedOrderly, UnfinalizeOrderly DEF Step
<1>8. ASSUME NEW p \in Process, Read(p) PROVE Orderly'
    BY <1>0, <1>8, ReadOrderly
<1>9. QED
    BY <1>1, <1>2, <1>3, <1>4, <1>5, <1>6, <1>7, <1>8 DEF Next

-----------------------------------------------------------------------------
(* What follows                                                            *)

\* The inductive invariant, for any number of replicas, stages and faults.
THEOREM DeletionInvariant == Spec => []IInv
<1>1. Init => IInv
    BY InitShape, InitOrderly DEF IInv
<1>2. IInv /\ [Next]_vars => IInv'
    BY NextShape, NextOrderly DEF IInv
<1>3. QED
    BY <1>1, <1>2, PTL DEF Spec

\* The lease, the caches and the reconciles keep their types; a replica has a
\* snapshot and a stage exactly while it reconciles (reconcileCore).
THEOREM DeletionTypeCorrect == Spec => []TypeOK
<1>1. IInv => TypeOK
    BY DEF IInv, Shape, ServerOK, CacheOK, ReconcileOK, HistoryOK, TypeOK
<1>2. QED
    BY <1>1, DeletionInvariant, PTL

\* No cluster-scoped resource outlives its CR, wherever a replica crashes, a call
\* fails or the lease moves, as long as no reconciles raced (handleDeletion,
\* ensureFinalizers).
THEOREM NoOrphanHolds == Spec => []NoOrphan
<1>1. IInv => NoOrphan
    BY DEF IInv, Shape, ServerOK, Orderly, Protected, NoOrphan
<1>2. QED
    BY <1>1, DeletionInvariant, PTL

\* While a stage is being deleted the earlier ones are gone, and the
\* cluster-scoped resources go last, across retries and replicas
\* (runOrderedDelete).
THEOREM StagesInOrderHolds == Spec => []StagesInOrder
<1>1. IInv => StagesInOrder
    BY DEF IInv, Orderly, InOrder, StagesInOrder
<1>2. QED
    BY <1>1, DeletionInvariant, PTL
=============================================================================
