------------------------------ MODULE Deletion ------------------------------
(***************************************************************************)
(* The life of one custom resource under the replicas of module Election:  *)
(* reconcileCore of the generic reconciler with its finalizer management   *)
(* and its ordered deletion, against an API server of which each replica   *)
(* has a cache that lags behind.                                           *)
(*                                                                         *)
(* A child is 0, the cluster-scoped resources, which only                  *)
(* DeleteOwnedClusterScopedResources removes, or i >= 1, the resources of  *)
(* stage i of onDelete.ordered.  Every API call may fail; the reconcile    *)
(* then returns the error and the worker queues the key again.  A call     *)
(* that was sent when the context is cancelled may take effect, but the    *)
(* reconcile gets an error, so its next call is never made.                *)
(*                                                                         *)
(* A replica reconciles the CR once at a time, which is what the queue     *)
(* promises for one item (SerialPerKey of module WorkerPool).  A CRD with  *)
(* sentinel children has several items per key (queue.go:111,              *)
(* informer/helper.go:86-97), which several workers of one konductor       *)
(* reconcile at once.  That overlap is left out; it belongs to the         *)
(* histories NoOrphan and StagesInOrder make an exception of.              *)
(***************************************************************************)
EXTENDS Election

CONSTANTS
    NStages,        \* len(onDelete.groups)
    cleanup,        \* labels.CleanupFinalizer
    foreign,        \* the finalizer of another controller
    NoSnapshot

Child     == 0..NStages
Finalizer == {cleanup, foreign}

ASSUME DeletionAssumption ==
    /\ NStages \in Nat
    /\ cleanup # foreign
    /\ NoSnapshot \notin [state : {"live", "deleting", "gone"}, fin : SUBSET Finalizer]

VARIABLES
    cr,             \* API server: state and finalizers of the CR
    child,          \* API server: per child, "absent", "live" or "going"
    cache,          \* per replica: the CR in the informer's store
    due,            \* per replica: the key is in the queue
    pc,             \* per replica: where its reconcile of the CR is
    snap,           \* per replica: the CR this reconcile read
    stage,          \* per replica: the stage of runOrderedDelete
    sawDeletion,    \* history: some reconcile read the CR as deleting
    raced           \* history: two reconciles overlapped, or one read an
                    \* older CR than an earlier one

server    == <<cr, child>>
informers == <<cache, due>>
reconcile == <<pc, snap, stage>>
history   == <<sawDeletion, raced>>

vars == <<electionVars, server, informers, reconcile, history>>

CR == [state : {"live", "deleting", "gone"}, fin : SUBSET Finalizer]

\* The CR was just created; no replica has reconciled it.
Init ==
    /\ ElectionInit
    /\ cr = [state |-> "live", fin |-> {}]
    /\ child = [c \in Child |-> "absent"]
    /\ cache = [p \in Process |-> cr]
    /\ due = [p \in Process |-> TRUE]
    /\ pc = [p \in Process |-> "idle"]
    /\ snap = [p \in Process |-> NoSnapshot]
    /\ stage = [p \in Process |-> 0]
    /\ sawDeletion = FALSE
    /\ raced = FALSE

-----------------------------------------------------------------------------
(* The API server and the cluster                                          *)

\* An object that is being deleted goes when its last finalizer does.
WithFinalizers(fs) ==
    [cr EXCEPT !.fin = fs,
               !.state = IF @ = "deleting" /\ fs = {} THEN "gone" ELSE @]

\* A list of finalizers is refused for an object that is gone, or if it adds
\* to one that is being deleted.
Accepts(fs) ==
    /\ cr.state # "gone"
    /\ cr.state = "deleting" => fs \subseteq cr.fin

\* PatchFinalizers: the list replaces the list of the server.
PatchFinalizers(fs) ==
    /\ Accepts(fs)
    /\ cr' = WithFinalizers(fs)

UserDeletes ==
    /\ cr.state = "live"
    /\ cr' = [cr EXCEPT !.state = IF cr.fin = {} THEN "gone" ELSE "deleting"]
    /\ UNCHANGED <<electionVars, child, informers, reconcile, history>>

\* Another controller protects the CR and, once it is deleted, lets it go.
ForeignAdds ==
    /\ cr.state = "live"
    /\ foreign \notin cr.fin
    /\ cr' = WithFinalizers(cr.fin \cup {foreign})
    /\ UNCHANGED <<electionVars, child, informers, reconcile, history>>

ForeignRemoves ==
    /\ cr.state = "deleting"
    /\ foreign \in cr.fin
    /\ cr' = WithFinalizers(cr.fin \ {foreign})
    /\ UNCHANGED <<electionVars, child, informers, reconcile, history>>

\* A child that was asked to go is gone.
ChildGone(c) ==
    /\ child[c] = "going"
    /\ child' = [child EXCEPT ![c] = "absent"]
    /\ UNCHANGED <<electionVars, cr, informers, reconcile, history>>

-----------------------------------------------------------------------------
(* The informer of a replica, konductor or not                             *)

\* Mutant: the update handler tests the filter and does not enqueue.
WatchSilently(p) ==
    /\ phase[p] \in {"candidate", "konductor"}
    /\ cache[p] # cr
    /\ cache' = [cache EXCEPT ![p] = cr]
    /\ UNCHANGED <<electionVars, server, due, reconcile, history>>

\* A watch event, or several at once: handleUpdateEvent, handleEvent.  Nobody
\* reads the store of a replica that has lost the lease, until its restart.
Watch(p) ==
    /\ phase[p] \in {"candidate", "konductor"}
    /\ cache[p] # cr
    /\ cache' = [cache EXCEPT ![p] = cr]
    /\ due' = [due EXCEPT ![p] = TRUE]
    /\ UNCHANGED <<electionVars, server, reconcile, history>>

\* A restarted replica lists: an add event for a CR that exists.
Relist(p) ==
    /\ cache' = [cache EXCEPT ![p] = cr]
    /\ due' = [due EXCEPT ![p] = cr.state # "gone"]
    /\ UNCHANGED <<server, reconcile, history>>

\* The store, the queue and the reconcile of a replica end with it.
Dies(p) ==
    /\ cache' = [cache EXCEPT ![p] = NoSnapshot]
    /\ due' = [due EXCEPT ![p] = FALSE]
    /\ pc' = [pc EXCEPT ![p] = "idle"]
    /\ snap' = [snap EXCEPT ![p] = NoSnapshot]
    /\ stage' = [stage EXCEPT ![p] = 0]
    /\ UNCHANGED <<server, history>>

-----------------------------------------------------------------------------
(* The reconcile                                                           *)

\* Mutant: the stage outlives the reconcile.
ReturnKeepingStage(p, err) ==
    /\ pc' = [pc EXCEPT ![p] = "idle"]
    /\ snap' = [snap EXCEPT ![p] = NoSnapshot]
    /\ due' = [due EXCEPT ![p] = @ \/ err]
    /\ UNCHANGED stage

\* Reconcile returns; an error queues the key again.
Return(p, err) ==
    /\ pc' = [pc EXCEPT ![p] = "idle"]
    /\ snap' = [snap EXCEPT ![p] = NoSnapshot]
    /\ stage' = [stage EXCEPT ![p] = 0]
    /\ due' = [due EXCEPT ![p] = @ \/ err]

\* The step done, the reconcile goes on, unless its context is cancelled.
Goto(p, next) ==
    IF Leads(p)
    THEN pc' = [pc EXCEPT ![p] = next] /\ UNCHANGED <<snap, stage, due>>
    ELSE Return(p, TRUE)

\* A worker takes the key and reads the store.  No other worker of the replica
\* has the CR: an item without sentinels, or a CRD with one worker.
Read(p) ==
    /\ Leads(p)
    /\ pc[p] = "idle"
    /\ due[p]
    /\ due' = [due EXCEPT ![p] = FALSE]
    /\ IF cache[p].state = "gone"
       THEN UNCHANGED <<reconcile, history>>
       ELSE /\ pc' = [pc EXCEPT ![p] = IF cache[p].state = "live" THEN "ensure" ELSE "submit"]
            /\ snap' = [snap EXCEPT ![p] = cache[p]]
            /\ stage' = [stage EXCEPT ![p] = 1]
            /\ sawDeletion' = (sawDeletion \/ cache[p].state = "deleting")
            /\ raced' = \/ raced
                        \/ \E q \in Process \ {p} : pc[q] # "idle"
                        \/ sawDeletion /\ cache[p].state = "live"
    /\ UNCHANGED <<electionVars, server, cache>>

\* Mutant: the finalizer is taken as set without the patch.
EnsureNothing(p) ==
    /\ pc[p] = "ensure"
    /\ Goto(p, "create")
    /\ UNCHANGED <<electionVars, server, cache, history>>

\* ensureFinalizers: a call only if the CR that was read lacks the finalizer.
EnsureFinalizers(p) ==
    /\ pc[p] = "ensure"
    /\ IF cleanup \in snap[p].fin
       THEN UNCHANGED cr
       ELSE PatchFinalizers(snap[p].fin \cup {cleanup})
    /\ Goto(p, "create")
    /\ UNCHANGED <<electionVars, child, cache, history>>

\* reconcileImpl, the next child that does not exist yet.
CreateChild(p, c) ==
    /\ pc[p] = "create"
    /\ child[c] = "absent"
    /\ \A d \in 0..(c - 1) : child[d] # "absent"
    /\ child' = [child EXCEPT ![c] = "live"]
    /\ Goto(p, "create")
    /\ UNCHANGED <<electionVars, cr, cache, history>>

\* reconcileImpl has nothing left to create.
Reconciled(p) ==
    /\ pc[p] = "create"
    /\ \A c \in Child : child[c] # "absent"
    /\ Return(p, FALSE)
    /\ UNCHANGED <<electionVars, server, cache, history>>

\* submitGroupDeletion, or past the last stage.
SubmitGroupDeletion(p) ==
    /\ pc[p] = "submit"
    /\ IF stage[p] <= NStages
       THEN /\ child' = [child EXCEPT ![stage[p]] = IF @ = "live" THEN "going" ELSE @]
            /\ Goto(p, "wait")
       ELSE /\ UNCHANGED child
            /\ Goto(p, "cluster")
    /\ UNCHANGED <<electionVars, cr, cache, history>>

\* Mutant: the stage counts as done when its deletes are accepted.
WaitForNothing(p) ==
    /\ pc[p] = "wait"
    /\ pc' = [pc EXCEPT ![p] = "submit"]
    /\ stage' = [stage EXCEPT ![p] = @ + 1]
    /\ UNCHANGED <<electionVars, server, informers, snap, history>>

\* waitForDeletion finds the stage gone.
WaitForDeletion(p) ==
    /\ pc[p] = "wait"
    /\ child[stage[p]] = "absent"
    /\ pc' = [pc EXCEPT ![p] = "submit"]
    /\ stage' = [stage EXCEPT ![p] = @ + 1]
    /\ UNCHANGED <<electionVars, server, informers, snap, history>>

\* waitForDeletion runs out of time.
WaitTimesOut(p) ==
    /\ pc[p] = "wait"
    /\ child[stage[p]] # "absent"
    /\ Return(p, TRUE)
    /\ UNCHANGED <<electionVars, server, cache, history>>

\* DeleteOwnedClusterScopedResources submits the deletes and does not wait.
DeleteClusterScoped(p) ==
    /\ pc[p] = "cluster"
    /\ child' = [child EXCEPT ![0] = IF @ = "live" THEN "going" ELSE @]
    /\ Goto(p, "unfinalize")
    /\ UNCHANGED <<electionVars, cr, cache, history>>

\* removeFinalizers, and the end of handleDeletion.
RemoveFinalizers(p) ==
    /\ pc[p] = "unfinalize"
    /\ IF cleanup \in snap[p].fin
       THEN PatchFinalizers(snap[p].fin \ {cleanup})
       ELSE UNCHANGED cr
    /\ Return(p, FALSE)
    /\ UNCHANGED <<electionVars, child, cache, history>>

\* A call fails or times out.
Fail(p) ==
    /\ pc[p] # "idle"
    /\ Fault
    /\ Return(p, TRUE)
    /\ UNCHANGED <<lease, phase, server, cache, history>>

\* The patch is refused, or the next call finds its context cancelled.
Refused(p) ==
    /\ \/ pc[p] # "idle" /\ ~ Leads(p)
       \/ pc[p] = "ensure" /\ cleanup \notin snap[p].fin /\ ~ Accepts(snap[p].fin \cup {cleanup})
       \/ pc[p] = "unfinalize" /\ cleanup \in snap[p].fin /\ ~ Accepts(snap[p].fin \ {cleanup})
    /\ Return(p, TRUE)
    /\ UNCHANGED <<electionVars, server, cache, history>>

-----------------------------------------------------------------------------

Step(p) ==
    \/ EnsureFinalizers(p) \/ Reconciled(p) \/ SubmitGroupDeletion(p)
    \/ WaitForDeletion(p) \/ WaitTimesOut(p) \/ DeleteClusterScoped(p)
    \/ RemoveFinalizers(p) \/ Refused(p)
    \/ \E c \in Child : CreateChild(p, c)

Next ==
    \/ \E p \in Process :
          \/ Campaign(p) /\ UNCHANGED <<server, informers, reconcile, history>>
          \/ Boot(p) /\ Relist(p)
          \/ (Exit(p) \/ Crash(p)) /\ Dies(p)
          \/ Watch(p) \/ Read(p) \/ Step(p) \/ Fail(p)
    \/ UserDeletes \/ ForeignAdds \/ ForeignRemoves
    \/ \E c \in Child : ChildGone(c)

Spec == Init /\ [][Next]_vars

\* Watches catch up, children and the other controller finish, workers take
\* what is queued and reconciles go on.
Fairness ==
    /\ ElectionFairness
    /\ WF_vars(ForeignRemoves)
    /\ \A c \in Child : WF_vars(ChildGone(c))
    /\ \A p \in Process : WF_vars(Watch(p)) /\ WF_vars(Read(p)) /\ WF_vars(Step(p))

FairSpec == Spec /\ Fairness

-----------------------------------------------------------------------------
(* Properties                                                              *)

\* A replica has a snapshot and a stage exactly while it reconciles, and waits
\* for no stage beyond the last one (reconcileCore, runOrderedDelete).
TypeOK ==
    /\ ElectionTypeOK
    /\ cr \in CR
    /\ child \in [Child -> {"absent", "live", "going"}]
    /\ cache \in [Process -> CR \cup {NoSnapshot}] /\ due \in [Process -> BOOLEAN]
    /\ pc \in [Process -> {"idle", "ensure", "create", "submit", "wait", "cluster", "unfinalize"}]
    /\ snap \in [Process -> CR \cup {NoSnapshot}]
    /\ stage \in [Process -> 0..(NStages + 1)]
    /\ \A p \in Process :
          /\ pc[p] = "idle" <=> snap[p] = NoSnapshot
          /\ pc[p] = "idle" <=> stage[p] = 0
          /\ pc[p] = "wait" => stage[p] <= NStages
    /\ sawDeletion \in BOOLEAN /\ raced \in BOOLEAN

\* "CleanupFinalizer ensures cluster-scoped GC runs before a CR is removed"
\* (labels.go:160): no cluster-scoped resource survives its CR, wherever a
\* replica crashes, a call fails or the lease moves.  It needs what neither the
\* lease, nor the queue, nor the caches promise: reconciles that do not overlap
\* and never read an older CR than one before.
NoOrphan == cr.state = "gone" /\ ~ raced => child[0] # "live"

\* "order is enforced between stages" (run_delete_ordered.go:10), across retries
\* and replicas: while a stage is being deleted the earlier ones are gone, and
\* the cluster-scoped resources go last.
StagesInOrder ==
    ~ raced =>
        \A i, j \in 1..NStages :
            /\ i < j /\ child[j] = "going" => child[i] = "absent"
            /\ child[0] = "going" => child[i] = "absent"

\* A deletion ends, whatever faults come in between.
DeletionCompletes == cr.state = "deleting" ~> cr.state = "gone"

\* "It never removes finalizers" (helper.go:59, of ensureFinalizers): only the
\* other controller takes its finalizer off.
ForeignKept ==
    [][(foreign \in cr.fin /\ foreign \notin cr'.fin) => ForeignRemoves]_vars
=============================================================================
