----------------------------- MODULE WorkerPool -----------------------------
(***************************************************************************)
(* The work queue of one CRD (pkg/runtime/queue), its items, and the       *)
(* worker pools that successive activations of the CRD start over that one *)
(* queue (runWorkerForGVK, deactivateCRD, stopCRDWorkers).                 *)
(*                                                                         *)
(* An item is a key and the pointer of its sentinel map, 0 for nil; every  *)
(* EnqueueWithSentinels makes a pointer that was never used before.  The   *)
(* queue itself is client-go's: dirty, processing and the FIFO, and the    *)
(* items whose AddAfter or AddRateLimited has not fallen due.  An event    *)
(* that Enqueue drops at the depth limit is an event that does not happen  *)
(* here: the limit is state of the Autoscaler module.                      *)
(*                                                                         *)
(* A pool is a generation of N workers under one context.  A drain that    *)
(* runs into its timeout leaves workers behind; they share the queue with  *)
(* the next generation.  Every activation builds a reconciler, whose       *)
(* semaphore has N slots; a reconcile that panics keeps its slot, and a    *)
(* reconciler with no slot left reconciles nothing more.  (How slots are   *)
(* handed over is ResizableSemaphore, their number over time Autoscaler.)  *)
(***************************************************************************)
EXTENDS Integers, Sequences, FiniteSets

CONSTANTS
    Key,            \* objects of the CRD
    N,              \* katalog.GetWorkers
    drainSentinel,  \* the key of the items deactivateCRD adds
    NoItem,
    MaxGen,         \* bound: activations of the CRD
    MaxPtr          \* bound: enqueues that carry a sentinel map

DrainItem == <<drainSentinel, 0>>
KeyItem   == Key \X (0..MaxPtr)
Item      == KeyItem \cup {DrainItem}
Worker    == (1..MaxGen) \X (1..N)

ASSUME PoolAssumption ==
    /\ N \in Nat \ {0}
    /\ MaxGen \in Nat \ {0}
    /\ MaxPtr \in Nat
    /\ drainSentinel \notin Key
    /\ NoItem \notin Item

VARIABLES
    queue,          \* client-go: the items to be handed out, in order
    dirty,          \* client-go: the items that need processing
    processing,     \* client-go: the items handed out and not Done
    delayed,        \* client-go: the items waiting to be added again
    shutdown,       \* client-go: ShutDown was called
    ptrs,           \* sentinel maps made so far
    wpc,            \* per worker: where it is in runWorkerForGVK
    held,           \* per worker: the item it got
    gen,            \* the current pool
    cancelled,      \* the pools whose context is cancelled
    leaked,         \* slots of the current reconciler that panics have kept, while
                    \* its context lives: a cancelled Acquire returns without one
    kpc,            \* retry loop: "on", "draining", "waiting", "off"
    left,           \* deactivateCRD: sentinels still to add
    deactivated,    \* k.deactivated
    spc,            \* shutdown: "no", "lost", "shut"
    owed,           \* history: items to be handed out since they were last
    gaveUp          \* history: the pools whose drain timed out

workqueue == <<queue, dirty, processing, delayed, shutdown>>
pool      == <<wpc, held>>
contexts  == <<gen, cancelled, leaked>>
retry     == <<kpc, left, deactivated>>
history   == <<owed, gaveUp>>

vars == <<workqueue, ptrs, pool, contexts, retry, spc, history>>

PoolOf(g)    == {w \in Worker : w[1] = g}
Cancelled(w) == w[1] \in cancelled

\* The first activation has just happened.
Init ==
    /\ queue = <<>>
    /\ dirty = {}
    /\ processing = {}
    /\ delayed = {}
    /\ shutdown = FALSE
    /\ ptrs = 0
    /\ gen = 1
    /\ wpc = [w \in Worker |-> IF w[1] = 1 THEN "top" ELSE "none"]
    /\ held = [w \in Worker |-> NoItem]
    /\ cancelled = {}
    /\ leaked = 0
    /\ kpc = "on"
    /\ left = 0
    /\ deactivated = FALSE
    /\ spc = "no"
    /\ owed = {}
    /\ gaveUp = {}

-----------------------------------------------------------------------------
(* The queue of client-go                                                  *)

\* Add: an item that is being processed is queued by its Done.
Add(i) ==
    /\ dirty' = IF shutdown THEN dirty ELSE dirty \cup {i}
    /\ queue' = IF shutdown \/ i \in dirty \cup processing THEN queue ELSE Append(queue, i)

\* Done
Done(i) ==
    /\ processing' = processing \ {i}
    /\ queue' = IF i \in dirty THEN Append(queue, i) ELSE queue
    /\ UNCHANGED dirty

\* AddAfter and AddRateLimited; ShutDown ends them.
Delay(i) == delayed' = IF shutdown THEN delayed ELSE delayed \cup {i}

\* What it means to the history: the item is owed a reconcile.
Owe(i) ==
    /\ owed' = IF shutdown THEN owed ELSE owed \cup {i}
    /\ UNCHANGED gaveUp

\* The delay of an item is over.
FallDue(i) ==
    /\ ~shutdown
    /\ i \in delayed
    /\ delayed' = delayed \ {i}
    /\ Add(i)
    /\ UNCHANGED <<processing, shutdown, ptrs, pool, contexts, retry, spc, history>>

-----------------------------------------------------------------------------
(* Producers: the handlers of the informers and the resync loop            *)

\* handleEvent and Enqueue, or EnqueueKey
Enqueue(k) ==
    /\ Add(<<k, 0>>)
    /\ Owe(<<k, 0>>)
    /\ UNCHANGED <<processing, delayed, shutdown, ptrs, pool, contexts, retry, spc>>

\* handleUpdateEvent and EnqueueWithSentinels
EnqueueWithSentinels(k) ==
    /\ ptrs < MaxPtr
    /\ ptrs' = ptrs + 1
    /\ Add(<<k, ptrs + 1>>)
    /\ Owe(<<k, ptrs + 1>>)
    /\ UNCHANGED <<processing, delayed, shutdown, pool, contexts, retry, spc>>

-----------------------------------------------------------------------------
(* A worker: runWorkerForGVK                                               *)

\* Mutant: the loop goes straight to Get.
LoopTopUnchecked(w) ==
    /\ wpc[w] = "top"
    /\ wpc' = [wpc EXCEPT ![w] = "get"]
    /\ UNCHANGED <<workqueue, ptrs, held, contexts, retry, spc, history>>

\* The select at the top of the loop.
LoopTop(w) ==
    /\ wpc[w] = "top"
    /\ wpc' = [wpc EXCEPT ![w] = IF Cancelled(w) THEN "exited" ELSE "get"]
    /\ UNCHANGED <<workqueue, ptrs, held, contexts, retry, spc, history>>

\* Mutant: the item is Done before it is processed.
GetDoneEarly(w) ==
    /\ wpc[w] = "get"
    /\ queue # <<>>
    /\ ~Cancelled(w)
    /\ Head(queue) # DrainItem
    /\ queue' = Tail(queue)
    /\ dirty' = dirty \ {Head(queue)}
    /\ owed' = owed \ {Head(queue)}
    /\ held' = [held EXCEPT ![w] = Head(queue)]
    /\ wpc' = [wpc EXCEPT ![w] = "reconcile"]
    /\ UNCHANGED <<processing, delayed, shutdown, ptrs, contexts, retry, spc, gaveUp>>

\* Queue.Get blocks whatever the context says; the context is looked at again
\* in processItemForGVK.  An item for the gate or the reconciler:
Get(w) ==
    /\ wpc[w] = "get"
    /\ queue # <<>>
    /\ ~Cancelled(w)
    /\ Head(queue) # DrainItem
    /\ queue' = Tail(queue)
    /\ dirty' = dirty \ {Head(queue)}
    /\ processing' = processing \cup {Head(queue)}
    /\ owed' = owed \ {Head(queue)}
    /\ held' = [held EXCEPT ![w] = Head(queue)]
    /\ wpc' = [wpc EXCEPT ![w] = "reconcile"]
    /\ UNCHANGED <<delayed, shutdown, ptrs, contexts, retry, spc, gaveUp>>

\* An item that is taken and Done at once, and the loop goes on.
TakeAndDone(w) ==
    /\ wpc[w] = "get"
    /\ queue # <<>>
    /\ queue' = Tail(queue)
    /\ dirty' = dirty \ {Head(queue)}
    /\ owed' = owed \ {Head(queue)}
    /\ wpc' = [wpc EXCEPT ![w] = "top"]
    /\ UNCHANGED <<processing, delayed, shutdown, ptrs, held, contexts, retry, spc, gaveUp>>

\* processItemForGVK under a cancelled context: whatever the item is, it is gone.
GetCancelled(w) ==
    /\ Cancelled(w)
    /\ TakeAndDone(w)

\* A drain sentinel taken by a worker of a later pool.
GetSentinel(w) ==
    /\ ~Cancelled(w)
    /\ queue # <<>>
    /\ Head(queue) = DrainItem
    /\ TakeAndDone(w)

GetShutdown(w) ==
    /\ wpc[w] = "get"
    /\ queue = <<>>
    /\ shutdown
    /\ wpc' = [wpc EXCEPT ![w] = "exited"]
    /\ UNCHANGED <<workqueue, ptrs, held, contexts, retry, spc, history>>

\* The deferred Done and the way back to the top of the loop.
BackToTop(w) ==
    /\ Done(held[w])
    /\ held' = [held EXCEPT ![w] = NoItem]
    /\ wpc' = [wpc EXCEPT ![w] = "top"]

\* The conditions of the pre-reconcile gate are not met: no slot is asked for.
Gated(w) ==
    /\ wpc[w] = "reconcile"
    /\ BackToTop(w)
    /\ UNCHANGED <<delayed, shutdown, ptrs, contexts, retry, spc, history>>

\* Acquire can succeed: panics have not kept every slot.  A worker of an earlier
\* pool has the reconciler of that pool.
Slot(w) == w[1] = gen => leaked < N

\* Reconciled with no requeue.
Finish(w) ==
    /\ wpc[w] = "reconcile"
    /\ Slot(w)
    /\ BackToTop(w)
    /\ UNCHANGED <<delayed, shutdown, ptrs, contexts, retry, spc, history>>

\* Reconciled, with RequeueAfter or a requeue rule of the katalog.
FinishRequeue(w) ==
    /\ wpc[w] = "reconcile"
    /\ Slot(w)
    /\ Delay(held[w])
    /\ Owe(held[w])
    /\ BackToTop(w)
    /\ UNCHANGED <<shutdown, ptrs, contexts, retry, spc>>

\* Mutant: the failed item is forgotten like a reconciled one.
FailForgetting(w) ==
    /\ wpc[w] = "reconcile"
    /\ Owe(held[w])
    /\ BackToTop(w)
    /\ UNCHANGED <<delayed, shutdown, ptrs, contexts, retry, spc>>

\* Mutant: an error ends the worker.
FailReturning(w) ==
    /\ wpc[w] = "reconcile"
    /\ Delay(held[w])
    /\ Owe(held[w])
    /\ Done(held[w])
    /\ held' = [held EXCEPT ![w] = NoItem]
    /\ wpc' = [wpc EXCEPT ![w] = "exited"]
    /\ UNCHANGED <<shutdown, ptrs, contexts, retry, spc>>

\* An error, or a cancelled Acquire, or a recovered panic: AddRateLimited.  The
\* panic skips Release; a late worker may have the current reconciler too.
Fail(w) ==
    /\ wpc[w] = "reconcile"
    /\ \/ (Slot(w) \/ Cancelled(w)) /\ UNCHANGED leaked
       \/ gen \notin cancelled /\ leaked < N /\ leaked' = leaked + 1
    /\ Delay(held[w])
    /\ Owe(held[w])
    /\ BackToTop(w)
    /\ UNCHANGED <<shutdown, ptrs, gen, cancelled, retry, spc>>

-----------------------------------------------------------------------------
(* The retry loop: deactivateCRD, activateCRD                              *)

\* The CRD disappeared: cancel the context, then add the sentinels.
Deactivate ==
    /\ kpc = "on"
    /\ cancelled' = cancelled \cup {gen}
    /\ leaked' = 0
    /\ kpc' = "draining"
    /\ left' = N
    /\ UNCHANGED <<workqueue, ptrs, pool, gen, deactivated, spc, history>>

\* Mutant: the loop over numWorkers runs once too often.
AddSentinelOnceMore ==
    /\ kpc = "draining"
    /\ Add(DrainItem)
    /\ left' = left - 1
    /\ kpc' = IF left = 0 THEN "waiting" ELSE kpc
    /\ UNCHANGED <<processing, delayed, shutdown, ptrs, pool, contexts, deactivated, spc,
                   history>>

\* One turn of the loop over numWorkers; the items are equal, so the queue
\* keeps one of them at a time.
AddSentinel ==
    /\ kpc = "draining"
    /\ left > 0
    /\ Add(DrainItem)
    /\ left' = left - 1
    /\ kpc' = IF left = 1 THEN "waiting" ELSE kpc
    /\ UNCHANGED <<processing, delayed, shutdown, ptrs, pool, contexts, deactivated, spc,
                   history>>

\* Mutant: the drain is taken for done when no reconcile is in flight.
DrainedWhenIdle ==
    /\ kpc = "waiting"
    /\ \A w \in PoolOf(gen) : wpc[w] # "reconcile"
    /\ kpc' = "off"
    /\ deactivated' = TRUE
    /\ UNCHANGED <<workqueue, ptrs, pool, contexts, left, spc, history>>

\* wg.Wait returned.
Drained ==
    /\ kpc = "waiting"
    /\ \A w \in PoolOf(gen) : wpc[w] = "exited"
    /\ kpc' = "off"
    /\ deactivated' = TRUE
    /\ UNCHANGED <<workqueue, ptrs, pool, contexts, left, spc, history>>

DrainTimeout ==
    /\ kpc = "waiting"
    /\ kpc' = "off"
    /\ gaveUp' = gaveUp \cup {gen}
    /\ UNCHANGED <<workqueue, ptrs, pool, contexts, left, deactivated, spc, owed>>

\* The CRD is back: startCRDWorkers over the same queue, with a new reconciler.
\* Its context descends from the leadership's, which may be gone already.
Activate ==
    /\ kpc = "off"
    /\ gen < MaxGen
    /\ gen' = gen + 1
    /\ leaked' = 0
    /\ wpc' = [w \in Worker |-> IF w[1] = gen + 1 THEN "top" ELSE wpc[w]]
    /\ cancelled' = IF spc = "no" THEN cancelled ELSE cancelled \cup {gen + 1}
    /\ kpc' = "on"
    /\ deactivated' = FALSE
    /\ UNCHANGED <<workqueue, ptrs, held, left, spc, history>>

-----------------------------------------------------------------------------
(* The shutdown: the leadership context ends, then stopCRDWorkers          *)

LoseLeadership ==
    /\ spc = "no"
    /\ spc' = "lost"
    /\ cancelled' = 1..gen
    /\ leaked' = 0
    /\ UNCHANGED <<workqueue, ptrs, pool, gen, retry, history>>

\* Mutant: the workers are left to find the cancelled context by themselves.
StopWithoutShutDown ==
    /\ spc = "lost"
    /\ spc' = "shut"
    /\ UNCHANGED <<workqueue, ptrs, pool, contexts, retry, history>>

\* stopCRDWorkers up to the wait.
Stop ==
    /\ spc = "lost"
    /\ spc' = "shut"
    /\ shutdown' = TRUE
    /\ UNCHANGED <<queue, dirty, processing, delayed, ptrs, pool, contexts, retry, history>>

-----------------------------------------------------------------------------
WorkerStep(w) ==
    \/ LoopTop(w)
    \/ Get(w)
    \/ GetCancelled(w)
    \/ GetSentinel(w)
    \/ GetShutdown(w)

ReconcileEnds(w) == Finish(w) \/ FinishRequeue(w) \/ Fail(w)

Next ==
    \/ \E i \in Item : FallDue(i)
    \/ \E k \in Key : Enqueue(k) \/ EnqueueWithSentinels(k)
    \/ \E w \in Worker : WorkerStep(w) \/ Gated(w) \/ ReconcileEnds(w)
    \/ Deactivate
    \/ AddSentinel
    \/ Drained
    \/ DrainTimeout
    \/ Activate
    \/ LoseLeadership
    \/ Stop

Spec == Init /\ [][Next]_vars

\* The goroutines are scheduled, delays fall due, and a reconcile that can have a
\* slot ends: it passes the context of its pool to every call it makes.
Fairness ==
    /\ \A w \in Worker : WF_vars(WorkerStep(w)) /\ WF_vars(ReconcileEnds(w))
    /\ \A i \in Item : WF_vars(FallDue(i))
    /\ WF_vars(AddSentinel)
    /\ WF_vars(Stop)

FairSpec == Spec /\ Fairness

-----------------------------------------------------------------------------
(* Properties                                                              *)

Reconciling(w) == wpc[w] = "reconcile"

\* The variables have the values the Go types and the two loops allow; a worker
\* holds an item exactly between Get and Done, and no pool runs before it is
\* activated (runWorkerForGVK, startCRDWorkers).
TypeOK ==
    /\ queue \in Seq(Item)
    /\ dirty \subseteq Item
    /\ processing \subseteq Item
    /\ delayed \subseteq Item
    /\ shutdown \in BOOLEAN
    /\ ptrs \in 0..MaxPtr
    /\ wpc \in [Worker -> {"none", "top", "get", "reconcile", "exited"}]
    /\ held \in [Worker -> Item \cup {NoItem}]
    /\ \A w \in Worker : Reconciling(w) <=> held[w] # NoItem
    /\ gen \in 1..MaxGen
    /\ \A w \in Worker : wpc[w] = "none" <=> w[1] > gen
    /\ cancelled \subseteq 1..gen
    /\ leaked \in 0..N
    /\ kpc \in {"on", "draining", "waiting", "off"}
    /\ left \in 0..N
    /\ deactivated \in BOOLEAN
    /\ spc \in {"no", "lost", "shut"}
    /\ owed \subseteq Item
    /\ gaveUp \subseteq 1..gen

\* Two workers reconcile one key at the same time only when at least one of
\* their items carries a sentinel map, also across pools that overlap after a
\* drain that timed out (queue.go: "Non-nil items dedup by pointer identity").
SerialPerKey ==
    \A v, w \in Worker :
        /\ v # w
        /\ Reconciling(v) /\ Reconciling(w)
        /\ held[v][1] = held[w][1]
        => held[v][2] # held[w][2]

\* An accepted event, a failed reconcile and one that wants to run again wait for
\* their delay or in the queue, or for the worker that holds the same item, whose
\* Done puts them back, until they are handed to a worker or the queue is shut
\* down (Enqueue, AddRateLimited, AddAfter, Done).  What a worker does with an item
\* handed to it is the subject of KeepsPromise.
NoLostEvent ==
    ~shutdown => \A i \in owed :
        \/ i \in delayed
        \/ \E n \in 1..Len(queue) : queue[n] = i
        \/ i \in dirty /\ \E w \in Worker : held[w] = i

\* A CRD marked as deactivated has no reconcile in flight, except in a pool whose
\* own drain timed out earlier (deactivateCRD).
CleanDrain ==
    deactivated => \A w \in Worker : wpc[w] \in {"top", "get", "reconcile"} => w[1] \in gaveUp

\* While its pool stays on and leads, an accepted event is eventually handed to a
\* worker, which may be one left over from an earlier pool (KeepsPromise), however
\* many reconciles fail and panic, as long as a slot of the semaphore is left.
\* With the last one gone (safeReconcile recovers, Reconcile has not released)
\* every Acquire of the pool blocks and nothing is delivered any more.
Delivered ==
    \A i \in KeyItem :
        (i \in dirty) ~> (i \notin dirty \/ kpc # "on" \/ spc # "no" \/ leaked = N)

\* Once stopCRDWorkers has shut the queue down every worker exits, those that an
\* earlier drain left behind in Get included.
StoppedWorkersExit ==
    (spc = "shut") ~> (\A w \in Worker : wpc[w] \in {"none", "exited"} \/ w[1] > gen)

\* The queue and the pools keep the promise of ReconcileRequests: one worker per
\* item, and no accepted request lost except one per worker that is told to stop
\* while it waits (runWorkerForGVK, processItemForGVK, deactivateCRD).
Requests == INSTANCE ReconcileRequests WITH
    Requests <- KeyItem,
    Workers  <- Worker,
    pending  <- {i \in KeyItem : i \in dirty \cup delayed},
    running  <- {i \in KeyItem : \E w \in Worker : held[w] = i},
    told     <- {w \in Worker : w[1] \in cancelled},
    leaving  <- {w \in Worker : w[1] \in cancelled /\ wpc[w] = "get"}

KeepsPromise == Requests!ASpec
=============================================================================
