----------------------------- MODULE Autoscaler -----------------------------
(***************************************************************************)
(* The autoscaler of one CRD (pkg/runtime/autoscaler), the methods of the  *)
(* reconciler it drives (generic_autoscale.go) and the resync loop.        *)
(*                                                                         *)
(* Every activation of the CRD makes a reconciler with a semaphore, an     *)
(* autoscaler and a resync loop of its own; the work queue, and so its     *)
(* depth limit, is shared by all of them.  deactivateCRD waits for the     *)
(* workers and not for the autoscaler, so that the autoscaler of an old    *)
(* generation may still be at work when the next one starts.               *)
(*                                                                         *)
(* Time is counted in ticks of the autoscaler.  `met` is what the metrics, *)
(* the clock and the other CRDs make of the conditions.                    *)
(***************************************************************************)
EXTENDS Integers, FiniteSets

CONSTANTS
    BaseWorkers,    \* AutoscaleBaseline.Workers
    OverWorkers,    \* do.workers
    BaseDepth,      \* AutoscaleBaseline.MaxDepth
    OverDepth,      \* do.queueDepth
    Cooldown,       \* EffectiveCooldown, in ticks
    MaxGen,         \* bound: activations of the CRD
    MaxChanges      \* bound: times the conditions change

ASSUME AutoscaleAssumption ==
    /\ BaseWorkers \in Nat \ {0}
    /\ OverWorkers \in Nat
    /\ BaseDepth \in Nat
    /\ OverDepth \in Nat
    /\ Cooldown \in Nat
    /\ MaxGen \in Nat \ {0}
    /\ MaxChanges \in Nat

Gen == 1..MaxGen
Zero == -1          \* time.Time{}

VARIABLES
    met,            \* the conditions hold now
    changes,        \* how often they changed
    gen,            \* the current generation
    cancelled,      \* generations whose context is cancelled
    apc,            \* per generation: where its autoscaler is
    overrideActive, \* AutoscaleState.OverrideActive
    falseFor,       \* ticks since AutoscaleState.ConditionsFalseAt, or Zero
    capacity,       \* the capacity of the semaphore
    spawning,       \* goroutines that are to call spawnWorker
    workers,        \* worker goroutines started (how they end: WorkerPool)
    maxDepth,       \* Workqueue.maxDepth
    resyncing,      \* resyncNs # 0
    rpc,            \* per generation: where its resync loop is
    falseRun,       \* history: ticks in a row with the conditions false
    extra           \* history: resyncs fired since resyncNs became 0

environment == <<met, changes>>
contexts    == <<gen, cancelled>>
autoscaler  == <<apc, overrideActive, falseFor>>
goroutines  == <<capacity, spawning, workers>>
resync      == <<resyncing, rpc>>
history     == <<falseRun, extra>>

vars == <<environment, contexts, autoscaler, goroutines, maxDepth, resync, history>>

Init ==
    /\ met \in BOOLEAN
    /\ changes = 0
    /\ gen = 1
    /\ cancelled = {}
    /\ apc = [g \in Gen |-> IF g = 1 THEN "select" ELSE "none"]
    /\ overrideActive = [g \in Gen |-> FALSE]
    /\ falseFor = [g \in Gen |-> Zero]
    /\ capacity = [g \in Gen |-> BaseWorkers]
    /\ spawning = [g \in Gen |-> 0]
    /\ workers = [g \in Gen |-> IF g = 1 THEN BaseWorkers ELSE 0]
    /\ maxDepth = BaseDepth
    /\ resyncing = [g \in Gen |-> FALSE]
    /\ rpc = [g \in Gen |-> IF g = 1 THEN "load" ELSE "none"]
    /\ falseRun = [g \in Gen |-> 0]
    /\ extra = [g \in Gen |-> 0]

-----------------------------------------------------------------------------
(* AutoscaleTarget                                                         *)

\* ResizableSemaphore.Resize
AtLeastOne(n) == IF n < 1 THEN 1 ELSE n

\* Mutant: the loop that spawns the difference ends one too early.
ResizeWorkersOneShort(g, n) ==
    /\ capacity' = [capacity EXCEPT ![g] = AtLeastOne(n)]
    /\ spawning' = [spawning EXCEPT ![g] = @ + (IF n > capacity[g] THEN n - capacity[g] - 1 ELSE 0)]
    /\ UNCHANGED workers

\* ResizeWorkers: goroutines are added for the difference, never taken away.
ResizeWorkers(g, n) ==
    /\ capacity' = [capacity EXCEPT ![g] = AtLeastOne(n)]
    /\ spawning' = [spawning EXCEPT ![g] = @ + (IF n > capacity[g] THEN n - capacity[g] ELSE 0)]
    /\ UNCHANGED workers

\* SetResyncInterval
SetResyncInterval(g, on) ==
    /\ resyncing' = [resyncing EXCEPT ![g] = on]
    /\ extra' = [extra EXCEPT ![g] = 0]
    /\ UNCHANGED rpc

\* spawnWorker, in a goroutine of its own: the context may be cancelled by now.
SpawnWorker(g) ==
    /\ spawning[g] > 0
    /\ spawning' = [spawning EXCEPT ![g] = @ - 1]
    /\ workers' = [workers EXCEPT ![g] = @ + 1]
    /\ UNCHANGED <<environment, contexts, autoscaler, capacity, maxDepth, resync, history>>

-----------------------------------------------------------------------------
(* Autoscaler.Run                                                          *)

\* Mutant: the clock is reset only when the override is applied.
TickMetKeepingClock(g) ==
    /\ apc[g] = "select"
    /\ met
    /\ falseRun' = [falseRun EXCEPT ![g] = 0]
    /\ IF overrideActive[g]
       THEN UNCHANGED <<apc, falseFor, goroutines>>
       ELSE /\ ResizeWorkers(g, OverWorkers)
            /\ falseFor' = [falseFor EXCEPT ![g] = Zero]
            /\ apc' = [apc EXCEPT ![g] = "apply"]
    /\ UNCHANGED <<environment, contexts, overrideActive, maxDepth, resync, extra>>

\* The conditions hold at a tick: the first half of applyOverride, if need be.
TickMet(g) ==
    /\ apc[g] = "select"
    /\ met
    /\ falseRun' = [falseRun EXCEPT ![g] = 0]
    /\ falseFor' = [falseFor EXCEPT ![g] = Zero]
    /\ IF overrideActive[g]
       THEN UNCHANGED <<apc, goroutines>>
       ELSE /\ ResizeWorkers(g, OverWorkers)
            /\ apc' = [apc EXCEPT ![g] = "apply"]
    /\ UNCHANGED <<environment, contexts, overrideActive, maxDepth, resync, extra>>

\* The second half of applyOverride.
ApplyOverride(g) ==
    /\ apc[g] = "apply"
    /\ maxDepth' = OverDepth
    /\ SetResyncInterval(g, TRUE)
    /\ overrideActive' = [overrideActive EXCEPT ![g] = TRUE]
    /\ apc' = [apc EXCEPT ![g] = "select"]
    /\ UNCHANGED <<environment, contexts, falseFor, goroutines, falseRun>>

\* The cooldown clock after a tick with the conditions false.
Clock(g) == IF falseFor[g] = Zero THEN 0 ELSE falseFor[g] + 1

\* Mutant: the restore waits for more than the cooldown.
CooledDownLate(g) == Clock(g) > Cooldown

CooledDown(g) == Clock(g) >= Cooldown

\* The conditions are false and the cooldown is not over.
TickCooling(g) ==
    /\ apc[g] = "select"
    /\ ~met
    /\ overrideActive[g]
    /\ ~CooledDown(g)
    /\ falseFor' = [falseFor EXCEPT ![g] = Clock(g)]
    /\ falseRun' = [falseRun EXCEPT ![g] = @ + 1]
    /\ UNCHANGED <<environment, contexts, apc, overrideActive, goroutines, maxDepth, resync, extra>>

\* The cooldown is over: the first half of restoreBaseline.
TickRestore(g) ==
    /\ apc[g] = "select"
    /\ ~met
    /\ overrideActive[g]
    /\ CooledDown(g)
    /\ ResizeWorkers(g, BaseWorkers)
    /\ falseFor' = [falseFor EXCEPT ![g] = Zero]
    /\ falseRun' = [falseRun EXCEPT ![g] = @ + 1]
    /\ apc' = [apc EXCEPT ![g] = "restore"]
    /\ UNCHANGED <<environment, contexts, overrideActive, maxDepth, resync, extra>>

\* ctx.Done() with an override in force: the first half of restoreBaseline.
StopRestoring(g) ==
    /\ apc[g] = "select"
    /\ g \in cancelled
    /\ overrideActive[g]
    /\ ResizeWorkers(g, BaseWorkers)
    /\ apc' = [apc EXCEPT ![g] = "restoreLast"]
    /\ UNCHANGED <<environment, contexts, overrideActive, falseFor, maxDepth, resync, falseRun, extra>>

\* Mutant: the queue depth keeps the override.
RestoreBaselineKeepingDepth(g) ==
    /\ apc[g] \in {"restore", "restoreLast"}
    /\ SetResyncInterval(g, FALSE)
    /\ overrideActive' = [overrideActive EXCEPT ![g] = FALSE]
    /\ apc' = [apc EXCEPT ![g] = IF @ = "restore" THEN "select" ELSE "stopped"]
    /\ UNCHANGED <<environment, contexts, falseFor, goroutines, maxDepth, falseRun>>

\* The second half of restoreBaseline.
RestoreBaseline(g) ==
    /\ apc[g] \in {"restore", "restoreLast"}
    /\ maxDepth' = BaseDepth
    /\ SetResyncInterval(g, FALSE)
    /\ overrideActive' = [overrideActive EXCEPT ![g] = FALSE]
    /\ apc' = [apc EXCEPT ![g] = IF @ = "restore" THEN "select" ELSE "stopped"]
    /\ UNCHANGED <<environment, contexts, falseFor, goroutines, falseRun>>

\* Mutant: Run returns on ctx.Done() whatever is in force.
StopAnyway(g) ==
    /\ apc[g] = "select"
    /\ g \in cancelled
    /\ apc' = [apc EXCEPT ![g] = "stopped"]
    /\ UNCHANGED <<environment, contexts, overrideActive, falseFor, goroutines, maxDepth, resync, history>>

\* ctx.Done() with nothing to restore.
StopPlain(g) ==
    /\ apc[g] = "select"
    /\ g \in cancelled
    /\ ~overrideActive[g]
    /\ apc' = [apc EXCEPT ![g] = "stopped"]
    /\ UNCHANGED <<environment, contexts, overrideActive, falseFor, goroutines, maxDepth, resync, history>>

-----------------------------------------------------------------------------
(* resyncLoop                                                              *)

\* The interval is read; 0 means another look after half a second.
ResyncLoad(g) ==
    /\ rpc[g] = "load"
    /\ resyncing[g]
    /\ rpc' = [rpc EXCEPT ![g] = "wait"]
    /\ UNCHANGED <<environment, contexts, autoscaler, goroutines, maxDepth, resyncing, history>>

\* Mutant: the loop waits again without reading the interval.
ResyncFireAgain(g) ==
    /\ rpc[g] = "wait"
    /\ extra' = [extra EXCEPT ![g] = IF resyncing[g] \/ @ > 1 THEN @ ELSE @ + 1]
    /\ UNCHANGED <<environment, contexts, autoscaler, goroutines, maxDepth, resync, falseRun>>

\* requeue, at the interval that was read, whatever it is by now.
ResyncFire(g) ==
    /\ rpc[g] = "wait"
    /\ extra' = [extra EXCEPT ![g] = IF resyncing[g] THEN @ ELSE @ + 1]
    /\ rpc' = [rpc EXCEPT ![g] = "load"]
    /\ UNCHANGED <<environment, contexts, autoscaler, goroutines, maxDepth, resyncing, falseRun>>

ResyncStops(g) ==
    /\ rpc[g] \in {"load", "wait"}
    /\ g \in cancelled
    /\ rpc' = [rpc EXCEPT ![g] = "stopped"]
    /\ UNCHANGED <<environment, contexts, autoscaler, goroutines, maxDepth, resyncing, history>>

-----------------------------------------------------------------------------
(* The kordinator and the load                                             *)

\* deactivateCRD, or the loss of leadership.
Cancel ==
    /\ gen \notin cancelled
    /\ cancelled' = cancelled \cup {gen}
    /\ UNCHANGED <<environment, gen, autoscaler, goroutines, maxDepth, resync, history>>

\* startCRDWorkers: a new reconciler over the queue as it is.
StartCRDWorkers ==
    /\ gen \in cancelled
    /\ gen < MaxGen
    /\ gen' = gen + 1
    /\ apc' = [apc EXCEPT ![gen + 1] = "select"]
    /\ rpc' = [rpc EXCEPT ![gen + 1] = "load"]
    /\ workers' = [workers EXCEPT ![gen + 1] = BaseWorkers]
    /\ UNCHANGED <<environment, cancelled, overrideActive, falseFor, capacity, spawning, maxDepth,
                   resyncing, history>>

ConditionsChange ==
    /\ changes < MaxChanges
    /\ changes' = changes + 1
    /\ met' = ~met
    /\ UNCHANGED <<contexts, autoscaler, goroutines, maxDepth, resync, history>>

-----------------------------------------------------------------------------
Tick(g)   == TickMet(g) \/ TickCooling(g) \/ TickRestore(g)
Half(g)   == ApplyOverride(g) \/ RestoreBaseline(g)
Stop(g)   == StopRestoring(g) \/ StopPlain(g)
Resync(g) == ResyncLoad(g) \/ ResyncFire(g) \/ ResyncStops(g)

Next ==
    \/ \E g \in Gen :
        \/ Tick(g)
        \/ Half(g)
        \/ Stop(g)
        \/ Resync(g)
        \/ SpawnWorker(g)
    \/ Cancel
    \/ StartCRDWorkers
    \/ ConditionsChange

Spec == Init /\ [][Next]_vars

\* The ticker ticks, a closed Done channel is always ready, so that a select that
\* is taken again and again takes it, and a goroutine that was started runs.
Fairness == \A g \in Gen :
    /\ WF_vars(Tick(g))
    /\ WF_vars(Half(g))
    /\ SF_vars(Stop(g))

FairSpec == Spec /\ Fairness

-----------------------------------------------------------------------------
(* Properties                                                              *)

\* The values are those of the Go types; the cooldown clock stays below the
\* cooldown and a semaphore has at least one slot (evaluate, Resize).
TypeOK ==
    /\ met \in BOOLEAN
    /\ changes \in 0..MaxChanges
    /\ gen \in Gen
    /\ cancelled \subseteq 1..gen
    /\ apc \in [Gen -> {"none", "select", "apply", "restore", "restoreLast", "stopped"}]
    /\ overrideActive \in [Gen -> BOOLEAN]
    /\ falseFor \in [Gen -> Zero..(Cooldown - 1)]
    /\ capacity \in [Gen -> Nat \ {0}]
    /\ spawning \in [Gen -> Nat]
    /\ workers \in [Gen -> Nat]
    /\ maxDepth \in {BaseDepth, OverDepth}
    /\ resyncing \in [Gen -> BOOLEAN]
    /\ rpc \in [Gen -> {"none", "load", "wait", "stopped"}]
    /\ falseRun \in [Gen -> Nat]
    /\ extra \in [Gen -> Nat]

\* A pool that was not told to stop has a goroutine, running or about to be
\* spawned, for every slot of its semaphore, however often it was resized
\* (ResizeWorkers).
EnoughWorkers ==
    \A g \in 1..gen : g \notin cancelled => workers[g] + spawning[g] >= capacity[g]

\* When no generation has an override in force or half applied, the shared limit
\* is the declared one, whichever generation wrote it last (restoreBaseline).
DepthRestored ==
    (\A g \in Gen : ~overrideActive[g] /\ apc[g] # "apply") => maxDepth = BaseDepth

\* An override ends only when the context is cancelled, or when the conditions
\* were false at more ticks in a row than the cooldown has (evaluate).
CooldownKept ==
    [][\A g \in Gen :
        overrideActive[g] /\ ~overrideActive'[g] => g \in cancelled \/ falseRun[g] > Cooldown]_vars

\* After restoreBaseline the resync loop fires at most once more, at the interval
\* it had read before (resyncLoop).
ResyncStopsSoon == \A g \in Gen : extra[g] <= 1

\* An override does not outlive its reason: it is gone for good when the
\* conditions stay false, and in every generation that is cancelled.
OverrideEnds ==
    /\ <>[]~met => <>[](\A g \in Gen : ~overrideActive[g])
    /\ \A g \in Gen : (g \in cancelled) ~> (~overrideActive[g] /\ apc[g] = "stopped")

\* "when scaling up, starts additional goroutines ... so that goroutine count stays
\* equal to the effective concurrency limit" (generic_autoscale.go:66): a pool that
\* is scaled up, with its new goroutines at work, has one for each slot.  It holds
\* for the first scale-up of a pool; no scale-down ends a goroutine.
GoroutinesMatchCapacity ==
    \A g \in 1..gen :
        g \notin cancelled /\ capacity[g] > BaseWorkers /\ spawning[g] = 0
            => workers[g] = capacity[g]
=============================================================================
