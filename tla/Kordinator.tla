----------------------------- MODULE Kordinator -----------------------------
(***************************************************************************)
(* The DependencyKordinator of pkg/runtime/kordinator: the startup loop,   *)
(* the retry loop that activates and deactivates CRDs as they come and go, *)
(* the health checker that opens the gates of dependents, and the shutdown *)
(* after the loss of leadership, with the part of informer.Factory that    *)
(* they share (the missing map and the informer entries).                  *)
(*                                                                         *)
(* Four goroutines (Kordinate, retryMissingCRDs, dependencyHealthChecker,  *)
(* the workers) and the cluster interleave.  The loops over CRDs are one   *)
(* action per CRD.  startedCh and healthyCh are the sets of closed         *)
(* channels; closing a closed one panics.  The retry loop starts before    *)
(* the startup loop, so a tick may come while that loop runs; `early`      *)
(* remembers it.                                                           *)
(*                                                                         *)
(* Of a CRD's health only `healthy` is kept: it is the flag that gates.    *)
(***************************************************************************)
EXTENDS Integers, Sequences, FiniteSets

CONSTANTS
    CRD,            \* the CRDs of the katalog
    Order,          \* depGraph.StartupOrder()
    NeedsStarted,   \* dependsOn with condition: started
    NeedsHealthy,   \* dependsOn with condition: healthy
    MaxLost         \* bound: CRDs that are ever absent from the cluster

Needs(c) == NeedsStarted[c] \cup NeedsHealthy[c]

\* What validation and StartupOrder guarantee (see DependencyGraph).
ASSUME KatalogAssumption ==
    /\ IsFiniteSet(CRD)
    /\ NeedsStarted \in [CRD -> SUBSET CRD]
    /\ NeedsHealthy \in [CRD -> SUBSET CRD]
    /\ MaxLost \in Nat
    /\ Order \in Seq(CRD)
    /\ \A c \in CRD : \E i \in 1..Len(Order) : Order[i] = c
    /\ \A i, j \in 1..Len(Order) : Order[i] = Order[j] => i = j
    /\ \A i \in 1..Len(Order) : \A d \in Needs(Order[i]) : \E j \in 1..(i - 1) : Order[j] = d

VARIABLES
    present,        \* the cluster: CRDs the API server knows
    lost,           \* history: CRDs that were ever absent or taken for absent
    entryMissing,   \* CRDs whose InformerEntry.Missing is set
    neverStarted,   \* CRDs whose InformerEntry.WasNeverStarted is set
    missing,        \* Factory.missing
    started,        \* k.started
    startedCh,      \* closed startedCh channels
    healthyCh,      \* closed healthyCh channels
    signaled,       \* CRDHealth.healthySignaled
    deactivated,    \* k.deactivated
    pool,           \* the current worker pool of each CRD
    healthy,        \* CRDHealth.healthy
    reconciled,     \* history: CRDs that reconciled an object successfully
    katReady,       \* the katReady of k.orkHealth (a CRDHealth has a copy of its own)
    mpc,            \* Kordinate: "starting", "running", "stopping", "stopped"
    mi,             \* Kordinate: position in Order
    online,         \* Kordinate: onlineCRDs
    rpc,            \* retryMissingCRDs: the phase it is in
    todo,           \* retryMissingCRDs: CRDs left in the current loop
    runtimeMissing, \* retryMissingCRDs: found absent in this tick
    stillMissing,   \* retryMissingCRDs: still absent in this tick
    draining,       \* retryMissingCRDs: the CRD deactivateCRD waits for, if any
    ri,             \* retryMissingCRDs: position in Order (phase 3)
    ctxDone,        \* the leadership context is cancelled
    crashed,        \* a closed channel was closed
    early           \* history: a tick came before the end of the startup loop

cluster   == <<present, lost>>
factory   == <<entryMissing, neverStarted, missing>>
gates     == <<startedCh, healthyCh, signaled>>
pools     == <<started, deactivated, pool>>
health    == <<healthy, reconciled>>
mainVars  == <<mpc, mi, online>>
retryVars == <<rpc, todo, runtimeMissing, stillMissing, draining, ri, early>>

vars == <<cluster, factory, gates, pools, health, katReady, mainVars, retryVars,
          ctxDone, crashed>>

\* The factory took a CRD for missing when it was absent, or when the discovery
\* call failed; Start marks the informers it did not run.
Init ==
    /\ present \in SUBSET CRD
    /\ lost \in SUBSET CRD
    /\ Cardinality(lost) <= MaxLost
    /\ CRD \ present \subseteq lost
    /\ entryMissing = lost
    /\ neverStarted = lost
    /\ missing = lost
    /\ started = {}
    /\ startedCh = {}
    /\ healthyCh = {}
    /\ signaled = {}
    /\ deactivated = {}
    /\ pool = [c \in CRD |-> "none"]
    /\ healthy = {}
    /\ reconciled = {}
    /\ katReady = FALSE
    /\ mpc = "starting"
    /\ mi = 1
    /\ online = 0
    /\ rpc = "idle"
    /\ todo = {}
    /\ runtimeMissing = {}
    /\ stillMissing = {}
    /\ draining = {}
    /\ ri = 1
    /\ ctxDone = FALSE
    /\ crashed = FALSE
    /\ early = FALSE

-----------------------------------------------------------------------------
(* Operations shared by the loops                                          *)

\* Mutant: a closed startedCh is enough for every condition.
ReadyWhenStarted(c) == Needs(c) \subseteq startedCh

\* dependenciesReady
Ready(c) == NeedsStarted[c] \subseteq startedCh /\ NeedsHealthy[c] \subseteq healthyCh

\* depGraph.GetDependents as written: the CRDs c depends on.
GetDependents(c) == Needs(c)

\* The CRDs among them that need c healthy.
HealthDependents(c) == {d \in GetDependents(c) : c \in NeedsHealthy[d]}

\* startCRDWorkers: a new pool under a context derived from the leadership's.
StartCRDWorkers(c) ==
    /\ pool' = [pool EXCEPT ![c] = IF ctxDone THEN "cancelled" ELSE "running"]
    /\ started' = started \cup {c}

\* Mutant: the deactivated flag of an earlier disappearance is not cleared.
ActivateCRDStale(c) ==
    /\ neverStarted' = neverStarted \ {c}
    /\ entryMissing' = entryMissing \ {c}
    /\ missing' = missing \ {c}
    /\ StartCRDWorkers(c)
    /\ startedCh' = startedCh \cup {c}
    /\ healthyCh' = healthyCh \cup (HealthDependents(c) \cap healthy)
    /\ UNCHANGED <<signaled, crashed, deactivated>>

\* Mutant: the informer of a CRD missing at startup is not run.
ActivateCRDWithoutInformer(c) ==
    /\ entryMissing' = entryMissing \ {c}
    /\ missing' = missing \ {c}
    /\ StartCRDWorkers(c)
    /\ deactivated' = deactivated \ {c}
    /\ startedCh' = startedCh \cup {c}
    /\ healthyCh' = healthyCh \cup (HealthDependents(c) \cap healthy)
    /\ UNCHANGED <<neverStarted, signaled, crashed>>

\* Mutant: startedCh is closed without the select/default.
ActivateCRDUnguarded(c) ==
    /\ neverStarted' = neverStarted \ {c}
    /\ entryMissing' = entryMissing \ {c}
    /\ missing' = missing \ {c}
    /\ StartCRDWorkers(c)
    /\ deactivated' = deactivated \ {c}
    /\ crashed' = (crashed \/ c \in startedCh)
    /\ startedCh' = startedCh \cup {c}
    /\ healthyCh' = healthyCh \cup (HealthDependents(c) \cap healthy)
    /\ UNCHANGED signaled

\* activateCRD.  Both channels are closed under select/default.
ActivateCRD(c) ==
    /\ neverStarted' = neverStarted \ {c}
    /\ entryMissing' = entryMissing \ {c}
    /\ missing' = missing \ {c}
    /\ StartCRDWorkers(c)
    /\ deactivated' = deactivated \ {c}
    /\ startedCh' = startedCh \cup {c}
    /\ healthyCh' = healthyCh \cup (HealthDependents(c) \cap healthy)
    /\ UNCHANGED <<signaled, crashed>>

-----------------------------------------------------------------------------
(* Kordinate                                                               *)

\* The startup loop skips a CRD whose dependencies are not ready or that is
\* missing; the retry loop will see to it.
StartupSkip ==
    /\ mpc = "starting"
    /\ mi <= Len(Order)
    /\ ~ Ready(Order[mi]) \/ Order[mi] \in missing
    /\ mi' = mi + 1
    /\ UNCHANGED <<cluster, factory, gates, pools, health, katReady, mpc, online,
                   retryVars, ctxDone, crashed>>

\* The startup loop starts a CRD and closes its startedCh, unguarded.
StartupStart ==
    /\ mpc = "starting"
    /\ mi <= Len(Order)
    /\ LET c == Order[mi]
       IN  /\ Ready(c)
           /\ c \notin missing
           /\ StartCRDWorkers(c)
           /\ crashed' = (crashed \/ c \in startedCh)
           /\ startedCh' = startedCh \cup {c}
    /\ online' = online + 1
    /\ mi' = mi + 1
    /\ UNCHANGED <<cluster, factory, healthyCh, signaled, deactivated, health, katReady,
                   mpc, retryVars, ctxDone>>

\* The final katalog health of the startup; then block until leadership ends.
StartupDone ==
    /\ mpc = "starting"
    /\ mi > Len(Order)
    /\ katReady' = (online = Len(Order))
    /\ mpc' = "running"
    /\ UNCHANGED <<cluster, factory, gates, pools, health, mi, online, retryVars,
                   ctxDone, crashed>>

\* Leadership is lost: the context of every CRD descends from the cancelled
\* one, so every pool is told to stop.
LoseLeadership ==
    /\ ~ ctxDone
    /\ ctxDone' = TRUE
    /\ pool' = [c \in CRD |-> IF pool[c] = "running" THEN "cancelled" ELSE pool[c]]
    /\ UNCHANGED <<cluster, factory, gates, started, deactivated, health, katReady,
                   mainVars, retryVars, crashed>>

\* Kordinate sees the context done and begins the shutdown at the end of Order.
ShutdownBegin ==
    /\ mpc = "running"
    /\ ctxDone
    /\ mpc' = "stopping"
    /\ mi' = Len(Order)
    /\ UNCHANGED <<cluster, factory, gates, pools, health, katReady, online, retryVars,
                   ctxDone, crashed>>

\* Mutant: the shutdown loop runs past its first element.
StopCRDWorkersPastEnd ==
    /\ mpc = "stopping"
    /\ mi' = mi - 1
    /\ mpc' = IF mi = 0 THEN "stopped" ELSE "stopping"
    /\ UNCHANGED <<cluster, factory, gates, pools, health, katReady, online, retryVars,
                   ctxDone, crashed>>

\* Mutant: the wait for the workers has no timeout.
StopCRDWorkersPatient ==
    /\ mpc = "stopping"
    /\ mi > 0
    /\ pool[Order[mi]] # "cancelled"
    /\ mi' = mi - 1
    /\ UNCHANGED <<cluster, factory, gates, pools, health, katReady, mpc, online, retryVars,
                   ctxDone, crashed>>

\* stopCRDWorkers: cancel, then wait until the pool has drained or the drain
\* timeout has passed.  The contexts are cancelled already.
StopCRDWorkers ==
    /\ mpc = "stopping"
    /\ mi > 0
    /\ mi' = mi - 1
    /\ UNCHANGED <<cluster, factory, gates, pools, health, katReady, mpc, online, retryVars,
                   ctxDone, crashed>>

\* Every CRD is stopped.
ShutdownDone ==
    /\ mpc = "stopping"
    /\ mi = 0
    /\ mpc' = "stopped"
    /\ UNCHANGED <<cluster, factory, gates, pools, health, katReady, mi, online, retryVars,
                   ctxDone, crashed>>

-----------------------------------------------------------------------------
(* retryMissingCRDs.  A local that goes out of scope is reset.             *)

\* A tick: phase 1 goes through every registered informer.  Nothing but the
\* ticker's interval of 10 or 90 seconds keeps it behind the startup loop.
RetryTick ==
    /\ rpc = "idle"
    /\ rpc' = "detect"
    /\ todo' = CRD
    /\ early' = IF mpc = "starting" THEN TRUE ELSE early
    /\ UNCHANGED <<cluster, factory, gates, pools, health, katReady, mainVars, runtimeMissing,
                   stillMissing, draining, ri, ctxDone, crashed>>

\* The loop ends when its select sees the context done.
RetryExit ==
    /\ rpc = "idle"
    /\ ctxDone
    /\ rpc' = "exited"
    /\ UNCHANGED <<cluster, factory, gates, pools, health, katReady, mainVars, todo,
                   runtimeMissing, stillMissing, draining, ri, early, ctxDone, crashed>>

\* Phase 1, nothing to do for c: known to be missing, or present, or the API
\* server could not be asked.
DetectSkip(c) ==
    /\ rpc = "detect"
    /\ draining = {}
    /\ c \in todo
    /\ todo' = todo \ {c}
    /\ UNCHANGED <<cluster, factory, gates, pools, health, katReady, mainVars, rpc,
                   runtimeMissing, stillMissing, draining, ri, early, ctxDone, crashed>>

\* Phase 1, c has disappeared: mark it, replace the factory's missing map by
\* this tick's, degrade, and cancel its workers.
DetectAbsent(c) ==
    /\ rpc = "detect"
    /\ draining = {}
    /\ c \in todo
    /\ c \notin entryMissing
    /\ c \notin present
    /\ todo' = todo \ {c}
    /\ entryMissing' = entryMissing \cup {c}
    /\ runtimeMissing' = runtimeMissing \cup {c}
    /\ missing' = runtimeMissing'
    /\ healthy' = healthy \ ({c} \cup HealthDependents(c))
    /\ katReady' = FALSE
    /\ \/ /\ c \notin deactivated
          /\ pool' = [pool EXCEPT ![c] = IF @ = "running" THEN "cancelled" ELSE @]
          /\ draining' = {c}
       \/ c \in deactivated /\ UNCHANGED <<pool, draining>>
    /\ UNCHANGED <<cluster, neverStarted, gates, started, deactivated, reconciled, mainVars,
                   rpc, stillMissing, ri, early, ctxDone, crashed>>

\* deactivateCRD saw the workers drain, within the timeout.
DrainDone(c) ==
    /\ c \in draining
    /\ pool[c] = "drained"
    /\ draining' = {}
    /\ deactivated' = deactivated \cup {c}
    /\ UNCHANGED <<cluster, factory, gates, started, pool, health, katReady, mainVars, rpc,
                   todo, runtimeMissing, stillMissing, ri, early, ctxDone, crashed>>

\* deactivateCRD found no pool, or gave up after the timeout.
DrainGiveUp(c) ==
    /\ c \in draining
    /\ pool[c] # "drained"
    /\ draining' = {}
    /\ UNCHANGED <<cluster, factory, gates, pools, health, katReady, mainVars, rpc, todo,
                   runtimeMissing, stillMissing, ri, early, ctxDone, crashed>>

\* Phase 1 is over; phase 2 works on a snapshot of the missing map.
DetectEnd ==
    /\ rpc = "detect"
    /\ draining = {}
    /\ todo = {}
    /\ rpc' = "missing"
    /\ todo' = missing
    /\ runtimeMissing' = {}
    /\ UNCHANGED <<cluster, factory, gates, pools, health, katReady, mainVars, stillMissing,
                   draining, ri, early, ctxDone, crashed>>

\* Phase 2, c is back.
MissingFound(c) ==
    /\ rpc = "missing"
    /\ c \in todo
    /\ c \in present
    /\ todo' = todo \ {c}
    /\ ActivateCRD(c)
    /\ UNCHANGED <<cluster, health, katReady, mainVars, rpc, runtimeMissing, stillMissing,
                   draining, ri, early, ctxDone>>

\* Phase 2, c is still absent.
MissingAbsent(c) ==
    /\ rpc = "missing"
    /\ c \in todo
    /\ c \notin present
    /\ todo' = todo \ {c}
    /\ stillMissing' = stillMissing \cup {c}
    /\ healthy' = healthy \ {c}
    /\ katReady' = FALSE
    /\ UNCHANGED <<cluster, factory, gates, pools, reconciled, mainVars, rpc, runtimeMissing,
                   draining, ri, early, ctxDone, crashed>>

\* Phase 2, the API server could not be asked: c stays in the map.
MissingError(c) ==
    /\ rpc = "missing"
    /\ c \in todo
    /\ todo' = todo \ {c}
    /\ stillMissing' = stillMissing \cup {c}
    /\ UNCHANGED <<cluster, factory, gates, pools, health, katReady, mainVars, rpc,
                   runtimeMissing, draining, ri, early, ctxDone, crashed>>

\* Mutant: a CRD that could not be looked up is dropped with the others.
MissingEndEmpty ==
    /\ rpc = "missing"
    /\ todo = {}
    /\ missing' = {}
    /\ katReady' = (katReady /\ stillMissing = {})
    /\ stillMissing' = {}
    /\ rpc' = "deferred"
    /\ UNCHANGED <<cluster, entryMissing, neverStarted, gates, pools, health, mainVars, todo,
                   runtimeMissing, draining, ri, early, ctxDone, crashed>>

\* Phase 2 is over: what is still missing becomes the missing map.
MissingEnd ==
    /\ rpc = "missing"
    /\ todo = {}
    /\ missing' = stillMissing
    /\ katReady' = (katReady /\ stillMissing = {})
    /\ stillMissing' = {}
    /\ rpc' = "deferred"
    /\ UNCHANGED <<cluster, entryMissing, neverStarted, gates, pools, health, mainVars, todo,
                   runtimeMissing, draining, ri, early, ctxDone, crashed>>

\* Phase 3, nothing to do: running, missing, or waiting for dependencies.
DeferredSkip ==
    /\ rpc = "deferred"
    /\ ri <= Len(Order)
    /\ LET c == Order[ri] IN c \in started \/ c \in missing \/ ~ Ready(c)
    /\ ri' = ri + 1
    /\ UNCHANGED <<cluster, factory, gates, pools, health, katReady, mainVars, rpc, todo,
                   runtimeMissing, stillMissing, draining, early, ctxDone, crashed>>

\* Mutant: phase 3 notes that the CRD is ready and does not activate it.
DeferredActivateNone ==
    /\ rpc = "deferred"
    /\ ri <= Len(Order)
    /\ LET c == Order[ri]
       IN  c \notin started /\ c \notin missing /\ Ready(c)
    /\ ri' = ri + 1
    /\ UNCHANGED <<cluster, factory, gates, pools, health, katReady, mainVars, rpc, todo,
                   runtimeMissing, stillMissing, draining, early, ctxDone, crashed>>

\* Phase 3, a deferred CRD whose dependencies are ready.
DeferredActivate ==
    /\ rpc = "deferred"
    /\ ri <= Len(Order)
    /\ LET c == Order[ri]
       IN  /\ c \notin started
           /\ c \notin missing
           /\ Ready(c)
           /\ ActivateCRD(c)
    /\ ri' = ri + 1
    /\ UNCHANGED <<cluster, health, katReady, mainVars, rpc, todo, runtimeMissing,
                   stillMissing, draining, early, ctxDone>>

\* Mutant: phase 4 asks only whether every CRD has started.
AggregateHealthStarted ==
    /\ rpc = "deferred"
    /\ ri > Len(Order)
    /\ katReady' = (katReady \/ started = CRD)
    /\ rpc' = "idle"
    /\ ri' = 1
    /\ UNCHANGED <<cluster, factory, gates, pools, health, mainVars, todo, runtimeMissing,
                   stillMissing, draining, early, ctxDone, crashed>>

\* Phase 4: ready when nothing is missing and everything has started.
AggregateHealth ==
    /\ rpc = "deferred"
    /\ ri > Len(Order)
    /\ katReady' = (katReady \/ (missing = {} /\ started = CRD))
    /\ rpc' = "idle"
    /\ ri' = 1
    /\ UNCHANGED <<cluster, factory, gates, pools, health, mainVars, todo, runtimeMissing,
                   stillMissing, draining, early, ctxDone, crashed>>

-----------------------------------------------------------------------------
(* The health checker, the workers and the cluster                         *)

\* checkDependencyHealthForGVK, for dependency d of some CRD.  A pass begun
\* before the loss of leadership ends after it.
CheckDependency(d) ==
    /\ \E c \in CRD : d \in Needs(c)
    /\ d \in healthy
    /\ d \notin signaled
    /\ crashed' = (crashed \/ d \in healthyCh)
    /\ healthyCh' = healthyCh \cup {d}
    /\ signaled' = signaled \cup {d}
    /\ UNCHANGED <<cluster, factory, startedCh, pools, health, katReady, mainVars, retryVars,
                   ctxDone>>

\* A worker ends a successful reconcile, which may have begun before its
\* context was cancelled: RecordSuccess.
RecordSuccess(c) ==
    /\ pool[c] \in {"running", "cancelled"}
    /\ healthy' = healthy \cup {c}
    /\ reconciled' = reconciled \cup {c}
    /\ UNCHANGED <<cluster, factory, gates, pools, katReady, mainVars, retryVars, ctxDone,
                   crashed>>

\* A failed reconcile reaches the threshold: RecordFailure.
RecordFailure(c) ==
    /\ pool[c] \in {"running", "cancelled"}
    /\ c \in healthy
    /\ healthy' = healthy \ {c}
    /\ UNCHANGED <<cluster, factory, gates, pools, reconciled, katReady, mainVars, retryVars,
                   ctxDone, crashed>>

\* The last worker of a cancelled pool returns.
WorkersExit(c) ==
    /\ pool[c] = "cancelled"
    /\ pool' = [pool EXCEPT ![c] = "drained"]
    /\ UNCHANGED <<cluster, factory, gates, started, deactivated, health, katReady, mainVars,
                   retryVars, ctxDone, crashed>>

\* Somebody deletes a CRD from the cluster, or applies it.
Vanish(c) ==
    /\ c \in present
    /\ Cardinality(lost \cup {c}) <= MaxLost
    /\ present' = present \ {c}
    /\ lost' = lost \cup {c}
    /\ UNCHANGED <<factory, gates, pools, health, katReady, mainVars, retryVars, ctxDone,
                   crashed>>

Appear(c) ==
    /\ c \notin present
    /\ present' = present \cup {c}
    /\ UNCHANGED <<lost, factory, gates, pools, health, katReady, mainVars, retryVars,
                   ctxDone, crashed>>

-----------------------------------------------------------------------------

Kordinate ==
    \/ StartupSkip \/ StartupStart \/ StartupDone
    \/ ShutdownBegin \/ StopCRDWorkers \/ ShutdownDone

Retry ==
    \/ RetryTick \/ RetryExit \/ DetectEnd \/ MissingEnd
    \/ DeferredSkip \/ DeferredActivate \/ AggregateHealth
    \/ \E c \in CRD :
          \/ DetectSkip(c) \/ DetectAbsent(c) \/ DrainDone(c) \/ DrainGiveUp(c)
          \/ MissingFound(c) \/ MissingAbsent(c) \/ MissingError(c)

Next ==
    \/ Kordinate
    \/ Retry
    \/ LoseLeadership
    \/ \E c \in CRD :
          \/ CheckDependency(c) \/ RecordSuccess(c) \/ RecordFailure(c) \/ WorkersExit(c)
          \/ Vanish(c) \/ Appear(c)

Spec == Init /\ [][Next]_vars

\* The goroutines run and their tickers tick; the drains have timeouts.  A CRD
\* that is asked about again and again is answered for at last.
Fairness ==
    /\ WF_vars(Kordinate)
    /\ WF_vars(Retry)
    /\ \A c \in CRD : SF_vars(MissingFound(c))

FairSpec == Spec /\ Fairness

-----------------------------------------------------------------------------

TypeOK ==
    /\ present \in SUBSET CRD /\ lost \in SUBSET CRD
    /\ entryMissing \in SUBSET CRD /\ neverStarted \in SUBSET CRD /\ missing \in SUBSET CRD
    /\ started \in SUBSET CRD /\ deactivated \in SUBSET CRD
    /\ startedCh \in SUBSET CRD /\ healthyCh \in SUBSET CRD /\ signaled \in SUBSET CRD
    /\ pool \in [CRD -> {"none", "running", "cancelled", "drained"}]
    /\ healthy \in SUBSET CRD /\ reconciled \in SUBSET CRD
    /\ katReady \in BOOLEAN /\ ctxDone \in BOOLEAN /\ crashed \in BOOLEAN /\ early \in BOOLEAN
    /\ mpc \in {"starting", "running", "stopping", "stopped"}
    /\ mi \in 0..(Len(Order) + 1)
    /\ online \in 0..Len(Order)
    /\ rpc \in {"idle", "detect", "missing", "deferred", "exited"}
    /\ todo \in SUBSET CRD /\ runtimeMissing \in SUBSET CRD
    /\ stillMissing \in SUBSET CRD /\ draining \in SUBSET CRD
    /\ ri \in 1..(Len(Order) + 1)

\* A closed channel is closed again, which would take the whole operator down,
\* only if the retry loop ticks before the startup loop has ended: neither
\* reactivations nor the health checker ever do it, and once the startup loop
\* is over nothing does.  The startup loop's own close (dependency_kordinator.go:359)
\* has no guard against a CRD that an early tick has activated.
NoDoubleClose == crashed => early

\* "starts after website has reconciled at least one CR" (docs/03-startup.md):
\* a CRD that was never away has started only after everything it needs had
\* started, and had reconciled where the condition says healthy.
StartedAfterNeeds ==
    \A c \in started \ lost :
        NeedsStarted[c] \subseteq started /\ NeedsHealthy[c] \subseteq reconciled

\* A pool never works without the informer that feeds it, whichever of the
\* three paths started it, unless a tick came early: the startup loop trusts the
\* missing map, which a tick replaces.
PoolHasInformer ==
    ~ early => \A c \in CRD : pool[c] = "running" => c \notin neverStarted

\* The workers of a CRD known to be gone have been told to stop, the second
\* time it disappears as much as the first: the deactivated flag of an earlier
\* disappearance never makes deactivateCRD skip a pool that runs again.  An
\* early tick is excepted, as above.
MissingMeansStopped == ~ early => \A c \in entryMissing : pool[c] # "running"

\* SetKatalogReady is "called when all CRDs in the graph have started",
\* SetKatalogDegraded "when any CRD is missing" (docs/02-health.md): while no
\* more than one CRD ever goes away and no tick comes early, a ready katalog has
\* no CRD down between two ticks.
ReadyMeansActive ==
    katReady /\ rpc = "idle" /\ ~ ctxDone /\ ~ early =>
        \A c \in CRD : c \in started /\ c \notin entryMissing /\ pool[c] = "running"

\* A CRD deferred at startup is activated once its dependencies are ready,
\* unless it is missing, leadership ends or the process panics.
DeferredStarts ==
    \A c \in CRD : Ready(c) ~> c \in started \cup missing \/ ctxDone \/ crashed

\* "CRD A becomes operational again without restarting Orkestra"
\* (dependency_kordinator.go:90): a CRD that comes back for good does not stay
\* deactivated for good, however many transient errors come in between.
Reactivated ==
    \A c \in CRD :
        <>[](c \in present /\ ~ ctxDone /\ ~ crashed) => []<>(c \notin entryMissing)

\* Once leadership is lost Kordinate returns, whatever the workers do, unless the
\* process panics first.
ShutdownEnds == ctxDone ~> mpc = "stopped" \/ crashed

\* "starts after website has reconciled at least one CR" (docs/03-startup.md),
\* said of every CRD, the ones that appear after startup too.
EveryStartGated == \A c \in started : NeedsHealthy[c] \subseteq reconciled

\* "This ensures CRDs are stopped only after all dependents have been drained"
\* (dependencies.go:138).
DependentsDrainFirst ==
    ctxDone => \A c \in CRD : pool[c] = "drained" =>
                   \A d \in CRD : c \in Needs(d) => pool[d] \in {"none", "drained"}
=============================================================================
