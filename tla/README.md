# Orkestra runtime: TLA+ specifications

Orkestra runs many Kubernetes operators ("CRDs" of a katalog) in one process.
This directory models the part of the runtime that decides when each CRD's
workers run and how many of them, what becomes of the events they work on, and
how a custom resource is deleted while replicas come and go. TLC checks it on
small instances, TLAPS proves the main invariants for all instances.

## 1. Inventory

| Component | State | Operations | Talks to |
|---|---|---|---|
| Dependency graph (`pkg/katalog`) | nodes, edges, cached order | validate `dependsOn`, find cycles, `StartupOrder`, `ShutdownOrder`, `GetDependents` | read by the kordinator |
| Dependency kordinator (`pkg/runtime/kordinator`) | `startedCh`, `healthyCh`, `started`, `deactivated`, cancel functions, wait groups | startup loop, retry loop (4 phases), health checker, shutdown | informer factory, health, worker pools |
| Informer factory (`pkg/runtime/informer`) | informer entries, `missing` map | create, start, sync, mark missing, filter and enqueue events | kordinator, queues |
| Worker pool and queue (`kordinator/worker.go`, `pkg/runtime/queue`) | one rate-limiting queue and n goroutines per CRD | enqueue with depth limit, get, reconcile, retry, drain | reconciler, health |
| Concurrency gate (`autoscaler/autoscale_semaphore.go`) | capacity, counter, waiter list | `Acquire`, `Release`, `Resize` | reconciler, autoscaler |
| Autoscaler | override active, cooldown clock, cron windows | evaluate, apply, restore, resync loop | gate, queue limit, worker spawning |
| CRD and katalog health | flags and counters per CRD, readiness | `RecordSuccess`, `RecordFailure`, `SetDegraded`, ... | written by workers and kordinator, read by checker and HTTP |
| Konductor election | lease, run context | start, callbacks, shutdown | starts and cancels the kordinator |
| Process lifecycle (`pkg/orkestra`) | komponents, hooks | start in order, stop in reverse under a timeout | everything |
| Reconciler | finalizers, owned resources, rollback annotation | create, update, delete in order, roll back | API server, stale cache |
| Runners, gateway, control center, CLI, registry, merger | none that outlives a request | input and output | - |

What is hard: four goroutines (startup, retry, checker, workers) change the
same per-CRD state with little locking; channels are closed in three places,
two of them unguarded; CRDs come and go in the cluster and the API server may
not answer; leadership ends at any moment; the semaphore hands tokens over
while waiters are cancelled and its capacity changes; panics cross it.
`PROJECT.json` lists each hazard at its line with the properties that cover
it, or the reason why none does yet.

Correctness, component by component:

- **Graph**: accepts exactly the acyclic katalogs with known names; the order is
  topological and the same in every run; a validated katalog never exits later.
- **Kordinator**: no channel is closed twice once the startup loop has the field to
  itself; a CRD starts after what it needs;
  a pool has its informer; a CRD that is gone has no running pool, and one that
  is back is reactivated; readiness is not claimed with a CRD down; shutdown
  ends.
- **Gate**: no lost wake-up, no token minted or lost, blocked callers return.
- **Queue, pool**: one worker per item; an accepted event waits until a worker
  gets it; what a drain can lose is bounded; every worker exits at shutdown.
- **Autoscaler**: an override lasts as long as its conditions and the cooldown;
  the baseline comes back; there is a goroutine for every slot.
- **Election, lifecycle**: once faults stop there is one konductor for good and
  every other replica stands by.
- **Deletion**: no cluster-scoped resource outlives its CR; stages keep their
  order through retries and failovers; a deletion ends.

## 2. Modules

| Module | Models |
|---|---|
| `ResizableSemaphore` | the semaphore with `Reconcile` and the worker loop as its client |
| `DependencyGraph` | validation, cycle search and startup order |
| `Kordinator` | startup, retry loop, checker, shutdown, missing map |
| `WorkerPool` | queue, worker loop, drain, reactivation, shutdown of one CRD |
| `ReconcileRequests` | abstract: what queue and pools promise together |
| `Autoscaler` | override, cooldown, spawned goroutines, resync loop, over generations |
| `Election` | lease, callbacks, start, stop, crash and restart of replicas |
| `Deletion` | extends `Election`: one CR, its finalizers, children, ordered deletion, lagging caches |
| `MC*` | bounds and instances for TLC |
| `SemaphoreProofs`, `GraphProofs`, `ValidationProofs`, `KordinatorProofs`, `WorkerPoolProofs`, `AutoscalerProofs`, `DeletionProofs` | theorems |

Definitions with a comment "Mutant:" are faulty variants of the
definition that follows them; they are used only to see that a property would
notice, never by `Next`.

### ResizableSemaphore

`cap`, `current`, `waiters` are the fields of the struct; a waiter channel is
named by the worker that made it, and `granted` is the set of channels that
hold a token. Each section under `s.mu` is one action. The select of `Acquire`
is outside the lock, so `Receive`, `GiveUp` and `RemoveWaiter` are actions of
their own; `GiveUp` may be taken although the token is there, as Go's select
may. `Panic` is a reconcile that panics: `Reconcile` does not defer `Release`
(`generic.go:273-274`). `leaked` is a history variable for the tokens that
nobody can give back.

### DependencyGraph

CRD names are numbers in `sort.Strings` order and 0 is a name that is not
enabled. A frame of `path` is a call of `dfs` with the dependencies it has yet
to visit; the root chosen next stands for Go's random map iteration. Kahn's
queue is sorted after every round, so it is a set whose head is its least
element. `validated` is FALSE for `ork template --no-validate`, which builds
the graph of an unvalidated katalog (`cmd/cli/template.go:66`).

### Kordinator

Each goroutine has its program counter: `mpc`, `mi` for `Kordinate`, `rpc`,
`todo`, `ri` for `retryMissingCRDs`. The loops take one action per CRD, so the
others interleave between any two CRDs. `ActivateCRD` and `StartCRDWorkers`
are shared by the three paths that start a CRD. `GetDependents` is modelled as
it is written, which is not what its name says (see below). `crashed` records
the close of a closed channel; the model follows the other goroutines past it,
which adds behaviours and removes none. `lost` (CRDs that were ever away),
`reconciled` and `early` are history variables. `early` is set by a tick that
comes before the end of the startup loop: `Kordinate` starts the retry goroutine
before that loop (`dependency_kordinator.go:322`), and nothing but the first
interval of the ticker, 90 seconds or 10 outside a cluster, keeps them apart.
In such a history the startup loop may start a CRD that the tick has activated
and close its channel again at `dependency_kordinator.go:359`; TLC reaches it.
`NoDoubleClose` says that it is the only way to a double close, and the
properties of pools and of readiness make an exception of these histories.

Abstractions: a pool is none, running, cancelled or drained; its workers end
reconciles with success or failure at any time while it runs or drains. Of the
health flags only `healthy` is kept, the one the gates read. `DetectSkip`
covers the three reasons for which phase 1 leaves a CRD alone. Whether the API
server answers is a choice in each lookup. The custom child CRDs, which only
refresh the REST mapper, are left out. A CRD's turn in the
startup loop and in phase 3 is one step each, so two turns for one CRD are not
split within; only histories with an early tick have two such loops at a time.

### WorkerPool and ReconcileRequests

`queue`, `dirty`, `processing` and `delayed` are client-go's rate-limiting
queue (external): an item that is added while it is processed is queued by its
`Done`. An item is a key with the pointer of its sentinel map, so two updates of
one object are two items, as in `queue.go:111`; the drain sentinels are equal
and collapse. A worker's program counter follows the loop of `runWorkerForGVK`:
the select at the top, the blocking `Get`, the reconcile. `processItemForGVK`
looks at the context again after `Get`, and `GetCancelled` is that early
return, which drops the item. Each activation is a generation of workers under
one context over the same queue; `DrainTimeout` leaves workers of the old one
behind. `owed` and `gaveUp` are history variables.

A reconcile needs a slot of its reconciler's semaphore. Each activation makes a
new reconciler; `leaked` counts the slots of the current one that panics have
kept, since `Reconcile` does not defer `Release` (`generic.go:273-274`). Once all
`N` are gone a reconcile of that pool ends only when its context is cancelled, and
`Delivered` makes that exception. `N` is both the number of workers and of slots:
the CRD is one whose autoscaler does not resize it. Which of the workers hold the
slots that are left is the subject of `ResizableSemaphore`.

`ReconcileRequests` says it without queue, pools and delays: requests that are
pending or running, and workers that are told to stop, each of which may take
at most one request with it. `KeepsPromise` is the refinement: pending are the
items that are dirty or delayed, running the ones a worker holds, leaving the
workers that are in `Get` under a cancelled context.

Abstractions: an event dropped at the depth limit is one that does not happen;
the limit is tested only in the three enqueue functions. Whether the gate before
the reconcile lets an item pass (`Gated`) is a choice. Worker counters and metrics are left
out, as is the default queue that CRDs without their own share.

### Autoscaler

One autoscaler, semaphore capacity and resync loop per generation, one
`maxDepth` for all of them, because the queue outlives the reconciler.
`applyOverride` and `restoreBaseline` are two actions each, split after
`ResizeWorkers`, so that other goroutines see the half-applied state. Spawned
goroutines are counted in `spawning` until they run. Time is counted in ticks;
whether the conditions hold is a choice that changes `MaxChanges` times.
`falseRun` and `extra` are history variables. How the semaphore treats a
resize is the subject of `ResizableSemaphore`.

### Election and Deletion

A replica runs `RunOrDie` once. Losing the lease dismisses it, `Kordinate` calls
`Unhealthy`, the liveness probe of the chart fails and the kubelet restarts
the pod: only this chain brings it back. `LoseLease` takes the lease from a
konductor that still runs, because client-go releases it before it cancels the
context (`ReleaseOnCancel`) and because a paused replica outlives its lease.

`Deletion` follows one CR. The server's finalizers and deletion follow the
API's rules (external). A replica reconciles the copy its informer holds, which
catches up at any time; `reconcileCore` is one action per call to the API
server, and a cancelled context ends it at the next call. `Fail` is a call that
errs, in place of every error return; the worker queues the key again. The
children are the stages of `onDelete.ordered` and, as number 0, the
cluster-scoped resources that nothing but the cleanup finalizer protects.

`raced` records what the lease and the caches do not exclude: reconciles in two
replicas at once, or one that reads an older CR than an earlier one did. A
reconcile of the former konductor that is still under way, or a reconcile from a
stale store, can create children again behind the deletion. `NoOrphan` and
`StagesInOrder` claim nothing for such a history; without the exception TLC
violates both. `DeletionCompletes` and `FailoverAutomatic` have no exception.

Within a replica one reconcile of the CR runs at a time (`Read`). The queue
promises that for equal items only: a CRD with sentinel children has one item per
update of a child (`queue.go:111`, `informer/helper.go:86-97`), and several workers
of one konductor then reconcile the CR at once, with no fault at all. This overlap
is left out of `Deletion`. It belongs to the exception of `NoOrphan` and
`StagesInOrder`; of such CRDs the other properties of the module say nothing unless
they have one worker.

Abstractions: hooks, labels, status, providers and notifications are calls that
may fail; `RemoveFinalizers: true`, re-creation of the CR under its name and the
surface switch are left out, and enqueue filters are taken to let the CR pass.

## 3. Runs

| Run | Instance | Shows |
|---|---|---|
| `semaphore` | 3 workers, capacities 1-2, one panic | no lost wake-up, consistent waiters, token accounting, `Acquire` returns |
| `semaphore_convergence` | as above, no panic, steady load | violation: concurrency does not converge after scale-down |
| `depgraph` | 4 CRDs, up to 4 dependencies, unknown names | search and Kahn agree with the reference; least topological order; both end |
| `kordinator` | 2 CRDs, one needs the other healthy, one is ever away | double close only after an early tick, gates, pools, readiness; deferred CRDs start, a returning CRD is reactivated, shutdown ends |
| `forgotten_crd` | 2 CRDs, both may be away | violation: a missing CRD is forgotten |
| `ungated_start` | 2 CRDs | violation: phase 2 starts a CRD before its dependency has reconciled |
| `shutdown_order` | 2 CRDs | violation: a dependency drains before its dependent |
| `workerpool` | 1 key, 2 workers, 2 generations, 1 sentinel map | all properties of the pool and the refinement |
| `autoscaler` | 1 to 2 workers, cooldown of 1 tick, 2 generations, 3 changes | all properties of the autoscaler |
| `goroutine_count` | as above | violation: a second scale-up adds goroutines to the ones the first left |
| `deletion` | 2 replicas, 2 stages, 1 fault | no orphan, stages in order, deletion ends, failover |
| `foreign_finalizer` | 1 replica, no fault | violation: another controller's finalizer is overwritten |

Bounds. Three workers and capacity two are the fewest with a waiter while two
tokens are out. Four CRDs with four edges contain the diamond, cycles of length
one to four and disconnected parts; the theorems about the graph have no
such bound. Two CRDs are the fewest with a gate; that a CRD is both dependent and
dependency, and gates of both kinds in one katalog, are left to the theorems, which
cover every safety property of the run for every katalog. `MaxLost` bounds which CRDs are
ever away, not how often: a CRD comes and goes without limit. With `MaxLost =
1` the reactivation and readiness properties hold; with 2 the map replacement
at `post_start_hooks.go:81` breaks them, and the run `forgotten_crd` shows it.
One key, two generations of two workers and one sentinel map are the fewest in
which workers of an abandoned pool share the queue with the next and two items of
one key are in flight; keys do not interact but through their place in the queue.
Two generations of the autoscaler are the fewest in which a late restore meets a
new override. One fault, at any point, covers a crash, a rollout, a lost lease or
a failed call between any two steps of a deletion; two replicas are the fewest
with a failover. Deadlock is not checked: a katalog that was ordered or rejected, a pool whose
workers have all exited and a stopped kordinator are ends.

Fairness. Semaphore: a goroutine whose channel is ready, or that left the
select, runs, and a reconcile ends because its calls carry deadlines; nobody
has to resize, cancel or panic. `LoadedSpec` adds that an idle worker has work.
Graph: one sequential computation. Kordinator: weak fairness of `Kordinate` and
of the retry loop (tickers tick, drains and sleeps have timeouts), and strong
fairness of each `MissingFound`: an API server that is asked in every tick
answers at last. Nothing is assumed of workers, the checker or the cluster.
Worker pool: workers run, delays fall due, and a reconcile that can have a slot, or
whose context is cancelled, ends, since its calls carry the context; nothing is
assumed of the gate, of panics, or of a reconcile whose slots are all gone; no
fairness of a drain, an activation or a timeout. Autoscaler: the
ticker ticks; strong fairness of the stop, because a select that is taken again
and again with `ctx.Done()` ready picks it at last. Deletion: watches catch up,
workers take queued keys, children and the other controller finish, and the
steps of election, probe and restart happen. Faults are bounded, so that no
fairness is needed to say that calls succeed in the end.

## 4. Proofs

All theorems hold for every value of the constants under the named assumptions
of the modules; TLC evaluates the assumptions in every run.

- `SemaphoreProofs`: `NoLostWakeup`, `TokenAccounting`, `WaitersConsistent` and
  `TypeOK`. The inductive invariant is their conjunction: the hand-over keeps the counter only because the first waiter is not a holder
  yet, which needs the list to be free of repetitions and of granted workers.
- `GraphProofs`: `OrderTopological`, `ExitExact`, `OrderLeast`. The invariant adds
  that the in-degree of a CRD is the number of its dependencies not placed yet,
  and that the queue holds exactly the unplaced CRDs with none left, so a round
  that queues at zero queues rightly. An empty queue then means that each CRD left
  depends on another one left, which is a cycle (`StuckOnCycle`), and an order
  without repetitions has length N exactly when it holds every CRD (`FullOrder`,
  by the pigeonhole theorem). Because the queue is all that could be placed and
  its head the least, no other valid order has a lesser CRD where it first
  differs (`PlacedLeast`, `FirstDifference`).
- `ValidationProofs`: `ValidationExact`, `TypeOK`. The invariant of the search:
  the recursion is a path of the graph without repetitions (`Stack`), a call has
  left every dependency it is done with but the one it is in (`Explored`), what
  the search has left is closed under dependencies and has no cycle (`Closed`,
  `Acyclic`), and every CRD the outer loop called has been entered (`Called`). A
  rejection finds a cycle on the recursion (`StackCycle`); at the end everything
  has been left. With `ExitExact` it follows that a validated katalog never exits
  later (`ValidatedNeverExits`). `KordinatorAssumptionMet` shows that a completed
  order is what `KatalogAssumption` of `Kordinator` asks for, so the theorems
  about the kordinator rest on nothing the graph does not deliver.
- `KordinatorProofs`: `NoDoubleClose`, `StartedAfterNeeds`, `TypeOK`,
  `PoolHasInformer`, `MissingMeansStopped`, for every acyclic katalog and any
  number of CRDs that come and go. The invariant says that the closed channels
  are exactly the started and signaled CRDs (`GatesExact`), that without an early
  tick the startup loop is alone and has not started what is ahead of it
  (`StartupAlone`), and that only CRDs that have been away are in the missing map
  (`MissingWasLost`). The close in `activateCRD` is harmless because, in an
  acyclic katalog, nothing a CRD depends on depends on it (`NoHealthDependents`).
  For the pools the invariant adds that the deactivated flag never outlives the
  pool it was set for. `ReadyMeansActive` is proved for histories in which no more
  than one CRD was ever away (`OneLost`, with no bound on `MaxLost`) and no tick
  came early: then the missing map and the tick's own sets never lose a CRD whose
  entry is marked (`Tracked`), the startup count is full only if nothing was
  skipped (`NothingSkipped`), and readiness implies an empty map. With two the
  property is false, as `forgotten_crd` shows.
- `WorkerPoolProofs`: `TypeOK`, `SerialPerKey`, `NoLostEvent`, `CleanDrain`, and
  the refinement `KeepsPromise`. The invariant is client-go's own bookkeeping: a
  queued item is dirty, queued once and not in processing (`QueueSound`), a dirty
  item is queued or in processing (`DirtyPlaced`), what is in processing is held
  by exactly one worker (`HeldOnce`), what is owed is delayed or dirty
  (`OwedPlaced`), and the workers left of a former pool belong to one whose drain
  timed out (`GivenUp`). For the refinement each action is shown to be one of the
  promise's steps or a stutter: `Get` starts a request only because what is
  queued is not in processing and so nobody holds it; a cancelled worker can take
  only one request because it leaves the queue in the same step and the top of
  the loop does not let it back.
- `AutoscalerProofs`: `TypeOK`, `EnoughWorkers`, `DepthRestored`,
  `ResyncStopsSoon` and `CooldownKept`. A generation not started yet is as the
  constructor makes it (`Unborn`); the limit differs from the declared one only under an override
  (`DepthOwned`); an idle resync loop has at most one interval left that it read
  before (`OneFireLeft`); an autoscaler about to restore has seen the cooldown
  pass, and one about to stop is cancelled (`ClockHonest`, `Reason`).

- `DeletionProofs`: `TypeOK`, `NoOrphan`, `StagesInOrder`, for any number of
  replicas, stages and faults. They rest on a two-sided
  invariant around the first reconcile that reads the deletion: before it nothing
  is being deleted and the finalizer, once seen, stays (`BeforeDeletion`); after it
  nothing is created (`AfterDeletion`), so the stages a replica has passed stay
  gone (`StagesPassed`) and whoever takes the finalizer off has deleted the
  cluster-scoped resources (`Protected`). It needs that one reconcile runs at a
  time (`Alone`), which is what `raced` gives up.

Only model-checked: everything that must eventually happen (`AcquireReturns`,
`Terminates`, `DeferredStarts`, `Reactivated`, `ShutdownEnds`, `Delivered`,
`StoppedWorkersExit`, `OverrideEnds`, `DeletionCompletes`, `FailoverAutomatic`):
liveness under fairness is out of the prover's reach. Every invariant and the
refinement of the passing runs is proved.

## 5. Disagreements with the documentation

Shown by a run:

1. `autoscale_semaphore.go:98`: concurrency "converges to newCap as holders
   release"; `Release` hands over without looking at the capacity.
2. `dependency_kordinator.go:90`: a CRD "becomes operational again"; the missing
   map is replaced when another one disappears.
3. `docs/03-startup.md:23`: the healthy condition is not looked at when a
   missing CRD appears.
4. `dependencies.go:138`: "stopped only after all dependents have been drained";
   all contexts are cancelled together.
5. `generic_autoscale.go:66-68` and `dependency_kordinator.go:526-528`: "goroutine
   count stays equal to the effective concurrency limit"; a scale-down ends no
   goroutine and each scale-up adds the difference anew.
6. `reconciler/helper.go:59`: `ensureFinalizers` "never removes finalizers"; its
   patch replaces the server's list by one computed from the cache.

Seen while modelling, and part of the models as the code has it:

7. `dependencies.go:169,182`: `GetDependents` returns the dependencies and
   `GetDependencies` the dependents.
8. `worker.go:101`: "The queue is intact for reactivation"; a worker that waits
   in `Get` under a cancelled context drops the item it gets. `KeepsPromise`
   bounds the loss to one item per worker.
9. `queue.go:31`: the depth limit is "enforced atomically"; test and `Add` are two
   steps, and retries do not pass through the test.
10. `konductor/README.md:3`: "only one Orkestra runtime pod processes reconcile
    events at a time"; the lease is free before the old konductor's context is
    cancelled.
11. `generic.go:399`: "deleting CRs are never blocked"; the enqueue filters at
    `informer/helper.go:41,52` and the reconcile gate at `worker.go:148` do not
    look at the deletion timestamp.
12. `kordinator/docs/08-safe-reconcile.md:81`: after a panic "the only thing
    affected is the specific reconcile cycle for the panicking key"; its slot is
    not given back, and after as many panics as slots the CRD stands still.
13. `dependency_kordinator.go:322`: the retry loop runs beside the startup loop,
    whose close at `:359` has no guard; see `early` above.

## 6. Plan

Done: semaphore, graph, kordinator, worker pool with its abstract specification,
autoscaler, election and deletion.

Next:

1. `CRDHealth`: the flags, written without a lock by workers and retry loop, and
   the two copies of the katalog readiness.
2. The surface switch (`cleanupPreviousSurface`) as a second target in
   `Deletion`.

## 7. Not modelled

HTTP handlers, runners other than the cluster-scoped deletion (one API call per
resource kind), merging and parsing of katalogs, template resolution, gateway,
control center, CLI, registry and generated catalogs: they keep no state that
several steps or actors share, and they are most of the repository's lines, so
the models cover a small share of them. Metrics, logging and events carry no
decision. Of the modelled parts: the health flags other than `healthy`, cron
windows and metric arithmetic, the default queue, the filters and gates on
events, the surface sweep (its `List` errors are ignored, `surface_sweep.go:41`),
the order of komponents and hooks within a shutdown. The rollback of the
reconciler is commented out in the source.
