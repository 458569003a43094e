-------------------------- MODULE AutoscalerProofs --------------------------
(***************************************************************************)
(* For every baseline, override and cooldown, any number of activations    *)
(* and any load: what the autoscaler does to the pool, to the queue limit  *)
(* and to the resync loop.  The invariant relates each program counter to  *)
(* what its goroutine has done so far: an autoscaler about to restore has  *)
(* seen the cooldown pass, and one about to stop is cancelled.             *)
(***************************************************************************)
EXTENDS Autoscaler, TLAPS

\* A generation that has not started is as the constructor will make it.
Unborn == \A g \in Gen : g > gen =>
    /\ apc[g] = "none"
    /\ capacity[g] = BaseWorkers
    /\ spawning[g] = 0
    /\ workers[g] = 0

\* The goroutines of a pool that was started, whether it was cancelled or not.
Covered == \A g \in 1..gen : workers[g] + spawning[g] >= capacity[g]

\* The limit differs from the declared one only under an override.
DepthOwned == maxDepth # BaseDepth => \E g \in Gen : overrideActive[g]

\* An idle resync loop fires only from an interval it read before.
OneFireLeft == \A g \in Gen :
    /\ extra[g] <= 1
    /\ resyncing[g] => extra[g] = 0
    /\ rpc[g] = "wait" => extra[g] = 0

\* The clock never runs ahead of the ticks it counts.
ClockHonest == \A g \in Gen : falseFor[g] < falseRun[g]

\* Why the baseline is being restored.
Reason == \A g \in Gen :
    /\ apc[g] = "restore" => falseRun[g] > Cooldown
    /\ apc[g] = "restoreLast" => g \in cancelled

IInv ==
    /\ TypeOK
    /\ Unborn
    /\ Covered
    /\ DepthOwned
    /\ OneFireLeft
    /\ ClockHonest
    /\ Reason

\* The part of the invariant that resizing may disturb.
Pools == Unborn /\ Covered

\* The part that it leaves alone.
Rest == DepthOwned /\ OneFireLeft /\ ClockHonest /\ Reason

-----------------------------------------------------------------------------
\* ResizeWorkers to the override or to the baseline keeps the books.
LEMMA ResizeStep ==
    ASSUME IInv, NEW g \in 1..gen, NEW n \in {BaseWorkers, OverWorkers}, ResizeWorkers(g, n),
           UNCHANGED gen, \A h \in Gen : h > gen => apc'[h] = apc[h]
    PROVE  /\ Pools'
           /\ capacity' \in [Gen -> Nat \ {0}]
           /\ spawning' \in [Gen -> Nat]
           /\ workers' \in [Gen -> Nat]
<1> USE DEF IInv
<1>1. g \in Gen /\ gen \in Nat /\ n \in Nat
  <2>1. MaxGen \in Nat /\ n \in Nat
      BY AutoscaleAssumption
  <2>2. gen \in 1..MaxGen
      BY DEF TypeOK, Gen
  <2>3. QED
      BY <2>1, <2>2 DEF Gen
<1>2. capacity[g] \in Nat \ {0} /\ spawning[g] \in Nat /\ workers[g] \in Nat
    BY <1>1 DEF TypeOK
<1>3. AtLeastOne(n) \in Nat \ {0}
    BY AutoscaleAssumption DEF AtLeastOne
<1>4. /\ capacity' \in [Gen -> Nat \ {0}]
      /\ spawning' \in [Gen -> Nat]
      /\ workers' \in [Gen -> Nat]
    BY <1>1, <1>2, <1>3 DEF ResizeWorkers, TypeOK
<1>5. Unborn'
    BY <1>1 DEF ResizeWorkers, Unborn, TypeOK
<1>6. Covered'
  <2>1. workers'[g] + spawning'[g] >= capacity'[g]
      BY <1>1, <1>2 DEF ResizeWorkers, TypeOK, Covered, AtLeastOne
  <2>2. ASSUME NEW h \in 1..gen, h # g
        PROVE  workers'[h] = workers[h] /\ spawning'[h] = spawning[h] /\ capacity'[h] = capacity[h]
      BY <2>2, <1>1 DEF ResizeWorkers, TypeOK, Gen
  <2>3. QED
      BY <2>1, <2>2 DEF Covered
<1>7. QED
    BY <1>4, <1>5, <1>6 DEF Pools

\* A step that resizes nothing and starts no generation keeps the books.
LEMMA PoolsKept ==
    ASSUME IInv, UNCHANGED <<gen, goroutines>>, \A h \in Gen : h > gen => apc'[h] = apc[h]
    PROVE  Pools'
    BY DEF IInv, Pools, Unborn, Covered, goroutines

\* An autoscaler or a resync loop that is at work belongs to a generation that
\* was started.
LEMMA Born ==
    ASSUME IInv, NEW g \in Gen, apc[g] # "none" \/ spawning[g] > 0
    PROVE  g \in 1..gen
<1>1. MaxGen \in Nat
    BY AutoscaleAssumption
<1>2. gen \in 1..MaxGen /\ g \in 1..MaxGen
    BY DEF IInv, TypeOK, Gen
<1>3. ~(g > gen)
    BY DEF IInv, Unborn
<1>4. QED
    BY <1>1, <1>2, <1>3

\* The parts make the invariant.
LEMMA Assemble == TypeOK' /\ Pools' /\ Rest' => IInv'
    BY DEF IInv, Pools, Rest

\* The constructor establishes the invariant.
LEMMA InitIInv == Init => IInv
<1> SUFFICES ASSUME Init PROVE IInv
    OBVIOUS
<1> USE AutoscaleAssumption
<1>1. MaxGen \in Nat \ {0} /\ 1 \in Gen /\ Zero = -1
    BY DEF Gen, Zero
<1>2. falseFor \in [Gen -> Zero..(Cooldown - 1)]
    BY <1>1 DEF Init
<1>3. TypeOK
    BY <1>1, <1>2 DEF Init, TypeOK
<1>4. Unborn /\ Covered
    BY <1>1 DEF Init, Unborn, Covered, Gen
<1>5. DepthOwned /\ OneFireLeft /\ ClockHonest /\ Reason
    BY <1>1 DEF Init, DepthOwned, OneFireLeft, ClockHonest, Reason
<1>6. QED
    BY <1>3, <1>4, <1>5 DEF IInv

\* A tick with the conditions true.
LEMMA TickMetStep ==
    ASSUME IInv, NEW g \in Gen, TickMet(g)
    PROVE  IInv'
<1> USE DEF IInv
<1>1. g \in 1..gen
    BY Born DEF TickMet
<1>2. CASE overrideActive[g]
  <2>1. TypeOK'
      BY <1>2, AutoscaleAssumption DEF TickMet, TypeOK, environment, contexts, resync, goroutines, Zero
  <2>2. Pools'
      BY <1>2, PoolsKept DEF TickMet, contexts
  <2>3. Rest'
      BY <1>2 DEF TickMet, TypeOK, Rest, DepthOwned, OneFireLeft, ClockHonest, Reason, contexts,
                  resync, Zero
  <2>4. QED
      BY <2>1, <2>2, <2>3, Assemble
<1>3. CASE ~overrideActive[g]
  <2> USE <1>3
  <2>0. /\ ResizeWorkers(g, OverWorkers)
        /\ apc' = [apc EXCEPT ![g] = "apply"]
        /\ UNCHANGED <<met, changes, gen, cancelled, overrideActive, maxDepth, resyncing, rpc, extra>>
        /\ falseRun' = [falseRun EXCEPT ![g] = 0] /\ falseFor' = [falseFor EXCEPT ![g] = Zero]
      BY DEF TickMet, environment, contexts, resync
  <2>1. ResizeWorkers(g, OverWorkers) /\ UNCHANGED gen /\ \A h \in Gen : h > gen => apc'[h] = apc[h]
      BY <1>1, <2>0 DEF TypeOK, Gen
  <2>2. /\ Pools'
        /\ capacity' \in [Gen -> Nat \ {0}]
        /\ spawning' \in [Gen -> Nat]
        /\ workers' \in [Gen -> Nat]
      BY <1>1, <2>1, ResizeStep
  <2>3. TypeOK'
    <3>1. falseFor' \in [Gen -> Zero..(Cooldown - 1)] /\ falseRun' \in [Gen -> Nat]
        BY <2>0, AutoscaleAssumption DEF TypeOK, Zero
    <3>2. apc' \in [Gen -> {"none", "select", "apply", "restore", "restoreLast", "stopped"}]
        BY <2>0 DEF TypeOK
    <3>3. QED
        BY <2>0, <2>2, <3>1, <3>2 DEF TypeOK
  <2>4. Rest'
      BY <1>3 DEF TickMet, TypeOK, Rest, DepthOwned, OneFireLeft, ClockHonest, Reason, contexts,
                  resync, Zero
  <2>5. QED
      BY <2>2, <2>3, <2>4, Assemble
<1>4. QED
    BY <1>2, <1>3

\* A tick that lets the cooldown clock run.
LEMMA TickCoolingStep ==
    ASSUME IInv, NEW g \in Gen, TickCooling(g)
    PROVE  IInv'
<1> USE DEF IInv
<1>1. Clock(g) \in 0..(Cooldown - 1) /\ Clock(g) <= falseRun[g]
    BY AutoscaleAssumption DEF TickCooling, CooledDown, Clock, TypeOK, Zero, ClockHonest
<1>2. TypeOK'
    BY <1>1, AutoscaleAssumption DEF TickCooling, TypeOK, environment, contexts, resync, goroutines, Zero
<1>3. Pools'
    BY PoolsKept DEF TickCooling, contexts
<1>4. ClockHonest'
    BY <1>1, AutoscaleAssumption DEF TickCooling, TypeOK, ClockHonest
<1>5. DepthOwned' /\ OneFireLeft' /\ Reason'
    BY DEF TickCooling, TypeOK, DepthOwned, OneFireLeft, Reason, contexts, resync
<1>6. QED
    BY <1>2, <1>3, <1>4, <1>5, Assemble DEF Rest

\* A tick that ends the override.
LEMMA TickRestoreStep ==
    ASSUME IInv, NEW g \in Gen, TickRestore(g)
    PROVE  IInv'
<1> USE DEF IInv
<1>1. g \in 1..gen
    BY Born DEF TickRestore
<1>2. ResizeWorkers(g, BaseWorkers) /\ UNCHANGED gen /\ \A h \in Gen : h > gen => apc'[h] = apc[h]
    BY <1>1 DEF TickRestore, contexts, TypeOK, Gen
<1>3. /\ Pools'
      /\ capacity' \in [Gen -> Nat \ {0}]
      /\ spawning' \in [Gen -> Nat]
      /\ workers' \in [Gen -> Nat]
    BY <1>1, <1>2, ResizeStep
<1>4. TypeOK'
  <2>1. falseFor' \in [Gen -> Zero..(Cooldown - 1)] /\ falseRun' \in [Gen -> Nat]
      BY AutoscaleAssumption DEF TickRestore, TypeOK, Zero
  <2>2. apc' \in [Gen -> {"none", "select", "apply", "restore", "restoreLast", "stopped"}]
      BY DEF TickRestore, TypeOK
  <2>3. QED
      BY <1>3, <2>1, <2>2 DEF TickRestore, TypeOK, environment, contexts, resync
<1>5. falseRun[g] + 1 > Cooldown
    BY AutoscaleAssumption DEF TickRestore, CooledDown, Clock, TypeOK, Zero, ClockHonest
<1>6. ClockHonest' /\ Reason'
    BY <1>5, AutoscaleAssumption DEF TickRestore, TypeOK, ClockHonest, Reason, contexts, Zero
<1>7. DepthOwned' /\ OneFireLeft'
    BY DEF TickRestore, DepthOwned, OneFireLeft, resync
<1>8. QED
    BY <1>3, <1>4, <1>6, <1>7, Assemble DEF Rest

\* A cancelled autoscaler that has something to restore.
LEMMA StopRestoringStep ==
    ASSUME IInv, NEW g \in Gen, StopRestoring(g)
    PROVE  IInv'
<1> USE DEF IInv
<1>1. g \in 1..gen
    BY Born DEF StopRestoring
<1>2. ResizeWorkers(g, BaseWorkers) /\ UNCHANGED gen /\ \A h \in Gen : h > gen => apc'[h] = apc[h]
    BY <1>1 DEF StopRestoring, contexts, TypeOK, Gen
<1>3. /\ Pools'
      /\ capacity' \in [Gen -> Nat \ {0}]
      /\ spawning' \in [Gen -> Nat]
      /\ workers' \in [Gen -> Nat]
    BY <1>1, <1>2, ResizeStep
<1>4. TypeOK'
    BY <1>3 DEF StopRestoring, TypeOK, environment, contexts, resync
<1>5. Rest'
    BY DEF StopRestoring, TypeOK, Rest, DepthOwned, OneFireLeft, ClockHonest, Reason, contexts, resync
<1>6. QED
    BY <1>3, <1>4, <1>5, Assemble

\* The second halves of applyOverride and restoreBaseline.
LEMMA HalfStep ==
    ASSUME IInv, NEW g \in Gen, Half(g)
    PROVE  IInv'
<1> USE DEF IInv
<1>1. g \in 1..gen
    BY Born DEF Half, ApplyOverride, RestoreBaseline
<1>2. TypeOK'
  <2>1. apc' \in [Gen -> {"none", "select", "apply", "restore", "restoreLast", "stopped"}]
      BY DEF Half, ApplyOverride, RestoreBaseline, TypeOK
  <2>2. overrideActive' \in [Gen -> BOOLEAN] /\ resyncing' \in [Gen -> BOOLEAN]
      BY DEF Half, ApplyOverride, RestoreBaseline, SetResyncInterval, TypeOK
  <2>3. extra' \in [Gen -> Nat] /\ maxDepth' \in {BaseDepth, OverDepth}
      BY DEF Half, ApplyOverride, RestoreBaseline, SetResyncInterval, TypeOK
  <2>4. UNCHANGED <<met, changes, gen, cancelled, falseFor, capacity, spawning, workers, rpc, falseRun>>
      BY DEF Half, ApplyOverride, RestoreBaseline, SetResyncInterval, environment, contexts, goroutines
  <2>5. QED
      BY <2>1, <2>2, <2>3, <2>4 DEF TypeOK
<1>3. Pools'
  <2>1. UNCHANGED <<gen, goroutines>>
      BY DEF Half, ApplyOverride, RestoreBaseline, contexts
  <2>2. \A h \in Gen : h # g => apc'[h] = apc[h]
      BY DEF Half, ApplyOverride, RestoreBaseline, TypeOK
  <2>3. \A h \in Gen : h > gen => h # g
      BY <1>1 DEF TypeOK, Gen
  <2>4. QED
      BY <2>1, <2>2, <2>3, PoolsKept
<1>4. DepthOwned'
    BY DEF Half, ApplyOverride, RestoreBaseline, DepthOwned, TypeOK
<1>5. OneFireLeft'
    BY DEF Half, ApplyOverride, RestoreBaseline, SetResyncInterval, OneFireLeft, TypeOK
<1>6. ClockHonest' /\ Reason'
    BY DEF Half, ApplyOverride, RestoreBaseline, ClockHonest, Reason, TypeOK, contexts
<1>7. QED
    BY <1>2, <1>3, <1>4, <1>5, <1>6, Assemble DEF Rest

\* A cancelled autoscaler with nothing to restore, and the resync loop.
LEMMA LoopStep ==
    ASSUME IInv, NEW g \in Gen, StopPlain(g) \/ Resync(g)
    PROVE  IInv'
<1> USE DEF IInv
<1>1. TypeOK'
  <2>1. /\ UNCHANGED <<met, changes, gen, cancelled, overrideActive, falseFor, capacity, spawning, workers>>
        /\ UNCHANGED <<maxDepth, resyncing, falseRun>>
      BY DEF StopPlain, Resync, ResyncLoad, ResyncFire, ResyncStops, environment, contexts, autoscaler,
             goroutines, resync, history
  <2>2. apc' \in [Gen -> {"none", "select", "apply", "restore", "restoreLast", "stopped"}]
      BY DEF StopPlain, Resync, ResyncLoad, ResyncFire, ResyncStops, autoscaler, TypeOK
  <2>3. rpc' \in [Gen -> {"none", "load", "wait", "stopped"}] /\ extra' \in [Gen -> Nat]
      BY DEF StopPlain, Resync, ResyncLoad, ResyncFire, ResyncStops, resync, history, TypeOK
  <2>4. QED
      BY <2>1, <2>2, <2>3 DEF TypeOK
<1>2. Pools'
  <2>1. UNCHANGED <<gen, goroutines>>
      BY DEF StopPlain, Resync, ResyncLoad, ResyncFire, ResyncStops, contexts, history
  <2>2. \A h \in Gen : h > gen => apc'[h] = apc[h]
      BY Born DEF StopPlain, Resync, ResyncLoad, ResyncFire, ResyncStops, autoscaler, TypeOK, Unborn
  <2>3. QED
      BY <2>1, <2>2, PoolsKept
<1>3. OneFireLeft'
    BY DEF StopPlain, Resync, ResyncLoad, ResyncFire, ResyncStops, OneFireLeft, TypeOK, resync, history
<1>4. DepthOwned' /\ ClockHonest' /\ Reason'
    BY DEF StopPlain, Resync, ResyncLoad, ResyncFire, ResyncStops, DepthOwned, ClockHonest, Reason,
           TypeOK, contexts, autoscaler, history
<1>5. QED
    BY <1>1, <1>2, <1>3, <1>4, Assemble DEF Rest

\* A goroutine of a scale-up starts to work.
LEMMA SpawnWorkerStep ==
    ASSUME IInv, NEW g \in Gen, SpawnWorker(g)
    PROVE  IInv'
<1> USE DEF IInv
<1>1. g \in 1..gen
    BY Born DEF SpawnWorker
<1>2. spawning[g] \in Nat /\ workers[g] \in Nat /\ spawning[g] > 0
    BY DEF SpawnWorker, TypeOK
<1>3. TypeOK'
    BY <1>2 DEF SpawnWorker, TypeOK, environment, contexts, autoscaler, resync, history
<1>4. \A h \in Gen : workers'[h] + spawning'[h] = workers[h] + spawning[h]
    BY <1>2 DEF SpawnWorker, TypeOK
<1>5. \A h \in 1..gen : h \in Gen
  <2>1. MaxGen \in Nat /\ gen \in 1..MaxGen
      BY AutoscaleAssumption DEF TypeOK, Gen
  <2>2. QED
      BY <2>1 DEF Gen
<1>6. Covered'
    BY <1>4, <1>5 DEF SpawnWorker, Covered, contexts, history
<1>7. Unborn'
    BY <1>1 DEF SpawnWorker, Unborn, TypeOK, contexts, autoscaler, history
<1>8. Rest'
    BY DEF SpawnWorker, Rest, DepthOwned, OneFireLeft, ClockHonest, Reason, contexts, autoscaler,
           resync, history
<1>9. QED
    BY <1>3, <1>6, <1>7, <1>8, Assemble DEF Pools

\* The context is cancelled, or the load changes.
LEMMA OutsideStep ==
    ASSUME IInv, Cancel \/ ConditionsChange
    PROVE  IInv'
<1> USE DEF IInv
<1>1. gen \in 1..gen
  <2>1. MaxGen \in Nat /\ gen \in 1..MaxGen
      BY AutoscaleAssumption DEF TypeOK, Gen
  <2>2. QED
      BY <2>1
<1>2. TypeOK'
  <2>1. CASE Cancel
    <3>1. cancelled' \subseteq 1..gen'
        BY <1>1, <2>1 DEF Cancel, TypeOK
    <3>2. QED
        BY <2>1, <3>1 DEF Cancel, TypeOK, environment, autoscaler, goroutines, resync, history
  <2>2. CASE ConditionsChange
    <3>1. changes' \in 0..MaxChanges /\ met' \in BOOLEAN
        BY <2>2, AutoscaleAssumption DEF ConditionsChange, TypeOK
    <3>2. QED
        BY <2>2, <3>1 DEF ConditionsChange, TypeOK, contexts, autoscaler, goroutines, resync, history
  <2>3. QED
      BY <2>1, <2>2
<1>3. Pools'
    BY PoolsKept DEF Cancel, ConditionsChange, contexts, autoscaler, history
<1>4. Rest'
    BY DEF Cancel, ConditionsChange, Rest, DepthOwned, OneFireLeft, ClockHonest, Reason, contexts,
           autoscaler, resync, history
<1>5. QED
    BY <1>2, <1>3, <1>4, Assemble

\* A new generation over the queue as it is.
LEMMA StartStep ==
    ASSUME IInv, StartCRDWorkers
    PROVE  IInv'
<1> USE DEF IInv
<1>1. MaxGen \in Nat /\ gen \in 1..MaxGen /\ gen < MaxGen /\ gen' = gen + 1 /\ BaseWorkers \in Nat \ {0}
    BY AutoscaleAssumption DEF TypeOK, Gen, StartCRDWorkers
<1>2. gen' \in Gen /\ gen' > gen /\ 1..gen \subseteq 1..gen' /\ 1..gen \subseteq Gen
    BY <1>1 DEF Gen
<1>3. TypeOK'
    BY <1>1, <1>2 DEF StartCRDWorkers, TypeOK, environment, history
<1>4. /\ capacity'[gen'] = BaseWorkers /\ spawning'[gen'] = 0
      /\ workers'[gen'] = BaseWorkers
    BY <1>1, <1>2 DEF StartCRDWorkers, TypeOK, Unborn, history
<1>5. \A h \in 1..gen' : h # gen' =>
        /\ h \in 1..gen
        /\ workers'[h] = workers[h] /\ spawning'[h] = spawning[h]
        /\ capacity'[h] = capacity[h]
    BY <1>1, <1>2 DEF StartCRDWorkers, TypeOK, history
<1>6. Covered'
    BY <1>1, <1>4, <1>5 DEF Covered
<1>7. Unborn'
    BY <1>1, <1>2 DEF StartCRDWorkers, TypeOK, Unborn, history
<1>8. Rest'
    BY <1>1, <1>2 DEF StartCRDWorkers, TypeOK, Rest, DepthOwned, OneFireLeft, ClockHonest, Reason,
       Unborn, history
<1>9. QED
    BY <1>3, <1>6, <1>7, <1>8, Assemble DEF Pools

\* Every step keeps the invariant.
LEMMA NextIInv == IInv /\ [Next]_vars => IInv'
<1> SUFFICES ASSUME IInv, [Next]_vars PROVE IInv'
    OBVIOUS
<1>1. CASE UNCHANGED vars
    BY <1>1 DEF vars, environment, contexts, autoscaler, goroutines, resync, history, IInv, TypeOK,
       Unborn, Covered, DepthOwned, OneFireLeft, ClockHonest, Reason
<1>2. ASSUME NEW g \in Gen, Tick(g) \/ Half(g) \/ Stop(g) \/ Resync(g) \/ SpawnWorker(g)
      PROVE  IInv'
    BY <1>2, TickMetStep, TickCoolingStep, TickRestoreStep, HalfStep, StopRestoringStep, LoopStep,
       SpawnWorkerStep DEF Tick, Stop
<1>3. CASE StartCRDWorkers
    BY <1>3, StartStep
<1>4. CASE Cancel \/ ConditionsChange
    BY <1>4, OutsideStep
<1>5. QED
    BY <1>1, <1>2, <1>3, <1>4 DEF Next

\* The inductive invariant holds for every katalog, load and sequence of
\* activations.
THEOREM AutoscalerInvariant == Spec => []IInv
    BY InitIInv, NextIInv, PTL DEF Spec

\* The clock stays below the cooldown, the capacity at one or more, and the
\* other variables in their types (evaluate, Resize).
THEOREM AutoscalerTypeCorrect == Spec => []TypeOK
<1>1. IInv => TypeOK
    BY DEF IInv
<1>2. QED
    BY <1>1, AutoscalerInvariant, PTL

\* However often a pool is resized, it has a goroutine for every slot of its
\* semaphore, so that the semaphore alone limits it (ResizeWorkers).
THEOREM EnoughWorkersHolds == Spec => []EnoughWorkers
<1>1. IInv => EnoughWorkers
    BY DEF IInv, Covered, EnoughWorkers
<1>2. QED
    BY <1>1, AutoscalerInvariant, PTL

\* Whichever generation writes the shared limit last, it is the declared one
\* once no override is left (restoreBaseline).
THEOREM DepthRestoredHolds == Spec => []DepthRestored
<1>1. IInv => DepthRestored
    BY DEF IInv, DepthOwned, DepthRestored
<1>2. QED
    BY <1>1, AutoscalerInvariant, PTL

\* The resync loop fires at most once after the baseline is restored.
THEOREM ResyncStopsSoonHolds == Spec => []ResyncStopsSoon
<1>1. IInv => ResyncStopsSoon
    BY DEF IInv, OneFireLeft, ResyncStopsSoon
<1>2. QED
    BY <1>1, AutoscalerInvariant, PTL

\* Only a restore ends an override, and a restore has its reason.
LEMMA EndsWithReason ==
    ASSUME IInv, [Next]_vars, NEW g \in Gen, overrideActive[g], ~overrideActive'[g]
    PROVE  g \in cancelled \/ falseRun[g] > Cooldown
<1>1. \E h \in Gen : Half(h)
  <2>1. ASSUME overrideActive' = overrideActive PROVE FALSE
      BY <2>1
  <2>2. CASE UNCHANGED vars
      BY <2>1, <2>2 DEF vars, autoscaler
  <2>3. ASSUME NEW h \in Gen, Tick(h) \/ Stop(h) \/ Resync(h) \/ SpawnWorker(h) PROVE FALSE
      BY <2>1, <2>3 DEF Tick, TickMet, TickCooling, TickRestore, Stop, StopRestoring, StopPlain, Resync,
         ResyncLoad, ResyncFire, ResyncStops, SpawnWorker, autoscaler
  <2>4. CASE Cancel \/ StartCRDWorkers \/ ConditionsChange
      BY <2>1, <2>4 DEF Cancel, StartCRDWorkers, ConditionsChange, autoscaler
  <2>5. QED
      BY <2>2, <2>3, <2>4 DEF Next
<1>2. PICK h \in Gen : Half(h)
    BY <1>1
<1>3. h = g /\ apc[g] \in {"restore", "restoreLast"}
    BY <1>2 DEF Half, ApplyOverride, RestoreBaseline, IInv, TypeOK
<1>4. QED
    BY <1>3 DEF IInv, Reason

\* An override ends only after the cooldown or by cancellation (evaluate, Run).
THEOREM CooldownKeptHolds == Spec => CooldownKept
<1>1. IInv /\ [Next]_vars =>
        [\A g \in Gen :
            overrideActive[g] /\ ~overrideActive'[g] => g \in cancelled \/ falseRun[g] > Cooldown]_vars
    BY EndsWithReason
<1>2. QED
    BY <1>1, AutoscalerInvariant, PTL DEF Spec, CooldownKept
=============================================================================
