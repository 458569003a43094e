-------------------------- MODULE KordinatorProofs --------------------------
(***************************************************************************)
(* For every katalog with an acyclic dependsOn: a channel is closed twice  *)
(* only after a tick that came before the end of the startup loop, and a   *)
(* CRD that was never away starts only after what it needs.                *)
(*                                                                         *)
(* Neither is inductive alone.  The unguarded close of startedCh is safe   *)
(* as long as the startup loop is the only one to start CRDs, for it has   *)
(* not reached the ones ahead of it; the unguarded close of healthyCh      *)
(* because nobody but the checker closes one, activateCRD's own close      *)
(* being unreachable in an acyclic katalog; the gating because a CRD is in *)
(* the missing map only when it has been away.                             *)
(***************************************************************************)
EXTENDS Kordinator, TLAPS

\* The closed channels are the ones the flags say, and stand for what happened.
GatesExact ==
    /\ startedCh = started
    /\ healthyCh = signaled
    /\ signaled \subseteq reconciled
    /\ healthy \subseteq reconciled

\* While the startup loop runs it is alone, and has yet to start what is ahead,
\* unless a tick came early.
StartupAlone ==
    mpc = "starting" =>
        /\ mi >= 1
        /\ online < mi
        /\ \/ early
           \/ /\ rpc \in {"idle", "exited"}
              /\ \A i \in mi..Len(Order) : Order[i] \notin started

\* Only a CRD that has been away is ever treated as missing.
MissingWasLost ==
    /\ CRD \ present \subseteq lost
    /\ missing \subseteq lost
    /\ runtimeMissing \subseteq lost
    /\ stillMissing \subseteq lost
    /\ rpc = "missing" => todo \subseteq lost

KordInv ==
    /\ TypeOK
    /\ GatesExact
    /\ StartupAlone
    /\ MissingWasLost
    /\ NoDoubleClose
    /\ StartedAfterNeeds

\* Facts about the startup order.
LEMMA OrderLength == Len(Order) \in Nat /\ \A i \in 1..Len(Order) : Order[i] \in CRD
    BY KatalogAssumption

\* What c depends on does not depend on c: activateCRD's loop over
\* GetDependents finds nobody that needs c healthy.
LEMMA NoHealthDependents == \A c \in CRD : HealthDependents(c) = {}
<1> SUFFICES ASSUME NEW c \in CRD, NEW d \in Needs(c), c \in NeedsHealthy[d]
             PROVE  FALSE
    BY KatalogAssumption DEF HealthDependents, GetDependents, Needs
<1>1. d \in CRD /\ c \in Needs(d)
    BY KatalogAssumption DEF Needs
<1>2. PICK i \in 1..Len(Order) : Order[i] = c
    BY KatalogAssumption
<1>3. \A m \in 1..Len(Order) : \A e \in Needs(Order[m]) : \E n \in 1..(m - 1) : Order[n] = e
    BY KatalogAssumption
<1>4. PICK j \in 1..(i - 1) : Order[j] = d
    <2>1. d \in Needs(Order[i])
        BY <1>2
    <2>2. QED
        BY <1>3, <2>1
<1>5. j \in 1..Len(Order)
    BY OrderLength
<1>6. PICK k \in 1..(j - 1) : Order[k] = c
    <2>1. c \in Needs(Order[j])
        BY <1>1, <1>4
    <2>2. QED
        BY <1>3, <1>5, <2>1
<1>7. k \in 1..Len(Order) /\ k # i
    BY OrderLength
<1>8. QED
    BY <1>2, <1>6, <1>7, KatalogAssumption

\* The invariant holds in the states the process starts in.
LEMMA InitKordInv == Init => KordInv
<1> SUFFICES ASSUME Init PROVE KordInv
    OBVIOUS
<1> USE DEF Init
<1>1. pool \in [CRD -> {"none", "running", "cancelled", "drained"}]
    OBVIOUS
<1>2. mi \in 0..(Len(Order) + 1) /\ ri \in 1..(Len(Order) + 1) /\ online \in 0..Len(Order)
    BY OrderLength
<1>3. TypeOK
    BY <1>1, <1>2 DEF TypeOK
<1>4. GatesExact /\ MissingWasLost /\ NoDoubleClose /\ StartedAfterNeeds
    BY DEF GatesExact, MissingWasLost, NoDoubleClose, StartedAfterNeeds
<1>5. StartupAlone
    BY DEF StartupAlone
<1>6. QED
    BY <1>3, <1>4, <1>5 DEF KordInv

\* The startup loop closes a startedCh that nobody but an early tick has closed,
\* and its gate has seen what the CRD needs.
LEMMA StartupStartStep ==
    ASSUME KordInv, StartupStart
    PROVE  KordInv'
<1> USE DEF KordInv, StartupStart, cluster, factory, gates, pools, health, mainVars, retryVars
<1> DEFINE c == Order[mi]
<1>1. mi \in 1..Len(Order) /\ c \in CRD /\ online < Len(Order)
    BY OrderLength DEF StartupAlone, TypeOK
<1>2. early \/ c \notin started
    BY <1>1 DEF StartupAlone, TypeOK
<1>3. /\ StartCRDWorkers(c)
      /\ startedCh' = startedCh \cup {c}
      /\ crashed' = (crashed \/ c \in startedCh)
    OBVIOUS
<1>4. NeedsStarted[c] \subseteq started /\ NeedsHealthy[c] \subseteq reconciled
    BY DEF Ready, GatesExact
<1> HIDE DEF c
<1>5. TypeOK'
    BY <1>1, <1>3, OrderLength DEF TypeOK, StartCRDWorkers
<1>6. GatesExact' /\ NoDoubleClose'
    BY <1>2, <1>3 DEF GatesExact, NoDoubleClose, StartCRDWorkers
<1>7. StartupAlone'
    <2>1. \A i \in (mi + 1)..Len(Order) : Order[i] # c
        BY <1>1, OrderLength, KatalogAssumption DEF c
    <2>2. QED
        BY <1>1, <1>3, <2>1, OrderLength DEF StartupAlone, StartCRDWorkers, TypeOK
<1>8. MissingWasLost'
    BY DEF MissingWasLost
<1>9. StartedAfterNeeds'
    BY <1>3, <1>4 DEF StartedAfterNeeds, StartCRDWorkers
<1>10. QED
    BY <1>5, <1>6, <1>7, <1>8, <1>9

\* What activateCRD changes, for both of its callers.
LEMMA ActivateFrame ==
    ASSUME NEW c \in CRD, KordInv, ActivateCRD(c)
    PROVE  /\ healthyCh' = healthyCh
           /\ startedCh' = startedCh \cup {c}
           /\ started' = started \cup {c}
           /\ pool' \in [CRD -> {"none", "running", "cancelled", "drained"}]
           /\ entryMissing' = entryMissing \ {c}
           /\ neverStarted' = neverStarted \ {c}
           /\ deactivated' = deactivated \ {c}
           /\ missing' = missing \ {c}
           /\ UNCHANGED <<signaled, crashed>>
    BY NoHealthDependents DEF KordInv, TypeOK, ActivateCRD, StartCRDWorkers

\* Phase 2 starts a CRD ungated; it has been away.
LEMMA MissingFoundStep ==
    ASSUME NEW c \in CRD, KordInv, MissingFound(c)
    PROVE  KordInv'
<1> USE DEF KordInv, cluster, health, mainVars
<1>1. ActivateCRD(c)
    BY DEF MissingFound
<1>2. TypeOK'
    BY <1>1, ActivateFrame DEF TypeOK, MissingFound
<1>3. GatesExact' /\ NoDoubleClose'
    BY <1>1, ActivateFrame DEF GatesExact, NoDoubleClose, MissingFound
<1>4. StartupAlone'
    BY DEF StartupAlone, MissingFound
<1>5. MissingWasLost'
    BY <1>1, ActivateFrame DEF MissingWasLost, MissingFound
<1>6. StartedAfterNeeds'
    BY <1>1, ActivateFrame DEF StartedAfterNeeds, MissingWasLost, MissingFound
<1>7. QED
    BY <1>2, <1>3, <1>4, <1>5, <1>6

\* Phase 3 starts a CRD behind the same gate as the startup loop.
LEMMA DeferredActivateStep ==
    ASSUME KordInv, DeferredActivate
    PROVE  KordInv'
<1> USE DEF KordInv, cluster, health, mainVars
<1> DEFINE c == Order[ri]
<1>1. ri \in 1..Len(Order) /\ c \in CRD
    BY OrderLength DEF TypeOK, DeferredActivate
<1>2. ActivateCRD(c)
    BY DEF DeferredActivate
<1>3. NeedsStarted[c] \subseteq started /\ NeedsHealthy[c] \subseteq reconciled
    BY DEF Ready, GatesExact, DeferredActivate
<1> HIDE DEF c
<1>4. TypeOK'
    BY <1>1, <1>2, ActivateFrame, OrderLength DEF TypeOK, DeferredActivate
<1>5. GatesExact' /\ NoDoubleClose'
    BY <1>1, <1>2, ActivateFrame DEF GatesExact, NoDoubleClose, DeferredActivate
<1>6. StartupAlone'
    BY DEF StartupAlone, DeferredActivate
<1>7. MissingWasLost'
    BY <1>1, <1>2, ActivateFrame DEF MissingWasLost, DeferredActivate
<1>8. StartedAfterNeeds'
    BY <1>1, <1>2, <1>3, ActivateFrame DEF StartedAfterNeeds, DeferredActivate
<1>9. QED
    BY <1>4, <1>5, <1>6, <1>7, <1>8

\* The checker closes the healthyCh of a CRD that has reconciled, once.
LEMMA CheckDependencyStep ==
    ASSUME NEW c \in CRD, KordInv, CheckDependency(c)
    PROVE  KordInv'
<1> USE DEF KordInv, CheckDependency, cluster, factory, gates, pools, health, mainVars, retryVars
<1>1. TypeOK'
    BY DEF TypeOK
<1>2. GatesExact' /\ NoDoubleClose'
    BY DEF GatesExact, NoDoubleClose
<1>3. StartupAlone'
    BY DEF StartupAlone
<1>4. MissingWasLost' /\ StartedAfterNeeds'
    BY DEF MissingWasLost, StartedAfterNeeds
<1>5. QED
    BY <1>1, <1>2, <1>3, <1>4

\* The steps of Kordinate: but for StartupStart they open no gate.
LEMMA KordinateStep ==
    ASSUME KordInv, Kordinate
    PROVE  KordInv'
<1> USE DEF KordInv, GatesExact, StartupAlone, MissingWasLost, NoDoubleClose, StartedAfterNeeds,
            cluster, factory, gates, pools, health, mainVars, retryVars
<1> USE OrderLength
<1>1. CASE StartupSkip
    <2>1. TypeOK'
        BY <1>1 DEF TypeOK, StartupSkip
    <2>2. QED
        BY <1>1, <2>1 DEF TypeOK, StartupSkip
<1>2. CASE StartupDone
    <2>1. TypeOK'
        BY <1>2 DEF TypeOK, StartupDone
    <2>2. QED
        BY <1>2, <2>1 DEF TypeOK, StartupDone
<1>3. CASE ShutdownBegin
    <2>1. TypeOK'
        BY <1>3 DEF TypeOK, ShutdownBegin
    <2>2. QED
        BY <1>3, <2>1 DEF TypeOK, ShutdownBegin
<1>4. CASE StopCRDWorkers
    <2>1. TypeOK'
        BY <1>4 DEF TypeOK, StopCRDWorkers
    <2>2. QED
        BY <1>4, <2>1 DEF TypeOK, StopCRDWorkers
<1>5. CASE ShutdownDone
    <2>1. TypeOK'
        BY <1>5 DEF TypeOK, ShutdownDone
    <2>2. QED
        BY <1>5, <2>1 DEF TypeOK, ShutdownDone
<1>6. QED
    BY <1>1, <1>2, <1>3, <1>4, <1>5, StartupStartStep DEF Kordinate

\* The steps of retryMissingCRDs: a tick during the startup loop is an early one,
\* and what phase 1 puts into the missing map has been away.
LEMMA RetryStep ==
    ASSUME KordInv, Retry
    PROVE  KordInv'
<1> USE DEF KordInv, GatesExact, StartupAlone, MissingWasLost, NoDoubleClose, StartedAfterNeeds,
            cluster, factory, gates, pools, health, mainVars, retryVars
<1> USE OrderLength
<1>1. CASE RetryTick
    <2>1. TypeOK'
        BY <1>1 DEF TypeOK, RetryTick
    <2>2. QED
        BY <1>1, <2>1 DEF TypeOK, RetryTick
<1>2. CASE RetryExit
    <2>1. TypeOK'
        BY <1>2 DEF TypeOK, RetryExit
    <2>2. QED
        BY <1>2, <2>1 DEF TypeOK, RetryExit
<1>3. ASSUME NEW c \in CRD, DetectSkip(c) PROVE KordInv'
    <2>1. TypeOK'
        BY <1>3 DEF TypeOK, DetectSkip
    <2>2. QED
        BY <1>3, <2>1 DEF TypeOK, DetectSkip
<1>4. ASSUME NEW c \in CRD, DetectAbsent(c) PROVE KordInv'
    <2>1. TypeOK'
        BY <1>4 DEF TypeOK, DetectAbsent
    <2>2. QED
        BY <1>4, <2>1 DEF TypeOK, DetectAbsent
<1>5. ASSUME NEW c \in CRD, DrainDone(c) PROVE KordInv'
    <2>1. TypeOK'
        BY <1>5 DEF TypeOK, DrainDone
    <2>2. QED
        BY <1>5, <2>1 DEF TypeOK, DrainDone
<1>6. ASSUME NEW c \in CRD, DrainGiveUp(c) PROVE KordInv'
    <2>1. TypeOK'
        BY <1>6 DEF TypeOK, DrainGiveUp
    <2>2. QED
        BY <1>6, <2>1 DEF TypeOK, DrainGiveUp
<1>7. CASE DetectEnd
    <2>1. TypeOK'
        BY <1>7 DEF TypeOK, DetectEnd
    <2>2. QED
        BY <1>7, <2>1 DEF TypeOK, DetectEnd
<1>8. ASSUME NEW c \in CRD, MissingAbsent(c) PROVE KordInv'
    <2>1. TypeOK'
        BY <1>8 DEF TypeOK, MissingAbsent
    <2>2. QED
        BY <1>8, <2>1 DEF TypeOK, MissingAbsent
<1>9. ASSUME NEW c \in CRD, MissingError(c) PROVE KordInv'
    <2>1. TypeOK'
        BY <1>9 DEF TypeOK, MissingError
    <2>2. QED
        BY <1>9, <2>1 DEF TypeOK, MissingError
<1>10. CASE MissingEnd
    <2>1. TypeOK'
        BY <1>10 DEF TypeOK, MissingEnd
    <2>2. QED
        BY <1>10, <2>1 DEF TypeOK, MissingEnd
<1>11. CASE DeferredSkip
    <2>1. TypeOK'
        BY <1>11 DEF TypeOK, DeferredSkip
    <2>2. QED
        BY <1>11, <2>1 DEF TypeOK, DeferredSkip
<1>12. CASE AggregateHealth
    <2>1. TypeOK'
        BY <1>12 DEF TypeOK, AggregateHealth
    <2>2. QED
        BY <1>12, <2>1 DEF TypeOK, AggregateHealth
<1>13. QED
    BY <1>1, <1>2, <1>3, <1>4, <1>5, <1>6, <1>7, <1>8, <1>9, <1>10, <1>11, <1>12, MissingFoundStep, DeferredActivateStep DEF Retry

\* The steps of the workers, the cluster and the election.
LEMMA EnvironmentStep ==
    ASSUME KordInv, LoseLeadership \/ \E c \in CRD : \/ RecordSuccess(c) \/ RecordFailure(c) \/ WorkersExit(c)
                                              \/ Vanish(c) \/ Appear(c)
    PROVE  KordInv'
<1> USE DEF KordInv, GatesExact, StartupAlone, MissingWasLost, NoDoubleClose, StartedAfterNeeds,
            cluster, factory, gates, pools, health, mainVars, retryVars
<1> USE OrderLength
<1>1. CASE LoseLeadership
    <2>1. TypeOK'
        BY <1>1 DEF TypeOK, LoseLeadership
    <2>2. QED
        BY <1>1, <2>1 DEF TypeOK, LoseLeadership
<1>2. ASSUME NEW c \in CRD, RecordSuccess(c) PROVE KordInv'
    <2>1. TypeOK'
        BY <1>2 DEF TypeOK, RecordSuccess
    <2>2. QED
        BY <1>2, <2>1 DEF TypeOK, RecordSuccess
<1>3. ASSUME NEW c \in CRD, RecordFailure(c) PROVE KordInv'
    <2>1. TypeOK'
        BY <1>3 DEF TypeOK, RecordFailure
    <2>2. QED
        BY <1>3, <2>1 DEF TypeOK, RecordFailure
<1>4. ASSUME NEW c \in CRD, WorkersExit(c) PROVE KordInv'
    <2>1. TypeOK'
        BY <1>4 DEF TypeOK, WorkersExit
    <2>2. QED
        BY <1>4, <2>1 DEF TypeOK, WorkersExit
<1>5. ASSUME NEW c \in CRD, Vanish(c) PROVE KordInv'
    <2>1. TypeOK'
        BY <1>5 DEF TypeOK, Vanish
    <2>2. QED
        BY <1>5, <2>1 DEF TypeOK, Vanish
<1>6. ASSUME NEW c \in CRD, Appear(c) PROVE KordInv'
    <2>1. TypeOK'
        BY <1>6 DEF TypeOK, Appear
    <2>2. QED
        BY <1>6, <2>1 DEF TypeOK, Appear
<1>7. QED
    BY <1>1, <1>2, <1>3, <1>4, <1>5, <1>6 DEF KordInv

\* Every step preserves the invariant.
LEMMA NextKordInv == KordInv /\ [Next]_vars => KordInv'
<1> SUFFICES ASSUME KordInv, [Next]_vars PROVE KordInv'
    OBVIOUS
<1>1. CASE UNCHANGED vars
    BY <1>1 DEF KordInv, TypeOK, GatesExact, StartupAlone, MissingWasLost, NoDoubleClose,
                StartedAfterNeeds, vars, cluster, factory, gates, pools, health, mainVars,
                retryVars
<1>2. QED
    BY <1>1, KordinateStep, RetryStep, EnvironmentStep, CheckDependencyStep DEF Next

\* The inductive invariant, for every acyclic katalog and every number of CRDs
\* that come and go.
THEOREM KordinatorInvariant == Spec => []KordInv
    BY InitKordInv, NextKordInv, PTL DEF Spec

\* Whatever the katalog and however often CRDs come and go, startedCh or healthyCh
\* is closed twice only after a tick of the retry loop that came before the end of
\* the startup loop: no other interleaving of the two loops, the health checker and
\* the workers does it.
THEOREM NoDoubleCloseHolds == Spec => []NoDoubleClose
<1>1. KordInv => NoDoubleClose
    BY DEF KordInv
<1>2. QED
    BY <1>1, KordinatorInvariant, PTL

\* A CRD that was never away starts only after what it depends on has started,
\* and has reconciled where the condition is healthy, whichever loop starts it.
THEOREM StartedAfterNeedsHolds == Spec => []StartedAfterNeeds
<1>1. KordInv => StartedAfterNeeds
    BY DEF KordInv
<1>2. QED
    BY <1>1, KordinatorInvariant, PTL

\* Type correctness of the kordinator: the loop indices stay in the order, the
\* online counter below its length, the sets within the katalog.
THEOREM KordinatorTypeCorrect == Spec => []TypeOK
<1>1. KordInv => TypeOK
    BY DEF KordInv
<1>2. QED
    BY <1>1, KordinatorInvariant, PTL

-----------------------------------------------------------------------------
(* The worker pools.  The startup loop trusts the missing map alone, so the *)
(* flags of the entries must agree with it while that loop runs; the guard  *)
(* of deactivateCRD trusts the deactivated flag, so that flag must never    *)
(* outlive the pool it was set for.                                         *)

PoolInv ==
    ~ early =>
        /\ \A c \in CRD : pool[c] = "running" => c \notin neverStarted
        /\ \A c \in entryMissing : pool[c] # "running"
        /\ \A c \in deactivated : pool[c] # "running"
        /\ mpc = "starting" =>
              /\ entryMissing \subseteq missing
              /\ neverStarted \subseteq missing
              /\ deactivated = {}
              /\ draining = {}

\* The pool that activateCRD starts is the only one it touches, and its flags
\* are cleared.
LEMMA ActivatePool ==
    ASSUME NEW c \in CRD, KordInv, PoolInv, ActivateCRD(c), ~ early => mpc # "starting",
           UNCHANGED <<mpc, early>>
    PROVE  PoolInv'
<1>1. \A d \in CRD \ {c} : pool'[d] = pool[d]
    BY DEF ActivateCRD, StartCRDWorkers, KordInv, TypeOK
<1>2. QED
    BY <1>1 DEF PoolInv, ActivateCRD, KordInv, TypeOK

\* That a tick came early is remembered.
LEMMA NeverForgotten ==
    ASSUME [Next]_vars, early
    PROVE  early'
<1> USE DEF retryVars
<1>1. CASE Kordinate
    BY <1>1 DEF Kordinate, StartupSkip, StartupStart, StartupDone, ShutdownBegin, StopCRDWorkers,
       ShutdownDone
<1>2. CASE Retry
    BY <1>2 DEF Retry, RetryTick, RetryExit, DetectSkip, DetectAbsent, DrainDone, DrainGiveUp,
       DetectEnd, MissingFound, MissingAbsent, MissingError, MissingEnd, DeferredSkip,
       DeferredActivate, AggregateHealth
<1>3. CASE \/ LoseLeadership
           \/ \E c \in CRD : \/ CheckDependency(c) \/ RecordSuccess(c) \/ RecordFailure(c)
                            \/ WorkersExit(c) \/ Vanish(c) \/ Appear(c)
    BY <1>3 DEF LoseLeadership, CheckDependency, RecordSuccess, RecordFailure, WorkersExit,
       Vanish, Appear
<1>4. CASE UNCHANGED vars
    BY <1>4 DEF vars
<1>5. QED
    BY <1>1, <1>2, <1>3, <1>4 DEF Next

\* Every step preserves the invariant of the pools.
LEMMA NextPoolInv ==
    ASSUME KordInv, PoolInv, [Next]_vars
    PROVE  PoolInv'
<1> SUFFICES ASSUME ~ early' PROVE PoolInv'
    BY DEF PoolInv
<1>0. ~ early
    BY NeverForgotten
<1> USE <1>0 DEF PoolInv, KordInv, TypeOK,
            cluster, factory, gates, pools, health, mainVars, retryVars
<1>1. CASE StartupSkip \/ StartupDone \/ ShutdownBegin \/ StopCRDWorkers \/ ShutdownDone
    BY <1>1 DEF StartupSkip, StartupDone, ShutdownBegin, StopCRDWorkers, ShutdownDone
<1>2. CASE StartupStart
    <2> DEFINE c == Order[mi]
    <2>1. c \notin missing /\ StartCRDWorkers(c)
        BY <1>2 DEF StartupStart
    <2>2. \A d \in CRD : d # c => pool'[d] = pool[d]
        BY <2>1 DEF StartCRDWorkers
    <2> HIDE DEF c
    <2>3. QED
        BY <1>2, <2>1, <2>2 DEF StartupStart
<1>3. CASE LoseLeadership
    BY <1>3 DEF LoseLeadership
<1>4. CASE RetryTick \/ RetryExit \/ DetectEnd \/ DeferredSkip \/ AggregateHealth
    BY <1>4 DEF RetryTick, RetryExit, DetectEnd, DeferredSkip, AggregateHealth
<1>5. CASE MissingEnd
    BY <1>5 DEF MissingEnd, StartupAlone
<1>6. CASE DeferredActivate
    <2>1. /\ mpc # "starting" /\ UNCHANGED <<mpc, early>>
          /\ Order[ri] \in CRD /\ ActivateCRD(Order[ri])
        BY <1>6, OrderLength DEF DeferredActivate, StartupAlone
    <2>2. QED
        BY <2>1, ActivatePool
<1>7. CASE \E c \in CRD : DetectSkip(c) \/ MissingAbsent(c) \/ MissingError(c) \/ DrainGiveUp(c)
    BY <1>7 DEF DetectSkip, MissingAbsent, MissingError, DrainGiveUp
<1>8. ASSUME NEW c \in CRD, DetectAbsent(c) PROVE PoolInv'
    <2>1. mpc # "starting" /\ mpc' = mpc
        BY <1>8 DEF DetectAbsent, StartupAlone
    <2>2. pool'[c] # "running" /\ \A d \in CRD \ {c} : pool'[d] = pool[d]
        BY <1>8 DEF DetectAbsent
    <2>3. QED
        BY <1>8, <2>1, <2>2 DEF DetectAbsent
<1>9. ASSUME NEW c \in CRD, DrainDone(c) PROVE PoolInv'
    <2>1. mpc # "starting" /\ mpc' = mpc
        BY <1>9 DEF DrainDone
    <2>2. QED
        BY <1>9, <2>1 DEF DrainDone
<1>10. ASSUME NEW c \in CRD, MissingFound(c) PROVE PoolInv'
    <2>1. mpc # "starting" /\ UNCHANGED <<mpc, early>> /\ ActivateCRD(c)
        BY <1>10 DEF MissingFound, StartupAlone
    <2>2. QED
        BY <2>1, ActivatePool
<1>11. CASE \E c \in CRD : \/ CheckDependency(c) \/ RecordSuccess(c) \/ RecordFailure(c)
                          \/ Vanish(c) \/ Appear(c)
    BY <1>11 DEF CheckDependency, RecordSuccess, RecordFailure, Vanish, Appear
<1>12. CASE \E c \in CRD : WorkersExit(c)
    BY <1>12 DEF WorkersExit
<1>13. CASE UNCHANGED vars
    BY <1>13 DEF vars
<1>14. QED
    BY <1>1, <1>2, <1>3, <1>4, <1>5, <1>6, <1>7, <1>8, <1>9, <1>10, <1>11, <1>12, <1>13
       DEF Next, Kordinate, Retry

\* The pools' invariant, for every katalog.
THEOREM PoolInvariant == Spec => []PoolInv
<1>1. Init => PoolInv
    BY DEF Init, PoolInv
<1>2. QED
    BY <1>1, KordinatorInvariant, NextPoolInv, PTL DEF Spec

\* Whichever path starts the workers of a CRD, its informer runs, unless a tick
\* came before the end of the startup loop.
THEOREM PoolHasInformerHolds == Spec => []PoolHasInformer
<1>1. PoolInv => PoolHasInformer
    BY DEF PoolInv, PoolHasInformer
<1>2. QED
    BY <1>1, PoolInvariant, PTL

\* However often a CRD comes and goes, its workers have been told to stop
\* whenever it is known to be gone, unless a tick came before the end of the
\* startup loop.
THEOREM MissingMeansStoppedHolds == Spec => []MissingMeansStopped
<1>1. PoolInv => MissingMeansStopped
    BY DEF PoolInv, MissingMeansStopped
<1>2. QED
    BY <1>1, PoolInvariant, PTL

-----------------------------------------------------------------------------
(* The katalog's readiness.  While no more than one CRD ever goes away the  *)
(* tick's map, which replaces the factory's, holds every CRD whose entry is *)
(* marked; with two it loses the first (the ForgottenCRD run).  A ready     *)
(* katalog has an empty map and everything started.                         *)

\* No more than one CRD was ever away.
OneLost == \A c, d \in lost : c = d

\* Nobody lost track of a CRD that is away.
Tracked ==
    /\ entryMissing \subseteq missing
    /\ rpc = "missing" => entryMissing \subseteq todo \cup stillMissing

\* The count of the startup loop: it is full only when nothing was skipped.
NothingSkipped ==
    mpc = "starting" =>
        /\ started \cap missing = {}
        /\ online = mi - 1 => \A i \in 1..(mi - 1) : Order[i] \in started

ReadyInv ==
    /\ entryMissing \subseteq lost
    /\ katReady => missing = {} /\ started = CRD
    /\ ~ ctxDone => \A c \in started \ entryMissing : pool[c] = "running"
    /\ NothingSkipped
    /\ OneLost => Tracked

\* It is kept as long as no tick comes early.
CalmReadyInv == ~ early => ReadyInv

\* activateCRD gives the CRD a running pool and takes it off both records.
LEMMA ActivateReady ==
    ASSUME NEW c \in CRD, KordInv, ReadyInv, ActivateCRD(c), mpc # "starting",
           UNCHANGED <<mpc, rpc, lost, katReady, ctxDone, stillMissing>>, todo \subseteq todo' \cup {c}
    PROVE  ReadyInv'
<1> USE DEF ActivateCRD, StartCRDWorkers, KordInv, TypeOK
<1>1. \A d \in CRD : d # c => pool'[d] = pool[d]
    OBVIOUS
<1>2. ~ ctxDone => pool'[c] = "running"
    OBVIOUS
<1>3. ~ ctxDone' => \A d \in started' \ entryMissing' : pool'[d] = "running"
    BY <1>1, <1>2 DEF ReadyInv
<1>4. entryMissing' \subseteq lost' /\ NothingSkipped'
    BY DEF ReadyInv, NothingSkipped
<1>5. katReady' => missing' = {} /\ started' = CRD
    BY DEF ReadyInv
<1>6. OneLost' => Tracked'
    BY DEF ReadyInv, OneLost, Tracked
<1>7. QED
    BY <1>3, <1>4, <1>5, <1>6 DEF ReadyInv

\* Every step preserves the invariant of the readiness.
LEMMA NextReadyInv ==
    ASSUME KordInv, CalmReadyInv, [Next]_vars
    PROVE  CalmReadyInv'
<1> SUFFICES ASSUME ~ early' PROVE ReadyInv'
    BY DEF CalmReadyInv
<1>0. ~ early
    BY NeverForgotten
<1>a. ReadyInv
    BY <1>0 DEF CalmReadyInv
<1> USE <1>0, <1>a DEF KordInv, cluster, factory, gates, pools, health, mainVars, retryVars
<1>1. CASE StartupSkip
  <2>1. NothingSkipped'
      BY <1>1 DEF StartupSkip, ReadyInv, NothingSkipped, StartupAlone, TypeOK
  <2>2. QED
      BY <1>1, <2>1 DEF StartupSkip, ReadyInv, OneLost, Tracked
<1>2. CASE StartupStart
  <2> DEFINE c == Order[mi]
  <2>0. /\ mpc = "starting" /\ mi \in 1..Len(Order) /\ c \in CRD /\ online < mi
        /\ mi \in Nat /\ online \in Nat
      BY <1>2, OrderLength DEF StartupStart, StartupAlone, TypeOK
  <2>1. /\ c \notin missing /\ started' = started \cup {c}
        /\ pool' = [pool EXCEPT ![c] = IF ctxDone THEN "cancelled" ELSE "running"]
        /\ mi' = mi + 1 /\ online' = online + 1
        /\ UNCHANGED <<cluster, factory, katReady, mpc, retryVars, ctxDone>>
      BY <1>2 DEF StartupStart, StartCRDWorkers
  <2>2. NothingSkipped'
    <3>1. started' \cap missing' = {}
        BY <2>0, <2>1 DEF ReadyInv, NothingSkipped
    <3>2. ASSUME online' = mi' - 1 PROVE \A i \in 1..(mi' - 1) : Order[i] \in started'
      <4>1. online = mi - 1
          BY <2>0, <2>1, <3>2
      <4>2. \A i \in 1..(mi' - 1) : i \in 1..(mi - 1) \/ i = mi
          BY <2>0, <2>1
      <4>3. QED
          BY <2>0, <2>1, <4>1, <4>2 DEF ReadyInv, NothingSkipped
    <3>3. QED
        BY <3>1, <3>2 DEF NothingSkipped
  <2> HIDE DEF c
  <2>3. ~ ctxDone' => \A d \in started' \ entryMissing' : pool'[d] = "running"
    <3>1. (\A d \in CRD : d # c => pool'[d] = pool[d]) /\ (~ ctxDone => pool'[c] = "running")
        BY <2>0, <2>1 DEF TypeOK
    <3>2. QED
        BY <2>1, <3>1 DEF ReadyInv, TypeOK
  <2>4. katReady' => missing' = {} /\ started' = CRD
      BY <2>0, <2>1 DEF ReadyInv
  <2>5. QED
      BY <2>1, <2>2, <2>3, <2>4 DEF ReadyInv, OneLost, Tracked
<1>3. CASE StartupDone
  <2>1. /\ mpc = "starting" /\ mi > Len(Order) /\ mpc' = "running"
        /\ katReady' = (online = Len(Order))
        /\ UNCHANGED <<cluster, factory, pools, retryVars, ctxDone>>
      BY <1>3 DEF StartupDone
  <2>2. ASSUME online = Len(Order) PROVE missing = {} /\ started = CRD
    <3>1. mi = Len(Order) + 1 /\ online = mi - 1
        BY <2>1, <2>2, OrderLength DEF TypeOK
    <3>2. \A i \in 1..Len(Order) : Order[i] \in started
        BY <2>1, <3>1, OrderLength DEF ReadyInv, NothingSkipped
    <3>3. started = CRD
      <4>1. \A c \in CRD : \E i \in 1..Len(Order) : Order[i] = c
          BY KatalogAssumption
      <4>2. CRD \subseteq started
          BY <3>2, <4>1
      <4>3. QED
          BY <4>2 DEF TypeOK
    <3>4. QED
        BY <2>1, <3>3 DEF ReadyInv, NothingSkipped, TypeOK
  <2>3. katReady' => missing' = {} /\ started' = CRD
      BY <2>1, <2>2
  <2>4. QED
      BY <2>1, <2>3 DEF ReadyInv, NothingSkipped, OneLost, Tracked
<1>4. CASE ShutdownBegin \/ StopCRDWorkers \/ ShutdownDone
    BY <1>4 DEF ShutdownBegin, StopCRDWorkers, ShutdownDone, ReadyInv, NothingSkipped, OneLost, Tracked
<1>5. CASE LoseLeadership
    BY <1>5 DEF LoseLeadership, ReadyInv, NothingSkipped, OneLost, Tracked
<1>6. CASE RetryTick \/ RetryExit \/ DetectEnd \/ DeferredSkip
  <2>1. /\ UNCHANGED <<entryMissing, missing, lost, started, pool, katReady, ctxDone, mpc, mi, online>>
        /\ rpc' = "missing" /\ entryMissing \subseteq missing => entryMissing \subseteq todo'
      BY <1>6 DEF RetryTick, RetryExit, DetectEnd, DeferredSkip
  <2>2. QED
      BY <2>1 DEF ReadyInv, NothingSkipped, OneLost, Tracked
<1>7. CASE AggregateHealth
  <2>1. katReady' => missing' = {} /\ started' = CRD
      BY <1>7 DEF AggregateHealth, ReadyInv
  <2>2. QED
      BY <1>7, <2>1 DEF AggregateHealth, ReadyInv, NothingSkipped, OneLost, Tracked
<1>8. CASE MissingEnd
  <2>1. mpc # "starting" /\ mpc' = mpc
      BY <1>8 DEF MissingEnd, StartupAlone
  <2>2. katReady' => missing' = {} /\ started' = CRD
      BY <1>8 DEF MissingEnd, ReadyInv
  <2>3. OneLost' => Tracked'
      BY <1>8 DEF MissingEnd, ReadyInv, OneLost, Tracked
  <2>4. QED
      BY <1>8, <2>1, <2>2, <2>3 DEF MissingEnd, ReadyInv, NothingSkipped
<1>9. CASE DeferredActivate
  <2>1. /\ mpc # "starting" /\ Order[ri] \in CRD /\ ActivateCRD(Order[ri])
        /\ UNCHANGED <<mpc, rpc, lost, katReady, ctxDone, stillMissing, todo>>
      BY <1>9, OrderLength DEF DeferredActivate, StartupAlone, TypeOK
  <2>2. QED
      BY <2>1, ActivateReady
<1>10. CASE \E c \in CRD : DetectSkip(c) \/ DrainDone(c) \/ DrainGiveUp(c)
  <2>1. UNCHANGED <<entryMissing, missing, lost, started, pool, katReady, ctxDone, rpc, stillMissing,
                    mpc, mi, online>>
        /\ (rpc = "missing" => todo' = todo)
      BY <1>10 DEF DetectSkip, DrainDone, DrainGiveUp
  <2>2. QED
      BY <2>1 DEF ReadyInv, NothingSkipped, OneLost, Tracked
<1>11. ASSUME NEW c \in CRD, MissingAbsent(c) \/ MissingError(c) PROVE ReadyInv'
  <2>1. /\ UNCHANGED <<entryMissing, missing, lost, started, pool, ctxDone, rpc, mpc, mi, online>>
        /\ todo' = todo \ {c} /\ stillMissing' = stillMissing \cup {c}
        /\ katReady' => katReady
      BY <1>11 DEF MissingAbsent, MissingError
  <2>2. QED
      BY <2>1 DEF ReadyInv, NothingSkipped, OneLost, Tracked
<1>12. ASSUME NEW c \in CRD, MissingFound(c) PROVE ReadyInv'
  <2>1. /\ mpc # "starting" /\ ActivateCRD(c) /\ todo' = todo \ {c}
        /\ UNCHANGED <<mpc, rpc, lost, katReady, ctxDone, stillMissing>>
      BY <1>12 DEF MissingFound, StartupAlone
  <2>2. QED
      BY <2>1, ActivateReady
<1>13. ASSUME NEW c \in CRD, DetectAbsent(c) PROVE ReadyInv'
  <2>1. /\ mpc # "starting" /\ rpc = "detect" /\ c \notin present /\ c \in lost
        /\ entryMissing' = entryMissing \cup {c} /\ missing' = runtimeMissing \cup {c}
        /\ katReady' = FALSE
        /\ UNCHANGED <<lost, started, ctxDone, rpc, mpc>>
      BY <1>13 DEF DetectAbsent, StartupAlone, MissingWasLost
  <2>2. \A d \in CRD : d # c => pool'[d] = pool[d]
      BY <1>13 DEF DetectAbsent, TypeOK
  <2>3. entryMissing' \subseteq lost'
      BY <2>1 DEF ReadyInv
  <2>4. OneLost' => Tracked'
      BY <2>1, <2>3 DEF OneLost, Tracked
  <2>5. ~ ctxDone' => \A d \in started' \ entryMissing' : pool'[d] = "running"
      BY <2>1, <2>2 DEF ReadyInv, TypeOK
  <2>6. QED
      BY <2>1, <2>3, <2>4, <2>5 DEF ReadyInv, NothingSkipped
<1>14. CASE \E c \in CRD : \/ CheckDependency(c) \/ RecordSuccess(c) \/ RecordFailure(c) \/ Appear(c)
    BY <1>14 DEF CheckDependency, RecordSuccess, RecordFailure, Appear, ReadyInv, NothingSkipped,
       OneLost, Tracked
<1>15. ASSUME NEW c \in CRD, Vanish(c) PROVE ReadyInv'
    BY <1>15 DEF Vanish, ReadyInv, NothingSkipped, OneLost, Tracked
<1>16. ASSUME NEW c \in CRD, WorkersExit(c) PROVE ReadyInv'
  <2>1. /\ pool[c] = "cancelled" /\ pool' = [pool EXCEPT ![c] = "drained"]
        /\ UNCHANGED <<entryMissing, missing, lost, started, katReady, ctxDone, rpc, todo, stillMissing,
                       mpc, mi, online>>
      BY <1>16 DEF WorkersExit
  <2>2. ~ ctxDone' => \A d \in started' \ entryMissing' : pool'[d] = "running"
      BY <2>1 DEF ReadyInv, TypeOK
  <2>3. QED
      BY <2>1, <2>2 DEF ReadyInv, NothingSkipped, OneLost, Tracked
<1>17. CASE UNCHANGED vars
    BY <1>17 DEF vars, ReadyInv, NothingSkipped, OneLost, Tracked
<1>18. QED
    BY <1>1, <1>2, <1>3, <1>4, <1>5, <1>6, <1>7, <1>8, <1>9, <1>10, <1>11, <1>12, <1>13, <1>14,
       <1>15, <1>16, <1>17 DEF Next, Kordinate, Retry

\* The invariant of the readiness, for every katalog.
THEOREM ReadyInvariant == Spec => []CalmReadyInv
<1>1. Init => CalmReadyInv
  <2> SUFFICES ASSUME Init PROVE ReadyInv
      BY DEF CalmReadyInv
  <2>1. NothingSkipped /\ Tracked
      BY DEF Init, NothingSkipped, Tracked
  <2>2. QED
      BY <2>1 DEF Init, ReadyInv
<1>2. QED
    BY <1>1, KordinatorInvariant, NextReadyInv, PTL DEF Spec

\* As long as no more than one CRD was ever away and no tick came before the end
\* of the startup loop, and whatever the katalog and
\* however often that one comes and goes, a katalog reported ready has every CRD
\* started, none marked missing, and every pool running.
THEOREM ReadyMeansActiveHolds == Spec => [](OneLost => ReadyMeansActive)
<1>1. KordInv /\ CalmReadyInv => (OneLost => ReadyMeansActive)
    BY DEF KordInv, TypeOK, CalmReadyInv, ReadyInv, Tracked, ReadyMeansActive
<1>2. QED
    BY <1>1, KordinatorInvariant, ReadyInvariant, PTL
=============================================================================
