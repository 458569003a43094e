------------------------- MODULE ResizableSemaphore -------------------------
(***************************************************************************)
(* The concurrency gate of one CRD: pkg/runtime/autoscaler's               *)
(* ResizableSemaphore together with its only client,                       *)
(* GenericReconciler.Reconcile, and the worker loop around it.             *)
(*                                                                         *)
(* A worker that dequeued an item calls Reconcile, which acquires a token, *)
(* runs reconcileCore and releases the token.  The autoscaler resizes the  *)
(* semaphore at any time.  Cancelling a worker's context (deactivation of  *)
(* the CRD, loss of leadership) makes a blocked Acquire give up.           *)
(*                                                                         *)
(* Every section under s.mu is one action.  The select in Acquire is not   *)
(* under the lock: waking up, noticing the cancellation and leaving the    *)
(* waiter list are separate actions.                                       *)
(***************************************************************************)
EXTENDS Integers, Sequences, FiniteSets

CONSTANTS
    Worker,     \* the worker goroutines of the CRD
    InitCap,    \* capacity passed to NewResizableSemaphore
    MaxCap,     \* bound: the largest capacity the autoscaler asks for
    MaxPanics   \* bound: reconciles that panic

ASSUME SemaphoreAssumption ==
    /\ IsFiniteSet(Worker)
    /\ InitCap \in Nat
    /\ MaxCap \in Nat \ {0}
    /\ MaxPanics \in Nat

VARIABLES
    cap,        \* s.cap
    current,    \* s.current
    waiters,    \* s.waiters, each channel named by the worker that made it
    granted,    \* workers whose channel holds a token they have not received
    ctxDone,    \* workers whose context is cancelled
    pc,         \* where each worker stands
    panics,     \* panicking reconciles so far
    leaked      \* history: tokens counted in s.current that nobody can release

vars == <<cap, current, waiters, granted, ctxDone, pc, panics, leaked>>

-----------------------------------------------------------------------------

\* Mutant: the guard on capacities below one is missing.
AtLeastOneUnguarded(n) == n

\* NewResizableSemaphore and Resize raise a capacity below one to one.
AtLeastOne(n) == IF n < 1 THEN 1 ELSE n

Init ==
    /\ cap = AtLeastOne(InitCap)
    /\ current = 0
    /\ waiters = <<>>
    /\ granted = {}
    /\ ctxDone = {}
    /\ pc = [w \in Worker |-> "idle"]
    /\ panics = 0
    /\ leaked = 0

\* The worker loop tests its context before the next item: a worker whose
\* context is done leaves the loop after the reconcile it is in.
BackToLoop(w) == pc' = [pc EXCEPT ![w] = IF w \in ctxDone THEN "exited" ELSE "idle"]

\* Acquire, first branch: a token is free.
AcquireNow(w) ==
    /\ pc[w] = "idle"
    /\ current < cap
    /\ current' = current + 1
    /\ pc' = [pc EXCEPT ![w] = "reconciling"]
    /\ UNCHANGED <<cap, waiters, granted, ctxDone, panics, leaked>>

\* Acquire, second branch: register a channel and block in the select.
AcquireWait(w) ==
    /\ pc[w] = "idle"
    /\ current >= cap
    /\ waiters' = Append(waiters, w)
    /\ pc' = [pc EXCEPT ![w] = "waiting"]
    /\ UNCHANGED <<cap, current, granted, ctxDone, panics, leaked>>

\* The select takes the channel: the token was counted by whoever sent it.
Receive(w) ==
    /\ pc[w] = "waiting"
    /\ w \in granted
    /\ granted' = granted \ {w}
    /\ pc' = [pc EXCEPT ![w] = "reconciling"]
    /\ UNCHANGED <<cap, current, waiters, ctxDone, panics, leaked>>

\* The select takes ctx.Done(), which Go may do although the channel is
\* ready too.
GiveUp(w) ==
    /\ pc[w] = "waiting"
    /\ w \in ctxDone
    /\ pc' = [pc EXCEPT ![w] = "cancelling"]
    /\ UNCHANGED <<cap, current, waiters, granted, ctxDone, panics, leaked>>

\* Leave the waiter list and return ctx.Err().  A token sent in the meantime
\* stays in the channel, and s.current keeps counting it.
RemoveWaiter(w) ==
    /\ pc[w] = "cancelling"
    /\ \/ \E i \in 1..Len(waiters) :
             /\ waiters[i] = w
             /\ waiters' = SubSeq(waiters, 1, i - 1) \o SubSeq(waiters, i + 1, Len(waiters))
       \/ /\ \A i \in 1..Len(waiters) : waiters[i] # w
          /\ UNCHANGED waiters
    /\ granted' = granted \ {w}
    /\ leaked' = IF w \in granted THEN leaked + 1 ELSE leaked
    /\ pc' = [pc EXCEPT ![w] = "exited"]
    /\ UNCHANGED <<cap, current, ctxDone, panics>>

\* Mutant: the hand-over decrements s.current as well.
ReleaseDecrementing(w) ==
    /\ pc[w] = "reconciling"
    /\ granted' = IF waiters = <<>> THEN granted ELSE granted \cup {Head(waiters)}
    /\ waiters' = IF waiters = <<>> THEN waiters ELSE Tail(waiters)
    /\ current' = current - 1
    /\ BackToLoop(w)
    /\ UNCHANGED <<cap, ctxDone, panics, leaked>>

\* Mutant: the waiter that gets the token is not taken off the list.
ReleaseKeepingWaiter(w) ==
    /\ pc[w] = "reconciling"
    /\ granted' = IF waiters = <<>> THEN granted ELSE granted \cup {Head(waiters)}
    /\ current' = IF waiters = <<>> THEN current - 1 ELSE current
    /\ BackToLoop(w)
    /\ UNCHANGED <<cap, waiters, ctxDone, panics, leaked>>

\* Mutant: the token goes to the waiter that came last.
ReleaseToLast(w) ==
    /\ pc[w] = "reconciling"
    /\ LET n == Len(waiters)
       IN  /\ granted' = IF n = 0 THEN granted ELSE granted \cup {waiters[n]}
           /\ waiters' = IF n = 0 THEN waiters ELSE SubSeq(waiters, 1, n - 1)
           /\ current' = IF n = 0 THEN current - 1 ELSE current
    /\ BackToLoop(w)
    /\ UNCHANGED <<cap, ctxDone, panics, leaked>>

\* reconcileCore returned: Release hands the token to the first waiter, or
\* gives it back.
Release(w) ==
    /\ pc[w] = "reconciling"
    /\ \/ /\ waiters # <<>>
          /\ granted' = granted \cup {Head(waiters)}
          /\ waiters' = Tail(waiters)
          /\ UNCHANGED current
       \/ /\ waiters = <<>>
          /\ current' = current - 1
          /\ UNCHANGED <<waiters, granted>>
    /\ BackToLoop(w)
    /\ UNCHANGED <<cap, ctxDone, panics, leaked>>

\* reconcileCore panicked: Reconcile does not defer Release, safeReconcile
\* recovers the panic further up, and the worker goes on without the token.
Panic(w) ==
    /\ pc[w] = "reconciling"
    /\ panics < MaxPanics
    /\ panics' = panics + 1
    /\ leaked' = leaked + 1
    /\ BackToLoop(w)
    /\ UNCHANGED <<cap, current, waiters, granted, ctxDone>>

\* Mutant: one waiter too few is notified.
NotifiedOneTooFew(newCap) ==
    IF newCap <= cap THEN 0
    ELSE IF newCap - cap <= Len(waiters) THEN newCap - cap - 1
    ELSE Len(waiters)

\* How many waiters a resize to newCap notifies: one per added slot.
Notified(newCap) ==
    IF newCap <= cap THEN 0
    ELSE IF newCap - cap <= Len(waiters) THEN newCap - cap
    ELSE Len(waiters)

\* The autoscaler sets a new capacity.
Resize(n) ==
    LET newCap == AtLeastOne(n)
        k      == Notified(newCap)
    IN  /\ cap' = newCap
        /\ current' = current + k
        /\ granted' = granted \cup {waiters[i] : i \in 1..k}
        /\ waiters' = SubSeq(waiters, k + 1, Len(waiters))
        /\ UNCHANGED <<ctxDone, pc, panics, leaked>>

\* deactivateCRD, stopCRDWorkers or the loss of leadership cancel the context.
Cancel(w) ==
    /\ w \notin ctxDone
    /\ ctxDone' = ctxDone \cup {w}
    /\ UNCHANGED <<cap, current, waiters, granted, pc, panics, leaked>>

\* The worker loop finds its context done.
Exit(w) ==
    /\ pc[w] = "idle"
    /\ w \in ctxDone
    /\ pc' = [pc EXCEPT ![w] = "exited"]
    /\ UNCHANGED <<cap, current, waiters, granted, ctxDone, panics, leaked>>

Acquire(w) == AcquireNow(w) \/ AcquireWait(w)

Next ==
    \/ \E w \in Worker :
          \/ Acquire(w) \/ Receive(w) \/ GiveUp(w) \/ RemoveWaiter(w)
          \/ Release(w) \/ Panic(w) \/ Cancel(w) \/ Exit(w)
    \/ \E n \in 0..MaxCap : Resize(n)

Spec == Init /\ [][Next]_vars

\* The Go scheduler runs every runnable goroutine, and a reconcile ends (its
\* calls carry deadlines).  Nothing obliges anyone to resize, cancel or panic,
\* and an idle worker waits for items for as long as there are none.
Fairness ==
    \A w \in Worker :
        /\ WF_vars(Receive(w))
        /\ WF_vars(RemoveWaiter(w))
        /\ WF_vars(Release(w))

FairSpec == Spec /\ Fairness

\* Under steady load every idle worker also has an item to reconcile.
LoadedSpec == FairSpec /\ \A w \in Worker : WF_vars(Acquire(w))

-----------------------------------------------------------------------------

\* The reconciles in flight and the tokens on their way to a waiter.
Holders == {w \in Worker : pc[w] = "reconciling"} \cup granted

TypeOK ==
    /\ cap \in Nat \ {0}
    /\ current \in Nat
    /\ waiters \in Seq(Worker)
    /\ granted \in SUBSET Worker
    /\ ctxDone \in SUBSET Worker
    /\ pc \in [Worker -> {"idle", "waiting", "cancelling", "reconciling", "exited"}]
    /\ panics \in 0..MaxPanics
    /\ leaked \in Nat

\* No lost wake-up, across every resize, hand-over, cancellation and panic: a
\* worker is parked in Acquire only while no slot is free.
NoLostWakeup == waiters # <<>> => current >= cap

\* The waiter list and the channels agree with where the workers stand: a
\* worker is queued at most once, and not when its token is already sent.
WaitersConsistent ==
    /\ \A i, j \in 1..Len(waiters) : waiters[i] = waiters[j] => i = j
    /\ \A i \in 1..Len(waiters) :
          /\ pc[waiters[i]] \in {"waiting", "cancelling"}
          /\ waiters[i] \notin granted
    /\ \A w \in granted : pc[w] \in {"waiting", "cancelling"}

\* Every counted token is held, in a channel, or leaked: Acquire, Release and
\* Resize neither mint nor lose a token between them.
TokenAccounting == current = Cardinality(Holders) + leaked

\* A blocked Acquire returns: with a token, or cancelled - unless panics and
\* cancellations have leaked a token for every slot, in which case nobody is
\* left to wake it (reconciler/generic.go:268 has no deferred Release).
AcquireReturns ==
    \A w \in Worker :
        pc[w] = "waiting" ~> \/ pc[w] # "waiting"
                             \/ leaked >= cap

\* "The effective concurrency converges to newCap as holders release"
\* (autoscale_semaphore.go:98), here of a pool nobody cancels.
ConvergesToCap ==
    \A n \in 1..MaxCap :
        [](ctxDone = {}) /\ <>[](cap = n) => []<>(current <= n)
=============================================================================
