-------------------------- MODULE ReconcileRequests --------------------------
(***************************************************************************)
(* What the work queue and the worker pools of one CRD promise together:   *)
(* an item is reconciled by one worker at a time, and a request that was   *)
(* accepted stays pending until a reconcile of it starts.  The exception   *)
(* is a worker that is told to stop while it waits for an item: it may     *)
(* take one request with it when it leaves, and never a second one.        *)
(***************************************************************************)
CONSTANTS Requests, Workers

VARIABLES
    pending,    \* requests accepted, and not started since
    running,    \* requests being reconciled
    told,       \* workers that were told to stop
    leaving     \* those of them that have not left the queue yet

avars == <<pending, running, told, leaving>>

AInit ==
    /\ pending = {}
    /\ running = {}
    /\ told = {}
    /\ leaving = {}

\* An event is accepted, or a request that waits for its retry falls due.
Request(i) ==
    /\ pending' = pending \cup {i}
    /\ UNCHANGED <<running, told, leaving>>

\* A newer event or a retry may keep the request pending while it runs.
Start(i) ==
    /\ i \in pending
    /\ i \notin running
    /\ running' = running \cup {i}
    /\ pending' \in {pending, pending \ {i}}
    /\ UNCHANGED <<told, leaving>>

\* A reconcile that failed, or wants to run again, leaves its request pending.
Finish(i) ==
    /\ i \in running
    /\ running' = running \ {i}
    /\ pending' \in {pending, pending \cup {i}}
    /\ UNCHANGED <<told, leaving>>

\* A worker is told once, and only then can it be on its way out of the queue.
TellToStop ==
    /\ told' \in SUBSET Workers
    /\ told \subseteq told'
    /\ \E some \in SUBSET (told' \ told) : leaving' = leaving \cup some
    /\ UNCHANGED <<pending, running>>

Leave(w) ==
    /\ w \in leaving
    /\ leaving' = leaving \ {w}
    /\ \E lost \in SUBSET Requests :
        /\ \A i, j \in lost : i = j
        /\ pending' = pending \ lost
    /\ UNCHANGED <<running, told>>

ANext ==
    \/ \E i \in Requests : Request(i) \/ Start(i) \/ Finish(i)
    \/ TellToStop
    \/ \E w \in Workers : Leave(w)

ASpec == AInit /\ [][ANext]_avars
=============================================================================
