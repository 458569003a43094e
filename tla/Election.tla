------------------------------ MODULE Election ------------------------------
(***************************************************************************)
(* The konductor election between the replicas of the runtime              *)
(* (pkg/runtime/konductor) and the life of a replica around it             *)
(* (pkg/orkestra, cmd/internal/runtime.go).                                *)
(*                                                                         *)
(* A replica campaigns once in its life: RunOrDie returns when the lease   *)
(* cannot be renewed and nobody calls Start again.  What brings such a     *)
(* replica back is the kubelet, which restarts it because Kordinate marks  *)
(* it unhealthy.  The lease is let go before the run context is cancelled, *)
(* or runs out while the replica is paused, so another konductor may be    *)
(* elected before this one stops.                                          *)
(***************************************************************************)
EXTENDS Integers, FiniteSets

CONSTANTS
    Process,        \* replicas of the runtime
    NoProcess,
    MaxFaults       \* bound: lost leases, failed renewals, rollouts and crashes

ASSUME ElectionAssumption ==
    /\ Process # {}
    /\ NoProcess \notin Process
    /\ MaxFaults \in Nat

VARIABLES
    lease,          \* holderIdentity of the Lease
    phase,          \* per replica, see Phase
    faults

electionVars == <<lease, phase, faults>>

Phase == {"down",       \* not running
          "candidate",  \* komponents started, RunOrDie tries to acquire
          "konductor",  \* OnStartedLeading: Kordinate runs, context live
          "dismissed",  \* run context cancelled, RunOrDie returned
          "unhealthy",  \* Kordinate has called Unhealthy
          "stopping"}   \* gracefulShutdown

\* The replicas are alike, so it does not matter which one was elected first.
First == CHOOSE p \in Process : TRUE

ElectionInit ==
    /\ lease = First
    /\ phase = [p \in Process |-> IF p = First THEN "konductor" ELSE "candidate"]
    /\ faults = 0

\* Workers are handed items, and their calls have a live context.
Leads(p) == phase[p] = "konductor"

Become(p, ph) == phase' = [phase EXCEPT ![p] = ph]

Fault ==
    /\ faults < MaxFaults
    /\ faults' = faults + 1

\* The pod is started: Orkestra.Start, then ko.Start as a post-start hook.
Boot(p) ==
    /\ phase[p] = "down"
    /\ Become(p, "candidate")
    /\ UNCHANGED <<lease, faults>>

\* OnStartedLeading.  A replica that finds its own name in the lease has won.
Elected(p) ==
    /\ phase[p] = "candidate"
    /\ lease \in {NoProcess, p}
    /\ lease' = p
    /\ Become(p, "konductor")
    /\ UNCHANGED faults

\* The lease leaves a konductor that goes on: renew gives it up before the
\* context is cancelled, or it expires while the replica is paused.
LoseLease(p) ==
    /\ lease = p
    /\ phase[p] = "konductor"
    /\ Fault
    /\ lease' = NoProcess
    /\ UNCHANGED phase

\* RunOrDie returns after LoseLease: the context is cancelled, then
\* OnStoppedLeading.
OnStoppedLeading(p) ==
    /\ phase[p] = "konductor"
    /\ lease # p
    /\ Become(p, "dismissed")
    /\ UNCHANGED <<lease, faults>>

\* RunOrDie returns with the lease still in its name: the API server could
\* not be reached to release it either.
RenewalFails(p) ==
    /\ phase[p] = "konductor"
    /\ lease = p
    /\ Fault
    /\ Become(p, "dismissed")
    /\ UNCHANGED lease

\* A lease that nobody renews runs out, or is released by a replica that stops.
LeaseEnds(p) ==
    /\ lease = p
    /\ phase[p] \in {"down", "dismissed", "unhealthy", "stopping"}
    /\ lease' = NoProcess
    /\ UNCHANGED <<phase, faults>>

\* Mutant: the drain starts without marking the replica unhealthy.
LeadershipLostHealthy(p) ==
    /\ phase[p] = "dismissed"
    /\ UNCHANGED electionVars

\* Kordinate sees its context done and calls Unhealthy.
LeadershipLost(p) ==
    /\ phase[p] = "dismissed"
    /\ Become(p, "unhealthy")
    /\ UNCHANGED <<lease, faults>>

\* The liveness probe of the chart gets a 500 and the kubelet stops the pod.
ProbeFails(p) ==
    /\ phase[p] = "unhealthy"
    /\ Become(p, "stopping")
    /\ UNCHANGED <<lease, faults>>

\* SIGTERM to a healthy pod, a rollout: the context of the process, and with it
\* the run context, is cancelled.
Sigterm(p) ==
    /\ phase[p] \in {"candidate", "konductor"}
    /\ Fault
    /\ Become(p, "stopping")
    /\ UNCHANGED lease

\* The komponents are shut down, or the timeout passes: done is closed.
Exit(p) ==
    /\ phase[p] = "stopping"
    /\ Become(p, "down")
    /\ UNCHANGED <<lease, faults>>

Crash(p) ==
    /\ phase[p] # "down"
    /\ Fault
    /\ Become(p, "down")
    /\ UNCHANGED lease

\* What touches nothing but the election.
Campaign(p) ==
    \/ Elected(p) \/ LoseLease(p) \/ OnStoppedLeading(p) \/ RenewalFails(p)
    \/ LeaseEnds(p) \/ LeadershipLost(p) \/ ProbeFails(p) \/ Sigterm(p)

\* Goroutines run, the election retries, leases expire, probes are repeated and
\* pods are restarted; nobody has to lose a lease, be rolled out or crash.
ElectionFairness ==
    \A p \in Process :
        /\ WF_electionVars(Elected(p))
        /\ WF_electionVars(OnStoppedLeading(p))
        /\ WF_electionVars(LeaseEnds(p))
        /\ WF_electionVars(LeadershipLost(p))
        /\ WF_electionVars(ProbeFails(p))
        /\ WF_electionVars(Exit(p))
        /\ WF_electionVars(Boot(p))

-----------------------------------------------------------------------------
(* Properties                                                              *)

\* The lease names a replica or nobody, and faults stay within their bound.
ElectionTypeOK ==
    /\ lease \in Process \cup {NoProcess}
    /\ phase \in [Process -> Phase]
    /\ faults \in 0..MaxFaults

\* "Failover is automatic" (documentation/orkestra-core/01-runtime/index.md:25)
\* and "Followers stand by" (examples/resilience/leader-failover/README.md:3):
\* once the faults stop there is a konductor for good and every other replica
\* campaigns, although none does so twice in its life.
FailoverAutomatic ==
    <>[](/\ \E p \in Process : Leads(p) /\ lease = p
         /\ \A p \in Process : phase[p] \in {"candidate", "konductor"})
=============================================================================
