-------------------------------- MODULE Startup --------------------------------
(***************************************************************************)
(* The controller-manager process of src/cmd/manager/main.go: the setup    *)
(* sequence of main(), the wait for the metal3 API group in waitForAPIs,   *)
(* and mgr.Start with or without leader election. Several replicas of the  *)
(* process run at once (a Deployment during a rolling update); the kubelet *)
(* restarts a replica that exited.                                         *)
(*                                                                         *)
(* Every setup call of main() either succeeds or ends the process          *)
(* (os.Exit, klog.Fatal or panic); which calls may fail is the constant    *)
(* MayFail. The metal3 API group is served or not as the cluster's CRDs    *)
(* come and go. The lease of controller-runtime's leader election is one   *)
(* holder or none; a holder that stops renewing exits at RenewDeadline     *)
(* (110 s), before the lease expires at LeaseDuration (120 s), so the      *)
(* lease frees only once its holder has left the reconcile loop.           *)
(***************************************************************************)
EXTENDS Naturals, Sequences

CONSTANTS
    Procs,         \* the replicas of the Deployment
    NoLeader,      \* the lease is not held
    LeaderElect,   \* the value of --leader-elect
    WebhookEnabled,\* the value of --webhook-enabled
    MayFail        \* the setup calls whose error path is explored

\* The setup calls of main() in program order. "waitAPIs" is the loop of
\* waitForAPIs, "start" is mgr.Start.
Setup == <<"gates", "config", "discovery", "waitAPIs", "applyGates",
           "newManager", "actuator", "schemes", "controllers",
           "remediationController", "webhooks", "checks", "start">>

\* The calls with an error path that ends the process: all but the loop.
Fallible == {Setup[i] : i \in DOMAIN Setup} \ {"waitAPIs"}

\* Where a process is past the setup sequence.
Standby == Len(Setup) + 1   \* in mgr.Start, waiting for the lease
Running == Len(Setup) + 2   \* the controllers and webhooks run
Exited  == Len(Setup) + 3   \* the process has ended

PcValues == 1 .. Exited

\* The setup call replica p is at, if it is in the setup sequence.
StepAt(p, pcv) == IF pcv[p] <= Len(Setup) THEN Setup[pcv[p]] ELSE "past"

ASSUME StartupAssumption ==
    /\ NoLeader \notin Procs
    /\ LeaderElect \in BOOLEAN
    /\ WebhookEnabled \in BOOLEAN
    /\ MayFail \subseteq Fallible

VARIABLES
    pc,           \* pc[p]: the step replica p is at
    metal3Served, \* the API server serves metal3.io/v1alpha1
    leader        \* the holder of the leader-election lease, or NoLeader

vars == <<pc, metal3Served, leader>>

TypeOK ==
    /\ pc \in [Procs -> PcValues]
    /\ metal3Served \in BOOLEAN
    /\ leader \in Procs \cup {NoLeader}

Init ==
    /\ pc = [p \in Procs |-> 1]
    /\ metal3Served \in BOOLEAN
    /\ leader = NoLeader

\* A setup call that returns without error; "webhooks" registers the two
\* webhooks only with --webhook-enabled and is passed over otherwise.
Advance(p) ==
    /\ pc[p] < Len(Setup)
    /\ StepAt(p, pc) # "waitAPIs"
    /\ pc' = [pc EXCEPT ![p] = @ + 1]
    /\ UNCHANGED <<metal3Served, leader>>

\* A setup call that fails and ends the process; the webhook registrations
\* are only made, and can only fail, with --webhook-enabled.
Fail(p) ==
    /\ pc[p] <= Len(Setup)
    /\ StepAt(p, pc) \in MayFail
    /\ StepAt(p, pc) = "webhooks" => WebhookEnabled
    /\ pc' = [pc EXCEPT ![p] = Exited]
    /\ UNCHANGED <<metal3Served, leader>>

\* waitForAPIs taking "continue" after a successful check as well.
PollAPIContinue(p) ==
    /\ StepAt(p, pc) = "waitAPIs"
    /\ metal3Served
    /\ UNCHANGED vars

\* One ServerSupportsVersion check of the loop in waitForAPIs that finds the
\* group served and breaks out. When the group is not served the loop logs,
\* sleeps 10 s and checks again: a step that changes nothing.
PollAPI(p) ==
    /\ StepAt(p, pc) = "waitAPIs"
    /\ metal3Served
    /\ pc' = [pc EXCEPT ![p] = @ + 1]
    /\ UNCHANGED <<metal3Served, leader>>

\* mgr.Start: with leader election the controllers wait for the lease,
\* without it they start at once.
StartManager(p) ==
    /\ StepAt(p, pc) = "start"
    /\ pc' = [pc EXCEPT ![p] = IF LeaderElect THEN Standby ELSE Running]
    /\ UNCHANGED <<metal3Served, leader>>

\* A standby replica takes the free lease and starts its controllers.
AcquireLease(p) ==
    /\ pc[p] = Standby
    /\ leader = NoLeader
    /\ leader' = p
    /\ pc' = [pc EXCEPT ![p] = Running]
    /\ UNCHANGED metal3Served

\* The leader fails to renew within RenewDeadline: mgr.Start returns
\* "leader election lost" and main exits.
LoseLease(p) ==
    /\ LeaderElect
    /\ pc[p] = Running
    /\ leader = p
    /\ pc' = [pc EXCEPT ![p] = Exited]
    /\ UNCHANGED <<metal3Served, leader>>

\* A lease whose holder stopped renewing expires after LeaseDuration.
LeaseExpiresEarly ==
    /\ leader # NoLeader
    /\ leader' = NoLeader
    /\ UNCHANGED <<pc, metal3Served>>

\* The lease expires once its holder is no longer in the reconcile loop
\* (RenewDeadline < LeaseDuration).
LeaseExpires ==
    /\ leader # NoLeader
    /\ pc[leader] # Running
    /\ leader' = NoLeader
    /\ UNCHANGED <<pc, metal3Served>>

\* The kubelet restarts an exited container from the top of main().
Restart(p) ==
    /\ pc[p] = Exited
    /\ pc' = [pc EXCEPT ![p] = 1]
    /\ UNCHANGED <<metal3Served, leader>>

\* The metal3 CRDs are installed or removed.
ToggleAPI ==
    /\ metal3Served' = ~metal3Served
    /\ UNCHANGED <<pc, leader>>

\* The steps replica p takes by itself.
Proc(p) ==
    Advance(p) \/ PollAPI(p) \/ StartManager(p) \/ AcquireLease(p) \/ Restart(p)

Next ==
    \/ \E p \in Procs : Proc(p) \/ Fail(p) \/ LoseLease(p)
    \/ LeaseExpires
    \/ ToggleAPI

\* A replica that can take a step does (controller-runtime, the kubelet and
\* the Go scheduler do not stall), and an expired lease is freed. Failures,
\* lost leases and CRD changes are not fair.
Fairness ==
    /\ \A p \in Procs : WF_vars(Proc(p))
    /\ WF_vars(LeaseExpires)

Spec == Init /\ [][Next]_vars

LiveSpec == Spec /\ Fairness

(***************************************************************************)
(* Properties.                                                             *)
(***************************************************************************)

\* Spec section 5: leader election guarantees that at most one process runs
\* the reconcile loop, so that reconciles of one Remediation are serialized
\* across replicas as well as within one.
SingleActiveReconciler ==
    \A p, q \in Procs : pc[p] = Running /\ pc[q] = Running => p = q

\* Once the metal3 API group stays served and the setup calls stop failing,
\* the replicas keep coming back to the reconcile loop: someone runs it
\* again after every restart or lost lease.
ReconcilerKeepsRunning ==
    (<>[]metal3Served /\ <>[][\A p \in Procs : ~Fail(p)]_vars)
        => []<>(\E p \in Procs : pc[p] = Running)

=============================================================================
