----------------------------- MODULE StartupProofs -----------------------------
(***************************************************************************)
(* Proofs about the process model of main.go: the type invariant, and     *)
(* that with --leader-elect at most one replica runs the reconcile loop,   *)
(* for any number of replicas and any set of failing setup calls.         *)
(***************************************************************************)
EXTENDS Startup, TLAPS

\* The positions of the setup sequence and the three positions after it.
LEMMA Positions ==
    /\ Len(Setup) = 13
    /\ Standby = 14 /\ Running = 15 /\ Exited = 16
BY DEF Setup, Standby, Running, Exited

\* A replica whose current step is a setup call is inside the sequence.
LEMMA StepInSetup ==
    ASSUME NEW p, NEW pcv, NEW s, s # "past", StepAt(p, pcv) = s
    PROVE  pcv[p] <= Len(Setup)
BY DEF StepAt

\* The inductive invariant: with leader election, a replica runs its
\* controllers only while it holds the lease.
RunningHoldsLease ==
    LeaderElect => \A p \in Procs : pc[p] = Running => leader = p

IInv == TypeOK /\ RunningHoldsLease

LEMMA InitIInv == Init => IInv
<1> SUFFICES ASSUME Init PROVE IInv
    OBVIOUS
<1>1. TypeOK
    BY Positions, StartupAssumption DEF Init, TypeOK, PcValues
<1>2. RunningHoldsLease
    BY Positions DEF Init, RunningHoldsLease
<1> QED
    BY <1>1, <1>2 DEF IInv

LEMMA IInvStep == IInv /\ [Next]_vars => IInv'
<1> SUFFICES ASSUME IInv, [Next]_vars PROVE IInv'
    OBVIOUS
<1> USE Positions, StartupAssumption DEF IInv, TypeOK, PcValues
<1>1. ASSUME NEW p \in Procs, Advance(p) PROVE IInv'
    <2>1. pc[p] + 1 <= Len(Setup)
        BY <1>1 DEF Advance
    <2> QED
        BY <1>1, <2>1 DEF Advance, RunningHoldsLease
<1>2. ASSUME NEW p \in Procs, PollAPI(p) PROVE IInv'
    <2>1. pc[p] <= Len(Setup)
        BY <1>2, StepInSetup DEF PollAPI
    <2> QED
        BY <1>2, <2>1 DEF PollAPI, RunningHoldsLease
<1>3. ASSUME NEW p \in Procs, StartManager(p) PROVE IInv'
    <2>1. pc[p] <= Len(Setup)
        BY <1>3, StepInSetup DEF StartManager
    <2>2. CASE LeaderElect
        BY <1>3, <2>1, <2>2 DEF StartManager, RunningHoldsLease
    <2>3. CASE ~LeaderElect
        BY <1>3, <2>1, <2>3 DEF StartManager, RunningHoldsLease
    <2> QED
        BY <2>2, <2>3
<1>4. ASSUME NEW p \in Procs, AcquireLease(p) PROVE IInv'
    \* No replica runs while the lease is free, so p is the only runner.
    <2>1. \A q \in Procs : pc[q] # Running \/ ~LeaderElect
        BY <1>4 DEF AcquireLease, RunningHoldsLease
    <2> QED
        BY <1>4, <2>1 DEF AcquireLease, RunningHoldsLease
<1>5. ASSUME NEW p \in Procs, Restart(p) PROVE IInv'
    BY <1>5 DEF Restart, RunningHoldsLease
<1>6. ASSUME NEW p \in Procs, Fail(p) PROVE IInv'
    BY <1>6 DEF Fail, RunningHoldsLease
<1>7. ASSUME NEW p \in Procs, LoseLease(p) PROVE IInv'
    BY <1>7 DEF LoseLease, RunningHoldsLease
<1>8. CASE LeaseExpires
    \* The holder is not running, and every runner holds the lease.
    BY <1>8 DEF LeaseExpires, RunningHoldsLease
<1>9. CASE ToggleAPI
    BY <1>9 DEF ToggleAPI, RunningHoldsLease
<1>10. CASE UNCHANGED vars
    BY <1>10 DEF vars, RunningHoldsLease
<1> QED
    BY <1>1, <1>2, <1>3, <1>4, <1>5, <1>6, <1>7, <1>8, <1>9, <1>10
       DEF Next, Proc

\* Every state of the process model is well typed.
THEOREM StartupTypeCorrect == Spec => []TypeOK
<1>1. IInv => TypeOK
    BY DEF IInv
<1> QED
    BY InitIInv, IInvStep, <1>1, PTL DEF Spec

\* With --leader-elect, controller-runtime's lease makes the replicas of
\* the Deployment take turns: at no time do two of them run the reconcile
\* loop of mgr.Start, whatever setup calls fail and however often the
\* kubelet restarts them.
THEOREM ElectionSerializes ==
    ASSUME LeaderElect PROVE Spec => []SingleActiveReconciler
<1>1. IInv => SingleActiveReconciler
    BY DEF IInv, RunningHoldsLease, SingleActiveReconciler
<1> QED
    BY InitIInv, IInvStep, <1>1, PTL DEF Spec

=============================================================================
