--------------------- MODULE Metal3RemediationProofs ----------------------
(***************************************************************************)
(* Proofs about the Metal3Remediation reconciler, for every value of the   *)
(* constants that satisfies ConstantsAssumption.                           *)
(***************************************************************************)
EXTENDS Metal3Remediation, TLAPS

(* TypeOK, one conjunct per group of variables: the Remediation, the Host, *)
(* the Machine and the Node.                                               *)
TypeRem ==
    /\ rem \in Remediation /\ remExists \in BOOLEAN /\ remDeleting \in BOOLEAN
    /\ retryLimit \in RetryLimits /\ timedOut \in BOOLEAN
TypeHost ==
    /\ powerOffAnn \in BOOLEAN /\ poweredOn \in BOOLEAN /\ online \in BOOLEAN
    /\ unhealthyAnn \in BOOLEAN /\ externallyProvisioned \in BOOLEAN
TypeMachine ==
    /\ machine \in {"present", "deleting", "gone"}
    /\ hasControllerOwner \in BOOLEAN /\ isMaster \in BOOLEAN
TypeNode ==
    /\ nodeExists \in BOOLEAN /\ nodeMeta \in Meta /\ nodeForbidden \in BOOLEAN
    /\ deletedMeta \in Meta \cup {None}

(* TypeOK is the conjunction of the four groups, now and in the next state. *)
LEMMA TypeSplit ==
    /\ TypeOK <=> TypeRem /\ TypeHost /\ TypeMachine /\ TypeNode
    /\ TypeOK' <=> TypeRem' /\ TypeHost' /\ TypeMachine' /\ TypeNode'
BY DEF TypeOK, TypeRem, TypeHost, TypeMachine, TypeNode

(* A group of variables a step leaves alone keeps its type. *)
LEMMA Unchanged ==
    /\ TypeRem /\ UNCHANGED remVars => TypeRem'
    /\ TypeHost /\ UNCHANGED hostVars => TypeHost'
    /\ TypeMachine /\ UNCHANGED machineVars => TypeMachine'
    /\ TypeNode /\ UNCHANGED nodeVars => TypeNode'
BY DEF TypeRem, remVars, TypeHost, hostVars, TypeMachine, machineVars,
       TypeNode, nodeVars

(* The deferred patch of a well-typed Remediation keeps the Remediation's *)
(* variables well typed.                                                   *)
LEMMA CommitType ==
    ASSUME NEW new \in Remediation, NEW patched \in BOOLEAN,
           TypeRem, Commit(new, patched),
           UNCHANGED <<remDeleting, retryLimit>>, timedOut' \in BOOLEAN
    PROVE  TypeRem'
BY DEF Commit, TypeRem

(* Restamp keeps the timeout flag Boolean. *)
LEMMA RestampType ==
    ASSUME TypeRem, NEW patched \in BOOLEAN, Restamp(patched)
    PROVE  timedOut' \in BOOLEAN
BY DEF Restamp, TypeRem

(* The record updates of the reconcile exit paths stay in Remediation. *)
LEMMA UpdateType ==
    ASSUME TypeRem, NEW m \in Meta
    PROVE  /\ [rem EXCEPT !.phase = "Failed"] \in Remediation
           /\ [rem EXCEPT !.phase = "Running", !.stamped = TRUE] \in Remediation
           /\ [rem EXCEPT !.finalizer = TRUE] \in Remediation
           /\ [rem EXCEPT !.backup = m] \in Remediation
           /\ [rem EXCEPT !.phase = "Waiting"] \in Remediation
           /\ [rem EXCEPT !.backup = NoBackup, !.finalizer = FALSE] \in Remediation
           /\ [rem EXCEPT !.finalizer = FALSE] \in Remediation
           /\ [rem EXCEPT !.phase = "Deleting"] \in Remediation
<1>1. NoBackup \in Meta
  BY DEF NoBackup, Meta
<1>. QED BY <1>1 DEF TypeRem, Remediation, Phases

(* restoreNode yields a well-typed map. *)
LEMMA RestoreNodeType ==
    ASSUME NEW meta \in Meta, NEW backup \in Meta
    PROVE  RestoreNode(meta, backup) \in Meta
BY DEF RestoreNode, MergeMaps, Meta

(* Each reconcile exit path keeps every variable in its domain. *)
LEMMA ReconcileType ==
    ASSUME TypeOK, NEW patched \in BOOLEAN, Reconcile(patched)
    PROVE  TypeOK'
<1> USE ConstantsAssumption
<1>0. TypeRem /\ TypeHost /\ TypeMachine /\ TypeNode
  BY TypeSplit
<1> SUFFICES TypeRem' /\ TypeHost' /\ TypeMachine' /\ TypeNode'
  BY TypeSplit
<1>1. CASE ReconcileOffline(patched)
  BY <1>0, <1>1, UpdateType, CommitType, Unchanged DEF ReconcileOffline, TypeRem
<1>2. CASE ReconcileInit(patched)
  BY <1>0, <1>2, UpdateType, CommitType, RestampType, Unchanged DEF ReconcileInit
<1>3. CASE AddFinalizer(patched)
  BY <1>0, <1>3, UpdateType, CommitType, Unchanged DEF AddFinalizer, TypeRem
<1>4. CASE RequestPowerOff
  <2>1. TypeHost'
    BY <1>0, <1>4 DEF RequestPowerOff, TypeHost
  <2>. QED BY <1>0, <1>4, <2>1, Unchanged DEF RequestPowerOff
<1>5. CASE BackupNode(patched)
  <2>1. [rem EXCEPT !.backup = nodeMeta] \in Remediation
    BY <1>0, UpdateType DEF TypeNode
  <2>. QED BY <1>0, <1>5, <2>1, CommitType, Unchanged DEF BackupNode, TypeRem
<1>6. CASE DeleteNode
  <2>1. TypeNode'
    BY <1>0, <1>6 DEF DeleteNode, TypeNode
  <2>. QED BY <1>0, <1>6, <2>1, Unchanged DEF DeleteNode
<1>7. CASE EnterWaiting(patched)
  BY <1>0, <1>7, UpdateType, CommitType, Unchanged DEF EnterWaiting, TypeRem
<1>8. CASE WaitPowerOn
  <2>1. TypeHost'
    BY <1>0, <1>8 DEF WaitPowerOn, WaitingStart, TypeHost
  <2>. QED BY <1>0, <1>8, <2>1, Unchanged DEF WaitPowerOn
<1>9. CASE RestoreNodeAndRelease(patched)
  <2>1. TypeRem'
    BY <1>0, <1>9, UpdateType, CommitType DEF RestoreNodeAndRelease, TypeRem
  <2>2. TypeHost'
    BY <1>0, <1>9 DEF RestoreNodeAndRelease, WaitingStart, TypeHost
  <2>3. TypeNode'
    <3>1. RestoreNode(nodeMeta, rem.backup) \in Meta
      BY <1>0, RestoreNodeType DEF TypeNode, TypeRem, Remediation
    <3>. QED BY <1>0, <1>9, <3>1 DEF RestoreNodeAndRelease, TypeNode
  <2>. QED BY <1>0, <1>9, <2>1, <2>2, <2>3, Unchanged DEF RestoreNodeAndRelease
<1>10. CASE ReleaseForbidden(patched)
  <2>1. TypeRem'
    BY <1>0, <1>10, UpdateType, CommitType DEF ReleaseForbidden, TypeRem
  <2>2. TypeHost'
    BY <1>0, <1>10 DEF ReleaseForbidden, WaitingStart, TypeHost
  <2>. QED BY <1>0, <1>10, <2>1, <2>2, Unchanged DEF ReleaseForbidden
<1>11. CASE Retry(patched)
  <2>1. [rem EXCEPT !.phase = "Running", !.stamped = TRUE, !.retryCount = @ + 1]
            \in Remediation
    <3>1. rem.retryCount < MaxRetry
      BY <1>11 DEF Retry
    <3>2. rem.retryCount + 1 \in 0..MaxRetry
      BY <1>0, <3>1 DEF TypeRem, Remediation
    <3>. QED BY <1>0, <3>2 DEF TypeRem, Remediation, Phases
  <2>2. TypeRem'
    BY <1>0, <1>11, <2>1, CommitType, RestampType DEF Retry
  <2>3. TypeHost'
    BY <1>0, <1>11 DEF Retry, PastRestore, WaitingStart, TypeHost
  <2>. QED BY <1>0, <1>11, <2>2, <2>3, Unchanged DEF Retry
<1>12. CASE Escalate(patched)
  <2>1. TypeRem'
    <3>1. CASE Commit([rem EXCEPT !.phase = "Deleting"], patched)
      BY <1>0, <1>12, <3>1, UpdateType, CommitType DEF Escalate, TypeRem
    <3>2. CASE Commit(rem, patched)
      BY <1>0, <1>12, <3>2, CommitType DEF Escalate, TypeRem
    <3>. QED BY <1>12, <3>1, <3>2 DEF Escalate
  <2>2. TypeHost'
    BY <1>0, <1>12 DEF Escalate, PastRestore, WaitingStart, TypeHost
  <2>3. TypeMachine'
    BY <1>0, <1>12 DEF Escalate, TypeMachine
  <2>. QED BY <1>0, <1>12, <2>1, <2>2, <2>3, Unchanged DEF Escalate
<1>. QED BY <1>1, <1>2, <1>3, <1>4, <1>5, <1>6, <1>7, <1>8, <1>9, <1>10, <1>11, <1>12
         DEF Reconcile

(* Each step of the other actors keeps every variable in its domain. *)
LEMMA EnvironmentType ==
    ASSUME TypeOK, Environment
    PROVE  TypeOK'
<1> USE ConstantsAssumption
<1>0. TypeRem /\ TypeHost /\ TypeMachine /\ TypeNode
  BY TypeSplit
<1> SUFFICES TypeRem' /\ TypeHost' /\ TypeMachine' /\ TypeNode'
  BY TypeSplit
<1>1. CASE HostPowerOff
  BY <1>0, <1>1, Unchanged DEF HostPowerOff, TypeHost
<1>2. CASE HostPowerOn
  BY <1>0, <1>2, Unchanged DEF HostPowerOn, TypeHost
<1>3. CASE NodeRegister
  BY <1>0, <1>3, Unchanged DEF NodeRegister, TypeNode
<1>4. CASE Tick
  BY <1>0, <1>4, Unchanged DEF Tick, TypeRem
<1>5. CASE RemediationDeleted
  BY <1>0, <1>5, Unchanged DEF RemediationDeleted, TypeRem, Remediation
<1>6. CASE MachineRemoved
  BY <1>0, <1>6, Unchanged DEF MachineRemoved, TypeMachine
<1>7. CASE SetOnline
  BY <1>0, <1>7, Unchanged DEF SetOnline, TypeHost
<1>8. CASE EditRetryLimit
  BY <1>0, <1>8, Unchanged DEF EditRetryLimit, TypeRem
<1>. QED BY <1>1, <1>2, <1>3, <1>4, <1>5, <1>6, <1>7, <1>8 DEF Environment

(* Every reachable state is well typed, whatever the constants. *)
THEOREM TypeCorrect == Spec => []TypeOK
<1>1. Init => TypeOK
  <2> SUFFICES ASSUME Init PROVE TypeRem /\ TypeHost /\ TypeMachine /\ TypeNode
    BY TypeSplit
  <2>1. NoBackup \in Meta
    BY DEF NoBackup, Meta
  <2>2. rem \in Remediation
    <3>1. 0 \in 0..MaxRetry
      BY ConstantsAssumption
    <3>. QED BY <2>1, <3>1 DEF Init, Remediation, Phases
  <2>3. TypeRem
    BY <2>2 DEF Init, TypeRem
  <2>. QED BY <2>3, ConstantsAssumption DEF Init, TypeHost, TypeMachine, TypeNode
<1>2. TypeOK /\ [Next]_vars => TypeOK'
  <2> SUFFICES ASSUME TypeOK, [Next]_vars PROVE TypeOK'
    OBVIOUS
  <2>1. CASE \E patched \in BOOLEAN : Reconcile(patched)
    BY <2>1, ReconcileType
  <2>2. CASE Environment
    BY <2>2, EnvironmentType
  <2>3. CASE UNCHANGED vars
    BY <2>3, TypeSplit, Unchanged DEF vars
  <2>. QED BY <2>1, <2>2, <2>3 DEF Next
<1>. QED BY <1>1, <1>2, PTL DEF Spec

-----------------------------------------------------------------------------
(* The power-off hold.  PowerHoldBracketedByFinalizer is inductive on its *)
(* own, given the types: only RequestPowerOff sets the annotation, and it  *)
(* requires the finalizer; only RestoreNodeAndRelease and ReleaseForbidden *)
(* clear the finalizer, and both first remove the annotation (WaitingStart);*)
(* the API server removes a Remediation being deleted only once its last   *)
(* finalizer is gone (Commit, RemediationDeleted).                         *)
(* A deferred patch that keeps the finalizer, or adds it, while the Host *)
(* annotation is left alone keeps the power-off hold bracketed.           *)
LEMMA CommitKeepsHold ==
    ASSUME NEW new, NEW patched \in BOOLEAN, PowerHoldBracketedByFinalizer,
           Commit(new, patched), powerOffAnn' = powerOffAnn,
           rem.finalizer = TRUE => new.finalizer = TRUE
    PROVE  PowerHoldBracketedByFinalizer'
BY DEF Commit, PowerHoldBracketedByFinalizer

LEMMA PowerHoldStep ==
    ASSUME TypeOK, PowerHoldBracketedByFinalizer, [Next]_vars
    PROVE  PowerHoldBracketedByFinalizer'
<1> USE DEF PowerHoldBracketedByFinalizer
<1>1. ASSUME NEW patched \in BOOLEAN, Reconcile(patched)
      PROVE  PowerHoldBracketedByFinalizer'
  <2>1. CASE ReconcileOffline(patched)
    <3>1. rem.finalizer = TRUE => [rem EXCEPT !.phase = "Failed"].finalizer = TRUE
      BY DEF TypeOK, Remediation
    <3>. QED BY <2>1, <3>1, CommitKeepsHold DEF ReconcileOffline, hostVars
  <2>2. CASE ReconcileInit(patched)
    <3>1. rem.finalizer = TRUE
            => [rem EXCEPT !.phase = "Running", !.stamped = TRUE].finalizer = TRUE
      BY DEF TypeOK, Remediation
    <3>. QED BY <2>2, <3>1, CommitKeepsHold DEF ReconcileInit, hostVars
  <2>3. CASE AddFinalizer(patched)
    <3>1. rem.finalizer = TRUE => [rem EXCEPT !.finalizer = TRUE].finalizer = TRUE
      BY DEF TypeOK, Remediation
    <3>. QED BY <2>3, <3>1, CommitKeepsHold DEF AddFinalizer, hostVars
  <2>4. CASE RequestPowerOff
    BY <2>4 DEF RequestPowerOff, RunningGuard, Remediable, Reconcilable, remVars
  <2>5. CASE BackupNode(patched)
    <3>1. rem.finalizer = TRUE => [rem EXCEPT !.backup = nodeMeta].finalizer = TRUE
      BY DEF TypeOK, Remediation
    <3>. QED BY <2>5, <3>1, CommitKeepsHold DEF BackupNode, hostVars
  <2>6. CASE DeleteNode
    BY <2>6 DEF DeleteNode, remVars, hostVars
  <2>7. CASE EnterWaiting(patched)
    <3>1. rem.finalizer = TRUE => [rem EXCEPT !.phase = "Waiting"].finalizer = TRUE
      BY DEF TypeOK, Remediation
    <3>. QED BY <2>7, <3>1, CommitKeepsHold DEF EnterWaiting, hostVars
  <2>8. CASE WaitPowerOn
    BY <2>8 DEF WaitPowerOn, WaitingStart
  <2>9. CASE RestoreNodeAndRelease(patched)
    BY <2>9 DEF RestoreNodeAndRelease, WaitingStart
  <2>10. CASE ReleaseForbidden(patched)
    BY <2>10 DEF ReleaseForbidden, WaitingStart
  <2>11. CASE Retry(patched)
    BY <2>11 DEF Retry, PastRestore, WaitingStart
  <2>12. CASE Escalate(patched)
    BY <2>12 DEF Escalate, PastRestore, WaitingStart
  <2>. QED BY <1>1, <2>1, <2>2, <2>3, <2>4, <2>5, <2>6, <2>7, <2>8, <2>9, <2>10,
              <2>11, <2>12 DEF Reconcile
<1>2. CASE Environment
  <2>1. CASE RemediationDeleted
    BY <2>1 DEF RemediationDeleted, hostVars
  <2>2. CASE HostPowerOff \/ HostPowerOn \/ NodeRegister \/ SetOnline
    BY <2>2 DEF HostPowerOff, HostPowerOn, NodeRegister, SetOnline, remVars, hostVars
  <2>3. CASE Tick \/ MachineRemoved \/ EditRetryLimit
    BY <2>3 DEF Tick, MachineRemoved, EditRetryLimit, remVars, hostVars
  <2>. QED BY <1>2, <2>1, <2>2, <2>3 DEF Environment
<1>3. CASE UNCHANGED vars
  BY <1>3 DEF vars, remVars, hostVars
<1>. QED BY <1>1, <1>2, <1>3 DEF Next

(* The Host is held off only while the Remediation exists with its        *)
(* finalizer, in every reachable state and for every value of the          *)
(* constants (the run MCMetal3Remediation checks it on a small instance).  *)
THEOREM PowerHoldSafe == Spec => []PowerHoldBracketedByFinalizer
<1>1. Init => PowerHoldBracketedByFinalizer
  BY DEF Init, PowerHoldBracketedByFinalizer
<1>2. TypeOK /\ PowerHoldBracketedByFinalizer /\ [Next]_vars
          => PowerHoldBracketedByFinalizer'
  BY PowerHoldStep
<1>. QED BY <1>1, <1>2, TypeCorrect, PTL DEF Spec

-----------------------------------------------------------------------------
(* The Node backup.  BackupMatchesDeletedNode is not inductive: a          *)
(* Remediation without its finalizer may hold any backup, and adding the   *)
(* finalizer (AddFinalizer) would then break it.  The strengthening drops  *)
(* the finalizer: while the Node the reconciler deleted is gone, the       *)
(* stored backup is its annotations and labels.  Only BackupNode and       *)
(* RestoreNodeAndRelease change the backup, and both need a visible Node;  *)
(* DeleteNode deletes only a Node equal to the stored backup.              *)
NodeBackupInv == (~nodeExists /\ deletedMeta # None) => rem.backup = deletedMeta

(* A deferred patch that does not touch the backup leaves it as stored. *)
LEMMA CommitKeepsBackup ==
    ASSUME NEW new, NEW patched \in BOOLEAN, Commit(new, patched),
           new.backup = rem.backup
    PROVE  rem'.backup = rem.backup
BY DEF Commit

LEMMA NodeBackupStep ==
    ASSUME TypeOK, NodeBackupInv, [Next]_vars
    PROVE  NodeBackupInv'
<1> USE DEF NodeBackupInv
<1>1. ASSUME NEW patched \in BOOLEAN, Reconcile(patched)
      PROVE  NodeBackupInv'
  <2>1. CASE ReconcileOffline(patched)
    <3>1. [rem EXCEPT !.phase = "Failed"].backup = rem.backup
      BY DEF TypeOK, Remediation
    <3>. QED BY <2>1, <3>1, CommitKeepsBackup DEF ReconcileOffline, nodeVars
  <2>2. CASE ReconcileInit(patched)
    <3>1. [rem EXCEPT !.phase = "Running", !.stamped = TRUE].backup = rem.backup
      BY DEF TypeOK, Remediation
    <3>. QED BY <2>2, <3>1, CommitKeepsBackup DEF ReconcileInit, nodeVars
  <2>3. CASE AddFinalizer(patched)
    <3>1. [rem EXCEPT !.finalizer = TRUE].backup = rem.backup
      BY DEF TypeOK, Remediation
    <3>. QED BY <2>3, <3>1, CommitKeepsBackup DEF AddFinalizer, nodeVars
  <2>4. CASE RequestPowerOff
    BY <2>4 DEF RequestPowerOff, remVars, nodeVars
  <2>5. CASE BackupNode(patched)
    BY <2>5 DEF BackupNode, PoweredOffWithNode, NodeVisible, nodeVars
  <2>6. CASE DeleteNode
    BY <2>6 DEF DeleteNode, remVars
  <2>7. CASE EnterWaiting(patched)
    <3>1. [rem EXCEPT !.phase = "Waiting"].backup = rem.backup
      BY DEF TypeOK, Remediation
    <3>. QED BY <2>7, <3>1, CommitKeepsBackup DEF EnterWaiting, nodeVars
  <2>8. CASE WaitPowerOn
    BY <2>8 DEF WaitPowerOn, remVars, nodeVars
  <2>9. CASE RestoreNodeAndRelease(patched)
    BY <2>9 DEF RestoreNodeAndRelease, NodeVisible
  <2>10. CASE ReleaseForbidden(patched)
    <3>1. [rem EXCEPT !.finalizer = FALSE].backup = rem.backup
      BY DEF TypeOK, Remediation
    <3>. QED BY <2>10, <3>1, CommitKeepsBackup DEF ReleaseForbidden, nodeVars
  <2>11. CASE Retry(patched)
    <3>1. [rem EXCEPT !.phase = "Running", !.stamped = TRUE,
                      !.retryCount = @ + 1].backup = rem.backup
      BY DEF TypeOK, Remediation
    <3>. QED BY <2>11, <3>1, CommitKeepsBackup DEF Retry, nodeVars
  <2>12. CASE Escalate(patched)
    <3>1. [rem EXCEPT !.phase = "Deleting"].backup = rem.backup
      BY DEF TypeOK, Remediation
    <3>. QED BY <2>12, <3>1, CommitKeepsBackup DEF Escalate, nodeVars
  <2>. QED BY <1>1, <2>1, <2>2, <2>3, <2>4, <2>5, <2>6, <2>7, <2>8, <2>9, <2>10,
              <2>11, <2>12 DEF Reconcile
<1>2. CASE Environment
  <2>1. CASE NodeRegister
    BY <2>1 DEF NodeRegister
  <2>2. CASE HostPowerOff \/ HostPowerOn \/ Tick \/ RemediationDeleted
    BY <2>2 DEF HostPowerOff, HostPowerOn, Tick, RemediationDeleted, remVars,
                nodeVars
  <2>3. CASE MachineRemoved \/ SetOnline \/ EditRetryLimit
    BY <2>3 DEF MachineRemoved, SetOnline, EditRetryLimit, remVars, nodeVars
  <2>. QED BY <1>2, <2>1, <2>2, <2>3 DEF Environment
<1>3. CASE UNCHANGED vars
  BY <1>3 DEF vars, remVars, nodeVars
<1>. QED BY <1>1, <1>2, <1>3 DEF Next

(* While the deleted Node is gone and the Remediation holds its finalizer, *)
(* the stored backup is that Node's annotations and labels, for every     *)
(* value of the constants (checked on a small instance by the run          *)
(* MCMetal3Remediation): backupNode's requeue makes the backup durable     *)
(* before DeleteNode, whichever deferred patches fail.                     *)
THEOREM BackupSafe == Spec => []BackupMatchesDeletedNode
<1>1. Init => NodeBackupInv
  BY DEF Init, NodeBackupInv
<1>2. TypeOK /\ NodeBackupInv /\ [Next]_vars => NodeBackupInv'
  BY NodeBackupStep
<1>3. NodeBackupInv => BackupMatchesDeletedNode
  BY DEF NodeBackupInv, BackupMatchesDeletedNode
<1>. QED BY <1>1, <1>2, <1>3, TypeCorrect, PTL DEF Spec

-----------------------------------------------------------------------------
(* Escalation.  DeletingMeansEscalated is inductive given the types: only *)
(* Escalate stores phase Deleting, and only on the path where             *)
(* SetUnhealthyAnnotation succeeded after DeleteMachine; nothing removes   *)
(* the unhealthy annotation or brings a Machine back, and no action        *)
(* changes what CanReprovision reads.                                      *)

(* A deferred patch that stores a phase other than Deleting, or keeps the *)
(* stored phase, keeps a Deleting Remediation Deleting and a              *)
(* non-Deleting one non-Deleting.                                          *)
LEMMA CommitPhase ==
    ASSUME NEW new, NEW patched \in BOOLEAN, Commit(new, patched),
           new.phase = rem.phase \/ new.phase # "Deleting"
    PROVE  rem'.phase = "Deleting" => rem.phase = "Deleting"
BY DEF Commit

(* A step of a live Remediation that stores phase Deleting only if it was *)
(* already stored, and leaves the escalation's effects and what           *)
(* CanReprovision reads alone, keeps DeletingMeansEscalated.              *)
LEMMA EscalationFrame ==
    ASSUME DeletingMeansEscalated, remExists,
           rem'.phase = "Deleting" => rem.phase = "Deleting",
           UNCHANGED <<unhealthyAnn, machine, externallyProvisioned,
                       hasControllerOwner, isMaster>>
    PROVE  DeletingMeansEscalated'
BY DEF DeletingMeansEscalated, CanReprovision

LEMMA EscalatedStep ==
    ASSUME TypeOK, DeletingMeansEscalated, [Next]_vars
    PROVE  DeletingMeansEscalated'
<1> USE DEF DeletingMeansEscalated, CanReprovision
<1>1. ASSUME NEW patched \in BOOLEAN, Reconcile(patched)
      PROVE  DeletingMeansEscalated'
  <2>1. CASE ReconcileOffline(patched)
    <3>1. [rem EXCEPT !.phase = "Failed"].phase # "Deleting"
      BY DEF TypeOK, Remediation
    <3>2. rem'.phase = "Deleting" => rem.phase = "Deleting"
      BY <2>1, <3>1, CommitPhase DEF ReconcileOffline
    <3>. QED BY <2>1, <3>2, EscalationFrame DEF ReconcileOffline, Reconcilable,
            hostVars, machineVars
  <2>2. CASE ReconcileInit(patched)
    <3>1. [rem EXCEPT !.phase = "Running", !.stamped = TRUE].phase # "Deleting"
      BY DEF TypeOK, Remediation
    <3>2. rem'.phase = "Deleting" => rem.phase = "Deleting"
      BY <2>2, <3>1, CommitPhase DEF ReconcileInit
    <3>. QED BY <2>2, <3>2, EscalationFrame DEF ReconcileInit, Remediable,
            Reconcilable, hostVars, machineVars
  <2>3. CASE AddFinalizer(patched)
    <3>1. [rem EXCEPT !.finalizer = TRUE].phase = rem.phase
      BY DEF TypeOK, Remediation
    <3>2. rem'.phase = "Deleting" => rem.phase = "Deleting"
      BY <2>3, <3>1, CommitPhase DEF AddFinalizer
    <3>. QED BY <2>3, <3>2, EscalationFrame DEF AddFinalizer, RunningGuard,
            Remediable, Reconcilable, hostVars, machineVars
  <2>4. CASE RequestPowerOff
    BY <2>4 DEF RequestPowerOff, remVars, machineVars
  <2>5. CASE BackupNode(patched)
    <3>1. [rem EXCEPT !.backup = nodeMeta].phase = rem.phase
      BY DEF TypeOK, Remediation
    <3>2. rem'.phase = "Deleting" => rem.phase = "Deleting"
      BY <2>5, <3>1, CommitPhase DEF BackupNode
    <3>. QED BY <2>5, <3>2, EscalationFrame DEF BackupNode, PoweredOffWithNode,
            RunningGuard, Remediable, Reconcilable, hostVars, machineVars
  <2>6. CASE DeleteNode
    BY <2>6 DEF DeleteNode, remVars, hostVars, machineVars
  <2>7. CASE EnterWaiting(patched)
    <3>1. [rem EXCEPT !.phase = "Waiting"].phase # "Deleting"
      BY DEF TypeOK, Remediation
    <3>2. rem'.phase = "Deleting" => rem.phase = "Deleting"
      BY <2>7, <3>1, CommitPhase DEF EnterWaiting
    <3>. QED BY <2>7, <3>2, EscalationFrame DEF EnterWaiting, RunningGuard,
            Remediable, Reconcilable, hostVars, machineVars
  <2>8. CASE WaitPowerOn
    BY <2>8 DEF WaitPowerOn, WaitingStart, remVars, machineVars
  <2>9. CASE RestoreNodeAndRelease(patched)
    <3>1. [rem EXCEPT !.backup = NoBackup, !.finalizer = FALSE].phase = rem.phase
      BY DEF TypeOK, Remediation
    <3>2. rem'.phase = "Deleting" => rem.phase = "Deleting"
      BY <2>9, <3>1, CommitPhase DEF RestoreNodeAndRelease
    <3>. QED BY <2>9, <3>2, EscalationFrame DEF RestoreNodeAndRelease,
            WaitingStart, Remediable, Reconcilable, hostVars, machineVars
  <2>10. CASE ReleaseForbidden(patched)
    <3>1. [rem EXCEPT !.finalizer = FALSE].phase = rem.phase
      BY DEF TypeOK, Remediation
    <3>2. rem'.phase = "Deleting" => rem.phase = "Deleting"
      BY <2>10, <3>1, CommitPhase DEF ReleaseForbidden
    <3>. QED BY <2>10, <3>2, EscalationFrame DEF ReleaseForbidden, WaitingStart,
            Remediable, Reconcilable, hostVars, machineVars
  <2>11. CASE Retry(patched)
    <3>1. [rem EXCEPT !.phase = "Running", !.stamped = TRUE,
                      !.retryCount = @ + 1].phase # "Deleting"
      BY DEF TypeOK, Remediation
    <3>2. rem'.phase = "Deleting" => rem.phase = "Deleting"
      BY <2>11, <3>1, CommitPhase DEF Retry
    <3>. QED BY <2>11, <3>2, EscalationFrame DEF Retry, PastRestore,
            WaitingStart, Remediable, Reconcilable, hostVars, machineVars
  <2>12. CASE Escalate(patched)
    <3>1. rem.phase = "Waiting"
      BY <2>12 DEF Escalate, PastRestore, WaitingStart
    <3>2. CASE unhealthyAnn' = TRUE
      BY <2>12, <3>2 DEF Escalate
    <3>3. CASE unhealthyAnn' # TRUE
      <4>1. Commit(rem, patched)
        BY <2>12, <3>3 DEF Escalate
      <4>. QED BY <3>1, <4>1, CommitPhase
    <3>. QED BY <3>2, <3>3
  <2>. QED BY <1>1, <2>1, <2>2, <2>3, <2>4, <2>5, <2>6, <2>7, <2>8, <2>9, <2>10,
              <2>11, <2>12 DEF Reconcile
<1>2. CASE Environment
  <2>1. CASE MachineRemoved
    BY <2>1 DEF MachineRemoved, remVars, hostVars
  <2>2. CASE RemediationDeleted
    BY <2>2 DEF RemediationDeleted, hostVars, machineVars
  <2>3. CASE HostPowerOff \/ HostPowerOn \/ NodeRegister \/ Tick
    BY <2>3 DEF HostPowerOff, HostPowerOn, NodeRegister, Tick, remVars, hostVars,
                machineVars
  <2>4. CASE SetOnline
    BY <2>4 DEF SetOnline, remVars, machineVars
  <2>5. CASE EditRetryLimit
    BY <2>5 DEF EditRetryLimit, hostVars, machineVars
  <2>. QED BY <1>2, <2>1, <2>2, <2>3, <2>4, <2>5 DEF Environment
<1>3. CASE UNCHANGED vars
  BY <1>3 DEF vars, remVars, hostVars, machineVars
<1>. QED BY <1>1, <1>2, <1>3 DEF Next

(* A Remediation stored in phase Deleting has marked its Host unhealthy    *)
(* and, when the Machine could be re-provisioned, asked for its deletion,  *)
(* for every value of the constants (checked on a small instance by the    *)
(* run MCMetal3Remediation).                                               *)
THEOREM EscalationSafe == Spec => []DeletingMeansEscalated
<1>1. Init => DeletingMeansEscalated
  <2> SUFFICES ASSUME Init PROVE DeletingMeansEscalated
    OBVIOUS
  <2>1. rem.phase = ""
    BY DEF Init
  <2>. QED BY <2>1 DEF DeletingMeansEscalated
<1>2. TypeOK /\ DeletingMeansEscalated /\ [Next]_vars => DeletingMeansEscalated'
  BY EscalatedStep
<1>. QED BY <1>1, <1>2, TypeCorrect, PTL DEF Spec

-----------------------------------------------------------------------------
(* restoreNode keeps every key the live Node already has: mergeMaps only  *)
(* fills in the keys whose value on the Node is missing.                  *)
LEMMA RestoreKeepsPresent ==
    ASSUME NEW meta, NEW backup, NEW k \in Keys, meta[k] # None
    PROVE  RestoreNode(meta, backup)[k] = meta[k]
BY DEF RestoreNode, MergeMaps

(* restoreNode never overwrites an annotation or label already present on *)
(* the live Node (spec section 8, item 8), for every value of the         *)
(* constants: of the steps that keep a Node registered, only              *)
(* RestoreNodeAndRelease writes its maps, through mergeMaps with the       *)
(* Node's own maps prioritized; NodeRegister writes them only for a Node   *)
(* that did not exist.                                                     *)
THEOREM LiveKeysKept == Spec => RestoreKeepsLiveKeys
<1>1. [Next]_vars => (nodeExists /\ nodeExists' =>
        \A k \in Keys : nodeMeta[k] # None => nodeMeta'[k] = nodeMeta[k])
  <2> SUFFICES ASSUME [Next]_vars, nodeExists, nodeExists',
                      NEW k \in Keys, nodeMeta[k] # None
               PROVE  nodeMeta'[k] = nodeMeta[k]
    OBVIOUS
  <2>1. ASSUME NEW patched \in BOOLEAN, RestoreNodeAndRelease(patched)
        PROVE  nodeMeta'[k] = nodeMeta[k]
    BY <2>1, RestoreKeepsPresent DEF RestoreNodeAndRelease
  <2>2. ASSUME NEW patched \in BOOLEAN, Reconcile(patched),
               ~RestoreNodeAndRelease(patched)
        PROVE  nodeMeta'[k] = nodeMeta[k]
    BY <2>2 DEF Reconcile, ReconcileOffline, ReconcileInit, AddFinalizer,
                RequestPowerOff, BackupNode, DeleteNode, EnterWaiting,
                WaitPowerOn, ReleaseForbidden, Retry, Escalate, nodeVars
  <2>3. CASE Environment
    BY <2>3 DEF Environment, HostPowerOff, HostPowerOn, NodeRegister, Tick,
                RemediationDeleted, MachineRemoved, SetOnline, EditRetryLimit,
                nodeVars
  <2>4. CASE UNCHANGED vars
    BY <2>4 DEF vars, nodeVars
  <2>. QED BY <2>1, <2>2, <2>3, <2>4 DEF Next
<1>. QED BY <1>1, PTL DEF Spec, RestoreKeepsLiveKeys
-----------------------------------------------------------------------------
(* Refinement of RemediationPhases.  A Remediation being deleted that is   *)
(* still stored carries a finalizer: the API server removes it as soon as  *)
(* it has none (Commit, RemediationDeleted).  The refinement needs this in *)
(* one place: a Retry is never the step that removes the object, so its    *)
(* retryCount increment is never hidden behind a removal.                  *)
DeletingHasFinalizer == remExists /\ remDeleting => rem.finalizer

(* A deferred patch that leaves remDeleting alone keeps the invariant. *)
LEMMA CommitKeepsDeleting ==
    ASSUME NEW new, NEW patched \in BOOLEAN, Commit(new, patched),
           UNCHANGED remDeleting
    PROVE  DeletingHasFinalizer'
BY DEF Commit, DeletingHasFinalizer

LEMMA DeletingStep ==
    ASSUME DeletingHasFinalizer, [Next]_vars
    PROVE  DeletingHasFinalizer'
<1>1. ASSUME NEW patched \in BOOLEAN, Reconcile(patched)
      PROVE  DeletingHasFinalizer'
  <2>1. CASE \/ ReconcileOffline(patched) \/ ReconcileInit(patched)
             \/ AddFinalizer(patched) \/ BackupNode(patched)
             \/ EnterWaiting(patched) \/ RestoreNodeAndRelease(patched)
             \/ ReleaseForbidden(patched) \/ Retry(patched)
    BY <2>1, CommitKeepsDeleting
       DEF ReconcileOffline, ReconcileInit, AddFinalizer, BackupNode,
           EnterWaiting, RestoreNodeAndRelease, ReleaseForbidden, Retry
  <2>2. CASE Escalate(patched)
    BY <2>2, CommitKeepsDeleting DEF Escalate
  <2>3. CASE RequestPowerOff \/ DeleteNode \/ WaitPowerOn
    BY <2>3 DEF RequestPowerOff, DeleteNode, WaitPowerOn, remVars,
       DeletingHasFinalizer
  <2>. QED BY <1>1, <2>1, <2>2, <2>3 DEF Reconcile
<1>2. CASE RemediationDeleted
  BY <1>2 DEF RemediationDeleted, DeletingHasFinalizer
<1>3. CASE Environment /\ ~RemediationDeleted
  BY <1>3 DEF Environment, HostPowerOff, HostPowerOn, NodeRegister, Tick,
     MachineRemoved, SetOnline, EditRetryLimit, remVars, DeletingHasFinalizer
<1>4. CASE UNCHANGED vars
  BY <1>4 DEF vars, remVars, DeletingHasFinalizer
<1>. QED BY <1>1, <1>2, <1>3, <1>4 DEF Next

(* A fact about the API server's handling of finalizers that the         *)
(* refinement proof needs (see DeletingHasFinalizer above).               *)
LEMMA DeletingSafe == Spec => []DeletingHasFinalizer
<1>1. Init => DeletingHasFinalizer
  BY DEF Init, DeletingHasFinalizer
<1>. QED BY <1>1, DeletingStep, PTL DEF Spec

(* The phase changes of the abstract table that a deferred patch may store. *)
PhaseMoves == {<<"", "Running">>, <<"Running", "Waiting">>,
               <<"Waiting", "Deleting">>} \cup {<<x, "Failed">> : x \in Phases}

(* A reconcile of a live Remediation whose deferred patch keeps            *)
(* retryCount and stores the same phase or one the table allows is a step *)
(* of RemediationPhases: the new phase, the removal of the object, or a    *)
(* stutter of the status.                                                  *)
LEMMA CommitRefines ==
    ASSUME TypeOK, remExists, NEW new \in Remediation, NEW patched \in BOOLEAN,
           Commit(new, patched), new.retryCount = rem.retryCount,
           new.phase = rem.phase \/ <<rem.phase, new.phase>> \in PhaseMoves
    PROVE  [Abstract!Next]_Abstract!vars
<1>1. AbsPhase = rem.phase /\ rem.phase \in Phases
  BY DEF AbsPhase, TypeOK, Remediation
<1>2. rem'.retryCount = rem.retryCount
  BY DEF Commit
<1>3. CASE ~remExists'
  <2>1. AbsPhase' = "Gone"
    BY <1>3 DEF AbsPhase
  <2>. QED BY <1>1, <1>2, <2>1 DEF Abstract!Remove, Abstract!Next, Phases
<1>4. CASE remExists' /\ rem'.phase = rem.phase
  BY <1>1, <1>2, <1>4 DEF AbsPhase, Abstract!vars
<1>5. CASE remExists' /\ rem'.phase # rem.phase
  <2>1. patched /\ rem' = new
    BY <1>5 DEF Commit
  <2>2. AbsPhase' = new.phase /\ <<rem.phase, new.phase>> \in PhaseMoves
    BY <1>5, <2>1 DEF AbsPhase
  <2>3. CASE new.phase = "Failed"
    BY <1>1, <1>2, <2>2, <2>3 DEF Abstract!Fail, Abstract!Next, Abstract!StoredPhases, Phases
  <2>4. CASE new.phase # "Failed"
    <3>1. \/ rem.phase = "" /\ new.phase = "Running"
          \/ rem.phase = "Running" /\ new.phase = "Waiting"
          \/ rem.phase = "Waiting" /\ new.phase = "Deleting"
      BY <2>2, <2>4 DEF PhaseMoves
    <3>. QED BY <1>1, <1>2, <2>2, <3>1
             DEF Abstract!Start, Abstract!Park, Abstract!Escalate, Abstract!Next
  <2>. QED BY <2>3, <2>4
<1>. QED BY <1>3, <1>4, <1>5

(* Every step of the reconciler or of another actor is a step of          *)
(* RemediationPhases or leaves the status alone.                           *)
LEMMA RefineStep ==
    ASSUME TypeOK, DeletingHasFinalizer, [Next]_vars
    PROVE  [Abstract!Next]_Abstract!vars
<1>0. /\ rem \in Remediation
      /\ rem.phase \in Phases
  BY DEF TypeOK, Remediation
<1>1. ASSUME NEW patched \in BOOLEAN, Reconcile(patched)
      PROVE  [Abstract!Next]_Abstract!vars
  <2>1. CASE ReconcileOffline(patched)
    <3>1. [rem EXCEPT !.phase = "Failed"] \in Remediation
      BY UpdateType DEF TypeOK, TypeRem
    <3>2. /\ [rem EXCEPT !.phase = "Failed"].retryCount = rem.retryCount
          /\ <<rem.phase, [rem EXCEPT !.phase = "Failed"].phase>> \in PhaseMoves
      BY <1>0 DEF Remediation, PhaseMoves
    <3>3. remExists /\ Commit([rem EXCEPT !.phase = "Failed"], patched)
      BY <2>1 DEF ReconcileOffline, Reconcilable
    <3>. QED BY <3>1, <3>2, <3>3, CommitRefines
  <2>2. CASE ReconcileInit(patched)
    <3>1. [rem EXCEPT !.phase = "Running", !.stamped = TRUE] \in Remediation
      BY UpdateType DEF TypeOK, TypeRem
    <3>2. /\ [rem EXCEPT !.phase = "Running", !.stamped = TRUE].retryCount = rem.retryCount
          /\ <<rem.phase, [rem EXCEPT !.phase = "Running", !.stamped = TRUE].phase>> \in PhaseMoves
      BY <1>0, <2>2 DEF ReconcileInit, Remediation, PhaseMoves
    <3>3. remExists /\ Commit([rem EXCEPT !.phase = "Running", !.stamped = TRUE], patched)
      BY <2>2 DEF ReconcileInit, Remediable, Reconcilable
    <3>. QED BY <3>1, <3>2, <3>3, CommitRefines
  <2>3. CASE AddFinalizer(patched)
    <3>1. [rem EXCEPT !.finalizer = TRUE] \in Remediation
      BY UpdateType DEF TypeOK, TypeRem
    <3>2. /\ [rem EXCEPT !.finalizer = TRUE].retryCount = rem.retryCount
          /\ [rem EXCEPT !.finalizer = TRUE].phase = rem.phase
      BY <1>0 DEF Remediation
    <3>3. remExists /\ Commit([rem EXCEPT !.finalizer = TRUE], patched)
      BY <2>3 DEF AddFinalizer, RunningGuard, Remediable, Reconcilable
    <3>. QED BY <3>1, <3>2, <3>3, CommitRefines
  <2>4. CASE BackupNode(patched)
    <3>1. [rem EXCEPT !.backup = nodeMeta] \in Remediation
      BY UpdateType DEF TypeOK, TypeRem, TypeNode
    <3>2. /\ [rem EXCEPT !.backup = nodeMeta].retryCount = rem.retryCount
          /\ [rem EXCEPT !.backup = nodeMeta].phase = rem.phase
      BY <1>0 DEF Remediation
    <3>3. remExists /\ Commit([rem EXCEPT !.backup = nodeMeta], patched)
      BY <2>4 DEF BackupNode, PoweredOffWithNode, RunningGuard, Remediable, Reconcilable
    <3>. QED BY <3>1, <3>2, <3>3, CommitRefines
  <2>5. CASE EnterWaiting(patched)
    <3>1. [rem EXCEPT !.phase = "Waiting"] \in Remediation
      BY UpdateType DEF TypeOK, TypeRem
    <3>2. /\ [rem EXCEPT !.phase = "Waiting"].retryCount = rem.retryCount
          /\ <<rem.phase, [rem EXCEPT !.phase = "Waiting"].phase>> \in PhaseMoves
      BY <1>0, <2>5 DEF EnterWaiting, RunningGuard, Remediation, PhaseMoves
    <3>3. remExists /\ Commit([rem EXCEPT !.phase = "Waiting"], patched)
      BY <2>5 DEF EnterWaiting, RunningGuard, Remediable, Reconcilable
    <3>. QED BY <3>1, <3>2, <3>3, CommitRefines
  <2>6. CASE RestoreNodeAndRelease(patched)
    <3>1. [rem EXCEPT !.backup = NoBackup, !.finalizer = FALSE] \in Remediation
      BY UpdateType DEF TypeOK, TypeRem
    <3>2. /\ [rem EXCEPT !.backup = NoBackup, !.finalizer = FALSE].retryCount = rem.retryCount
          /\ [rem EXCEPT !.backup = NoBackup, !.finalizer = FALSE].phase = rem.phase
      BY <1>0 DEF Remediation
    <3>3. remExists /\ Commit([rem EXCEPT !.backup = NoBackup, !.finalizer = FALSE], patched)
      BY <2>6 DEF RestoreNodeAndRelease, WaitingStart, Remediable, Reconcilable
    <3>. QED BY <3>1, <3>2, <3>3, CommitRefines
  <2>7. CASE ReleaseForbidden(patched)
    <3>1. [rem EXCEPT !.finalizer = FALSE] \in Remediation
      BY UpdateType DEF TypeOK, TypeRem
    <3>2. /\ [rem EXCEPT !.finalizer = FALSE].retryCount = rem.retryCount
          /\ [rem EXCEPT !.finalizer = FALSE].phase = rem.phase
      BY <1>0 DEF Remediation
    <3>3. remExists /\ Commit([rem EXCEPT !.finalizer = FALSE], patched)
      BY <2>7 DEF ReleaseForbidden, WaitingStart, Remediable, Reconcilable
    <3>. QED BY <3>1, <3>2, <3>3, CommitRefines
  <2>8. CASE Retry(patched)
    <3>1. rem.phase = "Waiting" /\ remExists
      BY <2>8 DEF Retry, PastRestore, WaitingStart, Remediable, Reconcilable
    <3>2. CASE patched
      <4>3. rem' = [rem EXCEPT !.phase = "Running", !.stamped = TRUE,
                               !.retryCount = @ + 1]
        BY <2>8, <3>2 DEF Retry, Commit
      <4>1. rem'.finalizer = rem.finalizer
        BY <4>3, <1>0 DEF Remediation
      <4>4. remExists'
        BY <2>8, <3>1, <4>1 DEF Retry, Commit, DeletingHasFinalizer
      <4>5. rem'.phase = "Running" /\ rem'.retryCount = rem.retryCount + 1
        BY <4>3, <1>0 DEF Remediation
      <4>. QED BY <3>1, <4>4, <4>5 DEF AbsPhase, Abstract!Retry, Abstract!Next
    <3>6. CASE ~patched
      <4>7. Commit(rem, patched)
        BY <2>8, <3>6 DEF Retry, Commit
      <4>. QED BY <1>0, <3>1, <4>7, CommitRefines
    <3>. QED BY <3>2, <3>6
  <2>9. CASE Escalate(patched)
    <3>1. rem.phase = "Waiting" /\ remExists
      BY <2>9 DEF Escalate, PastRestore, WaitingStart, Remediable, Reconcilable
    <3>2. [rem EXCEPT !.phase = "Deleting"] \in Remediation
      BY UpdateType DEF TypeOK, TypeRem
    <3>3. /\ [rem EXCEPT !.phase = "Deleting"].retryCount = rem.retryCount
          /\ <<rem.phase, [rem EXCEPT !.phase = "Deleting"].phase>> \in PhaseMoves
      BY <1>0, <3>1 DEF Remediation, PhaseMoves
    <3>4. CASE Commit([rem EXCEPT !.phase = "Deleting"], patched)
      BY <3>1, <3>2, <3>3, <3>4, CommitRefines
    <3>5. CASE Commit(rem, patched)
      BY <1>0, <3>1, <3>5, CommitRefines
    <3>. QED BY <2>9, <3>4, <3>5 DEF Escalate
  <2>10. CASE RequestPowerOff \/ DeleteNode \/ WaitPowerOn
    BY <2>10 DEF RequestPowerOff, DeleteNode, WaitPowerOn, remVars, AbsPhase,
       Abstract!vars
  <2>. QED BY <1>1, <2>1, <2>2, <2>3, <2>4, <2>5, <2>6, <2>7, <2>8, <2>9, <2>10
           DEF Reconcile
<1>2. CASE RemediationDeleted
  <2>1. CASE rem.finalizer
    BY <1>2, <2>1 DEF RemediationDeleted, AbsPhase, Abstract!vars
  <2>2. CASE ~rem.finalizer
    BY <1>0, <1>2, <2>2 DEF RemediationDeleted, AbsPhase, Abstract!Remove,
       Abstract!Next, Phases
  <2>. QED BY <2>1, <2>2
<1>3. CASE Environment /\ ~RemediationDeleted
  BY <1>3 DEF Environment, HostPowerOff, HostPowerOn, NodeRegister, Tick,
     MachineRemoved, SetOnline, EditRetryLimit, remVars, AbsPhase, Abstract!vars
<1>4. CASE UNCHANGED vars
  BY <1>4 DEF vars, remVars, AbsPhase, Abstract!vars
<1>. QED BY <1>1, <1>2, <1>3, <1>4 DEF Next

(* Metal3Remediation implements RemediationPhases for every value of the  *)
(* constants: the phase table of the spec and retry monotonicity hold of  *)
(* the stored status under every interleaving and every failed patch.      *)
THEOREM PhasesRefined == Spec => RefinesPhases
<1>1. Init => Abstract!Init
  <2> SUFFICES ASSUME Init PROVE Abstract!Init
    OBVIOUS
  <2>1. rem.phase = "" /\ rem.retryCount = 0 /\ remExists
    BY DEF Init
  <2>. QED BY <2>1 DEF AbsPhase, Abstract!Init
<1>2. TypeOK /\ DeletingHasFinalizer /\ [Next]_vars => [Abstract!Next]_Abstract!vars
  BY RefineStep
<1>3. Spec => [][Abstract!Next]_Abstract!vars
  BY <1>2, TypeCorrect, DeletingSafe, PTL DEF Spec
<1>4. Spec => Abstract!Init
  BY <1>1 DEF Spec
<1>. QED BY <1>3, <1>4 DEF RefinesPhases, Abstract!Spec
=============================================================================
