------------------------- MODULE Metal3Remediation -------------------------
(***************************************************************************)
(* The Metal3Remediation reconciler of cluster-api-provider-baremetal      *)
(* (pkg/controller/metal3remediation/metal3remediation_controller.go) and  *)
(* the RemediationManager it drives (pkg/baremetal/                         *)
(* metal3remediation_manager.go), for one Metal3Remediation owning one     *)
(* Machine, its BareMetalHost and its Node.                                *)
(*                                                                         *)
(* One Reconcile call is one step.  The step reads the live objects, makes *)
(* the Host, Node and Machine writes of its exit path at once (each is its *)
(* own API call), and ends with the deferred patch of the Remediation      *)
(* (controller lines 77-89): the in-memory changes to the Remediation      *)
(* reach the API server only if that patch succeeds, which the parameter   *)
(* `patched' decides.  The other actors are environment actions: the       *)
(* baremetal-operator powering the Host, the kubelet re-registering the    *)
(* Node, the MachineHealthCheck / garbage collector deleting the           *)
(* Remediation, the Machine controller removing a deleted Machine, a user  *)
(* editing the Host's spec.online or the Remediation's retryLimit, and the *)
(* passing of the remediation timeout.                                     *)
(***************************************************************************)
EXTENDS Naturals

CONSTANTS
    Keys,              \* annotation and label keys of the Node
    Vals,              \* their values
    None,              \* "key absent" in a map, "no node deleted yet"
    InitMeta,          \* the annotations+labels of the unhealthy Node
    RegisterMetas,     \* the annotations+labels a re-registering kubelet writes
    RetryLimits,       \* the spec.strategy.retryLimit values admission accepts
    MaxRetry,          \* bound on status.retryCount
    StrategyType,      \* spec.strategy.type
    HostBoots,         \* the Host powers on when asked to
    MachineHasNodeRef, \* the Machine's status.nodeRef is set
    NodeUpdateMayFail  \* the Update of a restored Node may fail

(* A Node's annotations and labels, as one map from key to value.  The     *)
(* code treats the two maps alike (backupNode, restoreNode), so one map of *)
(* disjoint keys stands for both.  The all-None map is the empty map, whose *)
(* marshal is "" (controller lines 421-424): "no backup".                  *)
Meta == [Keys -> Vals \cup {None}]
NoBackup == [k \in Keys |-> None]

ASSUME ConstantsAssumption ==
    /\ None \notin Vals
    /\ InitMeta \in Meta
    /\ RegisterMetas \subseteq Meta
    /\ RegisterMetas # {}
    /\ MaxRetry \in Nat
    /\ RetryLimits \subseteq 1..MaxRetry
    /\ RetryLimits # {}
    /\ HostBoots \in BOOLEAN
    /\ MachineHasNodeRef \in BOOLEAN
    /\ NodeUpdateMayFail \in BOOLEAN

Phases == {"", "Running", "Waiting", "Deleting", "Failed"}

VARIABLES
    rem,          \* the Remediation as stored: status and the finalizer and backup annotations
    remExists,    \* the Remediation object exists
    remDeleting,  \* its deletionTimestamp is set
    retryLimit,   \* spec.strategy.retryLimit
    timedOut,     \* now is past status.lastRemediated + spec.strategy.timeout
    powerOffAnn,  \* the Host carries reboot.metal3.io/metal3-remediation-<UID>
    poweredOn,    \* host.status.poweredOn
    online,       \* host.spec.online
    unhealthyAnn, \* the Host carries the capm3 unhealthy annotation
    externallyProvisioned, \* host.spec.externallyProvisioned
    machine,      \* "present", "deleting" (deletion requested) or "gone"
    hasControllerOwner,    \* the Machine has a controller owner reference
    isMaster,     \* the Machine has the master role label
    nodeExists,   \* the Node object exists
    nodeMeta,     \* its annotations and labels
    nodeForbidden,\* Get of the Node is forbidden (no RBAC on nodes)
    deletedMeta   \* history: the annotations+labels of the Node the reconciler last deleted

remVars == <<rem, remExists, remDeleting, retryLimit, timedOut>>
hostVars == <<powerOffAnn, poweredOn, online, unhealthyAnn, externallyProvisioned>>
machineVars == <<machine, hasControllerOwner, isMaster>>
nodeVars == <<nodeExists, nodeMeta, nodeForbidden, deletedMeta>>
vars == <<remVars, hostVars, machineVars, nodeVars>>

Remediation == [phase: Phases, finalizer: BOOLEAN, stamped: BOOLEAN,
                retryCount: 0..MaxRetry, backup: Meta]

(* Every variable keeps to its domain. *)
TypeOK ==
    /\ rem \in Remediation
    /\ remExists \in BOOLEAN
    /\ remDeleting \in BOOLEAN
    /\ retryLimit \in RetryLimits
    /\ timedOut \in BOOLEAN
    /\ powerOffAnn \in BOOLEAN
    /\ poweredOn \in BOOLEAN
    /\ online \in BOOLEAN
    /\ unhealthyAnn \in BOOLEAN
    /\ externallyProvisioned \in BOOLEAN
    /\ machine \in {"present", "deleting", "gone"}
    /\ hasControllerOwner \in BOOLEAN
    /\ isMaster \in BOOLEAN
    /\ nodeExists \in BOOLEAN
    /\ nodeMeta \in Meta
    /\ nodeForbidden \in BOOLEAN
    /\ deletedMeta \in Meta \cup {None}

(* A Remediation the MachineHealthCheck has just created for an unhealthy  *)
(* Machine whose Node still exists; the admission webhook has accepted    *)
(* its strategy.                                                           *)
Init ==
    /\ rem = [phase |-> "", finalizer |-> FALSE, stamped |-> FALSE,
              retryCount |-> 0, backup |-> NoBackup]
    /\ remExists = TRUE
    /\ remDeleting = FALSE
    /\ retryLimit \in RetryLimits
    /\ timedOut = FALSE
    /\ powerOffAnn = FALSE
    /\ poweredOn \in BOOLEAN
    /\ online \in BOOLEAN
    /\ unhealthyAnn = FALSE
    /\ externallyProvisioned \in BOOLEAN
    /\ machine = "present"
    /\ hasControllerOwner \in BOOLEAN
    /\ isMaster \in BOOLEAN
    /\ nodeExists = TRUE
    /\ nodeMeta = InitMeta
    /\ nodeForbidden \in BOOLEAN
    /\ deletedMeta = None

-----------------------------------------------------------------------------
(* RemediationManager queries. *)

CanReprovision == ~externallyProvisioned /\ hasControllerOwner /\ ~isMaster
RetryLimitIsSet == retryLimit > 0
HasReachRetryLimit == retryLimit = rem.retryCount

(* GetNode returned a node: it exists and reading it is not forbidden. *)
NodeVisible == nodeExists /\ ~nodeForbidden

(* mergeMaps with its maps swapped: the backup's values win. *)
MergeMapsBackupWins(prioritizedMap, mapToMerge) ==
    [k \in Keys |-> IF mapToMerge[k] = None THEN prioritizedMap[k]
                                            ELSE mapToMerge[k]]

(* mergeMaps: the entries of mapToMerge whose key prioritizedMap lacks. *)
MergeMaps(prioritizedMap, mapToMerge) ==
    [k \in Keys |-> IF prioritizedMap[k] = None THEN mapToMerge[k]
                                               ELSE prioritizedMap[k]]

(* restoreNode: nothing to do without a backup, else the merged map. *)
RestoreNode(meta, backup) ==
    IF backup = NoBackup THEN meta ELSE MergeMaps(meta, backup)

(* The deferred helper.Patch of the Remediation.  If it fails the          *)
(* in-memory changes are lost.  A Remediation being deleted that loses its *)
(* last finalizer is removed by the API server.                            *)
Commit(new, patched) ==
    /\ rem' = IF patched THEN new ELSE rem
    /\ remExists' = ~(remDeleting /\ ~rem'.finalizer)

(* SetLastRemediationTime(now): a committed new stamp restarts the timeout. *)
Restamp(patched) == timedOut' = (timedOut /\ ~patched)

-----------------------------------------------------------------------------
(* Reconcile.  Each action below is one exit path of Reconcile; together   *)
(* they are the whole handler.  Reconcile returns early, with nothing      *)
(* changed, when the Remediation is not found (line 63) or the owner       *)
(* Machine is not found (getMachine); GetNode fails with an error that is  *)
(* neither NotFound nor Forbidden, and the reconcile changes nothing, when *)
(* the Machine has no nodeRef (manager lines 341-344).                     *)

Reconcilable == remExists /\ machine # "gone"

(* The Host's spec.online is false: give up (lines 119-125). *)
ReconcileOffline(patched) ==
    /\ Reconcilable
    /\ ~online
    /\ Commit([rem EXCEPT !.phase = "Failed"], patched)
    /\ UNCHANGED <<remDeleting, retryLimit, timedOut, hostVars, machineVars, nodeVars>>

Remediable == Reconcilable /\ online /\ StrategyType = "Reboot"

(* No phase yet: start Running and stamp lastRemediated (lines 136-141). *)
ReconcileInit(patched) ==
    /\ Remediable
    /\ rem.phase = ""
    /\ Commit([rem EXCEPT !.phase = "Running", !.stamped = TRUE], patched)
    /\ Restamp(patched)
    /\ UNCHANGED <<remDeleting, retryLimit, hostVars, machineVars, nodeVars>>

RunningGuard == Remediable /\ rem.phase = "Running" /\ MachineHasNodeRef

(* Faulty variant of AddFinalizer: it requests power-off in the same      *)
(* reconcile instead of requeueing first.                                  *)
AddFinalizerNoRequeue(patched) ==
    /\ RunningGuard
    /\ ~rem.finalizer
    /\ Commit([rem EXCEPT !.finalizer = TRUE], patched)
    /\ powerOffAnn' = TRUE
    /\ UNCHANGED <<remDeleting, retryLimit, timedOut, poweredOn, online, unhealthyAnn,
                   externallyProvisioned, machineVars, nodeVars>>

(* remediateRebootStrategy: the finalizer first (lines 276-279). *)
AddFinalizer(patched) ==
    /\ RunningGuard
    /\ ~rem.finalizer
    /\ Commit([rem EXCEPT !.finalizer = TRUE], patched)
    /\ UNCHANGED <<remDeleting, retryLimit, timedOut, hostVars, machineVars, nodeVars>>

(* Then ask the baremetal-operator to power the Host off (lines 282-295). *)
RequestPowerOff ==
    /\ RunningGuard
    /\ rem.finalizer
    /\ ~powerOffAnn
    /\ powerOffAnn' = TRUE
    /\ UNCHANGED <<remVars, poweredOn, online, unhealthyAnn, externallyProvisioned,
                   machineVars, nodeVars>>

PoweredOffWithNode ==
    RunningGuard /\ rem.finalizer /\ powerOffAnn /\ ~poweredOn /\ NodeVisible

(* Faulty variant of BackupNode: it deletes the Node in the same reconcile *)
(* that changes the backup, before the backup is patched.                  *)
BackupNodeNoRequeue(patched) ==
    /\ PoweredOffWithNode
    /\ nodeMeta # rem.backup
    /\ Commit([rem EXCEPT !.backup = nodeMeta], patched)
    /\ nodeExists' = FALSE
    /\ deletedMeta' = nodeMeta
    /\ UNCHANGED <<remDeleting, retryLimit, timedOut, hostVars, machineVars, nodeMeta,
                   nodeForbidden>>

(* The Host is off: back the Node's annotations and labels up on the      *)
(* Remediation and requeue so the backup is stored (lines 307-320, 362-377, *)
(* SetNodeBackupAnnotations).                                              *)
BackupNode(patched) ==
    /\ PoweredOffWithNode
    /\ nodeMeta # rem.backup
    /\ Commit([rem EXCEPT !.backup = nodeMeta], patched)
    /\ UNCHANGED <<remDeleting, retryLimit, timedOut, hostVars, machineVars, nodeVars>>

(* The backup is stored: delete the Node (lines 321-328, DeleteNode). *)
DeleteNode ==
    /\ PoweredOffWithNode
    /\ nodeMeta = rem.backup
    /\ nodeExists' = FALSE
    /\ deletedMeta' = nodeMeta
    /\ UNCHANGED <<remVars, hostVars, machineVars, nodeMeta, nodeForbidden>>

(* No Node to delete: switch to Waiting (lines 331-334). *)
EnterWaiting(patched) ==
    /\ RunningGuard
    /\ rem.finalizer
    /\ powerOffAnn
    /\ ~poweredOn
    /\ ~NodeVisible
    /\ Commit([rem EXCEPT !.phase = "Waiting"], patched)
    /\ UNCHANGED <<remDeleting, retryLimit, timedOut, hostVars, machineVars, nodeVars>>

WaitingStart ==
    /\ Remediable /\ rem.phase = "Waiting" /\ MachineHasNodeRef
    /\ powerOffAnn' = FALSE

(* Not powered on yet: requeue (lines 178-184). *)
WaitPowerOn ==
    /\ WaitingStart
    /\ ~poweredOn
    /\ UNCHANGED <<remVars, poweredOn, online, unhealthyAnn, externallyProvisioned,
                   machineVars, nodeVars>>

(* The Node is back: restore its annotations and labels, drop the backup *)
(* and the finalizer (lines 187-199, restoreNode).  A failed UpdateNode   *)
(* is only logged (lines 412-414).                                         *)
RestoreNodeAndRelease(patched) ==
    /\ WaitingStart
    /\ poweredOn
    /\ rem.finalizer
    /\ NodeVisible
    /\ \/ nodeMeta' = RestoreNode(nodeMeta, rem.backup)
       \/ NodeUpdateMayFail /\ UNCHANGED nodeMeta
    /\ Commit([rem EXCEPT !.backup = NoBackup, !.finalizer = FALSE], patched)
    /\ UNCHANGED <<remDeleting, retryLimit, timedOut, poweredOn, online, unhealthyAnn,
                   externallyProvisioned, machineVars, nodeExists, nodeForbidden,
                   deletedMeta>>

(* Nodes are forbidden: just drop the finalizer (lines 200-206). *)
ReleaseForbidden(patched) ==
    /\ WaitingStart
    /\ poweredOn
    /\ rem.finalizer
    /\ nodeForbidden
    /\ Commit([rem EXCEPT !.finalizer = FALSE], patched)
    /\ UNCHANGED <<remDeleting, retryLimit, timedOut, poweredOn, online, unhealthyAnn,
                   externallyProvisioned, machineVars, nodeVars>>

(* Nothing to restore: the timeout decides (lines 209-215); before it    *)
(* has elapsed Reconcile requeues and changes nothing, a stutter step.    *)
PastRestore ==
    /\ WaitingStart
    /\ poweredOn
    /\ ~rem.finalizer \/ (~nodeExists /\ ~nodeForbidden)

(* Faulty variant of Retry: it goes back to Running without              *)
(* IncreaseRetryCount.                                                     *)
RetryNoCount(patched) ==
    /\ PastRestore
    /\ timedOut
    /\ RetryLimitIsSet /\ ~HasReachRetryLimit
    /\ Commit([rem EXCEPT !.phase = "Running", !.stamped = TRUE], patched)
    /\ Restamp(patched)
    /\ UNCHANGED <<remDeleting, retryLimit, poweredOn, online, unhealthyAnn,
                   externallyProvisioned, machineVars, nodeVars>>

(* Timed out below the retry limit: retry from Running (lines 218-225). *)
Retry(patched) ==
    /\ PastRestore
    /\ timedOut
    /\ RetryLimitIsSet /\ ~HasReachRetryLimit
    /\ rem.retryCount < MaxRetry
    /\ Commit([rem EXCEPT !.phase = "Running", !.stamped = TRUE,
                          !.retryCount = @ + 1], patched)
    /\ Restamp(patched)
    /\ UNCHANGED <<remDeleting, retryLimit, poweredOn, online, unhealthyAnn,
                   externallyProvisioned, machineVars, nodeVars>>

(* Faulty variant of Escalate: it ignores the error of                    *)
(* SetUnhealthyAnnotation and moves to Deleting anyway.                    *)
EscalateIgnoringError(patched) ==
    /\ PastRestore
    /\ timedOut
    /\ ~(RetryLimitIsSet /\ ~HasReachRetryLimit)
    /\ machine' = IF CanReprovision THEN "deleting" ELSE machine
    /\ unhealthyAnn' \in BOOLEAN
    /\ Commit([rem EXCEPT !.phase = "Deleting"], patched)
    /\ UNCHANGED <<remDeleting, retryLimit, timedOut, poweredOn, online,
                   externallyProvisioned, hasControllerOwner, isMaster, nodeVars>>

(* Timed out at the retry limit: delete the Machine if it can be          *)
(* re-provisioned, mark the Host unhealthy, and end in Deleting (lines     *)
(* 227-252, CanReprovision, DeleteMachine, SetUnhealthyAnnotation).  If    *)
(* SetUnhealthyAnnotation fails the reconcile returns its error with the   *)
(* Machine already deleted and the phase unchanged.                        *)
Escalate(patched) ==
    /\ PastRestore
    /\ timedOut
    /\ ~(RetryLimitIsSet /\ ~HasReachRetryLimit)
    /\ machine' = IF CanReprovision THEN "deleting" ELSE machine
    /\ \/ /\ unhealthyAnn' = TRUE
          /\ Commit([rem EXCEPT !.phase = "Deleting"], patched)
       \/ /\ UNCHANGED unhealthyAnn
          /\ Commit(rem, patched)
    /\ UNCHANGED <<remDeleting, retryLimit, timedOut, poweredOn, online,
                   externallyProvisioned, hasControllerOwner, isMaster, nodeVars>>

Reconcile(patched) ==
    \/ ReconcileOffline(patched)
    \/ ReconcileInit(patched)
    \/ AddFinalizer(patched)
    \/ RequestPowerOff
    \/ BackupNode(patched)
    \/ DeleteNode
    \/ EnterWaiting(patched)
    \/ WaitPowerOn
    \/ RestoreNodeAndRelease(patched)
    \/ ReleaseForbidden(patched)
    \/ Retry(patched)
    \/ Escalate(patched)

-----------------------------------------------------------------------------
(* The environment: the other controllers and the user.  These are not    *)
(* code of this repository; each is the behaviour the reconciler relies on *)
(* or has to tolerate.                                                     *)

(* The baremetal-operator powers a Host off while a reboot annotation is   *)
(* on it or spec.online is false, ...                                      *)
HostPowerOff ==
    /\ poweredOn
    /\ powerOffAnn \/ ~online
    /\ poweredOn' = FALSE
    /\ UNCHANGED <<remVars, powerOffAnn, online, unhealthyAnn, externallyProvisioned,
                   machineVars, nodeVars>>

(* ... and on when it is online and no reboot annotation is left. *)
HostPowerOn ==
    /\ HostBoots
    /\ ~poweredOn
    /\ online
    /\ ~powerOffAnn
    /\ poweredOn' = TRUE
    /\ UNCHANGED <<remVars, powerOffAnn, online, unhealthyAnn, externallyProvisioned,
                   machineVars, nodeVars>>

(* The kubelet of a running Host registers a fresh Node. *)
NodeRegister ==
    /\ poweredOn
    /\ ~nodeExists
    /\ \E m \in RegisterMetas : nodeMeta' = m
    /\ nodeExists' = TRUE
    /\ UNCHANGED <<remVars, hostVars, machineVars, nodeForbidden, deletedMeta>>

(* The remediation timeout elapses after lastRemediated was stamped. *)
Tick ==
    /\ remExists
    /\ rem.stamped
    /\ ~timedOut
    /\ timedOut' = TRUE
    /\ UNCHANGED <<rem, remExists, remDeleting, retryLimit, hostVars, machineVars, nodeVars>>

(* The MachineHealthCheck deletes the Remediation once the Node is healthy *)
(* again, and the garbage collector once its owner Machine is gone.  The   *)
(* API server removes it at once unless it carries the finalizer.          *)
RemediationDeleted ==
    /\ remExists
    /\ ~remDeleting
    /\ (nodeExists /\ poweredOn) \/ machine = "gone"
    /\ remDeleting' = TRUE
    /\ remExists' = rem.finalizer
    /\ UNCHANGED <<rem, retryLimit, timedOut, hostVars, machineVars, nodeVars>>

(* The Machine controller finishes deleting a Machine. *)
MachineRemoved ==
    /\ machine = "deleting"
    /\ machine' = "gone"
    /\ UNCHANGED <<remVars, hostVars, hasControllerOwner, isMaster, nodeVars>>

(* A user flips the Host's spec.online. *)
SetOnline ==
    /\ online' = ~online
    /\ UNCHANGED <<remVars, powerOffAnn, poweredOn, unhealthyAnn, externallyProvisioned,
                   machineVars, nodeVars>>

(* Faulty variant of EditRetryLimit: validateRemediation without its     *)
(* minimum retry limit check.                                              *)
EditRetryLimitNoMin ==
    /\ remExists
    /\ \E l \in (RetryLimits \cup {0}) \ {retryLimit} : retryLimit' = l
    /\ UNCHANGED <<rem, remExists, remDeleting, timedOut, hostVars, machineVars, nodeVars>>

(* A user edits spec.strategy.retryLimit; the webhook admits any value    *)
(* validateRemediation accepts.                                            *)
EditRetryLimit ==
    /\ remExists
    /\ \E l \in RetryLimits \ {retryLimit} : retryLimit' = l
    /\ UNCHANGED <<rem, remExists, remDeleting, timedOut, hostVars, machineVars, nodeVars>>

Environment ==
    \/ HostPowerOff \/ HostPowerOn \/ NodeRegister \/ Tick
    \/ RemediationDeleted \/ MachineRemoved \/ SetOnline \/ EditRetryLimit

Next == (\E patched \in BOOLEAN : Reconcile(patched)) \/ Environment

(* controller-runtime calls Reconcile again after every exit that is not  *)
(* final (RequeueAfter, or an error with backoff), so a Reconcile whose    *)
(* patch succeeds is not withheld forever; the baremetal-operator, the     *)
(* kubelet, the Machine controller and the clock keep running.  The        *)
(* MachineHealthCheck, the user and failing patches are not fair.          *)
Fairness ==
    /\ WF_vars(Reconcile(TRUE))
    /\ WF_vars(HostPowerOff)
    /\ WF_vars(HostPowerOn)
    /\ WF_vars(NodeRegister)
    /\ WF_vars(Tick)
    /\ WF_vars(MachineRemoved)

Spec == Init /\ [][Next]_vars /\ Fairness

-----------------------------------------------------------------------------
(* Properties. *)

(* The power-off annotation is only ever on the Host while the Remediation *)
(* exists and carries its finalizer, whatever patches fail: the reconciler *)
(* adds the finalizer before it requests power-off (remediateRebootStrategy) *)
(* and removes the annotation before it drops the finalizer (Waiting), so  *)
(* a Remediation cannot vanish leaving its Host held off.                  *)
PowerHoldBracketedByFinalizer == powerOffAnn => remExists /\ rem.finalizer

(* While the Node the reconciler deleted is gone and the Remediation still *)
(* holds its finalizer, the stored backup is exactly that Node's          *)
(* annotations and labels: backupNode's requeue makes the backup durable   *)
(* before DeleteNode, so restoreNode has the right maps to put back.       *)
BackupMatchesDeletedNode ==
    (remExists /\ rem.finalizer /\ ~nodeExists /\ deletedMeta # None)
        => rem.backup = deletedMeta

(* A Remediation stored in phase Deleting has marked its Host unhealthy,   *)
(* and has asked for its Machine to be deleted if the Machine could be     *)
(* re-provisioned (the escalation at the retry limit).                     *)
DeletingMeansEscalated ==
    (remExists /\ rem.phase = "Deleting")
        => unhealthyAnn /\ (CanReprovision => machine # "present")

(* The reconciler implements the phase table of the spec (section 4.3)    *)
(* and its retry bookkeeping: seen through the stored status, every        *)
(* Reconcile, whichever of its patches fail, and every step of the other  *)
(* actors is a step of RemediationPhases or leaves the status alone.  In   *)
(* particular the phase never moves backwards except Waiting -> Running,   *)
(* and retryCount grows by exactly one on that step and never otherwise    *)
(* (spec: "Retry monotonicity").                                           *)
AbsPhase == IF remExists THEN rem.phase ELSE "Gone"

Abstract == INSTANCE RemediationPhases WITH phase <- AbsPhase,
                                            retryCount <- rem.retryCount

RefinesPhases == Abstract!Spec

(* Every remediation ends, provided the user eventually stops flipping    *)
(* the Host's spec.online and editing the retry limit: the Remediation is  *)
(* deleted, or it reaches Deleting or Failed (Host offline), or it has     *)
(* asked for its Machine to be deleted (escalation under way; what must    *)
(* follow is HostMarkedAfterMachineDeletion).                              *)
UserSettles == <>[][~SetOnline /\ ~EditRetryLimit]_vars

RemediationConcludes ==
    UserSettles => <>(\/ ~remExists
                      \/ rem.phase \in {"Deleting", "Failed"}
                      \/ machine # "present")

(* Once the reconciler has deleted the Machine, the Host is eventually     *)
(* marked unhealthy, so that it is not picked for the replacement Machine. *)
HostMarkedAfterMachineDeletion == (machine # "present") ~> unhealthyAnn

(* A Remediation that has escalated (phase Deleting) and is then deleted  *)
(* by the garbage collector or the MachineHealthCheck eventually           *)
(* disappears: the reconciler releases its finalizer when no Node restore  *)
(* is possible (spec: "Finalizer invariant").                              *)
DeletedRemediationReleased == (remDeleting /\ rem.phase = "Deleting") ~> ~remExists

(* The original Node's annotations and labels are never lost while a      *)
(* remediation is under way: each original key is on the live Node or in  *)
(* the backup (spec: "Backup must precede Node deletion so labels/         *)
(* annotations survive re-registration").                                 *)
LabelsNotLost ==
    (remExists /\ rem.phase \in {"Running", "Waiting"})
        => \A k \in Keys : InitMeta[k] # None =>
               \/ nodeExists /\ nodeMeta[k] # None
               \/ rem.backup[k] # None

(* The Host is only held off by this Remediation while it is remediating  *)
(* (Running or Waiting), never after it has stopped.                       *)
PowerOffOnlyWhileRemediating ==
    powerOffAnn => remExists /\ rem.phase \in {"Running", "Waiting"}

(* restoreNode never overwrites an annotation or label already on the     *)
(* live Node (spec section 8, item 8): mergeMaps gives the Node's own      *)
(* values priority over the backup, and no other step rewrites the maps   *)
(* of a Node that stays registered.  The kubelet of a re-registered Node  *)
(* may have set a key to a new value; the backup must not undo that.       *)
RestoreKeepsLiveKeys ==
    [][nodeExists /\ nodeExists' =>
         \A k \in Keys : nodeMeta[k] # None => nodeMeta'[k] = nodeMeta[k]]_vars

(* A retry is only started below the retry limit: the retry budget bounds *)
(* the number of power cycles before escalation.                           *)
RetryWithinBudget ==
    [][rem'.retryCount > rem.retryCount => rem.retryCount < retryLimit]_vars

=============================================================================
