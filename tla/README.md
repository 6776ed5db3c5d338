# Formal model of the Metal3Remediation controller

This directory holds TLA+ modules for the Metal3Remediation reconciler of
cluster-api-provider-baremetal, its admission webhooks and the
controller-manager process that runs them. It has TLC configurations that model-check them
on small instances, and TLAPS proofs of the main safety properties for every
value of the constants.

## The system

One `Metal3Remediation` object asks for one unhealthy `Machine` to be
remediated. Five objects take part:

| Object | Owner | Read / written by the reconciler |
|---|---|---|
| Remediation | MachineHealthCheck creates and deletes it | status (phase, lastRemediated, retryCount), the finalizer, the two Node backup annotations |
| Machine | Machine controller | read (owner, nodeRef, role label); deleted on escalation |
| BareMetalHost | baremetal-operator | spec.online and status.poweredOn read; the power-off annotation `reboot.metal3.io/metal3-remediation-<UID>` and the unhealthy annotation written |
| Node | kubelet | read, deleted while the Host is off; annotations and labels restored after it re-registers |
| Admission webhook | this repository | validates spec.strategy (type Reboot, timeout of at least 100 s, retryLimit of at least 1) |

`Reconcile` (`src/pkg/controller/metal3remediation/metal3remediation_controller.go`)
runs the reboot strategy as a phase machine: `"" → Running → Waiting`. From
Waiting it goes back to Running on retry, or to Deleting at the retry limit. It
goes to Failed whenever the Host is offline.

- Running: add the finalizer, then request power-off, then wait for the Host to
  be off. Next, back up the Node and requeue, delete the Node, and switch to
  Waiting.
- Waiting: remove the power-off annotation and wait for power-on. Then restore
  the re-registered Node and drop the backup and the finalizer. Otherwise, once
  the timeout has elapsed, retry, or escalate: delete the Machine if it can be
  re-provisioned, mark the Host unhealthy, and move to Deleting.

The RemediationManager (`src/pkg/baremetal/metal3remediation_manager.go`) does
every read and write. Writes to the Host, Node and Machine are API calls that
take effect at once. Changes to the Remediation stay in memory until the
deferred `helper.Patch` at the end of `Reconcile` (lines 77-89). If that patch
fails, the changes are lost and the reconcile is retried.

## Modules

- `Metal3Remediation.tla` models the reconciler and the manager for one
  Remediation with its Machine, Host and Node.
  - State:
    - `rem`: the stored Remediation (phase, finalizer, whether lastRemediated
      is set, retryCount, backup).
    - `remExists` and `remDeleting`.
    - `retryLimit`.
    - `timedOut`: what `TimeToRemediate` returns.
    - Host flags, Machine state, Node existence and its annotation/label map.
    - `deletedMeta`, a history variable holding the map of the last deleted Node.
  - Each exit path of `Reconcile` is one action, parameterised by `patched`,
    which says whether the deferred patch succeeds. The actions are
    ReconcileOffline, ReconcileInit, AddFinalizer, RequestPowerOff, BackupNode,
    DeleteNode, EnterWaiting, WaitPowerOn, RestoreNodeAndRelease,
    ReleaseForbidden, Retry and Escalate.
    - `Commit` is the deferred patch. It also covers the API server removing a
      deleting object whose finalizer is gone.
    - Early returns that change nothing are stutter steps: getMachine not found,
      the timeout not elapsed, Deleting and Failed.
  - Actions of other actors:
    - The baremetal-operator: HostPowerOff, HostPowerOn.
    - The kubelet: NodeRegister.
    - The clock: Tick.
    - The MachineHealthCheck and the garbage collector: RemediationDeleted.
    - The Machine controller: MachineRemoved.
    - A user: SetOnline, and EditRetryLimit over the values the webhook admits.
  - Data is abstracted. A Node's annotations and labels form one map from a
    small key set to a small value set, with `None` for an absent key. The
    all-None map is the empty backup.
  - `PROJECT.json` "map" gives the source lines of every definition.
- `MCMetal3Remediation.tla` supplies the constants: two keys and two values. The
  original Node has one key set. A re-registering kubelet writes either the
  other key or a different value for the original key, so the merge is
  exercised both ways.
- `RemediationPhases.tla` is the abstract specification of one Remediation:
  its stored phase (or `"Gone"` once removed) and retryCount, with one action
  per row of the phase table (Start, Park, Retry, Escalate, Fail, Remove).
  Metal3Remediation instantiates it with `phase <- AbsPhase` (the stored phase,
  or "Gone") and `retryCount <- rem.retryCount`; `RefinesPhases == Abstract!Spec`
  is checked as a property of the safety run and proved.
- `RemediationWebhook.tla` models the two admission webhooks of
  `src/pkg/webhook`.
  - The pure functions are operators: `InvalidFields` (the three checks of
    validateRemediation / validateRemediationTemplate), `TemplateDefault`
    (the template's Default), `TemplateAdmission` (Default, then validation)
    and `RemediationAdmission` (the no-op Default, then validateRemediation).
  - spec.strategy is a pointer. `Nil` stands for a nil strategy or timeout, and
    dereferencing it gives the answer "panic".
  - State: the stored template strategy, the stored Remediation (its strategy
    and whether the MachineHealthCheck cloned it from the template), and the
    last request and answer.
  - Actions: SubmitTemplate and SubmitRemediation (create and update share a
    handler), DeleteTemplate and DeleteRemediation (ValidateDelete always
    admits), and CloneTemplate, the MachineHealthCheck copying the stored
    template into a new Remediation.
- `MCRemediationWebhook.tla`: types `""`, `Reboot` and `Rebuild`; timeouts of 99
  and 100 s and a nil one, on both sides of the 100 s bound; retryLimit 0 and
  1, on both sides of the bound of 1.
- `Startup.tla` models the process of `src/cmd/manager/main.go`.
  - `pc[p]` is where replica p is in the setup sequence `Setup` (feature gates,
    config, discovery client, the waitForAPIs loop, ApplyTo, manager.New, the
    actuator, the schemes, the machine controller, the Remediation controller,
    the webhooks, the health checks, mgr.Start). Past the sequence it is
    Standby (waiting for the lease), Running (the controllers run) or Exited.
  - Actions:
    - Advance: a call returns without error.
    - Fail: a call in `MayFail` ends the process. The webhooks can only fail
      with `--webhook-enabled`.
    - PollAPI: the loop of waitForAPIs breaks out. While the group is not
      served the loop only sleeps.
    - StartManager: mgr.Start.
    - AcquireLease, LoseLease and LeaseExpires: the lease of controller-runtime.
    - Restart: the kubelet restarts an exited container.
    - ToggleAPI: the metal3 CRDs come and go.
  - The lease frees only once its holder has left the reconcile loop. This is
    what RenewDeadline (110 s) < LeaseDuration (120 s) in main.go buys: a leader
    that cannot renew stops before its lease expires.
- `MCStartup.tla`: two replicas as model values, with symmetry in the safety runs.
- `Metal3RemediationProofs.tla`, `RemediationWebhookProofs.tla` and
  `StartupProofs.tla` hold the TLAPS proofs.

## Runs

The Metal3Remediation runs share one instance, with deadlock checking off. A
finished remediation (Deleting, Failed, or deleted) is a legitimate final state.
The webhook and startup runs check deadlock. A user can always submit another
request, and the CRDs can always change.

| Run | Checks | Expect | Shows |
|---|---|---|---|
| safety (`MCMetal3Remediation.cfg`) | TypeOK, PowerHoldBracketedByFinalizer, BackupMatchesDeletedNode, DeletingMeansEscalated, RefinesPhases, RestoreKeepsLiveKeys | pass (about 174k states) | The safety guarantees hold under every interleaving with failing patches, restore failures, deletions and user edits. restoreNode never overwrites a key that the re-registered Node already carries. The stored phase and retryCount follow the abstract phase table. |
| concludes (`MCMetal3RemediationLive.cfg`) | RemediationConcludes | pass | Under fairness, every remediation ends or reaches escalation. |
| backup_overwrite | LabelsNotLost | violation | A retry after the Node re-registered overwrites the original backup. |
| offline_leak | PowerOffOnlyWhileRemediating | violation | Going offline mid-remediation leaves the Host held off in Failed. |
| retry_budget | RetryWithinBudget | violation | A retryLimit lowered below retryCount is never reached (`==` test). |
| no_node_ref | RemediationConcludes | violation | GetNode fails forever without a nodeRef. |
| escalation_race | HostMarkedAfterMachineDeletion | violation | DeleteMachine succeeds, SetUnhealthyAnnotation fails, the Machine goes away, and the Host is never marked. |
| finalizer_stuck | DeletedRemediationReleased | violation | Deleting keeps the finalizer, so a deleted Remediation stays forever. |
| webhook_admission (`MCRemediationWebhook.cfg`) | TypeOK, AdmissionFollowsSpec, TemplateRemediationsRunnable | pass (519 states) | Every admission answer to a non-nil strategy matches the rules of spec section 4.1. Every Remediation cloned from a template is runnable. |
| webhook_nil_timeout | AdmittedRemediationsRunnable | violation | A Remediation written without a timeout is admitted, and the reconciler dereferences that timeout (controller line 210). |
| startup (`MCStartup.cfg`) | SingleActiveReconciler, ReconcilerKeepsRunning | pass (1410 states) | With `--leader-elect`, two failing, restarting replicas never reconcile together. Once the group stays served and failures stop, some replica always gets back into the reconcile loop. |
| leader_elect_default | SingleActiveReconciler | violation | With the default `--leader-elect=false`, both replicas run the reconcile loop. |

`PROJECT.json` "findings" describes each violation against the spec or code it
contradicts.

**Bounds.**
- `Retry` has a guard `rem.retryCount < MaxRetry` that the code does not
  have. It only bounds the state space: with MaxRetry 2 and retry limits of 1
  and 2, every retry the code makes below its limit is reached. The
  retry_budget run raises MaxRetry to 3 so that a Retry past a lowered limit
  can happen.
- A retry limit of 1 or 2 with MaxRetry 2 covers both escalation at the first
  timeout and retry-then-escalate (scenario S2).
- Two keys and two values are enough to tell a merged map from an overwritten
  one.
- Every Boolean of the Host, Machine and Node starts free, so the forbidden-Node
  path (S6), the externally provisioned Host and the master Machine are all
  explored.
- The liveness runs fix retryLimit to 2 so that retry and escalation both occur.
- The webhook instance puts each numeric input on both sides of its bound
  (99/100 s, retryLimit 0/1). It adds an unsupported type and nil pointers.
  Every check then answers both ways, and defaulting has something to do.
- Two replicas are enough for two concurrent reconcile loops. Letting every
  setup call fail covers each exit path of main().

**Fairness.**
- controller-runtime re-queues every non-final exit, so a Reconcile with a
  successful patch is weakly fair. Failing patches are not fair.
- The baremetal-operator, the kubelet, the Machine controller and the clock are
  weakly fair.
- The MachineHealthCheck and the user are not fair. RemediationConcludes assumes
  only that the user eventually stops editing (`UserSettles`).
- In Startup, each replica's own steps are weakly fair: the process, the
  kubelet's restart and the lease acquisition of controller-runtime all retry.
  The expiry of a lease whose holder has exited is weakly fair too. Setup
  failures, lost leases and CRD changes are not fair. ReconcilerKeepsRunning
  assumes that the group eventually stays served and that setup failures
  eventually stop, because a call that fails on every attempt would keep the
  process down forever.

**Mutants.** Each property of a passing run is broken by a plausible bug in the
code it is about:
- adding the finalizer and requesting power-off in one reconcile;
- deleting the Node in the reconcile that writes the backup;
- ignoring the SetUnhealthyAnnotation error;
- keeping the power-off annotation in Waiting;
- admitting a retry limit of 0;
- a Retry that does not count the attempt (RefinesPhases);
- mergeMaps called with its maps swapped, so the backup wins
  (RestoreKeepsLiveKeys);
- a webhook that skips a nil strategy, a timeout check with `<=`, and a
  template Default that leaves a nil timeout;
- a lease that expires while its holder still runs, and a waitForAPIs that
  loops on after finding the group.

## What is proved

`Metal3RemediationProofs.tla` proves the following for every value of the
constants that satisfies `ConstantsAssumption`:

- `TypeCorrect`: `Spec => []TypeOK`. TypeOK is split into four groups (the
  Remediation, Host, Machine and Node variables), with one lemma per group for
  the steps that leave it alone, and lemmas for the record updates and
  `Commit`.
- `PowerHoldSafe`: `Spec => []PowerHoldBracketedByFinalizer`. Together with
  TypeOK this invariant is inductive. Only RequestPowerOff sets the annotation,
  and it requires the finalizer. Only the two release paths clear the
  finalizer, and both remove the annotation first. Commit and
  RemediationDeleted keep a Remediation that carries a finalizer.
- `BackupSafe`: `Spec => []BackupMatchesDeletedNode`. The property on its own is
  not inductive, because AddFinalizer can add the finalizer to a Remediation
  whose backup is arbitrary. The proof uses the stronger
  `NodeBackupInv == ~nodeExists /\ deletedMeta # None => rem.backup = deletedMeta`,
  which is defined in the proofs module and not checked by any run. It holds because the backup
  changes only while a Node is visible, and DeleteNode deletes only a Node
  equal to the stored backup.
- `EscalationSafe`: `Spec => []DeletingMeansEscalated`. Only Escalate stores
  Deleting, and only on the path where SetUnhealthyAnnotation succeeded. Nothing
  clears the unhealthy annotation or brings a Machine back.
- `LiveKeysKept`: `Spec => RestoreKeepsLiveKeys`, the action property of spec
  section 8 item 8. The lemma `RestoreKeepsPresent` shows that `RestoreNode`
  returns the Node's own value for every key the Node has. Every other step
  that keeps a Node registered leaves its maps alone. NodeRegister writes them
  only for a Node that did not exist.
- `PhasesRefined`: `Spec => RefinesPhases`.
  - The initial state maps to the abstract initial state.
  - `RefineStep` shows that every step of Next maps to an abstract step or a
    stutter. It has one case per action, and each case closes through the
    lemma `CommitRefines`: a deferred patch that keeps retryCount and stores
    the same phase, or a pair of `PhaseMoves`, is a step of the phase table.
  - The Retry case needs the lemma `DeletingSafe`,
    `Spec => []DeletingHasFinalizer`: a stored Remediation that is being
    deleted still carries its finalizer. This is a fact about the modelled API
    server (Commit and RemediationDeleted remove such an object as soon as its
    finalizer goes), not about the reconciler. A Retry whose patch fails on a
    deleting object must not look like a removal.

`RemediationWebhookProofs.tla` proves, for all strategy values allowed by
`WebhookAssumption`:
- `WebhookTypeCorrect`: `Spec => []TypeOK`. Nothing nil is ever stored as a
  strategy.
- `TemplateRemediationsSafe`: `Spec => []TemplateRemediationsRunnable`.
  - The property alone is not inductive, because CloneTemplate copies the
    stored template.
  - The inductive invariant `WInv` adds that the stored template itself is
    runnable.
  - Lemmas show that `TemplateDefault` of any non-nil strategy has a timeout and
    a valid type and retryLimit once validation passes (`DefaultShape`,
    `DefaultedRunnable`).
- `AdmissionMatchesSpec`: `Spec => []AdmissionFollowsSpec`. Every answer the
  webhooks give to a non-nil strategy is the one the rules of spec section 4.1
  give.
  - `RemediationFollowsSpec` proves this for validateRemediation on any stored
    strategy.
  - `TemplateFollowsSpec` proves it for the template's Default followed by
    validation. It works field by field through `DefaultFields`, the three
    field equations of `TemplateDefault`.
  - The proof assumes `SentinelAssumption`: `Nil` and `NoObject` are not
    strategy records. Without it the initial "no request" state could be
    mistaken for a request.

`StartupProofs.tla` proves, for any set of replicas and any `MayFail`:
- `StartupTypeCorrect`: `Spec => []TypeOK`.
- `ElectionSerializes`: under `LeaderElect`, `Spec => []SingleActiveReconciler`.
  - The inductive invariant is `RunningHoldsLease`: a running replica holds the
    lease.
  - AcquireLease needs the lease to be free, so nobody else runs.
  - LeaseExpires needs the holder to be out of the loop.

Only TLC checks the following:
- The liveness properties (RemediationConcludes, HostMarkedAfterMachineDeletion,
  DeletedRemediationReleased, ReconcilerKeepsRunning). They need fairness and
  ENABLED, which TLAPS cannot reason about.
- The violated properties.

## Not modelled

- **Informer-cache staleness** (controller line 63). The model reads live
  objects. The case that matters:
  1. The cache still shows Running after the reconciler's own EnterWaiting
     patch.
  2. Waiting has already removed the power-off annotation.
  3. A reconcile on the stale copy requests power-off again, which is a
     spurious power cycle.
  4. It may also back up and delete the Node that has just re-registered.

  Checking this needs a lagging cached copy of every object, with merge-patch
  semantics against the stale base under every guard. That would be a model
  of its own and would rework every proof. It is listed as a hazard.
- **The Manager Factory.** It wraps a client and the four objects of one
  reconcile in a RemediationManager. It has no state and no failure path.
- **Parts of main.go.** Flag parsing, logging, TLS options, the watch namespace
  and the health endpoints are left out, because they hold no state that the
  properties read. The lease protocol is controller-runtime's and is modelled
  from spec section 5.
- **Two Remediations on one Host.** The UID-scoped annotation keys are meant to
  keep them apart.
- **The generated mocks.** They are test code.
- **A request without spec.strategy.** Such a request makes validateRemediation
  (webhook line 85) and the template's Default (line 52) dereference nil. The
  model records this as the answer "panic". Whether the API server ever sends
  such a request depends on the CRD schema, which is not in this repository, so
  no run asserts that it never happens.
- **The webhook transport.** A panic in a handler is recorded as the answer
  "panic". What the API server then does depends on the webhook
  configuration's failure policy, which is not in this repository.

## Plan

1. Model informer-cache reads: a cached copy of the Remediation and the Host
   with a lagging refresh. Then check the same safety properties against stale
   reads.
2. Model two Remediations for different Machines sharing the per-UID
   annotation scheme, to check that one cannot release the other's hold.
3. Compose Startup with Metal3Remediation: with `--leader-elect=false`, run two
   reconcilers on one Remediation and check the safety properties.
4. Prove more theorems: retryCount monotonicity, and a bound on the number of
   power cycles when retryLimit is not edited.
