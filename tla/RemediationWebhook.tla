-------------------------- MODULE RemediationWebhook --------------------------
(***************************************************************************)
(* Admission of Metal3Remediation and Metal3RemediationTemplate objects    *)
(* by the webhooks of src/pkg/webhook, and what ends up stored.            *)
(*                                                                         *)
(* spec.strategy is a pointer (the manager tests it against nil), so a     *)
(* request carries either a strategy record or Nil. A strategy record has  *)
(* a type, a timeout in whole seconds (Nil when the pointer is nil) and a  *)
(* retryLimit. An admission request ends "allowed", "denied" (an Invalid   *)
(* error listing the bad fields) or "panic" (a nil dereference inside the  *)
(* handler).                                                               *)
(*                                                                         *)
(* Three actors write the two objects: a user creates, updates and deletes *)
(* the template and the Remediation, and the MachineHealthCheck creates a  *)
(* Remediation whose strategy is a copy of the stored template's.          *)
(***************************************************************************)
EXTENDS Integers

CONSTANTS
    Nil,              \* a nil pointer
    NoObject,         \* the object is not stored
    StrategyTypes,    \* strategy.type values a request may carry
    TimeoutSeconds,   \* strategy.timeout values (seconds) a request may carry
    RetryLimitValues  \* strategy.retryLimit values a request may carry

\* The webhook's constants (metal3remediation_webhook.go lines 34-43).
RebootRemediationStrategy == "Reboot"
MinDuration == 100
DefaultDuration == 600
MinRetryLimit == 1

ASSUME WebhookAssumption ==
    /\ {"", RebootRemediationStrategy} \subseteq StrategyTypes
    /\ TimeoutSeconds \subseteq Int
    /\ RetryLimitValues \subseteq Int
    /\ Nil \notin Int

\* A non-nil strategy of a request, and what a request may carry.
Strategy == [type: StrategyTypes, timeout: TimeoutSeconds \cup {Nil},
             retryLimit: RetryLimitValues]
Payload == Strategy \cup {Nil}

\* A strategy as it may be stored: defaulting can add values of its own.
StoredStrategy == [type: StrategyTypes, timeout: Int \cup {Nil},
                   retryLimit: Int]

\* A nil pointer and an absent object are not strategy records.
ASSUME SentinelAssumption == {Nil, NoObject} \cap StoredStrategy = {}

Responses == {"allowed", "denied", "panic"}

VARIABLES
    template,     \* the stored template's (defaulted) strategy, or NoObject
    remediation,  \* the stored Remediation: its strategy and whether the
                  \* MachineHealthCheck cloned it from the template
    lastKind,     \* the kind of the last admission request
    lastPayload,  \* the strategy it carried
    lastResponse  \* and the webhook's answer

vars == <<template, remediation, lastKind, lastPayload, lastResponse>>

TypeOK ==
    /\ template \in StoredStrategy \cup {NoObject}
    /\ remediation \in [strategy: StoredStrategy, fromTemplate: BOOLEAN]
                         \cup {NoObject}
    /\ lastKind \in {"none", "template", "remediation"}
    /\ lastPayload \in StoredStrategy \cup {Nil, NoObject}
    /\ lastResponse \in Responses \cup {"none"}

(***************************************************************************)
(* The pure webhook functions.                                             *)
(***************************************************************************)

\* The fields validateRemediation / validateRemediationTemplate report as
\* invalid, in the order of the three checks.
InvalidFieldsLenient(s) ==
    { f \in {"timeout", "type", "retryLimit"} :
        CASE f = "timeout"    -> s.timeout # Nil /\ s.timeout <= MinDuration
          [] f = "type"       -> s.type # RebootRemediationStrategy
          [] f = "retryLimit" -> s.retryLimit < MinRetryLimit }

InvalidFields(s) ==
    { f \in {"timeout", "type", "retryLimit"} :
        CASE f = "timeout"    -> s.timeout # Nil /\ s.timeout < MinDuration
          [] f = "type"       -> s.type # RebootRemediationStrategy
          [] f = "retryLimit" -> s.retryLimit < MinRetryLimit }

\* A variant that skips the strategy when the pointer is nil.
validateRemediationNilAllowed(p) ==
    IF p = Nil THEN "allowed"
    ELSE IF InvalidFields(p) = {} THEN "allowed" ELSE "denied"

\* validateRemediation: the first check reads r.Spec.Strategy.Timeout, which
\* panics when Strategy is nil.
validateRemediation(p) ==
    IF p = Nil THEN "panic"
    ELSE IF InvalidFields(p) = {} THEN "allowed" ELSE "denied"

\* validateRemediationTemplate: the same three checks on the template's
\* strategy (it is only called on a defaulted, hence non-nil, strategy).
validateRemediationTemplate(s) ==
    IF InvalidFields(s) = {} THEN "allowed" ELSE "denied"

\* A Default that leaves a nil timeout alone.
TemplateDefaultNoTimeout(s) ==
    [s EXCEPT !.type = IF @ = "" THEN RebootRemediationStrategy ELSE @,
              !.retryLimit = IF @ < MinRetryLimit THEN MinRetryLimit ELSE @]

\* Metal3RemediationTemplate.Default on a non-nil strategy.
TemplateDefault(s) ==
    [s EXCEPT !.type = IF @ = "" THEN RebootRemediationStrategy ELSE @,
              !.timeout = IF @ = Nil THEN DefaultDuration ELSE @,
              !.retryLimit = IF @ < MinRetryLimit THEN MinRetryLimit ELSE @]

\* A template request runs the mutating webhook (Default), then the
\* validating one (ValidateCreate / ValidateUpdate). Default's first read of
\* Strategy.Type panics when Strategy is nil.
TemplateAdmission(p) ==
    IF p = Nil THEN "panic" ELSE validateRemediationTemplate(TemplateDefault(p))

\* A Remediation request: Default is a no-op, then ValidateCreate /
\* ValidateUpdate call validateRemediation.
RemediationAdmission(p) == validateRemediation(p)

(***************************************************************************)
(* The state machine.                                                      *)
(***************************************************************************)

Init ==
    /\ template = NoObject
    /\ remediation = NoObject
    /\ lastKind = "none"
    /\ lastPayload = NoObject
    /\ lastResponse = "none"

\* A user creates or updates the template (the two handlers are the same).
SubmitTemplate(p) ==
    LET resp == TemplateAdmission(p) IN
    /\ lastKind' = "template"
    /\ lastPayload' = p
    /\ lastResponse' = resp
    /\ template' = IF resp = "allowed" THEN TemplateDefault(p) ELSE template
    /\ UNCHANGED remediation

\* A user deletes the template; ValidateDelete always admits.
DeleteTemplate ==
    /\ template # NoObject
    /\ template' = NoObject
    /\ UNCHANGED <<remediation, lastKind, lastPayload, lastResponse>>

\* A user creates or updates the Remediation with strategy p.
SubmitRemediation(p) ==
    LET resp == RemediationAdmission(p) IN
    /\ lastKind' = "remediation"
    /\ lastPayload' = p
    /\ lastResponse' = resp
    /\ remediation' = IF resp = "allowed"
                        THEN [strategy |-> p, fromTemplate |-> FALSE]
                        ELSE remediation
    /\ UNCHANGED template

\* The MachineHealthCheck creates a Remediation from the stored template.
CloneTemplate ==
    LET resp == RemediationAdmission(template) IN
    /\ template # NoObject
    /\ remediation = NoObject
    /\ lastKind' = "remediation"
    /\ lastPayload' = template
    /\ lastResponse' = resp
    /\ remediation' = IF resp = "allowed"
                        THEN [strategy |-> template, fromTemplate |-> TRUE]
                        ELSE remediation
    /\ UNCHANGED template

\* The Remediation is deleted; ValidateDelete always admits.
DeleteRemediation ==
    /\ remediation # NoObject
    /\ remediation' = NoObject
    /\ UNCHANGED <<template, lastKind, lastPayload, lastResponse>>

Next ==
    \/ \E p \in Payload : SubmitTemplate(p) \/ SubmitRemediation(p)
    \/ DeleteTemplate
    \/ CloneTemplate
    \/ DeleteRemediation

Spec == Init /\ [][Next]_vars

(***************************************************************************)
(* Properties.                                                             *)
(***************************************************************************)

\* What the reconciler needs of a strategy: type Reboot (controller line
\* 129), a non-nil timeout (GetTimeout().Duration at line 210) and a
\* retryLimit that RetryLimitIsSet accepts.
Runnable(s) ==
    /\ s.type = RebootRemediationStrategy
    /\ s.timeout # Nil
    /\ s.retryLimit >= MinRetryLimit

\* The admission rules of the spec (section 4.1), written from its text:
\* a Remediation is admitted iff its type is Reboot, its timeout is absent
\* or at least 100 s and its retryLimit at least 1; a template is admitted
\* iff defaulting can make it so: its type is empty or Reboot and its
\* timeout absent or at least 100 s (every retryLimit is raised to 1).
SpecAdmits(kind, s) ==
    IF kind = "remediation"
    THEN /\ s.type = "Reboot"
         /\ s.timeout = Nil \/ s.timeout >= 100
         /\ s.retryLimit >= 1
    ELSE /\ s.type \in {"", "Reboot"}
         /\ s.timeout = Nil \/ s.timeout >= 100

\* Every answer the webhooks give to a non-nil strategy, for a template
\* (Default then validateRemediationTemplate) or a Remediation
\* (validateRemediation), is the one the spec's admission rules give.
AdmissionFollowsSpec ==
    lastPayload \in Strategy =>
        (lastResponse = "allowed" <=> SpecAdmits(lastKind, lastPayload))

\* Every Remediation the MachineHealthCheck created from a template, however
\* the template was written and rewritten before, can be run by the
\* reconciler: template defaulting and validation leave no nil timeout.
TemplateRemediationsRunnable ==
    remediation # NoObject /\ remediation.fromTemplate =>
        Runnable(remediation.strategy)

\* Every stored Remediation can be run by the reconciler, whoever wrote it.
AdmittedRemediationsRunnable ==
    remediation # NoObject => Runnable(remediation.strategy)

=============================================================================
