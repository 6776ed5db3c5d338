----------------------- MODULE RemediationWebhookProofs -----------------------
(* Proofs about the admission webhooks, for every value of the constants    *)
(* that satisfies WebhookAssumption.                                       *)
EXTENDS RemediationWebhook, TLAPS

\* The inductive invariant: a stored template is itself runnable, so a
\* Remediation cloned from it is.
WInv ==
    /\ TypeOK
    /\ template # NoObject => Runnable(template)
    /\ TemplateRemediationsRunnable

\* InvalidFields is empty exactly when all three checks pass.
LEMMA InvalidFieldsEmpty ==
    ASSUME NEW s \in StoredStrategy
    PROVE  InvalidFields(s) = {} <=>
             /\ ~(s.timeout # Nil /\ s.timeout < MinDuration)
             /\ s.type = RebootRemediationStrategy
             /\ s.retryLimit >= MinRetryLimit
<1>1. "timeout" \in InvalidFields(s) <=> (s.timeout # Nil /\ s.timeout < MinDuration)
  BY DEF InvalidFields
<1>2. "type" \in InvalidFields(s) <=> s.type # RebootRemediationStrategy
  BY DEF InvalidFields
<1>3. "retryLimit" \in InvalidFields(s) <=> s.retryLimit < MinRetryLimit
  BY DEF InvalidFields
<1>4. InvalidFields(s) \subseteq {"timeout", "type", "retryLimit"}
  BY DEF InvalidFields
<1>5. s.retryLimit < MinRetryLimit <=> ~(s.retryLimit >= MinRetryLimit)
  BY DEF StoredStrategy, MinRetryLimit
<1>. QED  BY <1>1, <1>2, <1>3, <1>4, <1>5
\* A non-nil strategy is a stored one.
LEMMA StrategyStored == Strategy \subseteq StoredStrategy
<1> SUFFICES ASSUME NEW s \in Strategy PROVE s \in StoredStrategy
  OBVIOUS
<1>1. /\ s = [type |-> s.type, timeout |-> s.timeout, retryLimit |-> s.retryLimit]
      /\ s.type \in StrategyTypes
      /\ s.timeout \in TimeoutSeconds \/ s.timeout = Nil
      /\ s.retryLimit \in RetryLimitValues
  BY DEF Strategy
<1>2. s.timeout \in Int \cup {Nil}
  BY <1>1, WebhookAssumption
<1>3. s.retryLimit \in Int
  BY <1>1, WebhookAssumption
<1>. QED  BY <1>1, <1>2, <1>3 DEF StoredStrategy

\* Overwriting the three fields of a stored strategy with well-typed
\* values gives a stored strategy.
LEMMA StoredExcept ==
    ASSUME NEW r \in StoredStrategy, NEW a \in StrategyTypes,
           NEW b \in Int, NEW c \in Int
    PROVE  [r EXCEPT !.type = a, !.timeout = b, !.retryLimit = c] \in StoredStrategy
  BY DEF StoredStrategy

\* Template defaulting yields a stored strategy with a non-nil timeout.
LEMMA DefaultShape ==
    ASSUME NEW p \in Strategy
    PROVE  /\ TemplateDefault(p) \in StoredStrategy
           /\ TemplateDefault(p).timeout # Nil
<1>1. p \in StoredStrategy
  BY StrategyStored
<1>2. RebootRemediationStrategy \in StrategyTypes
  BY WebhookAssumption
<1>3. TemplateDefault(p).timeout = IF p.timeout = Nil THEN DefaultDuration ELSE p.timeout
  BY <1>1 DEF StoredStrategy, TemplateDefault
<1>4. TemplateDefault(p).type = IF p.type = "" THEN RebootRemediationStrategy ELSE p.type
  BY <1>1 DEF StoredStrategy, TemplateDefault
<1>5. TemplateDefault(p).retryLimit =
        IF p.retryLimit < MinRetryLimit THEN MinRetryLimit ELSE p.retryLimit
  BY <1>1 DEF StoredStrategy, TemplateDefault
<1>7. TemplateDefault(p).timeout \in Int
  <2>1. CASE p.timeout = Nil
    BY <1>3, <2>1 DEF DefaultDuration
  <2>2. CASE p.timeout # Nil
    <3>1. p.timeout \in TimeoutSeconds
      BY <2>2 DEF Strategy
    <3>. QED  BY <1>3, <2>2, <3>1, WebhookAssumption
  <2>. QED  BY <2>1, <2>2
<1>8. TemplateDefault(p).type \in StrategyTypes
  BY <1>1, <1>2, <1>4 DEF StoredStrategy
<1>9. TemplateDefault(p).retryLimit \in Int
  BY <1>1, <1>5 DEF StoredStrategy, MinRetryLimit
<1>10. TemplateDefault(p) \in StoredStrategy
  <2> DEFINE A == IF p.type = "" THEN RebootRemediationStrategy ELSE p.type
             B == IF p.timeout = Nil THEN DefaultDuration ELSE p.timeout
             C == IF p.retryLimit < MinRetryLimit THEN MinRetryLimit ELSE p.retryLimit
  <2>1. A \in StrategyTypes /\ B \in Int /\ C \in Int
    BY <1>3, <1>4, <1>5, <1>7, <1>8, <1>9
  <2>2. [p EXCEPT !.type = A, !.timeout = B, !.retryLimit = C] \in StoredStrategy
    BY <1>1, <2>1, StoredExcept
  <2>. QED  BY <2>2, Zenon DEF TemplateDefault
<1>. QED  BY <1>7, <1>10, WebhookAssumption

\* A strategy that template defaulting and validation admit is stored with
\* the reconciler's requirements met: Default fills a nil timeout with
\* 600 s, and validation then checks type and retryLimit.
LEMMA DefaultedRunnable ==
    ASSUME NEW p \in Strategy,
           validateRemediationTemplate(TemplateDefault(p)) = "allowed"
    PROVE  /\ TemplateDefault(p) \in StoredStrategy
           /\ Runnable(TemplateDefault(p))
<1>1. TemplateDefault(p) \in StoredStrategy /\ TemplateDefault(p).timeout # Nil
  BY DefaultShape
<1>2. InvalidFields(TemplateDefault(p)) = {}
  BY DEF validateRemediationTemplate
<1>3. /\ TemplateDefault(p).type = RebootRemediationStrategy
      /\ TemplateDefault(p).retryLimit >= MinRetryLimit
  BY <1>1, <1>2, InvalidFieldsEmpty
<1>. QED  BY <1>1, <1>3 DEF Runnable

\* The stored template is always runnable, and so is every Remediation the
\* MachineHealthCheck cloned from it.
LEMMA WInvInductive == WInv /\ [Next]_vars => WInv'
<1> SUFFICES ASSUME WInv, [Next]_vars PROVE WInv'
  OBVIOUS
<1>1. CASE \E p \in Payload : SubmitTemplate(p)
  <2>1. PICK p \in Payload : SubmitTemplate(p)
    BY <1>1
  <2>2. CASE TemplateAdmission(p) = "allowed"
    <3>1. p \in Strategy
      BY <2>2 DEF Payload, TemplateAdmission
    <3>2. /\ TemplateDefault(p) \in StoredStrategy
          /\ Runnable(TemplateDefault(p))
      BY <3>1, <2>2, DefaultedRunnable DEF TemplateAdmission
    <3>. QED  BY <2>1, <2>2, <3>1, <3>2, StrategyStored
              DEF SubmitTemplate, WInv, TypeOK, TemplateRemediationsRunnable, Responses
  <2>3. CASE TemplateAdmission(p) # "allowed"
    <3>1. TemplateAdmission(p) \in Responses
      BY DEF TemplateAdmission, validateRemediationTemplate, Responses
    <3>. QED  BY <2>1, <2>3, <3>1, StrategyStored
              DEF SubmitTemplate, WInv, TypeOK, TemplateRemediationsRunnable, Payload
  <2>. QED  BY <2>2, <2>3
<1>2. CASE \E p \in Payload : SubmitRemediation(p)
  <2>1. PICK p \in Payload : SubmitRemediation(p)
    BY <1>2
  <2>2. RemediationAdmission(p) \in Responses
    BY DEF RemediationAdmission, validateRemediation, Responses
  <2>3. RemediationAdmission(p) = "allowed" => p \in Strategy
    BY DEF RemediationAdmission, validateRemediation, Payload
  <2>. QED  BY <2>1, <2>2, <2>3, StrategyStored
            DEF SubmitRemediation, WInv, TypeOK, TemplateRemediationsRunnable, Payload
<1>3. CASE CloneTemplate
  <2>1. template \in StoredStrategy /\ Runnable(template)
    BY <1>3 DEF CloneTemplate, WInv, TypeOK
  <2>2. RemediationAdmission(template) \in Responses
    BY DEF RemediationAdmission, validateRemediation, Responses
  <2>. QED  BY <1>3, <2>1, <2>2
            DEF CloneTemplate, WInv, TypeOK, TemplateRemediationsRunnable
<1>4. CASE DeleteTemplate
  BY <1>4 DEF DeleteTemplate, WInv, TypeOK, TemplateRemediationsRunnable
<1>5. CASE DeleteRemediation
  BY <1>5 DEF DeleteRemediation, WInv, TypeOK, TemplateRemediationsRunnable
<1>6. CASE UNCHANGED vars
  BY <1>6 DEF vars, WInv, TypeOK, TemplateRemediationsRunnable
<1>. QED  BY <1>1, <1>2, <1>3, <1>4, <1>5, <1>6 DEF Next

\* Every Remediation that the MachineHealthCheck creates from a template,
\* however the template was written before, carries type Reboot, a
\* non-nil timeout and a retryLimit of at least 1: the template path never
\* hands the reconciler a strategy it dereferences or rejects.
THEOREM TemplateRemediationsSafe == Spec => []TemplateRemediationsRunnable
<1>1. Init => WInv
  BY DEF Init, WInv, TypeOK, TemplateRemediationsRunnable
<1>2. WInv => TemplateRemediationsRunnable
  BY DEF WInv
<1>. QED  BY <1>1, <1>2, WInvInductive, PTL DEF Spec

\* The webhook model is well typed.
THEOREM WebhookTypeCorrect == Spec => []TypeOK
<1>1. Init => WInv
  BY DEF Init, WInv, TypeOK, TemplateRemediationsRunnable
<1>. QED  BY <1>1, WInvInductive, PTL DEF Spec, WInv

(***************************************************************************)
(* The webhooks answer as the admission rules of the spec say.            *)
(***************************************************************************)

\* The three fields Default writes, on any stored strategy.
LEMMA DefaultFields ==
    ASSUME NEW p \in StoredStrategy
    PROVE  /\ TemplateDefault(p).type =
                IF p.type = "" THEN RebootRemediationStrategy ELSE p.type
           /\ TemplateDefault(p).timeout =
                IF p.timeout = Nil THEN DefaultDuration ELSE p.timeout
           /\ TemplateDefault(p).retryLimit =
                IF p.retryLimit < MinRetryLimit THEN MinRetryLimit ELSE p.retryLimit
BY DEF StoredStrategy, TemplateDefault

\* validateRemediation on a stored strategy accepts exactly what the spec's
\* rules for a Remediation accept.
LEMMA RemediationFollowsSpec ==
    ASSUME NEW s \in StoredStrategy
    PROVE  validateRemediation(s) = "allowed" <=> SpecAdmits("remediation", s)
<1>1. s # Nil
    BY SentinelAssumption
<1>2. validateRemediation(s) = "allowed" <=> InvalidFields(s) = {}
    BY <1>1 DEF validateRemediation
<1>3. s.timeout \in Int \cup {Nil} /\ s.retryLimit \in Int
    BY DEF StoredStrategy
<1> QED
    BY <1>2, <1>3, InvalidFieldsEmpty
       DEF SpecAdmits, RebootRemediationStrategy, MinDuration, MinRetryLimit

\* Default followed by validateRemediationTemplate accepts exactly the
\* templates the spec's rules accept: every retryLimit is raised to 1, a nil
\* timeout becomes 600 s and an empty type becomes Reboot.
LEMMA TemplateFollowsSpec ==
    ASSUME NEW p \in Strategy
    PROVE  TemplateAdmission(p) = "allowed" <=> SpecAdmits("template", p)
<1> DEFINE D == TemplateDefault(p)
<1>1. p \in StoredStrategy /\ p # Nil
    BY StrategyStored, SentinelAssumption
<1>2. TemplateAdmission(p) = "allowed" <=> InvalidFields(D) = {}
    BY <1>1 DEF TemplateAdmission, validateRemediationTemplate
<1>3. D \in StoredStrategy
    BY DefaultShape
<1>4. InvalidFields(D) = {} <=>
        /\ ~(D.timeout # Nil /\ D.timeout < MinDuration)
        /\ D.type = RebootRemediationStrategy
        /\ D.retryLimit >= MinRetryLimit
    BY <1>3, InvalidFieldsEmpty
<1>5. D.retryLimit >= MinRetryLimit
    <2>1. D.retryLimit = IF p.retryLimit < MinRetryLimit THEN MinRetryLimit
                                                       ELSE p.retryLimit
        BY <1>1, DefaultFields
    <2>2. p.retryLimit \in Int
        BY <1>1 DEF StoredStrategy
    <2> QED
        BY <2>1, <2>2 DEF MinRetryLimit
<1>6. D.type = RebootRemediationStrategy <=> p.type \in {"", "Reboot"}
    BY <1>1, DefaultFields DEF RebootRemediationStrategy
<1>7. ~(D.timeout # Nil /\ D.timeout < MinDuration)
        <=> (p.timeout = Nil \/ p.timeout >= 100)
    <2>1. D.timeout = IF p.timeout = Nil THEN DefaultDuration ELSE p.timeout
        BY <1>1, DefaultFields
    <2>2. CASE p.timeout = Nil
        BY <2>1, <2>2 DEF DefaultDuration, MinDuration
    <2>3. CASE p.timeout # Nil
        <3>1. p.timeout \in Int
            BY <1>1, <2>3 DEF StoredStrategy
        <3> QED
            BY <2>1, <2>3, <3>1 DEF MinDuration
    <2> QED
        BY <2>2, <2>3
<1> QED
    BY <1>2, <1>4, <1>5, <1>6, <1>7 DEF SpecAdmits

\* One step keeps the last admission answer in line with the spec.
LEMMA FollowsSpecStep ==
    TypeOK /\ AdmissionFollowsSpec /\ [Next]_vars => AdmissionFollowsSpec'
<1> SUFFICES ASSUME TypeOK, AdmissionFollowsSpec, [Next]_vars
             PROVE  AdmissionFollowsSpec'
    OBVIOUS
<1>1. ASSUME NEW p \in Payload, SubmitTemplate(p) PROVE AdmissionFollowsSpec'
    <2>1. CASE p \in Strategy
        BY <1>1, <2>1, TemplateFollowsSpec DEF SubmitTemplate, AdmissionFollowsSpec
    <2>2. CASE p \notin Strategy
        BY <1>1, <2>2 DEF SubmitTemplate, AdmissionFollowsSpec
    <2> QED
        BY <2>1, <2>2
<1>2. ASSUME NEW p \in Payload, SubmitRemediation(p) PROVE AdmissionFollowsSpec'
    <2>1. CASE p \in Strategy
        BY <1>2, <2>1, StrategyStored, RemediationFollowsSpec
           DEF SubmitRemediation, RemediationAdmission, AdmissionFollowsSpec
    <2>2. CASE p \notin Strategy
        BY <1>2, <2>2 DEF SubmitRemediation, AdmissionFollowsSpec
    <2> QED
        BY <2>1, <2>2
<1>3. CASE CloneTemplate
    <2>1. template \in StoredStrategy
        BY <1>3 DEF CloneTemplate, TypeOK
    <2> QED
        BY <1>3, <2>1, RemediationFollowsSpec
           DEF CloneTemplate, RemediationAdmission, AdmissionFollowsSpec
<1>4. CASE DeleteTemplate \/ DeleteRemediation \/ UNCHANGED vars
    BY <1>4 DEF DeleteTemplate, DeleteRemediation, vars, AdmissionFollowsSpec
<1> QED
    BY <1>1, <1>2, <1>3, <1>4 DEF Next

\* Every answer the webhooks give to a request carrying a strategy, whether
\* for a template (Default, then validateRemediationTemplate), a Remediation
\* a user writes, or one the MachineHealthCheck clones, is the answer of the
\* admission rules of spec section 4.1, for every timeout, retryLimit and
\* type value.
THEOREM AdmissionMatchesSpec == Spec => []AdmissionFollowsSpec
<1>1. Init => AdmissionFollowsSpec
    <2>1. NoObject \notin Strategy
        BY StrategyStored, SentinelAssumption
    <2> QED
        BY <2>1 DEF Init, AdmissionFollowsSpec
<1> QED
    BY <1>1, FollowsSpecStep, WebhookTypeCorrect, PTL DEF Spec

====
