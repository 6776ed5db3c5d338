--------------------------- MODULE RemediationPhases ---------------------------
(***************************************************************************)
(* What one Metal3Remediation promises about its status, independent of    *)
(* how the reconciler gets there: the phase table of the reboot strategy   *)
(* and the retry counter.                                                  *)
(*                                                                         *)
(*   ""      -> Running   first observation                                *)
(*   Running -> Waiting   the Host is off and the Node is handled          *)
(*   Waiting -> Running   a retry, which counts one more attempt           *)
(*   Waiting -> Deleting  escalation                                       *)
(*   any     -> Failed    the Host is offline                              *)
(*   any     -> Gone      the object is removed from the API server        *)
(*                                                                         *)
(* retryCount changes only on a retry, by one; nothing comes back from     *)
(* Gone.                                                                   *)
(***************************************************************************)
EXTENDS Naturals

VARIABLES
    phase,      \* status.phase, or "Gone" once the object is removed
    retryCount  \* status.retryCount

vars == <<phase, retryCount>>

StoredPhases == {"", "Running", "Waiting", "Deleting", "Failed"}

TypeOK ==
    /\ phase \in StoredPhases \cup {"Gone"}
    /\ retryCount \in Nat

Init ==
    /\ phase = ""
    /\ retryCount = 0

Start ==
    /\ phase = ""
    /\ phase' = "Running"
    /\ UNCHANGED retryCount

Park ==
    /\ phase = "Running"
    /\ phase' = "Waiting"
    /\ UNCHANGED retryCount

Retry ==
    /\ phase = "Waiting"
    /\ phase' = "Running"
    /\ retryCount' = retryCount + 1

Escalate ==
    /\ phase = "Waiting"
    /\ phase' = "Deleting"
    /\ UNCHANGED retryCount

Fail ==
    /\ phase \in StoredPhases
    /\ phase' = "Failed"
    /\ UNCHANGED retryCount

Remove ==
    /\ phase # "Gone"
    /\ phase' = "Gone"
    /\ UNCHANGED retryCount

Next == Start \/ Park \/ Retry \/ Escalate \/ Fail \/ Remove

Spec == Init /\ [][Next]_vars

=============================================================================
