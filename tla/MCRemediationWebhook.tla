------------------------ MODULE MCRemediationWebhook ------------------------
(* An instance of RemediationWebhook for TLC: the three kinds of strategy  *)
(* type (empty, Reboot, another), timeouts on both sides of the 100 s      *)
(* bound or absent, and retry limits on both sides of 1.                   *)
EXTENDS RemediationWebhook

MCStrategyTypes == {"", "Reboot", "Rebuild"}
MCTimeoutSeconds == {99, 100}
MCRetryLimitValues == {0, 1}
=============================================================================
