------------------------ MODULE MCMetal3Remediation ------------------------
(* Small instances of Metal3Remediation for TLC: two annotation/label keys *)
(* and two values.  The unhealthy Node carries k1; a re-registered Node    *)
(* comes back either without k1 or with k1 set to another value.          *)
EXTENDS Metal3Remediation, TLC

CONSTANTS k1, k2, v1, v2

MCKeys == {k1, k2}
MCVals == {v1, v2}
MCInitMeta == (k1 :> v1) @@ (k2 :> None)
MCRegisterMetas == { (k1 :> None) @@ (k2 :> v2),
                     (k1 :> v2) @@ (k2 :> None) }
=============================================================================
