------------------------- MODULE MCRestoreRecovery --------------------------
(***************************************************************************)
(* Two records, a snapshot of both, and one backup that is restored twice, *)
(* so that a second branch of the history grows from the same image.       *)
(***************************************************************************)
EXTENDS RestoreRecovery

CONSTANTS k1, k2, b1, s1, none

MCKey      == {k1, k2}
MCBody     == {b1}
MCSnapId   == {s1}
MCNewState == {"accepted"}
MCFilter   == {{k1, k2}}

It(k) == [key |-> k, body |-> b1, state |-> "received"]
MCBatch == {<<It(k1)>>, <<It(k2)>>}
=============================================================================
