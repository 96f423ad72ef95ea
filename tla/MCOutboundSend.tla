--------------------------- MODULE MCOutboundSend ---------------------------
(***************************************************************************)
(* Three calls with one message: c1 and c2 encrypt it for themselves, c3   *)
(* submits the ciphertext of c1 once more.                                 *)
(***************************************************************************)
EXTENDS OutboundSend

CONSTANTS k1, b1, b2, c1, c2, c3, none

MCKey      == {k1}
MCBody     == {b1, b2}
MCSend     == {c1, c2, c3}
MCKeyOf    == [s \in MCSend |-> k1]
MCBodyOf   == [s \in MCSend |-> IF s = c2 THEN b2 ELSE b1]
MCNewState == {"unknown", "failed"}
=============================================================================
