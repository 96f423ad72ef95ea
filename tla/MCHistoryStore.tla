--------------------------- MODULE MCHistoryStore ---------------------------
(***************************************************************************)
(* HistoryStore on three record keys, two bodies and one idempotency key.  *)
(* The second batch meets every case an item can be in: new, repeated with *)
(* the same body, already stored with another body, and out of room.       *)
(***************************************************************************)
EXTENDS HistoryStore

CONSTANTS k1, k2, k3, b1, b2, i1, s1, none

MCKey     == {k1, k2, k3}
MCBody    == {b1, b2}
MCIdemKey == {i1}
MCSnapId  == {s1}
MCNewState == {"unknown", "accepted"}
MCFilter  == {{k1, k2}}

It(k, b, s) == [key |-> k, body |-> b, state |-> s]
MCBatch == {<<It(k1, b1, "prepared")>>,
            <<It(k2, b1, "received"), It(k1, b2, "prepared"), It(k2, b2, "received"),
              It(k3, b1, "received")>>}
=============================================================================
