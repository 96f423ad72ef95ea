--------------------------- MODULE MCStoreAdapters --------------------------
(***************************************************************************)
(* Two keys, two bodies, one idempotency key used by every mutation, a     *)
(* quota that two records and the fences of two keys exhaust, and purges   *)
(* that delete one row at a time.                                          *)
(***************************************************************************)
EXTENDS StoreAdapters

CONSTANTS b1, b2

MCKey  == {1, 2}
MCBody == {b1, b2}

Item(k, b, s) == [key |-> k, body |-> b, state |-> s]

MCBatch ==
    {<<Item(1, b1, "received")>>,
     <<Item(2, b1, "prepared"), Item(1, b1, "received")>>,
     <<Item(1, b2, "received"), Item(1, b1, "received")>>}

MCNewState == {"accepted", "failed"}
=============================================================================
