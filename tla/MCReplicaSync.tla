---------------------------- MODULE MCReplicaSync ---------------------------
(***************************************************************************)
(* One device that replicates two keys, and a batch that fills both.       *)
(***************************************************************************)
EXTENDS ReplicaSync

CONSTANTS k1, k2, b1, s1, none

MCKey      == {k1, k2}
MCBody     == {b1}
MCSnapId   == {s1}
MCNewState == {"accepted"}
MCFilter   == {{k1, k2}}

It(k) == [key |-> k, body |-> b1, state |-> "received"]
MCBatch == {<<It(k1), It(k2)>>}
=============================================================================
