---------------------------- MODULE OwnerHistory ----------------------------
(***************************************************************************)
(* What the history repository promises one authenticated owner, with no   *)
(* sequence numbers, change log, quotas, snapshots or idempotency rows:    *)
(* a write-once map from record key to encrypted body, a delivery state    *)
(* beside each body that never leaves "accepted", a fence behind which a   *)
(* deleted key stays for the rest of the epoch, and delete-all, which      *)
(* starts a new epoch with an empty history.                               *)
(*                                                                         *)
(* HistoryStore is shown to implement this module.                         *)
(***************************************************************************)
EXTENDS Integers

CONSTANTS
    Key,    \* canonical record keys of one owner
    Body    \* encrypted bodies

VARIABLES
    epoch,    \* generation of the history, advanced by delete-all
    entries,  \* [key -> [body, state]], defined on the keys that are stored
    fenced    \* the keys deleted in this epoch

vars == <<epoch, entries, fenced>>

DeliveryState == {"prepared", "received", "unknown", "accepted", "failed"}
InitialState  == {"prepared", "received"}

Init ==
    /\ epoch = 1
    /\ entries = [k \in {} |-> k]
    /\ fenced = {}

(***************************************************************************)
(* Some keys that are neither stored nor fenced get a body.  What was      *)
(* stored before is left exactly as it was.                                *)
(***************************************************************************)
Store(K) ==
    /\ K \cap (DOMAIN entries \cup fenced) = {}
    /\ DOMAIN entries' = DOMAIN entries \cup K
    /\ \A k \in DOMAIN entries : entries'[k] = entries[k]
    /\ \A k \in K : /\ entries'[k].body \in Body
                    /\ entries'[k].state \in InitialState
    /\ UNCHANGED <<epoch, fenced>>

SetState(k, s) ==
    /\ k \in DOMAIN entries
    /\ entries[k].state = "accepted" => s = "accepted"
    /\ entries' = [entries EXCEPT ![k].state = s]
    /\ UNCHANGED <<epoch, fenced>>

Remove(k) ==
    /\ k \in DOMAIN entries \cup fenced
    /\ entries' = [j \in DOMAIN entries \ {k} |-> entries[j]]
    /\ fenced' = fenced \cup {k}
    /\ UNCHANGED epoch

Clear ==
    /\ epoch' = epoch + 1
    /\ entries' = [k \in {} |-> k]
    /\ fenced' = {}

Next ==
    \/ \E K \in SUBSET Key : Store(K)
    \/ \E k \in Key, s \in DeliveryState : SetState(k, s)
    \/ \E k \in Key : Remove(k)
    \/ Clear

Spec == Init /\ [][Next]_vars
=============================================================================
