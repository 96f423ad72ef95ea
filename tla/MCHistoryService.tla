--------------------------- MODULE MCHistoryService -------------------------
(***************************************************************************)
(* Three requests, two at a time, all to /ready: what matters here is how  *)
(* long a request takes and whether its client waits.  With one admission  *)
(* slot the second one gets in if the first one's client has gone.         *)
(***************************************************************************)
EXTENDS HistoryService

CONSTANTS r1, r2, host, owner, none, nobody

MCSlot == {r1, r2}

MCCall ==
    {[route |-> "ready", origin |-> "none", fits |-> TRUE, socket |-> host,
      hop |-> none, id |-> 0, signed |-> FALSE, signer |-> owner, claim |-> nobody,
      flaw |-> "none"]}
=============================================================================
