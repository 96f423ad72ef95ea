-------------------------- MODULE MCRequestPipeline -------------------------
(***************************************************************************)
(* Two requests at a time.  Two owners, of whom o1 has one id more than    *)
(* the replay window keeps, all used again and again; requests come from   *)
(* the proxy, through it, and claiming another owner.                      *)
(***************************************************************************)
EXTENDS RequestPipeline, TLC

CONSTANTS r1, r2, o1, o2, i1, i2, i3, proxy, host, none, nobody

MCSlot      == {r1, r2}
MCOwner     == {o1, o2}
MCAddress   == {proxy, host}
MCRequestId == {i1, i2, i3}
MCSymmetry  == Permutations(MCSlot)

Plain == [route |-> "archive", origin |-> "none", fits |-> TRUE, socket |-> proxy,
          hop |-> none, id |-> i1, signed |-> TRUE, signer |-> o1, claim |-> nobody,
          flaw |-> "none"]

MCCall ==
    {Plain,
     [Plain EXCEPT !.id = i2, !.hop = host, !.route = "feed"],
     [Plain EXCEPT !.id = i3, !.hop = host, !.flaw = "shape", !.route = "mutation"],
     [Plain EXCEPT !.id = i3, !.signer = o2, !.claim = o1],
     [Plain EXCEPT !.route = "ready", !.socket = host, !.signed = FALSE],
     [Plain EXCEPT !.route = "handshake", !.hop = host],
     [Plain EXCEPT !.signed = FALSE],
     [Plain EXCEPT !.flaw = "bounds"],
     [Plain EXCEPT !.origin = "foreign"]}
=============================================================================
