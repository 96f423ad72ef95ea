---------------------------- MODULE MCInboundSync ---------------------------
(***************************************************************************)
(* Two mailboxes, as a rule at two hosts.  The second host has a copy of   *)
(* the second message (n2), and under the first one's key a message with   *)
(* another body (n1).  d1 acknowledges, d2 only archives.                  *)
(***************************************************************************)
EXTENDS InboundSync

CONSTANTS k1, k2, b1, b2, m1, m2, n1, n2, x, y, d1, d2, none

MCKey     == {k1, k2}
MCBody    == {b1, b2}
MCAcknowledging == {d1}
MCVisit   == <<x, y>>

MCOneDevice   == {d1}
MCAllMessages == {m1, m2, n1, n2}

MCTwoDevices  == {d1, d2}
MCNoCopy      == {m1, m2, n1}

MCMailboxOf == [m \in Message |-> IF m \in {m1, m2} THEN x ELSE y]
MCKeyOf     == [m \in Message |-> IF m \in {m1, n1} THEN k1 ELSE k2]
MCBodyOf    == [m \in Message |-> IF m = n1 THEN b2 ELSE b1]
MCHostOf    == [b \in {x, y} |-> b]
=============================================================================
