---------------------------- MODULE InboundProofs ---------------------------
(***************************************************************************)
(* Proofs about InboundSync, for every set of devices, mailboxes and       *)
(* messages, and every value of the limits.                                *)
(***************************************************************************)
EXTENDS InboundSync, HistoryStoreProofs
-----------------------------------------------------------------------------
(***************************************************************************)
(* The inductive invariant.                                                *)
(*                                                                         *)
(* A mailbox is listed in order of arrival, and a later message gets a     *)
(* later number, so the places of the messages that wait stay what they    *)
(* are until one of them is dropped.                                       *)
(***************************************************************************)
ArrivalsNumbered ==
    /\ arrival \in [Message -> Nat] /\ ackEpoch \in [Message -> 0..epoch]
    /\ IsFiniteSet(Arrived)
    /\ \A m \in Arrived :
          arrival[m] <= Cardinality({n \in Arrived : MailboxOf[n] = MailboxOf[m]})
    /\ \A m, n \in Arrived : MailboxOf[m] = MailboxOf[n] /\ arrival[m] = arrival[n] => m = n

(***************************************************************************)
(* The pass p of device d is well formed: a page is read while its         *)
(* messages are archived, what is to be acknowledged comes from the        *)
(* mailbox the pass is at, and a device that does not acknowledge collects *)
(* nothing to acknowledge.                                                 *)
(***************************************************************************)
Shaped(d, p) ==
    /\ p.at = "archive" <=> p.page # {}
    /\ p.at = "acknowledge" => p.acks # {}
    /\ p.acks # {} => d \in Acknowledging /\ p.at \in {"archive", "acknowledge"}
    /\ \A m \in p.page \cup p.acks : MailboxOf[m] = Visit[p.visit]
    /\ p.at # "idle" => p.epoch # 0

Sound(d, p) ==
    /\ p \in Pass /\ p.epoch <= epoch
    /\ p.read + Cardinality(p.page) <= MaxMessages
    /\ p.page \cup p.acks \cup p.owed \subseteq Arrived
    /\ d \in Acknowledging => p.offset = 0
    /\ Shaped(d, p)

(***************************************************************************)
(* What a pass has been told was archived is in the history, or deleted    *)
(* there, as long as the epoch is the one the pass began in.               *)
(***************************************************************************)
Grounded(p) ==
    p.epoch = epoch =>
        /\ \A m \in p.acks : Kept(m)
        /\ \A k \in DOMAIN p.cache :
              k \in tombstones \/ (k \in Live /\ records[k].body = p.cache[k])

InboundInv ==
    /\ IInv /\ ArrivalsNumbered /\ mishaps \in 0..MaxMishaps
    /\ pass \in [Device -> Pass]
    /\ \A d \in Device : Sound(d, pass[d]) /\ Grounded(pass[d])

\* Whether a pass has left the mailbox of m behind.
Behind(p, m) == \/ p.at = "done"
                \/ \E i \in DOMAIN Visit : i < p.visit /\ MailboxOf[m] = Visit[i]
Here(p, m) == MailboxOf[m] = Visit[p.visit]

(***************************************************************************)
(* A pass that acknowledges leaves a mailbox only when it is empty.        *)
(***************************************************************************)
Emptied(p) ==
    p.at # "idle" /\ ~p.incomplete => \A m \in p.owed : Behind(p, m) => ackEpoch[m] # 0

(***************************************************************************)
(* A pass that does not acknowledge, and that no acknowledgement           *)
(* disturbed, has archived all it left behind, and in the mailbox it is at *)
(* all up to its offset, or what is no longer on the page it has read.     *)
(***************************************************************************)
CaughtUp(p) ==
    p.at # "idle" /\ ~p.disturbed /\ p.epoch = epoch =>
        /\ p.at # "done" => p.owed \subseteq Pending
        /\ ~p.incomplete => \A m \in p.owed : Behind(p, m) => Kept(m)
        /\ p.at = "list" =>
              \A m \in p.owed : Here(p, m) /\ Place(m) <= p.offset => Kept(m)
        /\ p.at = "archive" /\ ~p.failed =>
              \A m \in p.owed : Here(p, m) =>
                  /\ Place(m) <= p.next /\ m \notin p.page => Kept(m)
                  /\ ~p.more => Place(m) <= p.next

DrainInv == \A d \in Acknowledging : Emptied(pass[d])
CatchUpInv == \A d \in Device \ Acknowledging : CaughtUp(pass[d])
-----------------------------------------------------------------------------
LEMMA LimitFacts ==
    /\ PageSize \in Nat \ {0} /\ MaxPages \in Nat \ {0} /\ MaxMessages \in Nat \ {0}
    /\ Len(Visit) \in Nat \ {0} /\ DOMAIN Visit = 1..Len(Visit)
BY InboundType, InboundLimits

LEMMA NoPassType == NoPass \in Pass
<1>1. Empty \in UNION {[K -> Body] : K \in SUBSET Key}
  <2>1. Empty \in [{} -> Body]
    BY DEF Empty
  <2>2. QED
    BY <2>1
<1>2. QED
  BY <1>1, LimitFacts DEF NoPass, Pass

-----------------------------------------------------------------------------
(***************************************************************************)
(* What a listing shows.                                                   *)
(***************************************************************************)
LEMMA Enumerated ==
    ASSUME NEW S, IsFiniteSet(S), NEW f \in [S -> 1..Cardinality(S)],
           \A x, y \in S : f[x] = f[y] => x = y
    PROVE  \A i \in 1..Cardinality(S) : \E x \in S : f[x] = i
<1>1. Cardinality(S) \in Nat
  BY FS_CardinalityType
<1>2. IsFiniteSet(1..Cardinality(S)) /\ Cardinality(1..Cardinality(S)) = Cardinality(S)
  BY <1>1, FS_Interval
<1>3. f \in Injection(S, 1..Cardinality(S))
  BY DEF Injection, IsInjective
<1>4. f \in Surjection(S, 1..Cardinality(S))
  BY <1>2, <1>3, FS_Injection
<1>5. QED
  BY <1>4 DEF Surjection

LEMMA AtMostAsMany ==
    ASSUME NEW S, NEW T, IsFiniteSet(T), NEW f \in [S -> T],
           \A x, y \in S : f[x] = f[y] => x = y
    PROVE  IsFiniteSet(S) /\ Cardinality(S) <= Cardinality(T)
<1>1. f \in Injection(S, T)
  BY DEF Injection, IsInjective
<1>2. QED
  BY <1>1, FS_Injection

LEMMA WaitingFacts ==
    ASSUME ArrivalsNumbered, NEW b
    PROVE  /\ Waiting(b) \subseteq Arrived
           /\ IsFiniteSet(Waiting(b)) /\ Cardinality(Waiting(b)) \in Nat
           /\ \A m \in Waiting(b) : MailboxOf[m] = b /\ m \in Message /\ arrival[m] \in Nat
<1>1. Waiting(b) \subseteq Arrived
  BY DEF Waiting, Pending
<1>2. QED
  BY <1>1, FS_Subset, FS_CardinalityType DEF ArrivalsNumbered, Waiting, Pending, Arrived

\* The messages of a mailbox up to one of them.
UpTo(m, b) == {n \in Waiting(b) : arrival[n] <= arrival[m]}

LEMMA PlaceRange ==
    ASSUME ArrivalsNumbered, NEW b, NEW m \in Waiting(b)
    PROVE  /\ Place(m) = Cardinality(UpTo(m, b)) /\ IsFiniteSet(UpTo(m, b))
           /\ Place(m) \in 1..Cardinality(Waiting(b))
<1>1. MailboxOf[m] = b /\ Place(m) = Cardinality(UpTo(m, b))
  BY WaitingFacts DEF Place, UpTo
<1>2. /\ UpTo(m, b) \subseteq Waiting(b) /\ IsFiniteSet(UpTo(m, b))
      /\ Cardinality(UpTo(m, b)) <= Cardinality(Waiting(b))
      /\ Cardinality(UpTo(m, b)) \in Nat
  BY WaitingFacts, FS_Subset, FS_CardinalityType DEF UpTo
<1>3. Cardinality(UpTo(m, b)) # 0
  BY <1>2, WaitingFacts, FS_EmptySet DEF UpTo
<1>4. QED
  BY <1>1, <1>2, <1>3, WaitingFacts

LEMMA PlaceInjective ==
    ASSUME ArrivalsNumbered, NEW b, NEW m \in Waiting(b), NEW n \in Waiting(b),
           Place(m) = Place(n)
    PROVE  m = n
<1>1. ASSUME NEW s \in Waiting(b), NEW t \in Waiting(b), arrival[s] <= arrival[t],
             Place(s) = Place(t)
      PROVE  s = t
  <2>1. UpTo(s, b) \subseteq UpTo(t, b)
    BY <1>1, WaitingFacts DEF UpTo
  <2>2. UpTo(s, b) = UpTo(t, b)
    BY <1>1, <2>1, PlaceRange, FS_Subset
  <2>3. arrival[t] <= arrival[s]
    BY <2>2, WaitingFacts DEF UpTo
  <2>4. QED
    BY <1>1, <2>3, WaitingFacts DEF ArrivalsNumbered
<1>2. QED
  BY <1>1, WaitingFacts

(***************************************************************************)
(* A page from one place to another has a message, and no more than lie    *)
(* between.                                                                *)
(***************************************************************************)
LEMMA PageFacts ==
    ASSUME ArrivalsNumbered, NEW b, NEW lo \in Nat, NEW hi \in Nat, lo < hi,
           hi <= Cardinality(Waiting(b)),
           NEW S, S = {m \in Waiting(b) : Place(m) \in (lo + 1)..hi}
    PROVE  S # {} /\ IsFiniteSet(S) /\ Cardinality(S) <= hi - lo
<1>1. PICK f : f = [m \in Waiting(b) |-> Place(m)]
  OBVIOUS
<1>2. f \in [Waiting(b) -> 1..Cardinality(Waiting(b))]
  BY <1>1, PlaceRange
<1>3. \A m, n \in Waiting(b) : f[m] = f[n] => m = n
  BY <1>1, PlaceInjective
<1>4. S # {}
  <2>1. lo + 1 \in 1..Cardinality(Waiting(b))
    BY WaitingFacts
  <2>2. PICK m \in Waiting(b) : f[m] = lo + 1
    BY <1>2, <1>3, <2>1, WaitingFacts, Enumerated
  <2>3. QED
    BY <1>1, <2>2
<1>5. PICK g : g = [m \in S |-> Place(m)]
  OBVIOUS
<1>6. g \in [S -> (lo + 1)..hi] /\ \A m, n \in S : g[m] = g[n] => m = n
  BY <1>5, PlaceInjective
<1>7. IsFiniteSet((lo + 1)..hi) /\ Cardinality((lo + 1)..hi) = hi - lo
  BY FS_Interval
<1>8. QED
  BY <1>4, <1>6, <1>7, AtMostAsMany

LEMMA IncomingListed ==
    ASSUME ArrivalsNumbered, NEW d, pass[d].page # {}, pass[d].page \subseteq Arrived
    PROVE  /\ Incoming(d) \in pass[d].page
           /\ \A n \in pass[d].page : arrival[Incoming(d)] <= arrival[n]
<1>1. IsFiniteSet(pass[d].page)
  BY FS_Subset DEF ArrivalsNumbered
<1>2. PICK f : f = [m \in pass[d].page |-> arrival[m]]
  OBVIOUS
<1>3. f \in [pass[d].page -> Nat]
  BY <1>2 DEF ArrivalsNumbered, Arrived
<1>4. \E m \in pass[d].page : \A n \in pass[d].page : f[m] <= f[n]
  BY <1>1, <1>3, Lowest
<1>5. \E m \in pass[d].page : \A n \in pass[d].page : arrival[m] <= arrival[n]
  BY <1>2, <1>4
<1>6. QED
  BY <1>5 DEF Incoming
-----------------------------------------------------------------------------
(***************************************************************************)
(* What the pass looks like after each way to move on, without the fields  *)
(* no invariant speaks of.                                                 *)
(***************************************************************************)
Onward(p, q) ==
    /\ q \in Pass
    /\ q.epoch = p.epoch /\ q.owed = p.owed /\ q.disturbed = p.disturbed
    /\ p.incomplete => q.incomplete

Leaves(p, q) ==
    /\ Onward(p, q)
    /\ q.page = {} /\ q.acks = {} /\ q.offset = 0 /\ q.cache \in {Empty, p.cache}
    /\ \/ p.visit = Len(Visit) /\ q.at = "done"
       \/ p.visit # Len(Visit) /\ q.at = "list" /\ q.visit = p.visit + 1

LEMMA Leaving ==
    ASSUME NEW p \in Pass, NEW q, q = LeaveBox(p)
    PROVE  Leaves(p, q) /\ (~HasBudget(p) => q.incomplete)
<1>1. PICK r : r = [p EXCEPT !.incomplete = @ \/ ~HasBudget(p)]
  OBVIOUS
<1>2. /\ r \in Pass /\ r.incomplete = (p.incomplete \/ ~HasBudget(p))
      /\ r.epoch = p.epoch /\ r.owed = p.owed /\ r.disturbed = p.disturbed
      /\ r.visit = p.visit /\ r.cache = p.cache
  BY <1>1 DEF Pass, HasBudget
<1>3. CASE p.visit = Len(Visit)
  <2>1. q = Finished(r)
    BY <1>1, <1>3 DEF LeaveBox
  <2>2. PICK e \in Nat, o \in SUBSET Message, x \in BOOLEAN, y \in BOOLEAN :
           r.epoch = e /\ r.owed = o /\ r.incomplete = x /\ r.disturbed = y
    <3>1. /\ r.epoch \in Nat /\ r.owed \in SUBSET Message
          /\ r.incomplete \in BOOLEAN /\ r.disturbed \in BOOLEAN
      BY <1>2 DEF Pass
    <3>2. QED
      BY <3>1, Zenon
  <2>3. q = [NoPass EXCEPT !.at = "done", !.epoch = e, !.owed = o,
                           !.incomplete = x, !.disturbed = y]
    BY <2>1, <2>2 DEF Finished
  <2>4. q \in Pass
    BY <2>2, <2>3, NoPassType DEF Pass
  <2>5. /\ q.at = "done" /\ q.epoch = e /\ q.owed = o /\ q.incomplete = x /\ q.disturbed = y
        /\ q.page = NoPass.page /\ q.acks = NoPass.acks
        /\ q.offset = NoPass.offset /\ q.cache = NoPass.cache
    BY <2>2, <2>3, NoPassType DEF Pass
  <2>6. NoPass.page = {} /\ NoPass.acks = {} /\ NoPass.offset = 0 /\ NoPass.cache = Empty
    BY DEF NoPass
  <2>7. /\ q.at = "done" /\ q.epoch = p.epoch /\ q.owed = p.owed
        /\ q.disturbed = p.disturbed /\ q.incomplete = r.incomplete
        /\ q.page = {} /\ q.acks = {} /\ q.offset = 0 /\ q.cache = Empty
    BY <1>2, <2>2, <2>5, <2>6, Zenon
  <2>8. QED
    BY <1>2, <1>3, <2>4, <2>7 DEF Leaves, Onward
<1>4. CASE p.visit # Len(Visit)
  <2>1. q = [r EXCEPT !.at = "list", !.visit = @ + 1, !.offset = 0, !.next = 0,
                   !.page = {}, !.more = FALSE, !.failed = FALSE, !.acks = {}]
    BY <1>1, <1>4 DEF LeaveBox
  <2>2. r.visit + 1 \in DOMAIN Visit
    BY <1>2, <1>4, LimitFacts DEF Pass
  <2>3. q \in Pass
    <3>1. PICK t : t = [r EXCEPT !.at = "list", !.visit = @ + 1, !.offset = 0, !.next = 0]
      OBVIOUS
    <3>2. t \in Pass
      BY <1>2, <2>2, <3>1 DEF Pass
    <3>3. q = [t EXCEPT !.page = {}, !.more = FALSE, !.failed = FALSE, !.acks = {}]
      BY <2>1, <3>1
    <3>4. QED
      BY <3>2, <3>3 DEF Pass
  <2>4. /\ q.at = "list" /\ q.visit = r.visit + 1 /\ q.offset = 0 /\ q.page = {}
        /\ q.acks = {} /\ q.epoch = r.epoch /\ q.owed = r.owed
        /\ q.disturbed = r.disturbed /\ q.incomplete = r.incomplete
        /\ q.cache = r.cache
    BY <1>2, <2>1 DEF Pass
  <2>5. QED
    BY <1>2, <1>4, <2>3, <2>4 DEF Leaves, Onward
<1>5. QED
  BY <1>3, <1>4

LEMMA GivingUp ==
    ASSUME NEW p \in Pass, NEW q, q = GiveUpBox(p)
    PROVE  Leaves(p, q) /\ q.incomplete
<1>1. PICK r : r = [p EXCEPT !.incomplete = TRUE]
  OBVIOUS
<1>2. r \in Pass /\ q = LeaveBox(r)
  BY <1>1 DEF Pass, GiveUpBox
<1>3. /\ r.incomplete /\ r.epoch = p.epoch /\ r.owed = p.owed /\ r.disturbed = p.disturbed
      /\ r.visit = p.visit /\ r.cache = p.cache
  BY <1>1 DEF Pass
<1>4. QED
  BY <1>2, <1>3, Leaving DEF Leaves, Onward

(***************************************************************************)
(* After the message m of its page the pass reads on, or turns to what it  *)
(* has to acknowledge, or to the next page, or leaves the mailbox: for     *)
(* good reason only if nothing failed and there are no more pages.         *)
(***************************************************************************)
AcksWith(d, p, m, ok) == p.acks \cup (IF ok /\ d \in Acknowledging THEN {m} ELSE {})

Stays(p, q) ==
    /\ q.visit = p.visit /\ q.cache = p.cache /\ q.incomplete = p.incomplete
    /\ q.read = p.read + 1

Passed(d, p, m, ok, q) ==
    /\ Onward(p, q) /\ q.page = p.page \ {m}
    /\ \/ /\ q.page # {} /\ q.at = "archive" /\ q.acks = AcksWith(d, p, m, ok)
          /\ q.failed = (p.failed \/ ~ok) /\ q.offset = p.offset
          /\ q.next = p.next /\ q.more = p.more /\ Stays(p, q)
       \/ /\ q.page = {} /\ q.at = "acknowledge" /\ q.acks = AcksWith(d, p, m, ok)
          /\ q.acks # {} /\ q.offset = p.offset /\ Stays(p, q)
       \/ /\ q.page = {} /\ q.at = "list" /\ q.acks = {} /\ AcksWith(d, p, m, ok) = {}
          /\ ~p.failed /\ ok /\ p.more /\ q.offset = p.next /\ Stays(p, q)
       \/ /\ AcksWith(d, p, m, ok) = {} /\ Leaves(p, q)
          /\ p.failed \/ ~ok => q.incomplete
          /\ p.failed \/ ~ok \/ ~p.more

LEMMA Passing ==
    ASSUME NEW d \in Device, NEW p \in Pass, NEW m \in Message, NEW ok \in BOOLEAN,
           m = Incoming(d), m \in p.page, p.at = "archive", p.read < MaxMessages,
           NEW q, q = AfterMessage(d, p, ok)
    PROVE  Passed(d, p, m, ok, q)
<1>1. PICK r : r = [p EXCEPT !.page = @ \ {Incoming(d)}, !.read = @ + 1,
                             !.failed = @ \/ ~ok, !.acks = @ \cup Acked(d, ok)]
  OBVIOUS
<1>2. Acked(d, ok) \in SUBSET Message /\ AcksWith(d, p, m, ok) = p.acks \cup Acked(d, ok)
  BY DEF Acked, AcksWith
<1>3. p.read + 1 \in 0..MaxMessages
  BY LimitFacts DEF Pass
<1>4. r \in Pass
  BY <1>1, <1>2, <1>3 DEF Pass
<1>5. /\ r.page = p.page \ {m} /\ r.read = p.read + 1 /\ r.failed = (p.failed \/ ~ok)
      /\ r.acks = AcksWith(d, p, m, ok)
  BY <1>1, <1>2 DEF Pass
<1>6. /\ r.at = "archive" /\ r.epoch = p.epoch /\ r.owed = p.owed
      /\ r.disturbed = p.disturbed /\ r.incomplete = p.incomplete
      /\ r.visit = p.visit /\ r.cache = p.cache /\ r.offset = p.offset
      /\ r.next = p.next /\ r.more = p.more
  BY <1>1 DEF Pass
<1>7. CASE r.page # {}
  <2>1. q = r
    BY <1>1, <1>7 DEF AfterMessage
  <2>2. QED
    BY <1>4, <1>5, <1>6, <1>7, <2>1 DEF Passed, Onward, Stays
<1>8. CASE r.page = {}
  <2>1. q = EndPage(r)
    BY <1>1, <1>8 DEF AfterMessage
  <2>2. CASE r.acks # {}
    <3>1. q = [r EXCEPT !.at = "acknowledge"]
      BY <2>1, <2>2 DEF EndPage
    <3>2. q \in Pass
      BY <1>4, <3>1 DEF Pass
    <3>3. QED
      <4>1. /\ q.at = "acknowledge" /\ q.page = r.page /\ q.acks = r.acks
            /\ q.epoch = r.epoch /\ q.owed = r.owed /\ q.disturbed = r.disturbed
            /\ q.incomplete = r.incomplete /\ q.visit = r.visit /\ q.cache = r.cache
            /\ q.offset = r.offset /\ q.read = r.read
        BY <1>4, <3>1 DEF Pass
      <4>2. Onward(p, q) /\ Stays(p, q)
        BY <1>5, <1>6, <3>2, <4>1 DEF Onward, Stays
      <4>3. QED
        BY <1>5, <1>6, <1>8, <2>2, <4>1, <4>2 DEF Passed
  <2>3. CASE r.acks = {} /\ r.failed
    <3>1. q = GiveUpBox(r)
      BY <2>1, <2>3 DEF EndPage
    <3>2. QED
      <4>1. Leaves(r, q) /\ q.incomplete
        BY <1>4, <3>1, GivingUp
      <4>2. Leaves(p, q)
        BY <1>6, <4>1 DEF Leaves, Onward
      <4>3. QED
        BY <1>5, <1>8, <2>3, <4>1, <4>2 DEF Passed, Leaves
  <2>4. CASE r.acks = {} /\ ~r.failed /\ r.more
    <3>1. q = [r EXCEPT !.at = "list", !.offset = r.next]
      BY <2>1, <2>4 DEF EndPage
    <3>2. q \in Pass
      BY <1>4, <3>1 DEF Pass
    <3>3. QED
      <4>1. /\ q.at = "list" /\ q.page = r.page /\ q.acks = r.acks
            /\ q.epoch = r.epoch /\ q.owed = r.owed /\ q.disturbed = r.disturbed
            /\ q.incomplete = r.incomplete /\ q.visit = r.visit /\ q.cache = r.cache
            /\ q.offset = r.next /\ q.read = r.read
        BY <1>4, <3>1 DEF Pass
      <4>2. ~p.failed /\ ok /\ p.more
        BY <1>5, <1>6, <2>4 DEF Pass
      <4>3. Onward(p, q) /\ Stays(p, q)
        BY <1>5, <1>6, <3>2, <4>1 DEF Onward, Stays
      <4>4. QED
        BY <1>5, <1>6, <1>8, <2>4, <4>1, <4>2, <4>3 DEF Passed
  <2>5. CASE r.acks = {} /\ ~r.failed /\ ~r.more
    <3>1. q = LeaveBox(r)
      BY <2>1, <2>5 DEF EndPage
    <3>2. QED
      <4>1. Leaves(r, q)
        BY <1>4, <3>1, Leaving
      <4>2. Leaves(p, q)
        BY <1>6, <4>1 DEF Leaves, Onward
      <4>3. ~(p.failed \/ ~ok) /\ ~p.more
        BY <1>5, <1>6, <2>5
      <4>4. QED
        BY <1>5, <1>8, <2>5, <4>2, <4>3 DEF Passed, Leaves
  <2>6. QED
    BY <2>2, <2>3, <2>4, <2>5
<1>9. QED
  BY <1>7, <1>8
-----------------------------------------------------------------------------
(***************************************************************************)
(* Moving on keeps a pass well formed.                                     *)
(***************************************************************************)
LEMMA LeavesSound ==
    ASSUME NEW d, NEW p, NEW q, Sound(d, p), p.at # "idle", Leaves(p, q)
    PROVE  Sound(d, q)
<1>1. Shaped(d, q)
  BY DEF Sound, Shaped, Leaves, Onward
<1>2. q.read + Cardinality(q.page) <= MaxMessages
  BY FS_EmptySet, LimitFacts DEF Leaves, Onward, Pass
<1>3. QED
  BY <1>1, <1>2 DEF Sound, Leaves, Onward

LEMMA PassedSound ==
    ASSUME ArrivalsNumbered, NEW d \in Device, NEW p, NEW q, NEW m \in p.page,
           NEW ok \in BOOLEAN, Sound(d, p), p.at = "archive", Passed(d, p, m, ok, q)
    PROVE  Sound(d, q)
<1>1. CASE Leaves(p, q)
  BY <1>1, LeavesSound
<1>2. CASE Stays(p, q)
  <2>1. p.page \cup p.acks \cup p.owed \subseteq Arrived /\ m \in Arrived
    BY DEF Sound
  <2>2. IsFiniteSet(p.page) /\ Cardinality(p.page) \in Nat
    BY <2>1, FS_Subset, FS_CardinalityType DEF ArrivalsNumbered
  <2>3. IsFiniteSet(q.page) /\ Cardinality(q.page) = Cardinality(p.page) - 1
    BY <2>2, FS_RemoveElement DEF Passed
  <2>4. q.read + Cardinality(q.page) <= MaxMessages
    BY <1>2, <2>2, <2>3, LimitFacts DEF Sound, Stays, Pass
  <2>5. q.page \subseteq p.page /\ q.acks \subseteq p.acks \cup {m}
    BY <1>2 DEF Passed, AcksWith, Leaves
  <2>6. q.page \cup q.acks \cup q.owed \subseteq Arrived
    BY <2>1, <2>5 DEF Passed, Onward
  <2>7. /\ q.at \in {"archive", "acknowledge", "list", "done"}
        /\ q.at = "archive" <=> q.page # {}
        /\ q.at = "acknowledge" => q.acks # {}
        /\ q.acks # {} => q.at \in {"archive", "acknowledge"}
    BY DEF Passed, Leaves
  <2>8. q.acks # {} => d \in Acknowledging
    BY <2>7 DEF Passed, AcksWith, Leaves, Sound, Shaped
  <2>9. \A n \in q.page \cup q.acks : MailboxOf[n] = Visit[q.visit]
    BY <1>2, <2>5 DEF Stays, Sound, Shaped
  <2>10. q.epoch # 0 /\ q.epoch <= epoch
    BY DEF Passed, Onward, Sound, Shaped
  <2>11. Shaped(d, q)
    BY <2>7, <2>8, <2>9, <2>10 DEF Shaped
  <2>12. d \in Acknowledging => q.offset = 0
    BY DEF Passed, AcksWith, Leaves, Sound
  <2>13. QED
    BY <2>4, <2>6, <2>10, <2>11, <2>12 DEF Sound, Passed, Onward
<1>3. QED
  BY <1>1, <1>2 DEF Passed

LEMMA StartSound ==
    ASSUME InboundInv, NEW d \in Device, Start(d)
    PROVE  Sound(d, pass'[d])
<1>1. PICK q : q = [NoPass EXCEPT !.at = "list", !.epoch = epoch, !.owed = Pending]
  OBVIOUS
<1>2. pass'[d] = q
  BY <1>1 DEF Start, InboundInv
<1>3. epoch \in Nat /\ epoch # 0
  BY DEF InboundInv, IInv, TypeOK
<1>4. Pending \subseteq Arrived /\ Pending \in SUBSET Message
  BY DEF Pending, Arrived
<1>5. q \in Pass
  BY <1>1, <1>3, <1>4, NoPassType DEF Pass
<1>6. /\ q.at = "list" /\ q.epoch = epoch /\ q.owed = Pending /\ q.page = {}
      /\ q.acks = {} /\ q.offset = 0 /\ q.read = 0
  BY <1>1, Zenon DEF NoPass
<1>7. Sound(d, q)
  BY <1>3, <1>4, <1>5, <1>6, FS_EmptySet, LimitFacts DEF Sound, Shaped
<1>8. QED
  BY <1>2, <1>7

\* What a listing shows, and what the pass does with it.
Shows(p, q) ==
    /\ Onward(p, q) /\ q.incomplete = p.incomplete
    /\ q.at = "archive" /\ q.visit = p.visit /\ q.offset = p.offset /\ q.read = p.read
    /\ q.cache = p.cache /\ q.acks = {} /\ ~q.failed
    /\ p.offset < q.next /\ q.next <= Cardinality(Waiting(Visit[p.visit]))
    /\ q.next <= p.offset + Limit(p)
    /\ q.page = {m \in Waiting(Visit[p.visit]) : Place(m) \in (p.offset + 1)..q.next}
    /\ q.more = (q.next < Cardinality(Waiting(Visit[p.visit])))

LEMMA Listing ==
    ASSUME InboundInv, NEW d \in Device, List(d), NEW p, p = pass[d], NEW q, q = pass'[d]
    PROVE  \/ /\ Leaves(p, q) /\ Cardinality(Waiting(Visit[p.visit])) <= p.offset
           \/ Shows(p, q)
<1>1. p \in Pass /\ p.at = "list" /\ p.pages < MaxPages /\ p.read < MaxMessages
  BY DEF List, InboundInv, HasBudget
<1>2. PICK r : r = [p EXCEPT !.pages = @ + 1]
  OBVIOUS
<1>3. r \in Pass
  <2>1. p.pages + 1 \in 0..MaxPages
    BY <1>1, LimitFacts DEF Pass
  <2>2. QED
    BY <1>1, <1>2, <2>1 DEF Pass
<1>4. /\ r.epoch = p.epoch /\ r.owed = p.owed /\ r.disturbed = p.disturbed
      /\ r.incomplete = p.incomplete /\ r.visit = p.visit /\ r.cache = p.cache
      /\ r.offset = p.offset /\ r.read = p.read
  BY <1>1, <1>2 DEF Pass
<1>5. PICK b : b = Visit[p.visit]
  OBVIOUS
<1>6. Cardinality(Waiting(b)) \in Nat /\ Waiting(b) \subseteq Arrived
  BY WaitingFacts DEF InboundInv
<1>7. Limit(p) \in Nat /\ p.offset \in Nat
  BY <1>1, LimitFacts DEF Limit, Smaller, Pass
<1>8. PICK end \in Nat : end = Smaller(p.offset + Limit(p), Cardinality(Waiting(b)))
  BY <1>6, <1>7 DEF Smaller
<1>9. end <= Cardinality(Waiting(b)) /\ end <= p.offset + Limit(p)
  BY <1>6, <1>7, <1>8 DEF Smaller
<1>10. CASE end <= p.offset
  <2>1. q = LeaveBox(r)
    BY <1>1, <1>2, <1>5, <1>8, <1>10 DEF List, InboundInv
  <2>2. Leaves(p, q)
    BY <1>3, <1>4, <2>1, Leaving DEF Leaves, Onward
  <2>3. Limit(p) # 0
    BY <1>1, LimitFacts DEF Limit, Smaller, Pass
  <2>4. QED
    BY <1>5, <1>6, <1>7, <1>8, <1>10, <2>2, <2>3 DEF Smaller
<1>11. CASE ~(end <= p.offset)
  <2>1. PICK S \in SUBSET Message :
          S = {m \in Waiting(b) : Place(m) \in (p.offset + 1)..end}
    BY WaitingFacts DEF InboundInv
  <2>2. PICK more \in BOOLEAN : more = (end < Cardinality(Waiting(b)))
    <3>1. (end < Cardinality(Waiting(b))) \in BOOLEAN
      OBVIOUS
    <3>2. QED
      BY <3>1, Zenon
  <2>3. q = [r EXCEPT !.at = "archive", !.page = S, !.next = end,
                      !.more = end < Cardinality(Waiting(b)), !.failed = FALSE, !.acks = {}]
    BY <1>1, <1>2, <1>5, <1>8, <1>11, <2>1 DEF List, InboundInv
  <2>4. q = [r EXCEPT !.at = "archive", !.page = S, !.next = end,
                      !.more = more, !.failed = FALSE, !.acks = {}]
    BY <2>2, <2>3
  <2>5. q \in Pass
    <3>1. PICK t : t = [r EXCEPT !.at = "archive", !.page = S, !.next = end]
      OBVIOUS
    <3>2. t \in Pass
      BY <1>3, <1>8, <2>1, <3>1 DEF Pass
    <3>3. q = [t EXCEPT !.more = more, !.failed = FALSE, !.acks = {}]
      BY <2>4, <3>1
    <3>4. QED
      BY <3>2, <3>3 DEF Pass
  <2>6. /\ q.epoch = r.epoch /\ q.owed = r.owed /\ q.disturbed = r.disturbed
        /\ q.incomplete = r.incomplete /\ q.visit = r.visit /\ q.cache = r.cache
        /\ q.offset = r.offset /\ q.read = r.read
    BY <1>3, <2>4 DEF Pass
  <2>7. /\ q.at = "archive" /\ q.page = S /\ q.next = end /\ q.acks = {}
        /\ ~q.failed /\ q.more = more
    BY <1>3, <2>4 DEF Pass
  <2>8. QED
    BY <2>2, <1>4, <1>5, <1>7, <1>8, <1>9, <1>11, <2>1, <2>5, <2>6, <2>7 DEF Shows, Onward
<1>12. QED
  BY <1>10, <1>11

LEMMA ShowsSound ==
    ASSUME InboundInv, NEW d \in Device, NEW p, NEW q, Sound(d, p), p.at = "list",
           Shows(p, q)
    PROVE  Sound(d, q)
<1>1. PICK b : b = Visit[p.visit]
  OBVIOUS
<1>2. ArrivalsNumbered /\ p \in Pass /\ q \in Pass
  BY DEF InboundInv, Sound, Shows, Onward
<1>3. p.offset \in Nat /\ q.next \in Nat
  BY <1>2 DEF Pass
<1>4. q.page # {} /\ IsFiniteSet(q.page) /\ Cardinality(q.page) <= q.next - p.offset
  BY <1>1, <1>2, <1>3, PageFacts DEF Shows
<1>5. Limit(p) <= MaxMessages - p.read /\ Limit(p) \in Int /\ p.read \in Nat
  <2>1. p.read \in Nat /\ PageSize \in Nat /\ MaxMessages \in Nat
    BY <1>2, LimitFacts DEF Pass
  <2>2. QED
    BY <2>1 DEF Limit, Smaller
<1>6. q.read + Cardinality(q.page) <= MaxMessages
  <2>1. q.read = p.read /\ q.next <= p.offset + Limit(p)
    BY DEF Shows
  <2>2. Cardinality(q.page) \in Nat /\ MaxMessages \in Nat
    BY <1>4, FS_CardinalityType, LimitFacts
  <2>3. QED
    BY <1>3, <1>4, <1>5, <2>1, <2>2
<1>7. /\ q.page \subseteq Arrived /\ \A m \in q.page : MailboxOf[m] = b
  BY <1>1, <1>2, WaitingFacts DEF Shows
<1>8. Shaped(d, q)
  BY <1>1, <1>4, <1>7 DEF Shaped, Shows, Sound, Onward
<1>9. QED
  BY <1>2, <1>6, <1>7, <1>8 DEF Sound, Shows, Onward
-----------------------------------------------------------------------------
(***************************************************************************)
(* What a step does to the history.                                        *)
(***************************************************************************)
LEMMA UnchangedGoesOn ==
    ASSUME IInv, UNCHANGED vars
    PROVE  IInv' /\ HistoryGoesOn
<1>1. IInv'
  BY StutterInv
<1>2. QED
  BY <1>1 DEF HistoryGoesOn, vars, ownerVars, Live

LEMMA DeletesMove ==
    ASSUME IInv, OwnerDeletes
    PROVE  IInv' /\ (HistoryGoesOn \/ HistoryEnds)
<1>1. Live \subseteq Key
  BY DEF IInv, TypeOK
<1>2. QED
  BY <1>1, DeleteGoesOn, DeleteAllEnds DEF OwnerDeletes

LEMMA KeptStays ==
    ASSUME HistoryGoesOn, NEW m, Kept(m)
    PROVE  Kept(m)'
BY DEF HistoryGoesOn, Kept, Present

LEMMA ArchiveKeeps ==
    ASSUME InboundInv, NEW d \in Device, Archive(d), NEW m \in Message, m = Incoming(d)
    PROVE  /\ IInv' /\ HistoryGoesOn /\ pass[d].epoch = epoch
           /\ KeyOf[m] \in Live' /\ records'[KeyOf[m]].body = BodyOf[m]
<1>1. IInv
  BY DEF InboundInv
<1>2. CASE Stored(Inbound(m)) # {} /\ ArchiveBatch(pass[d].epoch, Inbound(m))
  <2>1. PICK it : it = [key |-> KeyOf[m], body |-> BodyOf[m], state |-> "received"]
    OBVIOUS
  <2>2. it \in Item /\ Inbound(m) = <<it>> /\ it.key = KeyOf[m] /\ it.body = BodyOf[m]
    BY <2>1, InboundType DEF Item, InitialState, Inbound
  <2>3. Stored(<<it>>) # {} /\ ArchiveBatch(pass[d].epoch, <<it>>)
    BY <1>2, <2>2
  <2>4. QED
    BY <1>1, <2>2, <2>3, OneItemStored
<1>3. CASE pass[d].epoch = epoch /\ Present(m) /\ UNCHANGED vars
  BY <1>1, <1>3, UnchangedGoesOn DEF Present, vars, ownerVars, Live
<1>4. QED
  BY <1>2, <1>3 DEF Archive

LEMMA GroundedNext ==
    ASSUME NEW p, NEW q, q.epoch = p.epoch, Grounded(p), HistoryGoesOn,
           p.epoch = epoch => \A m \in q.acks : m \in p.acks \/ Kept(m)',
           \A k \in DOMAIN q.cache :
               \/ k \in DOMAIN p.cache /\ q.cache[k] = p.cache[k]
               \/ k \in Live' /\ records'[k].body = q.cache[k]
    PROVE  Grounded(q)'
<1>1. SUFFICES ASSUME p.epoch = epoch
               PROVE  Grounded(q)'
  BY DEF Grounded, HistoryGoesOn
<1>2. \A m \in q.acks : Kept(m)'
  BY <1>1, KeptStays DEF Grounded
<1>3. ASSUME NEW k \in DOMAIN q.cache
      PROVE  k \in tombstones' \/ (k \in Live' /\ records'[k].body = q.cache[k])
  BY <1>1 DEF Grounded, HistoryGoesOn
<1>4. QED
  BY <1>2, <1>3 DEF Grounded

(***************************************************************************)
(* A pass that has moved on without a message is as well founded as before.*)
(***************************************************************************)
LEMMA LeavesGrounded ==
    ASSUME NEW p, NEW q, Grounded(p), Leaves(p, q), HistoryGoesOn
    PROVE  Grounded(q)'
<1>1. q.acks = {} /\ q.epoch = p.epoch /\ (q.cache = Empty \/ q.cache = p.cache)
  BY DEF Leaves, Onward
<1>2. DOMAIN Empty = {}
  BY DEF Empty
<1>3. QED
  BY <1>1, <1>2, GroundedNext

LEMMA PassedGrounded ==
    ASSUME NEW d, NEW p, NEW q, NEW m, NEW ok \in BOOLEAN, Grounded(p),
           Passed(d, p, m, ok, q), HistoryGoesOn, p.epoch = epoch /\ ok => Kept(m)'
    PROVE  Grounded(q)'
<1>1. CASE Leaves(p, q)
  BY <1>1, LeavesGrounded
<1>2. CASE ~Leaves(p, q)
  <2>1. q.cache = p.cache /\ q.epoch = p.epoch
    BY <1>2 DEF Passed, Onward, Stays
  <2>2. ASSUME NEW n \in q.acks, p.epoch = epoch
        PROVE  n \in p.acks \/ Kept(n)'
    BY <1>2, <2>2 DEF Passed, AcksWith
  <2>3. QED
    BY <2>1, <2>2, GroundedNext
<1>3. QED
  BY <1>1, <1>2
-----------------------------------------------------------------------------
(***************************************************************************)
(* The pass of the device that takes a step.                               *)
(***************************************************************************)
LEMMA AtMessage ==
    ASSUME InboundInv, NEW d \in Device, Archiving(d), NEW p, p = pass[d],
           NEW m, m = Incoming(d)
    PROVE  /\ p \in Pass /\ Sound(d, p) /\ Grounded(p) /\ p.at = "archive"
           /\ m \in p.page /\ m \in Message /\ p.read < MaxMessages
           /\ \A n \in p.page : arrival[m] <= arrival[n]
<1>1. p \in Pass /\ Sound(d, p) /\ Grounded(p) /\ p.at = "archive" /\ ArrivalsNumbered
  BY DEF InboundInv, Archiving
<1>2. p.page # {} /\ p.page \subseteq Arrived
  BY <1>1 DEF Sound, Shaped
<1>3. m \in p.page /\ \A n \in p.page : arrival[m] <= arrival[n]
  BY <1>1, <1>2, IncomingListed
<1>4. IsFiniteSet(p.page) /\ Cardinality(p.page) \in Nat /\ Cardinality(p.page) # 0
  BY <1>1, <1>2, FS_Subset, FS_CardinalityType, FS_EmptySet DEF ArrivalsNumbered
<1>5. p.read < MaxMessages
  BY <1>1, <1>4, LimitFacts DEF Sound, Pass
<1>6. QED
  BY <1>1, <1>2, <1>3, <1>5 DEF Arrived

\* The pass p with the message m archived.
Caching(p, m) == [p EXCEPT !.cache = With(@, KeyOf[m], BodyOf[m])]

LEMMA CachingFacts ==
    ASSUME NEW d \in Device, NEW p, Sound(d, p), NEW m \in Message, NEW c, c = Caching(p, m)
    PROVE  /\ c \in Pass /\ Sound(d, c)
           /\ c.cache = With(p.cache, KeyOf[m], BodyOf[m])
           /\ c.at = p.at /\ c.epoch = p.epoch /\ c.visit = p.visit /\ c.offset = p.offset
           /\ c.page = p.page /\ c.next = p.next /\ c.more = p.more
           /\ c.failed = p.failed /\ c.acks = p.acks /\ c.read = p.read
           /\ c.incomplete = p.incomplete /\ c.owed = p.owed /\ c.disturbed = p.disturbed
<1>1. PICK cache : cache = With(p.cache, KeyOf[m], BodyOf[m])
  OBVIOUS
<1>2. KeyOf[m] \in Key /\ BodyOf[m] \in Body /\ p \in Pass
  BY InboundType DEF Sound
<1>3. PICK K \in SUBSET Key : p.cache \in [K -> Body]
  BY <1>2 DEF Pass
<1>4. cache \in [K \cup {KeyOf[m]} -> Body]
  BY <1>1, <1>2, <1>3 DEF With
<1>5. cache \in UNION {[L -> Body] : L \in SUBSET Key}
  BY <1>2, <1>4
<1>6. c = [p EXCEPT !.cache = cache]
  BY <1>1 DEF Caching
<1>7. c \in Pass /\ c.cache = cache
  BY <1>2, <1>5, <1>6 DEF Pass
<1>8. /\ c.at = p.at /\ c.epoch = p.epoch /\ c.visit = p.visit /\ c.offset = p.offset
      /\ c.page = p.page /\ c.next = p.next /\ c.more = p.more
      /\ c.failed = p.failed /\ c.acks = p.acks /\ c.read = p.read
      /\ c.incomplete = p.incomplete /\ c.owed = p.owed /\ c.disturbed = p.disturbed
  BY <1>2, <1>6 DEF Pass
<1>9. Sound(d, c)
  BY <1>7, <1>8 DEF Sound, Shaped
<1>10. QED
  BY <1>1, <1>7, <1>8, <1>9

\* The pass p has become q: it is past m, which is archived if it is so counted.
Advances(d, p, m, q) ==
    \/ Passed(d, p, m, FALSE, q)
    \/ Passed(d, p, m, TRUE, q) /\ (p.epoch = epoch => Kept(m)')
    \/ /\ Passed(d, Caching(p, m), m, TRUE, q)
       /\ KeyOf[m] \in Live' /\ records'[KeyOf[m]].body = BodyOf[m]

(***************************************************************************)
(* What an archive call leaves: the pass is past its message, and a        *)
(* message it counts as archived is kept.                                  *)
(***************************************************************************)
LEMMA ArchiveActs ==
    ASSUME InboundInv, NEW d \in Device, NEW p, p = pass[d], NEW m, m = Incoming(d),
           ArchiveCached(d) \/ Archive(d) \/ ArchiveRefused(d) \/ ArchiveLost(d),
           NEW q, q = pass'[d]
    PROVE  /\ IInv' /\ HistoryGoesOn /\ UNCHANGED <<arrival, ackEpoch>>
           /\ Archiving(d) /\ pass' = [pass EXCEPT ![d] = q]
           /\ Advances(d, p, m, q)
<1>1. Archiving(d)
  BY DEF ArchiveCached, Archive, ArchiveRefused, ArchiveLost
<1>2. /\ p \in Pass /\ Sound(d, p) /\ Grounded(p) /\ p.at = "archive"
      /\ m \in p.page /\ m \in Message /\ p.read < MaxMessages
  BY <1>1, AtMessage
<1>3. IInv /\ pass \in [Device -> Pass]
  BY DEF InboundInv
<1>4. CASE ArchiveCached(d)
  <2>1. pass' = [pass EXCEPT ![d] = AfterMessage(d, p, p.cache[KeyOf[m]] = BodyOf[m])]
    BY <1>4 DEF ArchiveCached
  <2>2. q = AfterMessage(d, p, p.cache[KeyOf[m]] = BodyOf[m]) /\ pass' = [pass EXCEPT ![d] = q]
    BY <1>3, <2>1
  <2>3. IInv' /\ HistoryGoesOn /\ UNCHANGED <<arrival, ackEpoch>>
    BY <1>3, <1>4, UnchangedGoesOn DEF ArchiveCached
  <2>4. CASE p.cache[KeyOf[m]] = BodyOf[m]
    <3>1. (p.cache[KeyOf[m]] = BodyOf[m]) = TRUE
      BY <2>4
    <3>2. Passed(d, p, m, TRUE, q)
      BY <1>2, <2>2, <3>1, Passing
    <3>3. KeyOf[m] \in DOMAIN p.cache
      BY <1>4 DEF ArchiveCached, Cached
    <3>4. p.epoch = epoch => Kept(m)
      BY <1>2, <2>4, <3>3 DEF Grounded, Kept, Present
    <3>5. QED
      BY <1>1, <2>2, <2>3, <3>2, <3>4, KeptStays DEF Advances
  <2>5. CASE p.cache[KeyOf[m]] # BodyOf[m]
    <3>1. (p.cache[KeyOf[m]] = BodyOf[m]) = FALSE
      BY <2>5
    <3>2. Passed(d, p, m, FALSE, q)
      BY <1>2, <2>2, <3>1, Passing
    <3>3. QED
      BY <1>1, <2>2, <2>3, <3>2 DEF Advances
  <2>6. QED
    BY <2>4, <2>5
<1>5. ASSUME Unconfirmed(d)
      PROVE  Advances(d, p, m, q) /\ pass' = [pass EXCEPT ![d] = q]
  <2>1. q = AfterMessage(d, p, FALSE) /\ pass' = [pass EXCEPT ![d] = q]
    BY <1>3, <1>5 DEF Unconfirmed
  <2>2. Passed(d, p, m, FALSE, q)
    BY <1>2, <2>1, Passing
  <2>3. QED
    BY <2>1, <2>2 DEF Advances
<1>6. CASE Archive(d)
  <2>1. /\ IInv' /\ HistoryGoesOn /\ KeyOf[m] \in Live' /\ records'[KeyOf[m]].body = BodyOf[m]
    BY <1>2, <1>6, ArchiveKeeps
  <2>2. UNCHANGED <<arrival, ackEpoch>>
    BY <1>6 DEF Archive
  <2>3. CASE Confirmed(d)
    <3>1. PICK c : c = Caching(p, m)
      OBVIOUS
    <3>2. /\ c \in Pass /\ c.page = p.page /\ c.at = p.at /\ c.read = p.read
      BY <1>2, <3>1, CachingFacts
    <3>3. q = AfterMessage(d, c, TRUE) /\ pass' = [pass EXCEPT ![d] = q]
      BY <1>3, <2>3, <3>1 DEF Confirmed, Caching
    <3>4. Passed(d, c, m, TRUE, q)
      BY <1>2, <3>2, <3>3, Passing
    <3>5. QED
      BY <1>1, <2>1, <2>2, <3>1, <3>3, <3>4 DEF Advances
  <2>4. CASE Unconfirmed(d)
    BY <1>1, <1>5, <2>1, <2>2, <2>4
  <2>5. QED
    BY <1>6, <2>3, <2>4 DEF Archive
<1>7. CASE ArchiveRefused(d) \/ ArchiveLost(d)
  <2>1. UNCHANGED vars /\ UNCHANGED <<arrival, ackEpoch>> /\ Unconfirmed(d)
    BY <1>7 DEF ArchiveRefused, ArchiveLost
  <2>2. QED
    BY <1>1, <1>3, <1>5, <2>1, UnchangedGoesOn
<1>8. QED
  BY <1>4, <1>6, <1>7

LEMMA ArchiveSound ==
    ASSUME InboundInv, NEW d \in Device, NEW p, p = pass[d], NEW m, m = Incoming(d),
           Archiving(d), NEW q, Advances(d, p, m, q), HistoryGoesOn
    PROVE  Sound(d, q) /\ Grounded(q)'
<1>1. /\ p \in Pass /\ Sound(d, p) /\ Grounded(p) /\ p.at = "archive"
      /\ m \in p.page /\ m \in Message /\ ArrivalsNumbered
  BY AtMessage DEF InboundInv
<1>2. CASE Passed(d, p, m, FALSE, q)
  BY <1>1, <1>2, PassedSound, PassedGrounded
<1>3. CASE Passed(d, p, m, TRUE, q) /\ (p.epoch = epoch => Kept(m)')
  BY <1>1, <1>3, PassedSound, PassedGrounded
<1>4. CASE /\ Passed(d, Caching(p, m), m, TRUE, q)
           /\ KeyOf[m] \in Live' /\ records'[KeyOf[m]].body = BodyOf[m]
  <2>1. PICK c : c = Caching(p, m)
    OBVIOUS
  <2>2. /\ Sound(d, c) /\ c.page = p.page /\ c.at = "archive" /\ c.epoch = p.epoch
        /\ c.acks = p.acks /\ c.cache = With(p.cache, KeyOf[m], BodyOf[m])
    BY <1>1, <2>1, CachingFacts
  <2>3. Passed(d, c, m, TRUE, q)
    BY <1>4, <2>1
  <2>4. Sound(d, q)
    BY <1>1, <2>2, <2>3, PassedSound
  <2>5. Kept(m)'
    BY <1>4 DEF Kept, Present
  <2>6. q.epoch = p.epoch /\ (q.cache = Empty \/ q.cache = c.cache)
    BY <2>2, <2>3 DEF Passed, Onward, Stays, Leaves
  <2>7. q.acks \subseteq p.acks \cup {m}
    BY <2>2, <2>3 DEF Passed, AcksWith, Leaves
  <2>8. ASSUME NEW k \in DOMAIN q.cache
        PROVE  \/ k \in DOMAIN p.cache /\ q.cache[k] = p.cache[k]
               \/ k \in Live' /\ records'[k].body = q.cache[k]
    <3>1. CASE q.cache = Empty
      BY <2>8, <3>1 DEF Empty
    <3>2. CASE q.cache = With(p.cache, KeyOf[m], BodyOf[m])
      BY <1>4, <2>8, <3>2 DEF With
    <3>3. QED
      BY <2>2, <2>6, <3>1, <3>2
  <2>9. Grounded(q)'
    BY <1>1, <2>5, <2>6, <2>7, <2>8, GroundedNext
  <2>10. QED
    BY <2>4, <2>9
<1>5. QED
  BY <1>2, <1>3, <1>4 DEF Advances

(***************************************************************************)
(* After an acknowledgement the mailbox is listed anew, unless a message   *)
(* of the page had failed.                                                 *)
(***************************************************************************)
Relists(p, q) ==
    /\ Onward(p, q) /\ q.incomplete = p.incomplete
    /\ q.at = "list" /\ q.visit = p.visit /\ q.cache = p.cache
    /\ q.page = {} /\ q.acks = {} /\ q.offset = 0

LEMMA Relisting ==
    ASSUME NEW p \in Pass, p.page = {}, NEW q, q = AfterAck(p)
    PROVE  (Leaves(p, q) /\ q.incomplete) \/ Relists(p, q)
<1>1. CASE p.failed
  <2>1. q = GiveUpBox(p)
    BY <1>1 DEF AfterAck
  <2>2. QED
    BY <2>1, GivingUp
<1>2. CASE ~p.failed
  <2>1. q = [p EXCEPT !.at = "list", !.offset = 0, !.next = 0, !.more = FALSE, !.acks = {}]
    BY <1>2 DEF AfterAck
  <2>2. q \in Pass
    <3>1. PICK t : t = [p EXCEPT !.at = "list", !.offset = 0, !.next = 0]
      OBVIOUS
    <3>2. t \in Pass
      BY <3>1 DEF Pass
    <3>3. q = [t EXCEPT !.more = FALSE, !.acks = {}]
      BY <2>1, <3>1
    <3>4. QED
      BY <3>2, <3>3 DEF Pass
  <2>3. /\ q.at = "list" /\ q.offset = 0 /\ q.acks = {} /\ q.page = p.page
        /\ q.epoch = p.epoch /\ q.owed = p.owed /\ q.disturbed = p.disturbed
        /\ q.incomplete = p.incomplete /\ q.visit = p.visit /\ q.cache = p.cache
    BY <2>1 DEF Pass
  <2>4. QED
    BY <2>2, <2>3 DEF Relists, Onward
<1>3. QED
  BY <1>1, <1>2

LEMMA RelistsSound ==
    ASSUME NEW d, NEW p, NEW q, Sound(d, p), p.at # "idle", Relists(p, q)
    PROVE  Sound(d, q)
<1>1. Shaped(d, q)
  BY DEF Sound, Shaped, Relists, Onward
<1>2. q.read + Cardinality(q.page) <= MaxMessages
  BY FS_EmptySet, LimitFacts DEF Relists, Onward, Pass
<1>3. QED
  BY <1>1, <1>2 DEF Sound, Relists, Onward

(***************************************************************************)
(* The ways of a device that is not archiving: what its pass turns into,   *)
(* what becomes of the other passes, and what is dropped.                  *)
(***************************************************************************)
Disturbed(p) == [p EXCEPT !.disturbed = TRUE]

Others(d) ==
    \A e \in Device \ {d} : pass'[e] \in {pass[e], Disturbed(pass[e])}

LEMMA AckActs ==
    ASSUME InboundInv, NEW d \in Device, Acknowledge(d), NEW p, p = pass[d],
           NEW q, q = pass'[d]
    PROVE  /\ p.at = "acknowledge" /\ Drop(d) /\ UNCHANGED <<vars, arrival>>
           /\ pass' \in [Device -> Pass] /\ Others(d)
           /\ \A e \in Device \ {d} : pass[e].at \notin {"idle", "done"} => pass'[e].disturbed
           /\ (Leaves(p, q) /\ q.incomplete) \/ Relists(p, q)
           /\ mishaps' \in {mishaps, mishaps + 1} /\ mishaps' \in 0..MaxMishaps
<1>1. /\ p \in Pass /\ Sound(d, p) /\ p.at = "acknowledge" /\ pass \in [Device -> Pass]
      /\ mishaps \in 0..MaxMishaps
  BY DEF InboundInv, Acknowledge
<1>2. p.page = {}
  BY <1>1 DEF Sound, Shaped
<1>3. PICK r : pass' = AfterDrop(d, r) /\ ((Leaves(p, r) /\ r.incomplete) \/ Relists(p, r))
  BY <1>1, <1>2, Relisting, GivingUp DEF Acknowledge
<1>4. q = r /\ r \in Pass
  BY <1>3 DEF AfterDrop, Leaves, Relists, Onward
<1>5. ASSUME NEW e \in Device \ {d}
      PROVE  /\ pass'[e] \in {pass[e], Disturbed(pass[e])} /\ pass'[e] \in Pass
             /\ pass[e].at \notin {"idle", "done"} => pass'[e].disturbed
  <2>1. PICK o : o = pass[e]
    OBVIOUS
  <2>2. o \in Pass
    BY <1>1, <2>1
  <2>3. Disturbed(o) \in Pass /\ Disturbed(o).disturbed
    BY <2>2 DEF Disturbed, Pass
  <2>4. pass'[e] = IF o.at \in {"idle", "done"} THEN o ELSE Disturbed(o)
    BY <1>3, <2>1 DEF AfterDrop, Disturbed
  <2>5. QED
    BY <2>1, <2>2, <2>3, <2>4
<1>6. pass' \in [Device -> Pass]
  BY <1>3, <1>4, <1>5 DEF AfterDrop
<1>7. mishaps' \in {mishaps, mishaps + 1} /\ mishaps' \in 0..MaxMishaps
  BY <1>1, InboundLimits DEF Acknowledge, Mishap
<1>8. QED
  BY <1>1, <1>3, <1>4, <1>5, <1>6, <1>7 DEF Acknowledge, Others

\* A listing that failed, a budget used up, an acknowledgement that failed.
LEMMA OtherActs ==
    ASSUME InboundInv, NEW d \in Device, NEW p, p = pass[d], NEW q, q = pass'[d],
           OutOfBudget(d) \/ ListFails(d) \/ AcknowledgeFails(d)
    PROVE  /\ p \in Pass /\ p.at \notin {"idle", "done"} /\ Leaves(p, q) /\ q.incomplete
           /\ pass' = [pass EXCEPT ![d] = q] /\ UNCHANGED <<vars, arrival, ackEpoch>>
<1>1. p \in Pass /\ pass \in [Device -> Pass]
  BY DEF InboundInv
<1>2. CASE OutOfBudget(d)
  <2>1. q = LeaveBox(p) /\ pass' = [pass EXCEPT ![d] = q]
    BY <1>1, <1>2 DEF OutOfBudget
  <2>2. QED
    BY <1>1, <1>2, <2>1, Leaving DEF OutOfBudget
<1>3. CASE ListFails(d) \/ AcknowledgeFails(d)
  <2>1. q = GiveUpBox(p) /\ pass' = [pass EXCEPT ![d] = q]
    BY <1>1, <1>3 DEF ListFails, AcknowledgeFails
  <2>2. QED
    BY <1>1, <1>3, <2>1, GivingUp DEF ListFails, AcknowledgeFails
<1>4. QED
  BY <1>2, <1>3

LEMMA DisturbedSound ==
    ASSUME NEW d, NEW p, Sound(d, p), Grounded(p), NEW q, q = Disturbed(p)
    PROVE  Sound(d, q) /\ Grounded(q)
<1>1. p \in Pass
  BY DEF Sound
<1>2. q \in Pass
  BY <1>1 DEF Disturbed, Pass
<1>3. /\ q.at = p.at /\ q.epoch = p.epoch /\ q.page = p.page /\ q.acks = p.acks
      /\ q.owed = p.owed /\ q.offset = p.offset /\ q.read = p.read
      /\ q.visit = p.visit /\ q.cache = p.cache
  BY <1>1 DEF Disturbed, Pass
<1>4. Sound(d, q)
  BY <1>2, <1>3 DEF Sound, Shaped
<1>5. QED
  BY <1>3, <1>4 DEF Grounded

LEMMA NoPassFields ==
    /\ NoPass.at = "idle" /\ NoPass.epoch = 0 /\ NoPass.read = 0 /\ NoPass.page = {}
    /\ NoPass.acks = {} /\ NoPass.owed = {} /\ NoPass.offset = 0 /\ NoPass.cache = Empty
BY Zenon DEF NoPass

LEMMA NoPassSound == ASSUME NEW d, InboundInv PROVE Sound(d, NoPass)
<1>1. epoch \in Nat
  BY DEF InboundInv, IInv, TypeOK
<1>2. QED
  BY <1>1, NoPassFields, NoPassType, FS_EmptySet, LimitFacts DEF Sound, Shaped

(***************************************************************************)
(* A step of a device leaves its pass well formed and well founded, and    *)
(* the history goes on in its epoch.                                       *)
(***************************************************************************)
LEMMA ActorStep ==
    ASSUME InboundInv, NEW d \in Device, PassStep(d) \/ Trouble(d), NEW q, q = pass'[d]
    PROVE  /\ IInv' /\ HistoryGoesOn /\ UNCHANGED arrival
           /\ pass' \in [Device -> Pass] /\ Others(d)
           /\ Sound(d, q) /\ Grounded(q)'
           /\ ackEpoch' \in [Message -> 0..epoch]
           /\ mishaps' \in 0..MaxMishaps
<1>1. PICK p : p = pass[d]
  OBVIOUS
<1>2. /\ p \in Pass /\ Sound(d, p) /\ Grounded(p) /\ ArrivalsNumbered /\ IInv
      /\ pass \in [Device -> Pass] /\ mishaps \in 0..MaxMishaps
      /\ ackEpoch \in [Message -> 0..epoch]
  BY <1>1 DEF InboundInv, ArrivalsNumbered
<1>3. ASSUME pass' = [pass EXCEPT ![d] = q], q \in Pass
      PROVE  pass' \in [Device -> Pass] /\ Others(d)
  BY <1>2, <1>3 DEF Others
<1>4. mishaps' \in 0..MaxMishaps
  BY <1>2, InboundLimits DEF PassStep, Trouble, Start, List, OutOfBudget, ArchiveCached,
     Archive, ArchiveRefused, Acknowledge, AcknowledgeFails, ListFails, ArchiveLost,
     Cancel, Mishap
<1>5. CASE Start(d)
  <2>1. Sound(d, q)
    BY <1>5, StartSound
  <2>2. pass' = [pass EXCEPT ![d] = q] /\ UNCHANGED <<vars, arrival, ackEpoch>>
    BY <1>2, <1>5 DEF Start
  <2>3. q.acks = {} /\ q.cache = Empty
    BY <1>2, <1>5, Zenon DEF Start, NoPass
  <2>4. Grounded(q)'
    BY <2>3 DEF Grounded, Empty
  <2>5. QED
    BY <1>2, <1>3, <1>4, <2>1, <2>2, <2>4, UnchangedGoesOn DEF Sound
<1>6. CASE List(d)
  <2>1. pass' = [pass EXCEPT ![d] = q] /\ UNCHANGED <<vars, arrival, ackEpoch>> /\ p.at = "list"
    BY <1>1, <1>2, <1>6 DEF List
  <2>2. IInv' /\ HistoryGoesOn
    BY <1>2, <2>1, UnchangedGoesOn
  <2>3. Leaves(p, q) \/ Shows(p, q)
    BY <1>1, <1>6, Listing
  <2>4. Sound(d, q)
    BY <1>2, <2>1, <2>3, LeavesSound, ShowsSound
  <2>5. CASE Shows(p, q)
    <3>1. q.acks = {} /\ q.cache = p.cache /\ q.epoch = p.epoch
      BY <2>5 DEF Shows, Onward
    <3>2. Grounded(q)'
      BY <1>2, <2>2, <3>1, GroundedNext
    <3>3. QED
      BY <1>2, <1>3, <1>4, <2>1, <2>2, <2>4, <3>2 DEF Sound
  <2>6. CASE Leaves(p, q)
    BY <1>2, <1>3, <1>4, <2>1, <2>2, <2>4, <2>6, LeavesGrounded DEF Sound
  <2>7. QED
    BY <2>3, <2>5, <2>6
<1>7. CASE OutOfBudget(d) \/ ListFails(d) \/ AcknowledgeFails(d)
  <2>1. /\ p.at # "idle" /\ Leaves(p, q)
        /\ pass' = [pass EXCEPT ![d] = q] /\ UNCHANGED <<vars, arrival, ackEpoch>>
    BY <1>1, <1>7, OtherActs
  <2>2. IInv' /\ HistoryGoesOn
    BY <1>2, <2>1, UnchangedGoesOn
  <2>3. Sound(d, q) /\ Grounded(q)'
    BY <1>2, <2>1, <2>2, LeavesSound, LeavesGrounded
  <2>4. QED
    BY <1>2, <1>3, <1>4, <2>1, <2>2, <2>3 DEF Sound
<1>8. CASE ArchiveCached(d) \/ Archive(d) \/ ArchiveRefused(d) \/ ArchiveLost(d)
  <2>1. PICK m : m = Incoming(d)
    OBVIOUS
  <2>2. /\ IInv' /\ HistoryGoesOn /\ UNCHANGED <<arrival, ackEpoch>>
        /\ Archiving(d) /\ pass' = [pass EXCEPT ![d] = q] /\ Advances(d, p, m, q)
    BY <1>1, <1>8, <2>1, ArchiveActs
  <2>3. Sound(d, q) /\ Grounded(q)'
    BY <1>1, <2>1, <2>2, ArchiveSound
  <2>4. QED
    BY <1>2, <1>3, <1>4, <2>2, <2>3 DEF Sound
<1>9. CASE Acknowledge(d)
  <2>1. /\ p.at = "acknowledge" /\ Drop(d) /\ UNCHANGED <<vars, arrival>>
        /\ pass' \in [Device -> Pass] /\ Others(d)
        /\ Leaves(p, q) \/ Relists(p, q)
    BY <1>1, <1>9, AckActs
  <2>2. IInv' /\ HistoryGoesOn
    BY <1>2, <2>1, UnchangedGoesOn
  <2>3. Sound(d, q)
    BY <1>2, <2>1, LeavesSound, RelistsSound
  <2>4. Grounded(q)'
    <3>1. CASE Leaves(p, q)
      BY <1>2, <2>2, <3>1, LeavesGrounded
    <3>2. CASE Relists(p, q)
      <4>1. q.acks = {} /\ q.cache = p.cache /\ q.epoch = p.epoch
        BY <3>2 DEF Relists, Onward
      <4>2. QED
        BY <1>2, <2>2, <4>1, GroundedNext
    <3>3. QED
      BY <2>1, <3>1, <3>2
  <2>5. ackEpoch' \in [Message -> 0..epoch]
    <3>1. p.epoch \in 0..epoch
      BY <1>2 DEF Sound, Pass, IInv, TypeOK
    <3>2. QED
      BY <1>1, <1>2, <2>1, <3>1 DEF Drop
  <2>6. QED
    BY <1>4, <2>1, <2>2, <2>3, <2>4, <2>5
<1>10. CASE Cancel(d)
  <2>1. pass' = [pass EXCEPT ![d] = q] /\ UNCHANGED <<vars, arrival, ackEpoch>> /\ q = NoPass
    BY <1>2, <1>10 DEF Cancel
  <2>2. Sound(d, q)
    BY <2>1, NoPassSound
  <2>3. q.acks = {} /\ q.cache = Empty
    BY <2>1, NoPassFields
  <2>4. Grounded(q)'
    BY <2>3 DEF Grounded, Empty
  <2>5. QED
    BY <1>2, <1>3, <1>4, <2>1, <2>2, <2>4, UnchangedGoesOn DEF Sound
<1>11. QED
  BY <1>5, <1>6, <1>7, <1>8, <1>9, <1>10 DEF PassStep, Trouble
-----------------------------------------------------------------------------
(***************************************************************************)
(* Arrivals: the new message is the last of its mailbox.                   *)
(***************************************************************************)
InBox(b) == {n \in Arrived : MailboxOf[n] = b}

LEMMA ArriveLast ==
    ASSUME ArrivalsNumbered, NEW m \in Message, Arrive(m)
    PROVE  /\ Arrived' = Arrived \cup {m} /\ m \notin Arrived
           /\ arrival' = [arrival EXCEPT ![m] = Cardinality(InBox(MailboxOf[m])) + 1]
           /\ arrival' \in [Message -> Nat]
           /\ \A n \in Arrived : /\ arrival'[n] = arrival[n]
                                 /\ MailboxOf[n] = MailboxOf[m] => arrival[n] < arrival'[m]
<1>1. PICK c : c = Cardinality(InBox(MailboxOf[m]))
  OBVIOUS
<1>2. c \in Nat
  BY <1>1, FS_Subset, FS_CardinalityType DEF InBox, ArrivalsNumbered
<1>3. arrival' = [arrival EXCEPT ![m] = c + 1] /\ m \notin Arrived
  BY <1>1 DEF Arrive, InBox
<1>4. arrival \in [Message -> Nat] /\ arrival' \in [Message -> Nat]
  BY <1>2, <1>3 DEF ArrivalsNumbered
<1>5. Arrived' = Arrived \cup {m}
  BY <1>2, <1>3, <1>4 DEF Arrived
<1>6. ASSUME NEW n \in Arrived
      PROVE  /\ arrival'[n] = arrival[n]
             /\ MailboxOf[n] = MailboxOf[m] => arrival[n] < arrival'[m]
  <2>1. n # m /\ n \in Message
    BY <1>3 DEF Arrived
  <2>2. MailboxOf[n] = MailboxOf[m] => arrival[n] <= c
    BY <1>1 DEF ArrivalsNumbered, InBox
  <2>3. QED
    BY <1>2, <1>3, <1>4, <2>1, <2>2
<1>7. QED
  BY <1>1, <1>3, <1>4, <1>5, <1>6

LEMMA ArriveNumbered ==
    ASSUME ArrivalsNumbered, NEW m \in Message, Arrive(m)
    PROVE  ArrivalsNumbered'
<1>1. /\ Arrived' = Arrived \cup {m} /\ m \notin Arrived
      /\ arrival' = [arrival EXCEPT ![m] = Cardinality(InBox(MailboxOf[m])) + 1]
      /\ arrival' \in [Message -> Nat]
      /\ \A n \in Arrived : /\ arrival'[n] = arrival[n]
                            /\ MailboxOf[n] = MailboxOf[m] => arrival[n] < arrival'[m]
  BY ArriveLast
<1>2. UNCHANGED <<epoch, ackEpoch>>
  BY DEF Arrive, vars, ownerVars
<1>3. IsFiniteSet(Arrived')
  BY <1>1, FS_AddElement DEF ArrivalsNumbered
<1>4. ASSUME NEW n \in Arrived'
      PROVE  arrival'[n] <= Cardinality({o \in Arrived' : MailboxOf[o] = MailboxOf[n]})
  <2>1. PICK b : b = MailboxOf[n]
    OBVIOUS
  <2>2. PICK S : S = {o \in Arrived' : MailboxOf[o] = b}
    OBVIOUS
  <2>3. IsFiniteSet(S) /\ IsFiniteSet(InBox(b))
        /\ Cardinality(InBox(b)) \in Nat /\ Cardinality(S) \in Nat
    BY <1>3, <2>2, FS_Subset, FS_CardinalityType DEF InBox, ArrivalsNumbered
  <2>4. CASE n = m
    <3>1. S = InBox(b) \cup {m} /\ m \notin InBox(b)
      BY <1>1, <2>1, <2>2, <2>4 DEF InBox
    <3>2. Cardinality(S) = Cardinality(InBox(b)) + 1
      BY <2>3, <3>1, FS_AddElement
    <3>3. arrival'[m] = Cardinality(InBox(b)) + 1
      BY <1>1, <2>1, <2>4 DEF ArrivalsNumbered
    <3>4. QED
      BY <2>1, <2>2, <2>3, <2>4, <3>2, <3>3
  <2>5. CASE n # m
    <3>1. n \in Arrived /\ arrival'[n] = arrival[n]
      BY <1>1, <2>5
    <3>2. arrival[n] <= Cardinality(InBox(b))
      BY <2>1, <3>1 DEF ArrivalsNumbered, InBox
    <3>3. InBox(b) \subseteq S
      BY <1>1, <2>2 DEF InBox
    <3>4. Cardinality(InBox(b)) <= Cardinality(S)
      BY <2>3, <3>3, FS_Subset
    <3>5. arrival[n] \in Nat
      BY <1>4, <3>1 DEF Arrived, ArrivalsNumbered
    <3>6. QED
      BY <2>1, <2>2, <2>3, <3>1, <3>2, <3>4, <3>5
  <2>6. QED
    BY <2>4, <2>5
<1>5. ASSUME NEW n \in Arrived', NEW o \in Arrived', MailboxOf[n] = MailboxOf[o],
             arrival'[n] = arrival'[o]
      PROVE  n = o
  <2>1. arrival \in [Message -> Nat] /\ Arrived \subseteq Message
    BY DEF ArrivalsNumbered, Arrived
  <2>2. QED
    BY <1>1, <1>5, <2>1 DEF ArrivalsNumbered
<1>6. QED
  BY <1>1, <1>2, <1>3, <1>4, <1>5 DEF ArrivalsNumbered
-----------------------------------------------------------------------------
(***************************************************************************)
(* The invariant holds initially and every step keeps it.                  *)
(***************************************************************************)
LEMMA SoundStays ==
    ASSUME NEW d, NEW p, Sound(d, p), IInv, IInv', Arrived \subseteq Arrived', epoch <= epoch'
    PROVE  Sound(d, p)'
BY DEF Sound, Shaped, Pass, IInv, TypeOK

LEMMA InboundInvInit == InboundInit => InboundInv
<1>1. SUFFICES ASSUME InboundInit
               PROVE  InboundInv
  OBVIOUS
<1>2. IInv /\ epoch = 1 /\ Arrived = {}
  BY <1>1, InitInv DEF InboundInit, Init, Arrived
<1>3. ArrivalsNumbered
  BY <1>1, <1>2, FS_EmptySet DEF InboundInit, ArrivalsNumbered
<1>4. mishaps \in 0..MaxMishaps /\ pass \in [Device -> Pass]
  BY <1>1, InboundLimits, NoPassType DEF InboundInit
<1>5. ASSUME NEW d \in Device
      PROVE  Sound(d, pass[d]) /\ Grounded(pass[d])
  <2>1. pass[d] = NoPass
    BY <1>1 DEF InboundInit
  <2>2. Sound(d, NoPass)
    BY <1>2, NoPassFields, NoPassType, FS_EmptySet, LimitFacts DEF Sound, Shaped
  <2>3. Grounded(NoPass)
    BY <1>2, NoPassFields DEF Grounded
  <2>4. QED
    BY <2>1, <2>2, <2>3
<1>6. QED
  BY <1>2, <1>3, <1>4, <1>5 DEF InboundInv

LEMMA InboundInvStep == InboundInv /\ [InboundNext]_everything => InboundInv'
<1>1. SUFFICES ASSUME InboundInv, [InboundNext]_everything
               PROVE  InboundInv'
  OBVIOUS
<1>2. /\ IInv /\ ArrivalsNumbered /\ mishaps \in 0..MaxMishaps /\ epoch \in Nat
      /\ pass \in [Device -> Pass]
      /\ \A d \in Device : Sound(d, pass[d]) /\ Grounded(pass[d])
  BY <1>1 DEF InboundInv, IInv, TypeOK
<1>3. ASSUME NEW d \in Device, PassStep(d) \/ Trouble(d)
      PROVE  InboundInv'
  <2>1. PICK q : q = pass'[d]
    OBVIOUS
  <2>2. /\ IInv' /\ HistoryGoesOn /\ UNCHANGED arrival
        /\ pass' \in [Device -> Pass] /\ Others(d)
        /\ Sound(d, q) /\ Grounded(q)'
        /\ ackEpoch' \in [Message -> 0..epoch]
        /\ mishaps' \in 0..MaxMishaps
    BY <1>1, <1>3, <2>1, ActorStep
  <2>3. Arrived' = Arrived /\ epoch' = epoch
    BY <2>2 DEF Arrived, HistoryGoesOn
  <2>4. ArrivalsNumbered'
    BY <1>2, <2>2, <2>3 DEF ArrivalsNumbered
  <2>5. ASSUME NEW e \in Device
        PROVE  (Sound(e, pass[e]) /\ Grounded(pass[e]))'
    <3>1. PICK o : o = pass'[e]
      OBVIOUS
    <3>2. Sound(e, o) /\ Grounded(o)'
      <4>1. CASE e = d
        BY <2>1, <2>2, <3>1, <4>1
      <4>2. CASE e # d
        <5>1. PICK p : p = pass[e]
          OBVIOUS
        <5>2. o \in {p, Disturbed(p)} /\ Sound(e, p) /\ Grounded(p)
          BY <1>2, <2>2, <3>1, <4>2, <5>1 DEF Others
        <5>3. Sound(e, o) /\ Grounded(o) /\ p \in Pass
          BY <5>2, DisturbedSound DEF Sound
        <5>4. Grounded(o)'
          BY <2>2, <5>3, GroundedNext
        <5>5. QED
          BY <5>3, <5>4
      <4>3. QED
        BY <4>1, <4>2
    <3>3. Sound(e, o)'
      BY <1>2, <2>2, <2>3, <3>2, SoundStays
    <3>4. QED
      BY <3>1, <3>2, <3>3 DEF Sound, Shaped, Grounded
  <2>6. QED
    BY <2>2, <2>4, <2>5 DEF InboundInv
<1>4. CASE OwnerDeletes
  <2>1. IInv' /\ (HistoryGoesOn \/ HistoryEnds) /\ UNCHANGED inboundVars
    BY <1>2, <1>4, DeletesMove DEF OwnerDeletes
  <2>2. Arrived' = Arrived /\ epoch <= epoch' /\ epoch' \in Nat
    BY <1>2, <2>1 DEF Arrived, HistoryGoesOn, HistoryEnds, inboundVars, IInv, TypeOK
  <2>3. ArrivalsNumbered'
    <3>1. ackEpoch' \in [Message -> 0..epoch']
      BY <1>2, <2>1, <2>2 DEF ArrivalsNumbered, inboundVars
    <3>2. QED
      BY <1>2, <2>1, <2>2, <3>1 DEF ArrivalsNumbered, inboundVars
  <2>4. ASSUME NEW e \in Device
        PROVE  (Sound(e, pass[e]) /\ Grounded(pass[e]))'
    <3>1. PICK p : p = pass[e]
      OBVIOUS
    <3>2. pass'[e] = p /\ Sound(e, p) /\ Grounded(p)
      BY <1>2, <2>1, <3>1 DEF inboundVars
    <3>3. Sound(e, p)'
      BY <1>2, <2>1, <2>2, <3>2, SoundStays
    <3>4. Grounded(p)'
      <4>1. CASE HistoryGoesOn
        BY <3>2, <4>1, GroundedNext
      <4>2. CASE HistoryEnds
        BY <1>2, <3>2, <4>2 DEF Grounded, HistoryEnds, Sound, Pass
      <4>3. QED
        BY <2>1, <4>1, <4>2
    <3>5. QED
      BY <3>2, <3>3, <3>4 DEF Sound, Shaped, Grounded
  <2>5. QED
    BY <1>2, <2>1, <2>3, <2>4 DEF InboundInv, inboundVars
<1>5. ASSUME NEW m \in Message, Arrive(m)
      PROVE  InboundInv'
  <2>1. /\ IInv' /\ HistoryGoesOn /\ UNCHANGED <<pass, mishaps, ackEpoch>>
    BY <1>2, <1>5, UnchangedGoesOn DEF Arrive
  <2>2. ArrivalsNumbered' /\ Arrived \subseteq Arrived' /\ epoch <= epoch'
    BY <1>2, <1>5, <2>1, ArriveLast, ArriveNumbered DEF HistoryGoesOn
  <2>3. ASSUME NEW e \in Device
        PROVE  (Sound(e, pass[e]) /\ Grounded(pass[e]))'
    <3>1. PICK p : p = pass[e]
      OBVIOUS
    <3>2. pass'[e] = p /\ Sound(e, p) /\ Grounded(p)
      BY <1>2, <2>1, <3>1
    <3>3. Sound(e, p)' /\ Grounded(p)'
      BY <1>2, <2>1, <2>2, <3>2, SoundStays, GroundedNext
    <3>4. QED
      BY <3>2, <3>3 DEF Sound, Shaped, Grounded
  <2>4. QED
    BY <1>2, <2>1, <2>2, <2>3 DEF InboundInv
<1>6. CASE UNCHANGED everything
  <2>1. UNCHANGED vars /\ UNCHANGED inboundVars
    BY <1>6 DEF everything
  <2>2. IInv'
    BY <1>2, <2>1, UnchangedGoesOn
  <2>3. QED
    BY <1>2, <2>1, <2>2 DEF InboundInv, ArrivalsNumbered, Arrived, Sound, Shaped,
       Grounded, Kept, Present, Live, vars, ownerVars, inboundVars
<1>7. QED
  BY <1>1, <1>3, <1>4, <1>5, <1>6 DEF InboundNext

(***************************************************************************)
(* However the passes of the devices, the owner's deletions, arrivals and  *)
(* mishaps interleave, every pass stays well formed and its reports true,  *)
(* and the arrivals at a mailbox stay in one order.                        *)
(***************************************************************************)
THEOREM InboundInvariant == InboundSpec => []InboundInv
BY InboundInvInit, InboundInvStep, PTL DEF InboundSpec

(***************************************************************************)
(* Every pass of syncPending stays within its pages and messages, speaks   *)
(* only of messages that have arrived, and, if it acknowledges, lists at   *)
(* offset 0 only.                                                          *)
(***************************************************************************)
THEOREM InboundTypeCorrect == InboundSpec => []InboundTypeOK
<1>1. InboundInv => InboundTypeOK
  BY DEF InboundInv, InboundTypeOK, Sound, ArrivalsNumbered
<1>2. QED
  BY <1>1, InboundInvariant, PTL
-----------------------------------------------------------------------------
(***************************************************************************)
(* What is dropped is kept.  The acknowledgement names ids and a host, so  *)
(* this rests on what an id means there: messages that a host holds under  *)
(* one id are one record.                                                  *)
(***************************************************************************)
IdsIdentify ==
    \A m, n \in Message :
        IdOf[m] = IdOf[n] /\ HostOf[MailboxOf[m]] = HostOf[MailboxOf[n]] =>
            KeyOf[m] = KeyOf[n] /\ BodyOf[m] = BodyOf[n]

\* What a step other than an acknowledgement does to the history and the mail.
Quiet == (HistoryGoesOn \/ HistoryEnds) /\ UNCHANGED ackEpoch

LEMMA QuietStep ==
    ASSUME InboundInv, [InboundNext]_everything, \A d \in Device : ~Acknowledge(d)
    PROVE  Quiet
<1>1. IInv
  BY DEF InboundInv
<1>2. ASSUME NEW d \in Device, PassStep(d) \/ Trouble(d)
      PROVE  Quiet
  <2>1. UNCHANGED ackEpoch
    BY <1>2 DEF PassStep, Trouble, Start, List, OutOfBudget, ArchiveCached, Archive,
       ArchiveRefused, AcknowledgeFails, ListFails, ArchiveLost, Cancel
  <2>2. QED
    BY <1>2, <2>1, ActorStep DEF Quiet
<1>3. CASE OwnerDeletes
  BY <1>1, <1>3, DeletesMove DEF OwnerDeletes, inboundVars, Quiet
<1>4. ASSUME NEW m \in Message, Arrive(m)
      PROVE  Quiet
  BY <1>1, <1>4, UnchangedGoesOn DEF Arrive, Quiet
<1>5. CASE UNCHANGED everything
  BY <1>1, <1>5, UnchangedGoesOn DEF everything, inboundVars, Quiet
<1>6. QED
  BY <1>2, <1>3, <1>4, <1>5 DEF InboundNext

LEMMA AckedStep ==
    ASSUME IdsIdentify, InboundInv, AckedIsKept, [InboundNext]_everything
    PROVE  AckedIsKept'
<1>1. epoch \in Nat \ {0} /\ ackEpoch \in [Message -> 0..epoch] /\ pass \in [Device -> Pass]
  BY DEF InboundInv, IInv, TypeOK, ArrivalsNumbered
<1>2. CASE \A d \in Device : ~Acknowledge(d)
  <2>1. Quiet
    BY <1>2, QuietStep
  <2>2. CASE HistoryGoesOn
    BY <2>1, <2>2, KeptStays DEF Quiet, AckedIsKept, HistoryGoesOn
  <2>3. CASE HistoryEnds
    BY <1>1, <2>1, <2>3 DEF Quiet, AckedIsKept, HistoryEnds
  <2>4. QED
    BY <2>1, <2>2, <2>3 DEF Quiet
<1>3. ASSUME NEW d \in Device, Acknowledge(d)
      PROVE  AckedIsKept'
  <2>1. PICK p : p = pass[d]
    OBVIOUS
  <2>2. PICK q : q = pass'[d]
    OBVIOUS
  <2>3. p.at = "acknowledge" /\ Drop(d) /\ UNCHANGED vars
    BY <1>3, <2>1, <2>2, AckActs
  <2>4. Sound(d, p) /\ Grounded(p) /\ p \in Pass
    BY <2>1 DEF InboundInv, Sound
  <2>5. ASSUME NEW m \in Message, ackEpoch'[m] = epoch
        PROVE  Kept(m)
    <3>1. CASE m \in Dropped(d)
      <4>1. p.epoch = epoch
        BY <1>1, <2>1, <2>3, <2>5, <3>1 DEF Drop
      <4>2. PICK a \in p.acks : IdOf[a] = IdOf[m]
        BY <2>1, <3>1 DEF Dropped
      <4>3. HostOf[MailboxOf[m]] = HostOf[Visit[p.visit]]
        BY <2>1, <3>1 DEF Dropped
      <4>4. a \in Message /\ MailboxOf[a] = Visit[p.visit] /\ Kept(a)
        BY <2>4, <4>1 DEF Sound, Shaped, Grounded, Pass
      <4>5. KeyOf[m] = KeyOf[a] /\ BodyOf[m] = BodyOf[a]
        BY <4>2, <4>3, <4>4 DEF IdsIdentify
      <4>6. QED
        BY <4>4, <4>5 DEF Kept, Present
    <3>2. CASE m \notin Dropped(d)
      BY <1>1, <2>3, <2>5, <3>2 DEF Drop, AckedIsKept
    <3>3. QED
      BY <3>1, <3>2
  <2>6. QED
    BY <2>3, <2>5 DEF AckedIsKept, Kept, Present, Live, vars, ownerVars
<1>4. QED
  BY <1>2, <1>3

(***************************************************************************)
(* Archive before acknowledge, for any number of devices, mailboxes and    *)
(* messages: what Message Box was told to drop in this epoch is in the     *)
(* history with that body, or its owner has deleted it there.              *)
(***************************************************************************)
THEOREM AcknowledgedIsKept == IdsIdentify => (InboundSpec => []AckedIsKept)
<1> SUFFICES ASSUME IdsIdentify
             PROVE  InboundSpec => []AckedIsKept
  OBVIOUS
<1>1. InboundInit => AckedIsKept
  BY DEF InboundInit, Init, AckedIsKept
<1>2. InboundInv /\ AckedIsKept /\ [InboundNext]_everything => AckedIsKept'
  BY AckedStep
<1>3. QED
  BY <1>1, <1>2, InboundInvariant, PTL DEF InboundSpec
-----------------------------------------------------------------------------
(***************************************************************************)
(* A complete pass has missed nothing.                                     *)
(***************************************************************************)
LEMMA BehindLeaves ==
    ASSUME NEW p \in Pass, p.at # "done", NEW q, Leaves(p, q), NEW m \in Message, Behind(q, m)
    PROVE  Behind(p, m) \/ Here(p, m)
<1>1. PICK i \in DOMAIN Visit : MailboxOf[m] = Visit[i]
  BY InboundType DEF Mailbox
<1>2. CASE q.at = "done"
  BY <1>1, <1>2, LimitFacts DEF Leaves, Pass, Behind, Here
<1>3. CASE q.at # "done"
  <2>1. PICK j \in DOMAIN Visit : j < q.visit /\ MailboxOf[m] = Visit[j]
    BY <1>3 DEF Behind
  <2>2. q.visit = p.visit + 1
    BY <1>3 DEF Leaves
  <2>3. j < p.visit \/ j = p.visit
    BY <2>1, <2>2, LimitFacts DEF Pass
  <2>4. QED
    BY <2>1, <2>3 DEF Behind, Here
<1>4. QED
  BY <1>2, <1>3

LEMMA AckLasts ==
    ASSUME InboundInv, [InboundNext]_everything, NEW m \in Message, ackEpoch[m] # 0
    PROVE  ackEpoch'[m] # 0
<1>1. CASE \A d \in Device : ~Acknowledge(d)
  BY <1>1, QuietStep DEF Quiet
<1>2. ASSUME NEW d \in Device, Acknowledge(d)
      PROVE  ackEpoch'[m] # 0
  <2>1. pass[d].epoch # 0
    BY <1>2 DEF InboundInv, Sound, Shaped, Acknowledge
  <2>2. QED
    BY <1>2, <2>1 DEF Acknowledge, Drop
<1>3. QED
  BY <1>1, <1>2

LEMMA EmptiedNext ==
    ASSUME InboundInv, [InboundNext]_everything, NEW p \in Pass, NEW q \in Pass, Emptied(p),
           p.at # "idle", q.owed = p.owed, ~q.incomplete => ~p.incomplete,
           ~q.incomplete => \A m \in p.owed : Behind(q, m) => Behind(p, m) \/ ackEpoch[m] # 0
    PROVE  Emptied(q)'
<1>1. p.owed \subseteq Message
  BY DEF Pass
<1>2. ASSUME ~q.incomplete, NEW m \in q.owed, Behind(q, m)
      PROVE  ackEpoch'[m] # 0
  BY <1>1, <1>2, AckLasts DEF Emptied
<1>3. QED
  BY <1>2 DEF Emptied, Behind

LEMMA EmptiedActor ==
    ASSUME InboundInv, [InboundNext]_everything, NEW d \in Acknowledging, Emptied(pass[d]),
           PassStep(d) \/ Trouble(d)
    PROVE  Emptied(pass[d])'
<1>1. PICK p : p = pass[d]
  OBVIOUS
<1>2. PICK q : q = pass'[d]
  OBVIOUS
<1>3. /\ d \in Device /\ p \in Pass /\ Sound(d, p) /\ Emptied(p) /\ ArrivalsNumbered
      /\ pass \in [Device -> Pass]
  BY <1>1, InboundType DEF InboundInv
<1>4. SUFFICES Emptied(q)'
  BY <1>2 DEF Emptied, Behind
<1>5. ASSUME Leaves(p, q), q.incomplete, p.at # "idle"
      PROVE  Emptied(q)'
  BY <1>3, <1>5, EmptiedNext DEF Leaves, Onward
<1>6. ASSUME Onward(p, q), q.visit = p.visit, p.at \notin {"idle", "done"}, q.at # "done"
      PROVE  Emptied(q)'
  <2>1. \A m \in p.owed : Behind(q, m) => Behind(p, m)
    BY <1>6 DEF Behind
  <2>2. QED
    BY <1>3, <1>6, <2>1, EmptiedNext DEF Onward
<1>7. CASE Start(d)
  <2>1. q.at = "list" /\ q.visit = 1
    BY <1>2, <1>3, <1>7, Zenon DEF Start, NoPass
  <2>2. \A m \in q.owed : ~Behind(q, m)
    BY <2>1, LimitFacts DEF Behind
  <2>3. QED
    BY <2>2 DEF Emptied, Behind
<1>8. CASE List(d)
  <2>1. p.at = "list" /\ p.offset = 0
    BY <1>1, <1>3, <1>8 DEF List, Sound
  <2>2. CASE Leaves(p, q) /\ Cardinality(Waiting(Visit[p.visit])) <= p.offset
    <3>1. Waiting(Visit[p.visit]) = {}
      BY <1>3, <2>1, <2>2, WaitingFacts, FS_EmptySet
    <3>2. ASSUME NEW m \in p.owed, Behind(q, m)
          PROVE  Behind(p, m) \/ ackEpoch[m] # 0
      <4>1. m \in Arrived /\ m \in Message
        BY <1>3 DEF Sound, Arrived
      <4>2. Behind(p, m) \/ Here(p, m)
        BY <1>3, <2>1, <2>2, <3>2, <4>1, BehindLeaves
      <4>3. QED
        BY <3>1, <4>1, <4>2 DEF Here, Waiting, Pending
    <3>3. QED
      BY <1>3, <2>1, <2>2, <3>2, EmptiedNext DEF Leaves, Onward
  <2>3. CASE Shows(p, q)
    BY <1>6, <2>1, <2>3 DEF Shows
  <2>4. QED
    BY <1>1, <1>2, <1>3, <1>8, <2>2, <2>3, Listing
<1>9. CASE OutOfBudget(d) \/ ListFails(d) \/ AcknowledgeFails(d)
  BY <1>1, <1>2, <1>3, <1>5, <1>9, OtherActs
<1>10. CASE ArchiveCached(d) \/ Archive(d) \/ ArchiveRefused(d) \/ ArchiveLost(d)
  <2>1. PICK m : m = Incoming(d)
    OBVIOUS
  <2>2. Archiving(d) /\ Advances(d, p, m, q)
    BY <1>1, <1>2, <1>3, <1>10, <2>1, ArchiveActs
  <2>3. p.at = "archive" /\ m \in Message
    BY <1>1, <1>3, <2>1, <2>2, AtMessage
  <2>4. PICK c : c = Caching(p, m)
    OBVIOUS
  <2>5. /\ c.visit = p.visit /\ c.epoch = p.epoch /\ c.owed = p.owed
        /\ c.disturbed = p.disturbed /\ c.incomplete = p.incomplete
    BY <1>3, <2>3, <2>4, CachingFacts
  <2>6. ASSUME NEW ok \in BOOLEAN, NEW o, o = p \/ o = c, Passed(d, o, m, ok, q)
        PROVE  Emptied(q)'
    <3>1. Onward(p, q)
      BY <2>5, <2>6 DEF Passed, Onward
    <3>2. CASE Leaves(o, q)
      <4>1. CASE q.incomplete
        BY <1>3, <2>3, <3>1, <4>1, EmptiedNext DEF Onward
      <4>2. CASE ~q.incomplete
        <5>1. q.acks = {} /\ (q.at = "list" \/ q.at = "done") /\ q.page = {}
          BY <3>2 DEF Leaves
        <5>2. QED
          BY <2>5, <2>6, <4>2, <5>1, <1>6, <2>3, <3>1 DEF Passed, AcksWith, Stays
      <4>3. QED
        BY <4>1, <4>2
    <3>3. CASE ~Leaves(o, q)
      <4>1. q.visit = p.visit /\ q.at # "done"
        BY <2>5, <2>6, <3>3 DEF Passed, Stays
      <4>2. QED
        BY <1>6, <2>3, <3>1, <4>1
    <3>4. QED
      BY <3>2, <3>3
  <2>7. QED
    BY <2>2, <2>4, <2>6 DEF Advances
<1>11. CASE Acknowledge(d)
  <2>1. p.at = "acknowledge" /\ ((Leaves(p, q) /\ q.incomplete) \/ Relists(p, q))
    BY <1>1, <1>2, <1>3, <1>11, AckActs
  <2>2. CASE Leaves(p, q) /\ q.incomplete
    BY <1>5, <2>1, <2>2
  <2>3. CASE Relists(p, q)
    BY <1>6, <2>1, <2>3 DEF Relists
  <2>4. QED
    BY <2>1, <2>2, <2>3
<1>12. CASE Cancel(d)
  <2>1. q.at = "idle"
    BY <1>2, <1>3, <1>12, NoPassFields DEF Cancel
  <2>2. QED
    BY <2>1 DEF Emptied
<1>13. QED
  BY <1>7, <1>8, <1>9, <1>10, <1>11, <1>12 DEF PassStep, Trouble

\* The pass of a device that does not act, or only has its pass disturbed.
LEMMA EmptiedOther ==
    ASSUME InboundInv, [InboundNext]_everything, NEW p \in Pass, Emptied(p),
           NEW q, q \in {p, Disturbed(p)}
    PROVE  Emptied(q)'
<1>1. /\ q \in Pass /\ q.at = p.at /\ q.visit = p.visit /\ q.owed = p.owed
      /\ q.incomplete = p.incomplete
  BY DEF Disturbed, Pass
<1>2. \A m \in p.owed : Behind(q, m) => Behind(p, m)
  BY <1>1 DEF Behind
<1>3. CASE p.at = "idle"
  BY <1>1, <1>3 DEF Emptied
<1>4. CASE p.at # "idle"
  BY <1>1, <1>2, <1>4, EmptiedNext
<1>5. QED
  BY <1>3, <1>4

LEMMA DrainStep == InboundInv /\ DrainInv /\ [InboundNext]_everything => DrainInv'
<1>1. SUFFICES ASSUME InboundInv, DrainInv, [InboundNext]_everything, NEW d \in Acknowledging
               PROVE  Emptied(pass[d])'
  BY DEF DrainInv
<1>2. /\ d \in Device /\ pass \in [Device -> Pass] /\ Emptied(pass[d])
  BY <1>1, InboundType DEF DrainInv, InboundInv
<1>3. CASE PassStep(d) \/ Trouble(d)
  BY <1>1, <1>2, <1>3, EmptiedActor
<1>4. CASE ~(PassStep(d) \/ Trouble(d))
  <2>1. PICK q : q = pass'[d]
    OBVIOUS
  <2>2. q \in {pass[d], Disturbed(pass[d])}
    <3>1. ASSUME NEW e \in Device, PassStep(e) \/ Trouble(e)
          PROVE  q \in {pass[d], Disturbed(pass[d])}
      <4>1. Others(e) /\ e # d
        BY <1>1, <1>4, <3>1, ActorStep
      <4>2. QED
        BY <1>2, <2>1, <4>1 DEF Others
    <3>2. CASE OwnerDeletes \/ (\E m \in Message : Arrive(m)) \/ UNCHANGED everything
      BY <2>1, <3>2 DEF OwnerDeletes, Arrive, inboundVars, everything
    <3>3. QED
      BY <1>1, <3>1, <3>2 DEF InboundNext
  <2>3. Emptied(q)'
    BY <1>1, <1>2, <2>2, EmptiedOther
  <2>4. QED
    BY <2>1, <2>3 DEF Emptied, Behind
<1>5. QED
  BY <1>3, <1>4

(***************************************************************************)
(* The places of what waits stay what they are unless something is dropped.*)
(***************************************************************************)
PlacesStay == \A m \in Pending : m \in Pending' /\ Place(m)' = Place(m)

LEMMA PlacesUnchanged ==
    ASSUME UNCHANGED <<arrival, ackEpoch>>
    PROVE  PlacesStay
BY DEF PlacesStay, Pending, Arrived, Place, Waiting

LEMMA PlacesArrive ==
    ASSUME ArrivalsNumbered, NEW n \in Message, Arrive(n)
    PROVE  PlacesStay
<1>1. /\ Arrived' = Arrived \cup {n} /\ n \notin Arrived
      /\ \A m \in Arrived : /\ arrival'[m] = arrival[m]
                            /\ MailboxOf[m] = MailboxOf[n] => arrival[m] < arrival'[n]
      /\ arrival' \in [Message -> Nat]
  BY ArriveLast
<1>2. UNCHANGED ackEpoch
  BY DEF Arrive
<1>3. SUFFICES ASSUME NEW m \in Pending
               PROVE  m \in Pending' /\ Place(m)' = Place(m)
  BY DEF PlacesStay
<1>4. m \in Arrived /\ m \in Message /\ m \in Pending' /\ arrival'[m] = arrival[m]
  BY <1>1, <1>2 DEF Pending, Arrived
<1>5. PICK b : b = MailboxOf[m]
  OBVIOUS
<1>6. {o \in Waiting(b)' : arrival'[o] <= arrival'[m]} =
      {o \in Waiting(b) : arrival[o] <= arrival[m]}
  <2>1. ASSUME NEW o \in Waiting(b)', arrival'[o] <= arrival'[m]
        PROVE  o \in Waiting(b) /\ arrival[o] <= arrival[m]
    <3>1. o \in Arrived' /\ MailboxOf[o] = b /\ ackEpoch[o] = 0 /\ o \in Message
      BY <1>2, <2>1 DEF Waiting, Pending, Arrived
    <3>2. o # n
      BY <1>1, <1>4, <1>5, <2>1, <3>1
    <3>3. QED
      BY <1>1, <1>4, <2>1, <3>1, <3>2 DEF Waiting, Pending
  <2>2. ASSUME NEW o \in Waiting(b), arrival[o] <= arrival[m]
        PROVE  o \in Waiting(b)' /\ arrival'[o] <= arrival'[m]
    BY <1>1, <1>2, <1>4, <2>2 DEF Waiting, Pending
  <2>3. QED
    BY <2>1, <2>2
<1>7. QED
  BY <1>4, <1>5, <1>6 DEF Place

LEMMA CaughtUpStays ==
    ASSUME NEW p, CaughtUp(p), HistoryGoesOn, PlacesStay
    PROVE  CaughtUp(p)'
<1>1. SUFFICES ASSUME p.at # "idle", ~p.disturbed, p.epoch = epoch
               PROVE  CaughtUp(p)'
  BY DEF CaughtUp, HistoryGoesOn
<1>2. /\ p.at # "done" => p.owed \subseteq Pending
      /\ ~p.incomplete => \A m \in p.owed : Behind(p, m) => Kept(m)
      /\ p.at = "list" => \A m \in p.owed : Here(p, m) /\ Place(m) <= p.offset => Kept(m)
      /\ p.at = "archive" /\ ~p.failed => \A m \in p.owed : Here(p, m) =>
             /\ Place(m) <= p.next /\ m \notin p.page => Kept(m)
             /\ ~p.more => Place(m) <= p.next
  BY <1>1 DEF CaughtUp
<1>3. p.at # "done" => p.owed \subseteq Pending' /\ \A m \in p.owed : Place(m)' = Place(m)
  BY <1>2 DEF PlacesStay
<1>4. \A m : Kept(m) => Kept(m)'
  BY KeptStays
<1>5. ~p.incomplete => \A m \in p.owed : Behind(p, m) => Kept(m)'
  BY <1>2, <1>4
<1>6. p.at = "list" => \A m \in p.owed : Here(p, m) /\ Place(m)' <= p.offset => Kept(m)'
  BY <1>2, <1>3, <1>4
<1>7. p.at = "archive" /\ ~p.failed => \A m \in p.owed : Here(p, m) =>
          /\ Place(m)' <= p.next /\ m \notin p.page => Kept(m)'
          /\ ~p.more => Place(m)' <= p.next
  BY <1>2, <1>3, <1>4
<1>8. QED
  BY <1>3, <1>5, <1>6, <1>7 DEF CaughtUp, Behind, Here

LEMMA CaughtUpLeaves ==
    ASSUME NEW p \in Pass, CaughtUp(p), p.at \notin {"idle", "done"}, HistoryGoesOn,
           PlacesStay, ArrivalsNumbered', NEW q, Leaves(p, q),
           ~p.disturbed /\ p.epoch = epoch /\ ~q.incomplete =>
               \A m \in p.owed : Here(p, m) => Kept(m)'
    PROVE  CaughtUp(q)'
<1>1. /\ q.disturbed = p.disturbed /\ q.epoch = p.epoch /\ q.owed = p.owed
      /\ p.incomplete => q.incomplete
      /\ q.offset = 0 /\ q.at \in {"list", "done"}
  BY DEF Leaves, Onward
<1>2. SUFFICES ASSUME ~p.disturbed, p.epoch = epoch
               PROVE  CaughtUp(q)'
  BY <1>1 DEF CaughtUp, HistoryGoesOn
<1>3. p.owed \subseteq Pending'
  BY <1>2 DEF CaughtUp, PlacesStay
<1>4. ASSUME ~q.incomplete, NEW m \in p.owed, Behind(q, m)
      PROVE  Kept(m)'
  <2>1. Behind(p, m) \/ Here(p, m)
    BY <1>4, BehindLeaves DEF Pass
  <2>2. CASE Behind(p, m)
    <3>1. Kept(m)
      BY <1>1, <1>2, <1>4, <2>2 DEF CaughtUp
    <3>2. QED
      BY <3>1, KeptStays
  <2>3. QED
    BY <1>2, <1>4, <2>1, <2>2
<1>5. ASSUME NEW m \in p.owed
      PROVE  Place(m)' >= 1 /\ Place(m)' \in Nat
  <2>1. m \in Waiting(MailboxOf[m])'
    BY <1>3, <1>5 DEF Waiting
  <2>2. /\ Waiting(MailboxOf[m])' \subseteq Arrived' /\ IsFiniteSet(Arrived')
        /\ arrival' \in [Message -> Nat] /\ Arrived' \subseteq Message
    BY DEF Waiting, Pending, ArrivalsNumbered, Arrived
  <2>3. PICK S : S = {n \in Waiting(MailboxOf[m])' : arrival'[n] <= arrival'[m]}
    OBVIOUS
  <2>4. m \in S /\ IsFiniteSet(S)
    BY <2>1, <2>2, <2>3, FS_Subset
  <2>5. Cardinality(S) \in Nat /\ Cardinality(S) # 0
    BY <2>4, FS_CardinalityType, FS_EmptySet
  <2>6. QED
    BY <2>3, <2>5 DEF Place
<1>6. ASSUME q.at = "list", NEW m \in p.owed
      PROVE  ~(Place(m)' <= q.offset)
  <2>1. q.offset = 0
    BY <1>1
  <2>2. PICK i : i = Place(m)'
    OBVIOUS
  <2>3. i >= 1 /\ i \in Nat
    BY <1>5, <1>6, <2>2
  <2>4. QED
    BY <2>1, <2>2, <2>3
<1>7. QED
  BY <1>1, <1>3, <1>4, <1>6 DEF CaughtUp, Behind

LEMMA CaughtUpActor ==
    ASSUME InboundInv, [InboundNext]_everything, NEW d \in Device \ Acknowledging,
           CaughtUp(pass[d]), PassStep(d) \/ Trouble(d)
    PROVE  CaughtUp(pass[d])'
<1>1. PICK p : p = pass[d]
  OBVIOUS
<1>2. PICK q : q = pass'[d]
  OBVIOUS
<1>3. /\ d \in Device /\ p \in Pass /\ Sound(d, p) /\ CaughtUp(p) /\ ArrivalsNumbered
      /\ pass \in [Device -> Pass]
  BY <1>1 DEF InboundInv
<1>4. SUFFICES CaughtUp(q)'
  BY <1>2 DEF CaughtUp, Behind, Here
<1>5. p.acks = {} /\ p.at # "acknowledge"
  BY <1>3 DEF Sound, Shaped
<1>6. HistoryGoesOn
  BY ActorStep
<1>7. PlacesStay
  <2>1. UNCHANGED <<arrival, ackEpoch>>
    BY <1>1, <1>5 DEF PassStep, Trouble, Start, List, OutOfBudget, ArchiveCached, Archive,
       ArchiveRefused, AcknowledgeFails, ListFails, ArchiveLost, Cancel, Acknowledge
  <2>2. QED
    BY <2>1, PlacesUnchanged
<1>8. ArrivalsNumbered'
  BY InboundInvStep DEF InboundInv
<1>9. CASE Start(d)
  <2>1. q.at = "list" /\ q.visit = 1 /\ q.offset = 0 /\ q.owed = Pending
    BY <1>2, <1>3, <1>9, Zenon DEF Start, NoPass
  <2>2. \A m : ~Behind(q, m)
    BY <2>1, LimitFacts DEF Behind
  <2>3. \A m \in Pending : Place(m)' = Place(m) /\ m \in Pending'
    BY <1>7 DEF PlacesStay
  <2>4. ASSUME NEW m \in Pending
        PROVE  Place(m) >= 1 /\ Place(m) \in Nat
    <3>1. m \in Waiting(MailboxOf[m])
      BY DEF Waiting
    <3>2. QED
      BY <1>3, <3>1, PlaceRange, WaitingFacts
  <2>5. \A m \in q.owed : ~(Place(m)' <= q.offset)
    BY <2>1, <2>3, <2>4
  <2>6. QED
    BY <2>1, <2>2, <2>3, <2>5 DEF CaughtUp, Behind
<1>10. CASE List(d)
  <2>1. p.at = "list"
    BY <1>1, <1>10 DEF List
  <2>2. PICK b : b = Visit[p.visit]
    OBVIOUS
  <2>3. ASSUME ~p.disturbed, p.epoch = epoch, NEW m \in p.owed, Here(p, m)
        PROVE  /\ m \in Waiting(b) /\ Place(m) \in 1..Cardinality(Waiting(b))
               /\ Place(m) <= p.offset => Kept(m)
    <3>1. m \in Waiting(b)
      BY <1>3, <2>1, <2>2, <2>3 DEF CaughtUp, Waiting, Here
    <3>2. QED
      BY <1>3, <2>1, <2>3, <3>1, PlaceRange DEF CaughtUp
  <2>4. p.offset \in Nat /\ Cardinality(Waiting(b)) \in Nat
    BY <1>3, WaitingFacts DEF Pass
  <2>5. CASE Leaves(p, q) /\ Cardinality(Waiting(b)) <= p.offset
    <3>1. ASSUME ~p.disturbed, p.epoch = epoch, NEW m \in p.owed, Here(p, m)
          PROVE  Kept(m)'
      <4>1. Kept(m)
        BY <2>3, <2>4, <2>5, <3>1
      <4>2. QED
        BY <1>6, <4>1, KeptStays
    <3>2. QED
      BY <1>3, <1>6, <1>7, <1>8, <2>1, <2>5, <3>1, CaughtUpLeaves
  <2>6. CASE Shows(p, q)
    <3>1. /\ q.at = "archive" /\ q.visit = p.visit /\ q.owed = p.owed /\ q.epoch = p.epoch
          /\ q.disturbed = p.disturbed /\ q.incomplete = p.incomplete /\ q.next \in Nat
      BY <2>6 DEF Shows, Onward, Pass
    <3>2. /\ p.offset < q.next
          /\ q.page = {m \in Waiting(b) : Place(m) \in (p.offset + 1)..q.next}
          /\ q.more = (q.next < Cardinality(Waiting(b)))
      BY <2>2, <2>6 DEF Shows
    <3>3. ASSUME ~p.disturbed, p.epoch = epoch, NEW m \in p.owed, Here(p, m)
          PROVE  /\ Place(m) <= q.next /\ m \notin q.page => Kept(m)
                 /\ ~q.more => Place(m) <= q.next
      <4>1. ~q.more => Place(m) <= q.next
        <5>1. SUFFICES ASSUME ~(q.next < Cardinality(Waiting(b)))
                       PROVE  Place(m) <= q.next
          BY <3>2
        <5>2. PICK i : i = Place(m)
          OBVIOUS
        <5>3. i \in Nat /\ i <= Cardinality(Waiting(b))
          BY <2>3, <2>4, <3>3, <5>2
        <5>4. i <= q.next
          BY <2>4, <3>1, <5>1, <5>3
        <5>5. QED
          BY <5>2, <5>4
      <4>2. Place(m) <= q.next /\ m \notin q.page => Place(m) <= p.offset
        BY <2>3, <2>4, <3>1, <3>2, <3>3
      <4>3. QED
        BY <2>3, <3>3, <4>1, <4>2
    <3>4. CaughtUp(q)
      BY <1>3, <2>1, <3>1, <3>3 DEF CaughtUp, Behind, Here
    <3>5. QED
      BY <1>6, <1>7, <3>4, CaughtUpStays
  <2>7. QED
    BY <1>1, <1>2, <1>3, <1>10, <2>2, <2>5, <2>6, Listing
<1>11. CASE OutOfBudget(d) \/ ListFails(d) \/ AcknowledgeFails(d)
  <2>1. p.at \notin {"idle", "done"} /\ Leaves(p, q) /\ q.incomplete
    BY <1>1, <1>2, <1>3, <1>11, OtherActs
  <2>2. QED
    BY <1>3, <1>6, <1>7, <1>8, <2>1, CaughtUpLeaves
<1>12. CASE ArchiveCached(d) \/ Archive(d) \/ ArchiveRefused(d) \/ ArchiveLost(d)
  <2>1. PICK m : m = Incoming(d)
    OBVIOUS
  <2>2. Archiving(d) /\ Advances(d, p, m, q)
    BY <1>1, <1>2, <1>3, <1>12, <2>1, ArchiveActs
  <2>3. p.at = "archive" /\ m \in Message
    BY <1>1, <1>3, <2>1, <2>2, AtMessage
  <2>4. PICK c : c = Caching(p, m)
    OBVIOUS
  <2>5. /\ c.visit = p.visit /\ c.epoch = p.epoch /\ c.owed = p.owed /\ c.page = p.page
        /\ c.disturbed = p.disturbed /\ c.incomplete = p.incomplete /\ c.acks = p.acks
        /\ c.failed = p.failed /\ c.next = p.next /\ c.more = p.more
    BY <1>3, <2>3, <2>4, CachingFacts
  <2>6. ASSUME NEW ok \in BOOLEAN, NEW o, o = p \/ o = c, Passed(d, o, m, ok, q),
               p.epoch = epoch /\ ok => Kept(m)'
        PROVE  CaughtUp(q)'
    <3>1. /\ o \in Pass /\ o.acks = {} /\ o.at = "archive" /\ CaughtUp(o)
          /\ o.epoch = p.epoch
      <4>1. CaughtUp(c)
        BY <1>3, <2>3, <2>5, CachingFacts, <2>4 DEF CaughtUp, Behind, Here
      <4>2. QED
        BY <1>3, <1>5, <2>3, <2>4, <2>5, <2>6, <4>1, CachingFacts
    <3>2. Onward(o, q) /\ q.page = o.page \ {m} /\ AcksWith(d, o, m, ok) = {}
      BY <2>6, <3>1 DEF Passed, AcksWith
    <3>3. ASSUME ~o.disturbed, o.epoch = epoch, ~o.failed, ok, NEW n \in o.owed, Here(o, n)
          PROVE  /\ Place(n) <= o.next /\ n \notin q.page => Kept(n)'
                 /\ ~o.more => Place(n) <= o.next
                 /\ n \in Pending /\ Place(n)' = Place(n)
      <4>1. /\ Place(n) <= o.next /\ n \notin o.page => Kept(n)
            /\ ~o.more => Place(n) <= o.next
            /\ n \in Pending
        BY <3>1, <3>3 DEF CaughtUp
      <4>2. QED
        BY <1>6, <1>7, <2>6, <3>1, <3>2, <3>3, <4>1, KeptStays DEF PlacesStay
    <3>4. CASE Leaves(o, q)
      <4>1. ASSUME ~q.incomplete
            PROVE  ~o.failed /\ ok /\ ~o.more
        <5>1. ~(q.visit = o.visit /\ q.at = "list")
          BY <3>1, <3>4, LimitFacts DEF Leaves, Pass
        <5>2. QED
          BY <2>6, <3>2, <3>4, <4>1, <5>1 DEF Passed, Leaves, Stays
      <4>2. ASSUME ~o.disturbed, o.epoch = epoch, ~q.incomplete, NEW n \in o.owed, Here(o, n)
            PROVE  Kept(n)'
        BY <3>3, <3>4, <4>1, <4>2 DEF Leaves
      <4>3. QED
        BY <1>6, <1>7, <1>8, <3>1, <3>4, <4>2, CaughtUpLeaves
    <3>5. CASE ~Leaves(o, q)
      <4>1. /\ q.visit = o.visit /\ q.incomplete = o.incomplete
            /\ \/ /\ q.at = "archive" /\ q.failed = (o.failed \/ ~ok)
                  /\ q.next = o.next /\ q.more = o.more
               \/ /\ q.at = "list" /\ q.offset = o.next /\ ~o.failed /\ ok /\ q.page = {}
        BY <2>6, <3>2, <3>5 DEF Passed, Stays
      <4>2. q.owed = o.owed /\ q.epoch = o.epoch /\ q.disturbed = o.disturbed
        BY <3>2 DEF Onward
      <4>3. SUFFICES ASSUME ~o.disturbed, o.epoch = epoch
                     PROVE  CaughtUp(q)'
        BY <1>6, <4>2 DEF CaughtUp, HistoryGoesOn
      <4>4. q.owed \subseteq Pending'
        BY <1>7, <3>1, <4>2, <4>3 DEF CaughtUp, PlacesStay
      <4>5. ASSUME ~q.incomplete, NEW n \in q.owed, Behind(q, n)
            PROVE  Kept(n)'
        <5>1. Behind(o, n)
          BY <4>1, <4>5 DEF Behind
        <5>2. Kept(n)
          BY <3>1, <4>1, <4>2, <4>3, <4>5, <5>1 DEF CaughtUp
        <5>3. QED
          BY <1>6, <5>2, KeptStays
      <4>6. ASSUME q.at = "list", NEW n \in q.owed, Here(q, n), Place(n)' <= q.offset
            PROVE  Kept(n)'
        BY <3>3, <4>1, <4>2, <4>3, <4>6 DEF Here
      <4>7. ASSUME q.at = "archive", ~q.failed, NEW n \in q.owed, Here(q, n)
            PROVE  /\ Place(n)' <= q.next /\ n \notin q.page => Kept(n)'
                   /\ ~q.more => Place(n)' <= q.next
        BY <3>3, <4>1, <4>2, <4>3, <4>7 DEF Here
      <4>8. QED
        BY <4>4, <4>5, <4>6, <4>7 DEF CaughtUp, Behind, Here
    <3>6. QED
      BY <3>4, <3>5
  <2>7. CASE Passed(d, p, m, FALSE, q)
    BY <2>6, <2>7
  <2>8. CASE Passed(d, p, m, TRUE, q) /\ (p.epoch = epoch => Kept(m)')
    BY <2>6, <2>8
  <2>9. CASE /\ Passed(d, Caching(p, m), m, TRUE, q)
             /\ KeyOf[m] \in Live' /\ records'[KeyOf[m]].body = BodyOf[m]
    <3>1. Kept(m)'
      BY <2>9 DEF Kept, Present
    <3>2. QED
      BY <2>4, <2>6, <2>9, <3>1
  <2>10. QED
    BY <2>2, <2>7, <2>8, <2>9 DEF Advances
<1>13. CASE Acknowledge(d)
  BY <1>1, <1>5, <1>13 DEF Acknowledge
<1>14. CASE Cancel(d)
  <2>1. q.at = "idle"
    BY <1>2, <1>3, <1>14, NoPassFields DEF Cancel
  <2>2. QED
    BY <2>1 DEF CaughtUp
<1>15. QED
  BY <1>9, <1>10, <1>11, <1>12, <1>13, <1>14 DEF PassStep, Trouble

\* The pass of a device that does not act.
LEMMA CaughtUpOther ==
    ASSUME InboundInv, [InboundNext]_everything, NEW d \in Device \ Acknowledging,
           CaughtUp(pass[d]), ~(PassStep(d) \/ Trouble(d))
    PROVE  CaughtUp(pass[d])'
<1>1. PICK p : p = pass[d]
  OBVIOUS
<1>2. /\ p \in Pass /\ Sound(d, p) /\ CaughtUp(p) /\ ArrivalsNumbered /\ IInv
  BY <1>1 DEF InboundInv
<1>3. ASSUME pass'[d] = p, HistoryGoesOn, PlacesStay
      PROVE  CaughtUp(pass[d])'
  <2>1. CaughtUp(p)'
    BY <1>2, <1>3, CaughtUpStays
  <2>2. QED
    BY <1>3, <2>1 DEF CaughtUp, Behind, Here
<1>4. ASSUME NEW e \in Device, PassStep(e) \/ Trouble(e)
      PROVE  CaughtUp(pass[d])'
  <2>1. HistoryGoesOn /\ pass'[d] \in {p, Disturbed(p)}
    BY <1>1, <1>4, ActorStep DEF Others
  <2>2. CASE ~Acknowledge(e)
    <3>1. UNCHANGED <<arrival, ackEpoch>>
      BY <1>4, <2>2 DEF PassStep, Trouble, Start, List, OutOfBudget, ArchiveCached, Archive,
         ArchiveRefused, AcknowledgeFails, ListFails, ArchiveLost, Cancel
    <3>2. CASE pass'[d] = p
      BY <1>3, <2>1, <3>1, <3>2, PlacesUnchanged
    <3>3. CASE pass'[d] = Disturbed(p)
      BY <1>2, <3>3 DEF CaughtUp, Disturbed, Pass
    <3>4. QED
      BY <2>1, <3>2, <3>3
  <2>3. CASE Acknowledge(e)
    <3>1. pass[d].at \notin {"idle", "done"} => pass'[d].disturbed
      BY <1>4, <2>3, AckActs
    <3>2. CASE pass'[d].disturbed
      BY <3>2 DEF CaughtUp
    <3>3. CASE p.at \in {"idle", "done"} /\ ~pass'[d].disturbed
      <4>1. pass'[d] = p
        BY <1>2, <2>1, <3>3 DEF Disturbed, Pass
      <4>2. p.at = "done" /\ ~p.disturbed /\ p.epoch = epoch /\ ~p.incomplete =>
               \A m \in p.owed : Behind(p, m) => Kept(m)'
        BY <1>2, <2>1, KeptStays DEF CaughtUp
      <4>3. QED
        BY <2>1, <3>3, <4>1, <4>2 DEF CaughtUp, Behind, HistoryGoesOn
    <3>4. QED
      BY <1>1, <3>1, <3>2, <3>3
  <2>4. QED
    BY <2>2, <2>3
<1>5. ASSUME NEW n \in Message, Arrive(n)
      PROVE  CaughtUp(pass[d])'
  <2>1. HistoryGoesOn /\ PlacesStay /\ pass'[d] = p
    BY <1>1, <1>2, <1>5, UnchangedGoesOn, PlacesArrive DEF Arrive
  <2>2. QED
    BY <1>3, <2>1
<1>6. CASE OwnerDeletes
  <2>1. /\ HistoryGoesOn \/ HistoryEnds
        /\ UNCHANGED <<arrival, ackEpoch>> /\ pass'[d] = p
    BY <1>1, <1>2, <1>6, DeletesMove DEF OwnerDeletes, inboundVars
  <2>2. CASE HistoryGoesOn
    BY <1>3, <2>1, <2>2, PlacesUnchanged
  <2>3. CASE HistoryEnds
    <3>1. p.epoch # epoch'
      BY <1>2, <2>3 DEF Sound, Pass, HistoryEnds, IInv, TypeOK
    <3>2. QED
      BY <2>1, <3>1 DEF CaughtUp
  <2>4. QED
    BY <2>1, <2>2, <2>3
<1>7. CASE UNCHANGED everything
  BY <1>1, <1>2, <1>3, <1>7, UnchangedGoesOn, PlacesUnchanged DEF everything, inboundVars
<1>8. QED
  BY <1>4, <1>5, <1>6, <1>7 DEF InboundNext

LEMMA CatchUpStep == InboundInv /\ CatchUpInv /\ [InboundNext]_everything => CatchUpInv'
<1>1. SUFFICES ASSUME InboundInv, CatchUpInv, [InboundNext]_everything,
                      NEW d \in Device \ Acknowledging
               PROVE  CaughtUp(pass[d])'
  BY DEF CatchUpInv
<1>2. QED
  BY <1>1, CaughtUpActor, CaughtUpOther DEF CatchUpInv

(***************************************************************************)
(* A pass that reports itself complete has missed nothing: every message   *)
(* pending when it began is in the history, or deleted there, or was       *)
(* dropped by a device that had archived it before a delete-all; if it     *)
(* acknowledges, whatever other devices do, and if not, provided no other  *)
(* device acknowledged while it ran.                                       *)
(***************************************************************************)
THEOREM CompleteIsThorough == IdsIdentify => (InboundSpec => []CompleteMissedNothing)
<1> SUFFICES ASSUME IdsIdentify
             PROVE  InboundSpec => []CompleteMissedNothing
  OBVIOUS
<1>1. InboundInit => DrainInv /\ CatchUpInv
  <2>1. ASSUME InboundInit, NEW d \in Device
        PROVE  pass[d].at = "idle"
    BY <2>1, NoPassFields DEF InboundInit
  <2>2. QED
    BY <2>1, InboundType DEF DrainInv, CatchUpInv, Emptied, CaughtUp
<1>2. InboundInv /\ DrainInv /\ CatchUpInv /\ AckedIsKept => CompleteMissedNothing
  <2>1. SUFFICES ASSUME InboundInv, DrainInv, CatchUpInv, AckedIsKept, NEW d \in Device,
                        d \in Acknowledging \/ ~pass[d].disturbed,
                        pass[d].at = "done", ~pass[d].incomplete, pass[d].epoch = epoch,
                        NEW m \in pass[d].owed
                 PROVE  Kept(m) \/ ackEpoch[m] \in 1..(epoch - 1)
    BY DEF CompleteMissedNothing, MissedNothing
  <2>2. m \in Message /\ Behind(pass[d], m)
    BY <2>1 DEF InboundInv, Pass, Behind
  <2>3. ackEpoch[m] \in 0..epoch /\ epoch \in Nat
    BY <2>1, <2>2 DEF InboundInv, ArrivalsNumbered, IInv, TypeOK
  <2>4. CASE d \in Acknowledging
    <3>1. ackEpoch[m] # 0
      BY <2>1, <2>2, <2>4 DEF DrainInv, Emptied
    <3>2. QED
      BY <2>1, <2>2, <2>3, <3>1 DEF AckedIsKept
  <2>5. CASE d \notin Acknowledging
    BY <2>1, <2>2, <2>5 DEF CatchUpInv, CaughtUp
  <2>6. QED
    BY <2>4, <2>5
<1>3. QED
  BY <1>1, <1>2, DrainStep, CatchUpStep, InboundInvariant, AcknowledgedIsKept, PTL
     DEF InboundSpec
=============================================================================
