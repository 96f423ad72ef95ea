---------------------------- MODULE AdapterProofs ---------------------------
(***************************************************************************)
(* Proofs about StoreAdapters, for every set of keys, bodies, batches and  *)
(* limits: the in-memory and the SQLite repository answer alike, serve the *)
(* same pages, retain the same rows once nothing is due, and each          *)
(* implements OwnerHistory.                                                *)
(*                                                                         *)
(* In order: what the two stores agree on (AdaptersInv); what each         *)
(* mutation, purge and expiry does to a pair of stores; the invariant; the *)
(* properties of the runs; the refinement; the feeds.                      *)
(***************************************************************************)
EXTENDS StoreAdapters, FiniteSetTheorems, WellFoundedInduction, TLAPS

Mapping(f) == f = [x \in DOMAIN f |-> f[x]]

State == {"prepared", "received", "unknown", "accepted", "failed"}

Row == [key : Key, body : Body, state : State, revision : Nat, changeSeq : Nat, created : Nat]

Item == [key : Key, body : Body, state : {"prepared", "received"}]

Member == [key : Key, revision : Nat, state : State, changeSeq : Nat, created : Nat]

Change == [key : Key, kind : {"upsert", "state", "delete"}, version : Nat,
           state : State \cup {"none"}]

Snapshot == [epoch : Nat, watermark : Nat, status : {"active", "invalidated"},
             items : SUBSET Member, old : BOOLEAN]

Fields == {"epoch", "next", "count", "records", "tombstones", "changes", "snapshots",
           "idempotency"}

StoreTyped(store) ==
    /\ Fields \subseteq DOMAIN store
    /\ Mapping(store)
    /\ store.epoch \in Nat \ {0}
    /\ store.next \in Nat \ {0}
    /\ store.count \in Int
    /\ Mapping(store.records) /\ DOMAIN store.records \subseteq Key
    /\ \A k \in DOMAIN store.records : store.records[k] \in Row /\ store.records[k].key = k
    /\ store.tombstones \subseteq Key
    /\ Mapping(store.changes) /\ DOMAIN store.changes \subseteq 1..store.next - 1
    /\ \A s \in DOMAIN store.changes : store.changes[s] \in Change
    /\ Mapping(store.snapshots)
    /\ \A i \in DOMAIN store.snapshots : store.snapshots[i] \in Snapshot
    /\ Mapping(store.idempotency)
    /\ \A i \in DOMAIN store.idempotency :
          /\ "old" \in DOMAIN store.idempotency[i]
          /\ store.idempotency[i].old \in BOOLEAN

(***************************************************************************)
(* What one store's log says of its records: a live record's creation is   *)
(* retained, an event's key is live or fenced, and fenced if the event is  *)
(* a delete.                                                               *)
(***************************************************************************)
LogSound(store) ==
    /\ DOMAIN store.records \cap store.tombstones = {}
    /\ \A k \in DOMAIN store.records : M!CreationKept(store, k)
    /\ \A s \in DOMAIN store.changes :
          /\ store.changes[s].key \in DOMAIN store.records \cup store.tombstones
          /\ store.changes[s].kind = "delete" => store.changes[s].key \in store.tombstones

StoreOK(store) == StoreTyped(store) /\ LogSound(store)

Live(idempotency) ==
    Dropped(idempotency, {i \in DOMAIN idempotency : idempotency[i].old})

SameHistory(m, q) ==
    /\ m.epoch = q.epoch
    /\ m.next = q.next
    /\ m.count = q.count
    /\ m.records = q.records
    /\ m.tombstones = q.tombstones
    /\ Live(m.idempotency) = Live(q.idempotency)

\* What only one store retains of the log may be purged
Purgeable(store, other, limit) ==
    \A s \in DOMAIN store.changes \ DOMAIN other.changes :
       /\ s <= limit
       /\ store.changes[s].kind = "upsert" => store.changes[s].key \notin DOMAIN store.records

SameLog(m, q, limit) ==
    /\ \A s \in DOMAIN m.changes \cap DOMAIN q.changes : m.changes[s] = q.changes[s]
    /\ Purgeable(m, q, limit)
    /\ Purgeable(q, m, limit)

SameSnapshot(a, b) ==
    /\ a.epoch = b.epoch
    /\ a.watermark = b.watermark
    /\ a.old = b.old
    /\ ~a.old => a.status = b.status
    /\ ~a.old /\ a.status = "active" => a.items = b.items

SameSnapshots(m, q) ==
    \A i \in DOMAIN m.snapshots \cap DOMAIN q.snapshots :
       SameSnapshot(m.snapshots[i], q.snapshots[i])

Alike(m, q, limit) == SameHistory(m, q) /\ SameLog(m, q, limit) /\ SameSnapshots(m, q)

\* A snapshot that only one store retains has expired
Tidy(m, q) ==
    /\ \A i \in DOMAIN m.snapshots \ DOMAIN q.snapshots : m.snapshots[i].old
    /\ \A i \in DOMAIN q.snapshots \ DOMAIN m.snapshots : q.snapshots[i].old

Pair(m, q, limit) == StoreOK(m) /\ StoreOK(q) /\ Alike(m, q, limit)

(***************************************************************************)
(* The inductive invariant: each store's log is sound, the two agree on    *)
(* all but what retention may take, and they have answered alike.          *)
(***************************************************************************)
AdaptersInv ==
    /\ Pair(mem, sql, aged)
    /\ taken \in Nat
    /\ DOMAIN mem.snapshots \cup DOMAIN sql.snapshots \subseteq 1..taken
    /\ aged \in 0..mem.next - 1
    /\ parted \subseteq {"laggingPurge"}
    /\ parted = {} => Tidy(mem, sql)
-----------------------------------------------------------------------------
(***************************************************************************)
(* What the mutations do to a store, said once for both adapters.          *)
(***************************************************************************)
PatchedRow(s, key, newState) ==
    [s.records[key] EXCEPT !.state = newState, !.revision = s.records[key].revision + 1,
                           !.changeSeq = s.next]

PatchEvent(s, key, newState) ==
    [key |-> key, kind |-> "state", version |-> s.records[key].revision + 1, state |-> newState]

Patched(s, key, newState) ==
    [s EXCEPT !.records = [@ EXCEPT ![key] = PatchedRow(s, key, newState)],
              !.changes = Added(@, s.next, PatchEvent(s, key, newState)),
              !.next = @ + 1]

DeleteEvent(key) == [key |-> key, kind |-> "delete", version |-> 1, state |-> "none"]

CountAfter(s, key) == IF key \in DOMAIN s.records THEN s.count - 1 ELSE s.count

Deleted(s, key) ==
    [s EXCEPT !.count = CountAfter(s, key),
              !.records = Dropped(@, {key}),
              !.changes = Added(@, s.next, DeleteEvent(key)),
              !.tombstones = @ \cup {key},
              !.snapshots = M!Invalidated(s, M!Holding(s, key)),
              !.next = @ + 1]

Cleared(s) ==
    [s EXCEPT !.epoch = @ + 1, !.count = 0, !.records = <<>>, !.tombstones = {},
              !.changes = <<>>, !.snapshots = M!Invalidated(s, DOMAIN s.snapshots)]

Cleaned(s) == [s EXCEPT !.idempotency = Live(@)]

\* What a mutation leaves as it was: which snapshots there are, and their age
Step(s, t) ==
    /\ DOMAIN t.snapshots = DOMAIN s.snapshots
    /\ \A i \in DOMAIN s.snapshots : t.snapshots[i].old = s.snapshots[i].old
    /\ t.next >= s.next
-----------------------------------------------------------------------------
(***************************************************************************)
(* Numbers.                                                                *)
(***************************************************************************)

\* A set of natural numbers has a least element.
LEMMA Smallest ==
  ASSUME NEW S \in SUBSET Nat, S # {}
  PROVE  \E n \in S : \A m \in S : n <= m
<1> DEFINE R == {ss \in Nat \X Nat : ss[1] < ss[2]}
<1>1. IsWellFoundedOn(R, Nat)
  BY NatLessThanWellFounded DEF OpToRel
<1>2. \A m, n \in Nat : <<m, n>> \in R <=> m < n
  OBVIOUS
<1> HIDE DEF R
<1>3. PICK n \in S : \A m \in S : ~(<<m, n>> \in R)
  BY <1>1, WFMin
<1>4. ASSUME NEW m \in S PROVE n <= m
  <2>1. n \in Nat /\ m \in Nat
    OBVIOUS
  <2>2. ~(<<m, n>> \in R)
    BY <1>3
  <2>3. ~(m < n)
    BY <2>1, <2>2, <1>2
  <2> QED BY <2>1, <2>3
<1>5. QED
  BY <1>4

\* Induction, for a set of numbers instead of a predicate.
LEMMA SetInduction ==
  ASSUME NEW S, 0 \in S, \A n \in Nat : n \in S => n + 1 \in S
  PROVE  \A n \in Nat : n \in S
<1> SUFFICES ASSUME NEW n \in Nat, n \notin S PROVE FALSE
  OBVIOUS
<1>1. PICK m \in Nat \ S : \A k \in Nat \ S : m <= k
  BY Smallest
<1>2. m # 0 /\ m - 1 \in Nat /\ m - 1 \in S
  BY <1>1
<1>3. QED
  BY <1>1, <1>2

\* A bounded set of natural numbers has a greatest element.
LEMMA Largest ==
  ASSUME NEW S \in SUBSET Nat, S # {}, NEW b \in Nat, \A n \in S : n <= b
  PROVE  \E n \in S : \A m \in S : n >= m
<1> DEFINE D == {b - n : n \in S}
<1>1. D \in SUBSET Nat /\ D # {}
  <2>1. \A n \in S : b - n \in Nat
    OBVIOUS
  <2> QED BY <2>1
<1>2. PICK d \in D : \A e \in D : d <= e
  BY <1>1, Smallest
<1>3. PICK n \in S : d = b - n
  BY <1>2
<1>4. ASSUME NEW m \in S PROVE n >= m
  <2>1. b - m \in D
    OBVIOUS
  <2> QED BY <2>1, <1>2, <1>3
<1> QED BY <1>4
-----------------------------------------------------------------------------
(***************************************************************************)
(* The operators of the two instances are those of this module.            *)
(***************************************************************************)
LEMMA SameCardinality ==
  ASSUME NEW S
  PROVE  M!Cardinality(S) = Cardinality(S) /\ Q!Cardinality(S) = Cardinality(S)
BY DEF M!Cardinality, Q!Cardinality, Cardinality

LEMMA SameMax ==
  ASSUME NEW S
  PROVE  M!Max(S) = Max(S) /\ Q!Max(S) = Max(S)
BY DEF M!Max, Q!Max, Max

LEMMA SameAdded ==
  ASSUME NEW f, NEW x, NEW v
  PROVE  M!Added(f, x, v) = Added(f, x, v) /\ Q!Added(f, x, v) = Added(f, x, v)
BY DEF M!Added, Q!Added, Added
-----------------------------------------------------------------------------
(***************************************************************************)
(* The effects, as the two adapters write them.                            *)
(***************************************************************************)

\* Memory's patch.
LEMMA MemoryPatched ==
  ASSUME NEW s, StoreTyped(s), NEW key, NEW newState,
         NEW row, row = s.records[key],
         NEW p, p = [row EXCEPT !.state = newState, !.revision = @ + 1, !.changeSeq = s.next]
  PROVE  M!Logged([s EXCEPT !.records[key] = p], key, "state", row.revision + 1, newState)
           = Patched(s, key, newState)
BY DEF StoreTyped, Fields, M!Logged, Patched, PatchedRow, PatchEvent, M!Added, Added

\* Memory's delete.
LEMMA MemoryDeleted ==
  ASSUME NEW s, StoreTyped(s), NEW key
  PROVE  [M!Logged(s, key, "delete", 1, "none") EXCEPT
            !.count = @ - Cardinality({key} \cap DOMAIN s.records),
            !.records = M!Dropped(@, {key}),
            !.tombstones = @ \cup {key},
            !.snapshots = M!Invalidated(s, M!Holding(s, key))] = Deleted(s, key)
<1>1. Cardinality({key} \cap DOMAIN s.records) = IF key \in DOMAIN s.records THEN 1 ELSE 0
  <2>1. CASE key \in DOMAIN s.records
     <3>1. {key} \cap DOMAIN s.records = {key} BY <2>1
     <3> QED BY <3>1, <2>1, FS_Singleton
  <2>2. CASE key \notin DOMAIN s.records
     <3>1. {key} \cap DOMAIN s.records = {} BY <2>2
     <3> QED BY <3>1, <2>2, FS_EmptySet
  <2> QED BY <2>1, <2>2
<1>2. s.count - Cardinality({key} \cap DOMAIN s.records)
        = IF key \in DOMAIN s.records THEN s.count - 1 ELSE s.count
  BY <1>1 DEF StoreTyped
<1> DEFINE logged == M!Logged(s, key, "delete", 1, "none")
           invalidated == M!Invalidated(s, M!Holding(s, key))
<1>3. logged = [s EXCEPT !.changes = Added(@, s.next, DeleteEvent(key)),
                         !.next = @ + 1]
  BY DEF StoreTyped, Fields, M!Logged, M!Added, Added, DeleteEvent
<1>4. logged.count = s.count /\ logged.records = s.records /\ logged.tombstones = s.tombstones
  BY <1>3 DEF StoreTyped, Fields
<1>5. M!Dropped(s.records, {key}) = Dropped(s.records, {key})
  BY DEF M!Dropped, Dropped
<1> HIDE DEF logged, invalidated
<1>6. [logged EXCEPT !.count = @ - Cardinality({key} \cap DOMAIN s.records),
                     !.records = M!Dropped(@, {key}),
                     !.tombstones = @ \cup {key},
                     !.snapshots = invalidated]
      = [s EXCEPT !.count = IF key \in DOMAIN s.records THEN @ - 1 ELSE @,
                  !.records = Dropped(@, {key}),
                  !.changes = Added(@, s.next, DeleteEvent(key)),
                  !.tombstones = @ \cup {key},
                  !.snapshots = invalidated,
                  !.next = @ + 1]
  BY <1>2, <1>3, <1>4, <1>5 DEF StoreTyped, Fields
<1> QED BY <1>6 DEF Deleted, CountAfter, logged, invalidated

\* SQLite's delete.
LEMMA SqliteDeleted ==
  ASSUME NEW s, NEW key
  PROVE  [s EXCEPT !.count = IF key \in DOMAIN s.records THEN @ - 1 ELSE @,
                   !.records = Q!Dropped(@, {key}),
                   !.changes = Q!Added(@, s.next, Q!Event(key, "delete", 1, "none")),
                   !.tombstones = @ \cup {key},
                   !.snapshots = Q!Invalidated(s, Q!Holding(s, key)),
                   !.next = @ + 1] = Deleted(s, key)
<1>1. Q!Invalidated(s, Q!Holding(s, key)) = M!Invalidated(s, M!Holding(s, key))
  BY DEF Q!Invalidated, M!Invalidated, Q!Holding, M!Holding
<1> QED BY <1>1 DEF Deleted, CountAfter, DeleteEvent, Q!Added, Added, Q!Event, Q!Dropped, Dropped

\* SQLite's delete-all.
LEMMA SqliteInvalidated ==
  ASSUME NEW s, NEW ids
  PROVE  Q!Invalidated(s, ids) = M!Invalidated(s, ids)
BY DEF Q!Invalidated, M!Invalidated
-----------------------------------------------------------------------------
(***************************************************************************)
(* Fences: whatever retention has purged, the latest event of a key and    *)
(* its tombstone tell the same.                                            *)
(***************************************************************************)
LEMMA FencedByTombstone ==
  ASSUME NEW s, StoreOK(s), NEW key
  PROVE  /\ Q!Fenced(s, key) <=> key \in s.tombstones
         /\ Q!Existed(s, key) <=> key \in DOMAIN s.records \cup s.tombstones
<1> DEFINE E == Q!EventsOf(s, key)
<1>1. E \in SUBSET Nat /\ \A n \in E : n <= s.next - 1 /\ s.changes[n].key = key
  BY DEF StoreOK, StoreTyped, Q!EventsOf
<1>2. E # {} => Q!Max(E) \in E
  <2> SUFFICES ASSUME E # {} PROVE Q!Max(E) \in E
    OBVIOUS
  <2>1. s.next - 1 \in Nat
    BY DEF StoreOK, StoreTyped
  <2> HIDE DEF E
  <2>2. \E n \in E : \A m \in E : n >= m
    BY <1>1, <2>1, Largest
  <2> QED BY <2>2 DEF Q!Max
<1>3. E \subseteq DOMAIN s.changes
  BY DEF Q!EventsOf
<1>4. Q!LastKind(s, key) = "delete" => key \in s.tombstones
  <2> HAVE Q!LastKind(s, key) = "delete"
  <2>1. E # {} /\ s.changes[Q!Max(E)].kind = "delete"
    BY DEF Q!LastKind
  <2> HIDE DEF E
  <2> QED BY <2>1, <1>1, <1>2, <1>3 DEF StoreOK, LogSound
<1>5. E # {} => key \in DOMAIN s.records \cup s.tombstones
  <2> HIDE DEF E
  <2> QED BY <1>1, <1>3 DEF StoreOK, LogSound
<1> QED BY <1>4, <1>5 DEF Q!Fenced, Q!Existed

\* A patch is refused by both or by neither, for the same reason.
LEMMA RefusedAlike ==
  ASSUME NEW m, NEW q, NEW limit, Pair(m, q, limit), NEW key, NEW newState, NEW expected
  PROVE  M!PatchRefused(m, key, newState, expected) = Q!PatchRefused(q, key, newState, expected)
<1>1. Q!Fenced(q, key) <=> key \in q.tombstones
  BY FencedByTombstone DEF Pair
<1> QED BY <1>1 DEF Pair, Alike, SameHistory, M!PatchRefused, Q!PatchRefused
-----------------------------------------------------------------------------
(***************************************************************************)
(* The effects keep a store sound, and two stores alike.                   *)
(***************************************************************************)
LEMMA PatchedFields ==
  ASSUME NEW s, StoreTyped(s), NEW key \in DOMAIN s.records, NEW newState, NEW t,
         t = Patched(s, key, newState)
  PROVE  /\ Mapping(t) /\ DOMAIN t = DOMAIN s
         /\ t.epoch = s.epoch /\ t.count = s.count /\ t.tombstones = s.tombstones
         /\ t.snapshots = s.snapshots /\ t.idempotency = s.idempotency
         /\ t.next = s.next + 1
         /\ t.records = [s.records EXCEPT ![key] = PatchedRow(s, key, newState)]
         /\ t.changes = Added(s.changes, s.next, PatchEvent(s, key, newState))
BY DEF StoreTyped, Fields, Mapping, Patched

LEMMA PatchedOK ==
  ASSUME NEW s, StoreOK(s), NEW key \in DOMAIN s.records, NEW newState \in State, NEW t,
         t = Patched(s, key, newState)
  PROVE  StoreOK(t)
<1> DEFINE c == PatchEvent(s, key, newState)
           row == PatchedRow(s, key, newState)
<1>1. StoreTyped(s) /\ LogSound(s)
  BY DEF StoreOK
<1>2. /\ Mapping(t) /\ DOMAIN t = DOMAIN s
      /\ t.epoch = s.epoch /\ t.count = s.count /\ t.tombstones = s.tombstones
      /\ t.snapshots = s.snapshots /\ t.idempotency = s.idempotency
      /\ t.next = s.next + 1
      /\ t.records = [s.records EXCEPT ![key] = row]
      /\ t.changes = Added(s.changes, s.next, c)
  BY <1>1, PatchedFields
<1>3. key \in Key /\ s.records[key] \in Row /\ s.records[key].key = key /\ s.next \in Nat \ {0}
  BY <1>1 DEF StoreTyped
<1>4. row \in Row /\ row.key = key
  <2>1. s.records[key].revision + 1 \in Nat
    BY <1>3 DEF Row
  <2> QED BY <1>3, <2>1 DEF Row, PatchedRow
<1>5. c \in Change /\ c.key = key /\ c.kind = "state"
  BY <1>3 DEF Row, Change, State, PatchEvent
<1> HIDE DEF c, row
<1>6. /\ DOMAIN t.records = DOMAIN s.records
      /\ \A k \in DOMAIN t.records : t.records[k] = IF k = key THEN row ELSE s.records[k]
      /\ Mapping(t.records)
  BY <1>2 DEF Mapping
<1>7. /\ DOMAIN t.changes = DOMAIN s.changes \cup {s.next}
      /\ \A n \in DOMAIN t.changes : t.changes[n] = IF n = s.next THEN c ELSE s.changes[n]
      /\ Mapping(t.changes)
  BY <1>2 DEF Mapping, Added
<1>8. DOMAIN s.changes \subseteq 1..s.next - 1
  BY <1>1 DEF StoreTyped
<1>9. StoreTyped(t)
  <2>1. DOMAIN t.changes \subseteq 1..t.next - 1
    BY <1>2, <1>3, <1>7, <1>8
  <2>2. \A k \in DOMAIN t.records : t.records[k] \in Row /\ t.records[k].key = k
    BY <1>1, <1>4, <1>6 DEF StoreTyped
  <2>3. \A n \in DOMAIN t.changes : t.changes[n] \in Change
    BY <1>1, <1>5, <1>7 DEF StoreTyped
  <2> QED BY <1>1, <1>2, <1>3, <1>6, <1>7, <2>1, <2>2, <2>3 DEF StoreTyped
<1>10. LogSound(t)
  <2>1. \A k \in DOMAIN t.records : M!CreationKept(t, k)
    BY <1>1, <1>3, <1>6, <1>7, <1>8 DEF LogSound, M!CreationKept
  <2> QED BY <1>1, <1>2, <1>5, <1>6, <1>7, <2>1 DEF LogSound
<1> QED BY <1>9, <1>10 DEF StoreOK

\* The same event in both logs keeps them alike, as long as no record is new.
LEMMA LoggedAlike ==
  ASSUME NEW m, NEW q, NEW limit, SameLog(m, q, limit), NEW a, NEW b, NEW n, NEW c,
         a.changes = Added(m.changes, n, c), b.changes = Added(q.changes, n, c),
         DOMAIN a.records \subseteq DOMAIN m.records,
         DOMAIN b.records \subseteq DOMAIN q.records
  PROVE  SameLog(a, b, limit)
<1>1. /\ DOMAIN a.changes = DOMAIN m.changes \cup {n}
      /\ \A s \in DOMAIN a.changes : a.changes[s] = IF s = n THEN c ELSE m.changes[s]
  BY DEF Added
<1>2. /\ DOMAIN b.changes = DOMAIN q.changes \cup {n}
      /\ \A s \in DOMAIN b.changes : b.changes[s] = IF s = n THEN c ELSE q.changes[s]
  BY DEF Added
<1>3. \A s \in DOMAIN a.changes \cap DOMAIN b.changes : a.changes[s] = b.changes[s]
  BY <1>1, <1>2 DEF SameLog
<1>4. Purgeable(a, b, limit)
  BY <1>1, <1>2 DEF SameLog, Purgeable
<1>5. Purgeable(b, a, limit)
  BY <1>1, <1>2 DEF SameLog, Purgeable
<1> QED BY <1>3, <1>4, <1>5 DEF SameLog

LEMMA PatchedPair ==
  ASSUME NEW m, NEW q, NEW limit \in Int, Pair(m, q, limit),
         NEW key \in DOMAIN m.records, NEW newState \in State
  PROVE  /\ Pair(Patched(m, key, newState), Patched(q, key, newState), limit)
         /\ Step(m, Patched(m, key, newState)) /\ Step(q, Patched(q, key, newState))
         /\ Patched(m, key, newState).idempotency = m.idempotency
         /\ Patched(q, key, newState).idempotency = q.idempotency
<1> DEFINE a == Patched(m, key, newState)
           b == Patched(q, key, newState)
           c == PatchEvent(m, key, newState)
<1>1. StoreOK(m) /\ StoreOK(q) /\ Alike(m, q, limit) /\ StoreTyped(m) /\ StoreTyped(q)
  BY DEF Pair, StoreOK
<1>2. key \in DOMAIN q.records /\ q.records = m.records /\ q.next = m.next
      /\ PatchEvent(q, key, newState) = c
      /\ PatchedRow(q, key, newState) = PatchedRow(m, key, newState)
  BY <1>1 DEF Alike, SameHistory, PatchEvent, PatchedRow
<1>3. StoreOK(a) /\ StoreOK(b)
  BY <1>1, <1>2, PatchedOK
<1>4. /\ a.epoch = m.epoch /\ a.count = m.count /\ a.tombstones = m.tombstones
      /\ a.snapshots = m.snapshots /\ a.idempotency = m.idempotency
      /\ a.next = m.next + 1
      /\ a.records = [m.records EXCEPT ![key] = PatchedRow(m, key, newState)]
      /\ a.changes = Added(m.changes, m.next, c)
  <2> HIDE DEF a, c
  <2>1. a = Patched(m, key, newState) /\ c = PatchEvent(m, key, newState)
    BY DEF a, c
  <2> QED BY <1>1, <2>1, PatchedFields
<1>5. /\ b.epoch = q.epoch /\ b.count = q.count /\ b.tombstones = q.tombstones
      /\ b.snapshots = q.snapshots /\ b.idempotency = q.idempotency
      /\ b.next = q.next + 1
      /\ b.records = [m.records EXCEPT ![key] = PatchedRow(m, key, newState)]
      /\ b.changes = Added(q.changes, m.next, c)
  <2> HIDE DEF b, c
  <2>1. b = Patched(q, key, newState) /\ c = PatchEvent(q, key, newState)
    BY <1>2 DEF b, c
  <2> QED BY <1>1, <1>2, <2>1, PatchedFields
<1>6. a.records = b.records
  BY <1>4, <1>5
<1> HIDE DEF a, b, c
<1>7. SameHistory(a, b)
  BY <1>1, <1>2, <1>4, <1>5, <1>6 DEF Alike, SameHistory
<1>8. SameLog(a, b, limit)
  BY <1>1, <1>2, <1>4, <1>5, LoggedAlike DEF Alike
<1>9. SameSnapshots(a, b)
  BY <1>1, <1>4, <1>5 DEF Alike, SameSnapshots
<1>10. m.next \in Nat /\ q.next \in Nat
  BY <1>1 DEF StoreTyped
<1>11. Pair(a, b, limit)
  BY <1>3, <1>7, <1>8, <1>9 DEF Pair, Alike
<1>12. Step(m, a) /\ Step(q, b)
  BY <1>4, <1>5, <1>10 DEF Step
<1> QED BY <1>4, <1>5, <1>11, <1>12 DEF a, b

\* An invalidated snapshot is the one it was but for its status.
LEMMA InvalidatedTyped ==
  ASSUME NEW s, StoreTyped(s), NEW ids
  PROVE  LET t == M!Invalidated(s, ids)
         IN  /\ Mapping(t) /\ DOMAIN t = DOMAIN s.snapshots
             /\ \A i \in DOMAIN t :
                   /\ t[i] \in Snapshot
                   /\ t[i].epoch = s.snapshots[i].epoch
                   /\ t[i].watermark = s.snapshots[i].watermark
                   /\ t[i].old = s.snapshots[i].old
                   /\ t[i].items = s.snapshots[i].items
                   /\ t[i].status = IF /\ i \in ids
                                       /\ s.snapshots[i].epoch = s.epoch
                                       /\ s.snapshots[i].status = "active"
                                    THEN "invalidated" ELSE s.snapshots[i].status
<1> DEFINE t == M!Invalidated(s, ids)
<1>1. Mapping(t) /\ DOMAIN t = DOMAIN s.snapshots
  BY DEF Mapping, M!Invalidated
<1>2. ASSUME NEW i \in DOMAIN t
      PROVE  t[i] = IF /\ i \in ids
                       /\ s.snapshots[i].epoch = s.epoch
                       /\ s.snapshots[i].status = "active"
                    THEN [s.snapshots[i] EXCEPT !.status = "invalidated"] ELSE s.snapshots[i]
  BY DEF M!Invalidated
<1>3. \A i \in DOMAIN t : s.snapshots[i] \in Snapshot
  BY <1>1 DEF StoreTyped
<1> HIDE DEF t
<1>4. QED
  BY <1>1, <1>2, <1>3 DEF t, Snapshot

\* The same deletes invalidate the same snapshots.
LEMMA InvalidatedAlike ==
  ASSUME NEW m, NEW q, NEW limit, Pair(m, q, limit), NEW a, NEW b, NEW I, NEW J,
         a.snapshots = M!Invalidated(m, I), b.snapshots = M!Invalidated(q, J),
         \A i \in DOMAIN m.snapshots \cap DOMAIN q.snapshots :
            m.snapshots[i].items = q.snapshots[i].items => (i \in I <=> i \in J)
  PROVE  SameSnapshots(a, b)
<1> SUFFICES ASSUME NEW i \in DOMAIN a.snapshots \cap DOMAIN b.snapshots
             PROVE  SameSnapshot(a.snapshots[i], b.snapshots[i])
  BY DEF SameSnapshots
<1>1. StoreTyped(m) /\ StoreTyped(q) /\ m.epoch = q.epoch /\ SameSnapshots(m, q)
  BY DEF Pair, StoreOK, Alike, SameHistory
<1>2. /\ i \in DOMAIN m.snapshots
      /\ a.snapshots[i].epoch = m.snapshots[i].epoch
      /\ a.snapshots[i].watermark = m.snapshots[i].watermark
      /\ a.snapshots[i].old = m.snapshots[i].old
      /\ a.snapshots[i].items = m.snapshots[i].items
      /\ a.snapshots[i].status = IF /\ i \in I
                                    /\ m.snapshots[i].epoch = m.epoch
                                    /\ m.snapshots[i].status = "active"
                                 THEN "invalidated" ELSE m.snapshots[i].status
  BY <1>1, InvalidatedTyped
<1>3. /\ i \in DOMAIN q.snapshots
      /\ b.snapshots[i].epoch = q.snapshots[i].epoch
      /\ b.snapshots[i].watermark = q.snapshots[i].watermark
      /\ b.snapshots[i].old = q.snapshots[i].old
      /\ b.snapshots[i].items = q.snapshots[i].items
      /\ b.snapshots[i].status = IF /\ i \in J
                                    /\ q.snapshots[i].epoch = q.epoch
                                    /\ q.snapshots[i].status = "active"
                                 THEN "invalidated" ELSE q.snapshots[i].status
  BY <1>1, InvalidatedTyped
<1>4. SameSnapshot(m.snapshots[i], q.snapshots[i])
  BY <1>1, <1>2, <1>3 DEF SameSnapshots
<1> QED BY <1>1, <1>2, <1>3, <1>4 DEF SameSnapshot

LEMMA DeletedOK ==
  ASSUME NEW s, StoreOK(s), NEW key \in DOMAIN s.records \cup s.tombstones, NEW t,
         t = Deleted(s, key)
  PROVE  StoreOK(t)
<1>1. StoreTyped(s) /\ LogSound(s)
  BY DEF StoreOK
<1>2. /\ Mapping(t) /\ DOMAIN t = DOMAIN s
      /\ t.epoch = s.epoch /\ t.idempotency = s.idempotency
      /\ t.count = CountAfter(s, key)
      /\ t.tombstones = s.tombstones \cup {key}
      /\ t.snapshots = M!Invalidated(s, M!Holding(s, key))
      /\ t.next = s.next + 1
      /\ t.records = Dropped(s.records, {key})
      /\ t.changes = Added(s.changes, s.next, DeleteEvent(key))
  BY <1>1 DEF StoreTyped, Fields, Mapping, Deleted
<1>3. key \in Key /\ s.next \in Nat \ {0} /\ s.count \in Int
  BY <1>1 DEF StoreTyped
<1>4. DeleteEvent(key) \in Change /\ DeleteEvent(key).key = key /\ DeleteEvent(key).kind = "delete"
  BY <1>3 DEF Change, DeleteEvent
<1>5. /\ DOMAIN t.records = DOMAIN s.records \ {key}
      /\ \A k \in DOMAIN t.records : t.records[k] = s.records[k]
      /\ Mapping(t.records)
  BY <1>2 DEF Mapping, Dropped
<1>6. /\ DOMAIN t.changes = DOMAIN s.changes \cup {s.next}
      /\ \A n \in DOMAIN t.changes :
            t.changes[n] = IF n = s.next THEN DeleteEvent(key) ELSE s.changes[n]
      /\ Mapping(t.changes)
  BY <1>2 DEF Mapping, Added
<1>7. DOMAIN s.changes \subseteq 1..s.next - 1
  BY <1>1 DEF StoreTyped
<1>8. Mapping(t.snapshots) /\ \A i \in DOMAIN t.snapshots : t.snapshots[i] \in Snapshot
  BY <1>1, <1>2, InvalidatedTyped
<1>9. StoreTyped(t)
  <2>1. DOMAIN t.changes \subseteq 1..t.next - 1
    BY <1>2, <1>3, <1>6, <1>7
  <2>2. \A k \in DOMAIN t.records : t.records[k] \in Row /\ t.records[k].key = k
    BY <1>1, <1>5 DEF StoreTyped
  <2>3. \A n \in DOMAIN t.changes : t.changes[n] \in Change
    BY <1>1, <1>4, <1>6 DEF StoreTyped
  <2>4. t.count \in Int /\ t.next \in Nat \ {0} /\ t.tombstones \subseteq Key
    BY <1>1, <1>2, <1>3 DEF StoreTyped, CountAfter
  <2> QED BY <1>1, <1>2, <1>5, <1>6, <1>8, <2>1, <2>2, <2>3, <2>4 DEF StoreTyped
<1>10. LogSound(t)
  <2>1. \A k \in DOMAIN t.records : M!CreationKept(t, k)
    BY <1>1, <1>3, <1>5, <1>6, <1>7 DEF LogSound, M!CreationKept
  <2> QED BY <1>1, <1>2, <1>4, <1>5, <1>6, <2>1 DEF LogSound
<1> QED BY <1>9, <1>10 DEF StoreOK

LEMMA DeletedPair ==
  ASSUME NEW m, NEW q, NEW limit, Pair(m, q, limit),
         NEW key \in DOMAIN m.records \cup m.tombstones
  PROVE  /\ Pair(Deleted(m, key), Deleted(q, key), limit)
         /\ Step(m, Deleted(m, key)) /\ Step(q, Deleted(q, key))
         /\ Deleted(m, key).idempotency = m.idempotency
         /\ Deleted(q, key).idempotency = q.idempotency
<1> DEFINE a == Deleted(m, key)
           b == Deleted(q, key)
           c == DeleteEvent(key)
<1>1. StoreOK(m) /\ StoreOK(q) /\ Alike(m, q, limit) /\ StoreTyped(m) /\ StoreTyped(q)
  BY DEF Pair, StoreOK
<1>2. /\ q.records = m.records /\ q.tombstones = m.tombstones /\ q.next = m.next
      /\ q.epoch = m.epoch /\ q.count = m.count
      /\ Live(m.idempotency) = Live(q.idempotency)
  BY <1>1 DEF Alike, SameHistory
<1>3. StoreOK(a) /\ StoreOK(b)
  BY <1>1, <1>2, DeletedOK
<1> HIDE DEF a, b, c
<1>4. a = Deleted(m, key) /\ b = Deleted(q, key) /\ c = DeleteEvent(key)
  BY DEF a, b, c
<1>5. /\ a.epoch = m.epoch /\ a.idempotency = m.idempotency
      /\ a.count = CountAfter(m, key)
      /\ a.tombstones = m.tombstones \cup {key}
      /\ a.snapshots = M!Invalidated(m, M!Holding(m, key))
      /\ a.next = m.next + 1
      /\ a.records = Dropped(m.records, {key})
      /\ a.changes = Added(m.changes, m.next, c)
  BY <1>1, <1>4 DEF StoreTyped, Fields, Mapping, Deleted
<1>6. /\ b.epoch = q.epoch /\ b.idempotency = q.idempotency
      /\ b.count = CountAfter(q, key)
      /\ b.tombstones = q.tombstones \cup {key}
      /\ b.snapshots = M!Invalidated(q, M!Holding(q, key))
      /\ b.next = q.next + 1
      /\ b.records = Dropped(q.records, {key})
      /\ b.changes = Added(q.changes, q.next, c)
  BY <1>1, <1>4 DEF StoreTyped, Fields, Mapping, Deleted
<1>7. SameHistory(a, b)
  BY <1>2, <1>5, <1>6 DEF SameHistory, CountAfter
<1>8. SameLog(a, b, limit)
  <2>1. DOMAIN a.records \subseteq DOMAIN m.records /\ DOMAIN b.records \subseteq DOMAIN q.records
    BY <1>5, <1>6 DEF Dropped
  <2> QED BY <1>1, <1>2, <1>5, <1>6, <2>1, LoggedAlike DEF Alike
<1>9. SameSnapshots(a, b)
  <2>1. \A i \in DOMAIN m.snapshots \cap DOMAIN q.snapshots :
           m.snapshots[i].items = q.snapshots[i].items =>
             (i \in M!Holding(m, key) <=> i \in M!Holding(q, key))
    BY DEF M!Holding
  <2> QED BY <1>5, <1>6, <2>1, InvalidatedAlike
<1>10. m.next \in Nat /\ q.next \in Nat
  BY <1>1 DEF StoreTyped
<1>11. Step(m, a) /\ Step(q, b)
  BY <1>1, <1>5, <1>6, <1>10, InvalidatedTyped DEF Step
<1> QED BY <1>3, <1>5, <1>6, <1>7, <1>8, <1>9, <1>11 DEF Pair, Alike, a, b

\* Delete-all: nothing of the old epoch is left but its snapshots.
LEMMA EmptyMapping == Mapping(<<>>) /\ DOMAIN <<>> = {}
BY DEF Mapping

LEMMA ClearedOK ==
  ASSUME NEW s, StoreOK(s), NEW t, t = Cleared(s)
  PROVE  StoreOK(t)
<1>1. StoreTyped(s)
  BY DEF StoreOK
<1>2. /\ Mapping(t) /\ DOMAIN t = DOMAIN s
      /\ t.epoch = s.epoch + 1 /\ t.count = 0 /\ t.records = <<>> /\ t.tombstones = {}
      /\ t.changes = <<>> /\ t.next = s.next /\ t.idempotency = s.idempotency
      /\ t.snapshots = M!Invalidated(s, DOMAIN s.snapshots)
  <2> DEFINE e == s.epoch + 1
             i == M!Invalidated(s, DOMAIN s.snapshots)
  <2> HIDE DEF e, i
  <2>0. t = [s EXCEPT !.epoch = e, !.count = 0, !.records = <<>>, !.tombstones = {},
                      !.changes = <<>>, !.snapshots = i]
    BY DEF Cleared, e, i
  <2>1. Mapping(t) /\ DOMAIN t = DOMAIN s
    BY <2>0 DEF Mapping
  <2> QED BY <1>1, <2>1 DEF StoreTyped, Fields, Cleared
<1>3. Mapping(t.snapshots) /\ \A i \in DOMAIN t.snapshots : t.snapshots[i] \in Snapshot
  BY <1>1, <1>2, InvalidatedTyped
<1>4. t.epoch \in Nat \ {0} /\ t.next \in Nat \ {0} /\ t.count \in Int
  BY <1>1, <1>2 DEF StoreTyped
<1>5. /\ Mapping(t.records) /\ DOMAIN t.records = {}
      /\ Mapping(t.changes) /\ DOMAIN t.changes = {}
  BY <1>2, EmptyMapping
<1>6. StoreTyped(t)
  BY <1>1, <1>2, <1>3, <1>4, <1>5 DEF StoreTyped
<1>7. LogSound(t)
  BY <1>2, <1>5 DEF LogSound
<1> QED BY <1>6, <1>7 DEF StoreOK

LEMMA ClearedPair ==
  ASSUME NEW m, NEW q, NEW limit, Pair(m, q, limit)
  PROVE  /\ Pair(Cleared(m), Cleared(q), limit)
         /\ Step(m, Cleared(m)) /\ Step(q, Cleared(q))
         /\ Cleared(m).idempotency = m.idempotency
         /\ Cleared(q).idempotency = q.idempotency
<1> DEFINE a == Cleared(m)
           b == Cleared(q)
<1>1. StoreOK(m) /\ StoreOK(q) /\ Alike(m, q, limit) /\ StoreTyped(m) /\ StoreTyped(q)
  BY DEF Pair, StoreOK
<1>2. q.next = m.next /\ q.epoch = m.epoch /\ Live(m.idempotency) = Live(q.idempotency)
  BY <1>1 DEF Alike, SameHistory
<1>3. StoreOK(a) /\ StoreOK(b)
  BY <1>1, ClearedOK
<1> HIDE DEF a, b
<1>4. a = Cleared(m) /\ b = Cleared(q)
  BY DEF a, b
<1>5. /\ a.epoch = m.epoch + 1 /\ a.count = 0 /\ a.records = <<>> /\ a.tombstones = {}
      /\ a.changes = <<>> /\ a.next = m.next /\ a.idempotency = m.idempotency
      /\ a.snapshots = M!Invalidated(m, DOMAIN m.snapshots)
  BY <1>1, <1>4 DEF StoreTyped, Fields, Mapping, Cleared
<1>6. /\ b.epoch = q.epoch + 1 /\ b.count = 0 /\ b.records = <<>> /\ b.tombstones = {}
      /\ b.changes = <<>> /\ b.next = q.next /\ b.idempotency = q.idempotency
      /\ b.snapshots = M!Invalidated(q, DOMAIN q.snapshots)
  BY <1>1, <1>4 DEF StoreTyped, Fields, Mapping, Cleared
<1>7. SameHistory(a, b)
  BY <1>2, <1>5, <1>6 DEF SameHistory
<1>8. SameLog(a, b, limit)
  BY <1>5, <1>6, EmptyMapping DEF SameLog, Purgeable
<1>9. SameSnapshots(a, b)
  <2>1. \A i \in DOMAIN m.snapshots \cap DOMAIN q.snapshots :
           m.snapshots[i].items = q.snapshots[i].items =>
             (i \in DOMAIN m.snapshots <=> i \in DOMAIN q.snapshots)
    OBVIOUS
  <2> QED BY <1>5, <1>6, <2>1, InvalidatedAlike
<1>10. m.next \in Nat /\ q.next \in Nat
  BY <1>1 DEF StoreTyped
<1>11. Step(m, a) /\ Step(q, b)
  BY <1>1, <1>5, <1>6, <1>10, InvalidatedTyped DEF Step
<1> QED BY <1>3, <1>5, <1>6, <1>7, <1>8, <1>9, <1>11 DEF Pair, Alike, a, b
-----------------------------------------------------------------------------
(***************************************************************************)
(* The idempotency rows.  Only those that have not expired count, and the  *)
(* two adapters delete the others at different times.                      *)
(***************************************************************************)
RowsTyped(f) == /\ Mapping(f)
                /\ \A i \in DOMAIN f : "old" \in DOMAIN f[i] /\ f[i].old \in BOOLEAN

\* Only the idempotency rows of a store change.
LEMMA RowsReplaced ==
  ASSUME NEW s, StoreOK(s), NEW f, RowsTyped(f), NEW t, t = [s EXCEPT !.idempotency = f]
  PROVE  /\ StoreOK(t)
         /\ t.epoch = s.epoch /\ t.next = s.next /\ t.count = s.count /\ t.records = s.records
         /\ t.tombstones = s.tombstones /\ t.changes = s.changes /\ t.snapshots = s.snapshots
         /\ t.idempotency = f
         /\ Step(s, t)
<1>1. StoreTyped(s) /\ LogSound(s)
  BY DEF StoreOK
<1>2. /\ Mapping(t) /\ DOMAIN t = DOMAIN s
      /\ t.epoch = s.epoch /\ t.next = s.next /\ t.count = s.count /\ t.records = s.records
      /\ t.tombstones = s.tombstones /\ t.changes = s.changes /\ t.snapshots = s.snapshots
      /\ t.idempotency = f
  BY <1>1 DEF StoreTyped, Fields, Mapping
<1>3. StoreTyped(t)
  BY <1>1, <1>2 DEF StoreTyped, RowsTyped
<1>4. LogSound(t)
  BY <1>1, <1>2 DEF LogSound, M!CreationKept
<1>5. Step(s, t)
  BY <1>1, <1>2 DEF Step, StoreTyped
<1> QED BY <1>2, <1>3, <1>4, <1>5 DEF StoreOK

LEMMA RowsReplacedPair ==
  ASSUME NEW m, NEW q, NEW limit, Pair(m, q, limit), NEW f, NEW g, RowsTyped(f), RowsTyped(g),
         Live(f) = Live(g),
         NEW a, NEW b, a = [m EXCEPT !.idempotency = f], b = [q EXCEPT !.idempotency = g]
  PROVE  Pair(a, b, limit) /\ Step(m, a) /\ Step(q, b)
<1>1. StoreOK(m) /\ StoreOK(q) /\ Alike(m, q, limit)
  BY DEF Pair
<1>2. /\ StoreOK(a)
      /\ a.epoch = m.epoch /\ a.next = m.next /\ a.count = m.count /\ a.records = m.records
      /\ a.tombstones = m.tombstones /\ a.changes = m.changes /\ a.snapshots = m.snapshots
      /\ a.idempotency = f
      /\ Step(m, a)
  BY <1>1, RowsReplaced
<1>3. /\ StoreOK(b)
      /\ b.epoch = q.epoch /\ b.next = q.next /\ b.count = q.count /\ b.records = q.records
      /\ b.tombstones = q.tombstones /\ b.changes = q.changes /\ b.snapshots = q.snapshots
      /\ b.idempotency = g
      /\ Step(q, b)
  BY <1>1, RowsReplaced
<1>4. Alike(a, b, limit)
  BY <1>1, <1>2, <1>3 DEF Alike, SameHistory, SameLog, Purgeable, SameSnapshots
<1> QED BY <1>2, <1>3, <1>4 DEF Pair

LEMMA LiveRowsTyped ==
  ASSUME NEW f, RowsTyped(f)
  PROVE  RowsTyped(Live(f)) /\ Live(Live(f)) = Live(f) /\ \A i \in DOMAIN Live(f) : ~Live(f)[i].old
<1>1. /\ DOMAIN Live(f) = {i \in DOMAIN f : ~f[i].old}
      /\ \A i \in DOMAIN Live(f) : Live(f)[i] = f[i]
      /\ Mapping(Live(f))
  BY DEF Live, Dropped, Mapping
<1>2. \A i \in DOMAIN Live(f) : ~Live(f)[i].old
  BY <1>1
<1>3. {i \in DOMAIN Live(f) : Live(f)[i].old} = {}
  BY <1>2
<1>4. Live(Live(f)) = [i \in DOMAIN Live(f) |-> Live(f)[i]]
  <2> DEFINE g == Live(f)
  <2> HIDE DEF g
  <2>1. Live(g) = Dropped(g, {i \in DOMAIN g : g[i].old})
    BY DEF Live
  <2>2. {i \in DOMAIN g : g[i].old} = {}
    BY <1>3 DEF g
  <2>3. Dropped(g, {}) = [i \in DOMAIN g |-> g[i]]
    BY DEF Dropped
  <2>4. Live(g) = [i \in DOMAIN g |-> g[i]]
    BY <2>1, <2>2, <2>3
  <2> QED BY <2>4 DEF g
<1>5. RowsTyped(Live(f))
  BY <1>1 DEF RowsTyped
<1> QED BY <1>1, <1>2, <1>4, <1>5 DEF Mapping

LEMMA AddedRowsTyped ==
  ASSUME NEW f, RowsTyped(f), NEW id, NEW request, NEW result
  PROVE  RowsTyped(Added(f, id, [request |-> request, result |-> result, old |-> FALSE]))
BY DEF RowsTyped, Added, Mapping

\* The sweep before a mutation, in memory and in SQLite.
LEMMA CleanedPair ==
  ASSUME NEW m, NEW q, NEW limit, Pair(m, q, limit)
  PROVE  /\ M!Swept(m) = Cleaned(m) /\ Q!Begun(q) = Cleaned(q)
         /\ Pair(Cleaned(m), Cleaned(q), limit) /\ Step(m, Cleaned(m)) /\ Step(q, Cleaned(q))
         /\ Pair(Cleaned(m), q, limit)
         /\ Cleaned(m).idempotency = Cleaned(q).idempotency
         /\ RowsTyped(Cleaned(m).idempotency)
         /\ Cleaned(q).idempotency = Live(q.idempotency)
<1>1. StoreOK(m) /\ StoreOK(q) /\ Alike(m, q, limit) /\ StoreTyped(m) /\ StoreTyped(q)
  BY DEF Pair, StoreOK
<1>2. RowsTyped(m.idempotency) /\ RowsTyped(q.idempotency)
  BY <1>1 DEF StoreTyped, RowsTyped
<1>3. Live(m.idempotency) = Live(q.idempotency)
  BY <1>1 DEF Alike, SameHistory
<1>4. /\ RowsTyped(Live(m.idempotency)) /\ RowsTyped(Live(q.idempotency))
      /\ Live(Live(m.idempotency)) = Live(q.idempotency)
      /\ Live(Live(q.idempotency)) = Live(q.idempotency)
  BY <1>2, <1>3, LiveRowsTyped
<1>5. M!Swept(m) = Cleaned(m)
  BY DEF M!Swept, M!ExpiredKeys, M!Dropped, Cleaned, Live, Dropped
<1>6. Q!Begun(q) = Cleaned(q)
  BY DEF Q!Begun, Q!ExpiredKeys, Q!Dropped, Cleaned, Live, Dropped
<1>7. /\ Cleaned(m) = [m EXCEPT !.idempotency = Live(m.idempotency)]
      /\ Cleaned(q) = [q EXCEPT !.idempotency = Live(q.idempotency)]
  BY DEF Cleaned
<1>8. Pair(Cleaned(m), Cleaned(q), limit) /\ Step(m, Cleaned(m)) /\ Step(q, Cleaned(q))
  BY <1>3, <1>4, <1>7, RowsReplacedPair
<1>9. q = [q EXCEPT !.idempotency = q.idempotency]
  BY <1>1 DEF StoreTyped, Mapping, Fields
<1>10. Pair(Cleaned(m), q, limit)
  BY <1>2, <1>4, <1>7, <1>9, RowsReplacedPair
<1>11. /\ Cleaned(m).idempotency = Live(m.idempotency)
       /\ Cleaned(q).idempotency = Live(q.idempotency)
  BY <1>1, <1>7 DEF StoreTyped, Fields
<1> QED BY <1>3, <1>4, <1>5, <1>6, <1>8, <1>10, <1>11
-----------------------------------------------------------------------------
(***************************************************************************)
(* The mutations under an idempotency key.                                 *)
(***************************************************************************)

\* A mutation comes to dm in memory and to dq in SQLite: then so do the calls.
LEMMA IdempotentlyAlike ==
  ASSUME NEW m, NEW q, NEW limit, Pair(m, q, limit), NEW id, NEW request,
         NEW x, NEW y, NEW answer,
         ~IsError(answer) =>
            /\ Pair(x, y, limit) /\ Step(Cleaned(m), x) /\ Step(Cleaned(q), y)
            /\ x.idempotency = Cleaned(m).idempotency
            /\ y.idempotency = Cleaned(q).idempotency,
         IsError(answer) => x = Cleaned(m),
         NEW a, a = M!Idempotently(m, id, request, [store |-> x, answer |-> answer]),
         NEW b, b = Q!Transaction(q, id, request, [store |-> y, answer |-> answer])
  PROVE  /\ a.answer = b.answer
         /\ Pair(a.store, b.store, limit) /\ Step(m, a.store) /\ Step(q, b.store)
<1> DEFINE s == Cleaned(m)
           t == Cleaned(q)
           row == [request |-> request, result |-> answer, old |-> FALSE]
           full == Cardinality(DOMAIN s.idempotency) >= MaxIdem
<1>1. /\ M!Swept(m) = s /\ Q!Begun(q) = t
      /\ Pair(s, q, limit) /\ Step(m, s) /\ Step(q, t)
      /\ s.idempotency = t.idempotency
      /\ RowsTyped(s.idempotency)
  BY CleanedPair
<1>2. Step(q, q)
  BY DEF Step, Pair, StoreOK, StoreTyped
<1>3. M!IsError(answer) <=> IsError(answer)
  BY DEF M!IsError, IsError
<1>4. Q!IsError(answer) <=> IsError(answer)
  BY DEF Q!IsError, IsError
<1> HIDE DEF s, t
<1>9. /\ M!Cardinality(DOMAIN s.idempotency) >= MaxIdem <=> full
      /\ Q!Cardinality(DOMAIN s.idempotency) >= MaxIdem <=> full
  BY SameCardinality
<1> HIDE DEF full
<1>5. CASE id \in DOMAIN s.idempotency
  <2>1. /\ a.store = s
        /\ a.answer = IF s.idempotency[id].request = request
                      THEN [replayed |-> s.idempotency[id].result]
                      ELSE M!Error("ERR_IDEMPOTENCY_CONFLICT")
    BY <1>1, <1>5 DEF M!Idempotently, M!Reply
  <2>2. /\ b.store = q
        /\ b.answer = IF s.idempotency[id].request = request
                      THEN [replayed |-> s.idempotency[id].result]
                      ELSE Q!Error("ERR_IDEMPOTENCY_CONFLICT")
    BY <1>1, <1>5 DEF Q!Transaction, Q!Reply
  <2>3. M!Error("ERR_IDEMPOTENCY_CONFLICT") = Q!Error("ERR_IDEMPOTENCY_CONFLICT")
    BY DEF M!Error, Q!Error
  <2> QED BY <1>1, <1>2, <2>1, <2>2, <2>3
<1>6. CASE id \notin DOMAIN s.idempotency /\ full
  <2>1. a.store = s /\ a.answer = M!Error("ERR_QUOTA_EXCEEDED")
    BY <1>1, <1>6, <1>9 DEF M!Idempotently, M!Reply
  <2>2. b.store = q /\ b.answer = Q!Error("ERR_QUOTA_EXCEEDED")
    BY <1>1, <1>6, <1>9 DEF Q!Transaction, Q!Reply
  <2>3. M!Error("ERR_QUOTA_EXCEEDED") = Q!Error("ERR_QUOTA_EXCEEDED")
    BY DEF M!Error, Q!Error
  <2> QED BY <1>1, <1>2, <2>1, <2>2, <2>3
<1>7. CASE /\ id \notin DOMAIN s.idempotency /\ ~full
           /\ IsError(answer)
  <2>1. a.store = x /\ a.answer = answer
    BY <1>1, <1>3, <1>7, <1>9 DEF M!Idempotently
  <2>2. b.store = q /\ b.answer = answer
    BY <1>1, <1>4, <1>7, <1>9 DEF Q!Transaction, Q!Reply
  <2> QED BY <1>1, <1>2, <1>7, <2>1, <2>2 DEF s
<1>8. CASE /\ id \notin DOMAIN s.idempotency /\ ~full
           /\ ~IsError(answer)
  <2>1. /\ Pair(x, y, limit) /\ Step(s, x) /\ Step(t, y)
        /\ x.idempotency = s.idempotency /\ y.idempotency = t.idempotency
    BY <1>8 DEF s, t
  <2> DEFINE rows == Added(s.idempotency, id, row)
  <2>2. RowsTyped(rows)
    BY <1>1, AddedRowsTyped
  <2>3. M!Added(s.idempotency, id, row) = rows
    BY DEF M!Added, Added
  <2>4. Q!Added(s.idempotency, id, row) = rows
    BY DEF Q!Added, Added
  <2>5. a.answer = answer /\ a.store = [x EXCEPT !.idempotency = M!Added(s.idempotency, id, row)]
    BY <1>1, <1>3, <1>8, <1>9, <2>1 DEF M!Idempotently, M!Reply
  <2>6. b.answer = answer /\ b.store = [y EXCEPT !.idempotency = Q!Added(s.idempotency, id, row)]
    BY <1>1, <1>4, <1>8, <1>9, <2>1 DEF Q!Transaction, Q!Reply
  <2> HIDE DEF rows, row
  <2>7. a.store = [x EXCEPT !.idempotency = rows] /\ b.store = [y EXCEPT !.idempotency = rows]
    BY <2>3, <2>4, <2>5, <2>6
  <2>8. Pair(a.store, b.store, limit) /\ Step(x, a.store) /\ Step(y, b.store)
    BY <2>1, <2>2, <2>7, RowsReplacedPair
  <2>9. /\ m.next \in Nat /\ s.next \in Nat /\ q.next \in Nat /\ t.next \in Nat
        /\ x.next \in Nat /\ y.next \in Nat
        /\ a.store.next \in Nat /\ b.store.next \in Nat
    BY <1>1, <2>1, <2>8, CleanedPair DEF Pair, StoreOK, StoreTyped, s, t
  <2>10. Step(m, a.store) /\ Step(q, b.store)
    BY <1>1, <2>1, <2>8, <2>9 DEF Step
  <2> QED BY <2>5, <2>6, <2>8, <2>10
<1> QED BY <1>5, <1>6, <1>7, <1>8

LEMMA ErrorOf == ASSUME NEW code
                 PROVE /\ M!Error(code) = Error(code) /\ Q!Error(code) = Error(code)
                       /\ IsError(Error(code))
BY DEF M!Error, Q!Error, Error, IsError

LEMMA PatchStateAlike ==
  ASSUME NEW m, NEW q, NEW limit \in Int, Pair(m, q, limit),
         NEW key, NEW newState \in State, NEW expected, NEW id,
         NEW a, a = M!PatchState(m, key, newState, expected, id),
         NEW b, b = Q!PatchState(q, key, newState, expected, id)
  PROVE  /\ a.answer = b.answer
         /\ Pair(a.store, b.store, limit) /\ Step(m, a.store) /\ Step(q, b.store)
<1> DEFINE s == Cleaned(m)
           t == Cleaned(q)
           request == <<"patchState", key, newState, expected>>
           refusal == M!PatchRefused(s, key, newState, expected)
           row == s.records[key]
           patched == [row EXCEPT !.state = newState, !.revision = row.revision + 1,
                                  !.changeSeq = s.next]
           deduped == [revision |-> row.revision, sequence |-> row.changeSeq, deduped |-> TRUE]
           changed == [revision |-> patched.revision, sequence |-> s.next]
           changedQ == [revision |-> row.revision + 1, sequence |-> s.next]
<1>1. /\ M!Swept(m) = s /\ Q!Begun(q) = t
      /\ Pair(s, t, limit) /\ s.idempotency = t.idempotency
  BY CleanedPair
<1>2. refusal = Q!PatchRefused(t, key, newState, expected)
  BY <1>1, RefusedAlike
<1>3. s.records = t.records /\ s.next = t.next /\ StoreTyped(s) /\ StoreTyped(t)
  BY <1>1 DEF Pair, Alike, SameHistory, StoreOK
<1>4. Step(s, s) /\ Step(t, t)
  BY <1>3 DEF Step, StoreTyped
<1>5. a = M!Idempotently(m, id, request,
            IF refusal # "none" THEN M!Reply(s, M!Error(refusal))
            ELSE IF row.state = newState THEN M!Reply(s, deduped)
            ELSE M!Reply(M!Logged([s EXCEPT !.records[key] = patched],
                                  key, "state", patched.revision, newState), changed))
  BY <1>1 DEF M!PatchState
<1>6. b = Q!Transaction(q, id, request,
            IF refusal # "none" THEN Q!Reply(t, Q!Error(refusal))
            ELSE IF row.state = newState THEN Q!Reply(t, deduped)
            ELSE Q!Reply([t EXCEPT !.records[key] = patched,
                            !.changes = Q!Added(@, t.next,
                                          Q!Event(key, "state", row.revision + 1, newState)),
                            !.next = @ + 1], changedQ))
  BY <1>1, <1>2, <1>3 DEF Q!PatchState
<1>7. CASE refusal # "none"
  <2>1. a = M!Idempotently(m, id, request, [store |-> s, answer |-> Error(refusal)])
    BY <1>5, <1>7, ErrorOf DEF M!Reply
  <2>2. b = Q!Transaction(q, id, request, [store |-> t, answer |-> Error(refusal)])
    BY <1>6, <1>7, ErrorOf DEF Q!Reply
  <2>3. IsError(Error(refusal))
    BY ErrorOf
  <2> HIDE DEF s, t, refusal, request
  <2>4. s = Cleaned(m)
    BY DEF s
  <2> QED BY <2>1, <2>2, <2>3, <2>4, IdempotentlyAlike
<1>8. CASE refusal = "none" /\ row.state = newState
  <2>1. a = M!Idempotently(m, id, request, [store |-> s, answer |-> deduped])
    BY <1>5, <1>8 DEF M!Reply
  <2>2. b = Q!Transaction(q, id, request, [store |-> t, answer |-> deduped])
    BY <1>6, <1>8 DEF Q!Reply
  <2>3. ~IsError(deduped)
    BY DEF IsError
  <2> HIDE DEF s, t, deduped, request
  <2>4. s = Cleaned(m) /\ t = Cleaned(q)
    BY DEF s, t
  <2> QED BY <1>1, <1>4, <2>1, <2>2, <2>3, <2>4, IdempotentlyAlike
<1>9. CASE refusal = "none" /\ row.state # newState
  <2>1. key \in DOMAIN s.records
    BY <1>9 DEF M!PatchRefused
  <2>2. row \in Row /\ row = t.records[key]
    BY <1>3, <2>1 DEF StoreTyped
  <2>3. patched.revision = row.revision + 1
    BY <2>2 DEF Row
  <2>4. M!Logged([s EXCEPT !.records[key] = patched], key, "state", row.revision + 1, newState)
          = Patched(s, key, newState)
    <3>1. patched = [row EXCEPT !.state = newState, !.revision = @ + 1, !.changeSeq = s.next]
      OBVIOUS
    <3> HIDE DEF s, patched
    <3> QED BY <1>3, <3>1, MemoryPatched
  <2>5. [t EXCEPT !.records[key] = patched,
            !.changes = Q!Added(@, t.next, Q!Event(key, "state", row.revision + 1, newState)),
            !.next = @ + 1] = Patched(t, key, newState)
    <3>1. row = t.records[key] /\ patched = [row EXCEPT !.state = newState,
                                       !.revision = row.revision + 1, !.changeSeq = t.next]
      BY <1>3, <2>2
    <3> HIDE DEF s, t, row, patched
    <3> QED BY <3>1 DEF Patched, PatchedRow, PatchEvent, Q!Added, Added, Q!Event
  <2>6. a = M!Idempotently(m, id, request, [store |-> Patched(s, key, newState),
                                            answer |-> changedQ])
    BY <1>5, <1>9, <2>3, <2>4 DEF M!Reply
  <2>7. b = Q!Transaction(q, id, request, [store |-> Patched(t, key, newState),
                                           answer |-> changedQ])
    BY <1>6, <1>9, <2>5 DEF Q!Reply
  <2>8. ~IsError(changedQ)
    BY DEF IsError
  <2> HIDE DEF s, t, changedQ, request
  <2>9. /\ Pair(Patched(s, key, newState), Patched(t, key, newState), limit)
        /\ Step(s, Patched(s, key, newState)) /\ Step(t, Patched(t, key, newState))
        /\ Patched(s, key, newState).idempotency = s.idempotency
        /\ Patched(t, key, newState).idempotency = t.idempotency
    BY <1>1, <2>1, PatchedPair
  <2>10. s = Cleaned(m) /\ t = Cleaned(q)
    BY DEF s, t
  <2> QED BY <2>6, <2>7, <2>8, <2>9, <2>10, IdempotentlyAlike
<1> QED BY <1>7, <1>8, <1>9

LEMMA DeleteRecordAlike ==
  ASSUME NEW m, NEW q, NEW limit, Pair(m, q, limit), NEW key, NEW id,
         NEW a, a = M!DeleteRecord(m, key, id), NEW b, b = Q!DeleteRecord(q, key, id)
  PROVE  /\ a.answer = b.answer
         /\ Pair(a.store, b.store, limit) /\ Step(m, a.store) /\ Step(q, b.store)
<1> DEFINE s == Cleaned(m)
           t == Cleaned(q)
           request == <<"deleteRecord", key>>
           known == key \in DOMAIN s.records \cup s.tombstones
           absent == [deleted |-> FALSE, epoch |-> s.epoch]
           done == [deleted |-> TRUE, sequence |-> s.next, epoch |-> s.epoch]
<1>1. /\ M!Swept(m) = s /\ Q!Begun(q) = t
      /\ Pair(s, t, limit) /\ s.idempotency = t.idempotency
  BY CleanedPair
<1>2. /\ s.records = t.records /\ s.tombstones = t.tombstones /\ s.next = t.next
      /\ s.epoch = t.epoch
      /\ StoreTyped(s) /\ StoreTyped(t) /\ StoreOK(t)
  BY <1>1 DEF Pair, Alike, SameHistory, StoreOK
<1>3. Q!Existed(t, key) <=> known
  BY <1>2, FencedByTombstone
<1>4. Step(s, s) /\ Step(t, t)
  BY <1>2 DEF Step, StoreTyped
<1>5. a = M!Idempotently(m, id, request,
            IF key \notin DOMAIN s.records \cup s.tombstones THEN M!Reply(s, absent)
            ELSE M!Reply([M!Logged(s, key, "delete", 1, "none") EXCEPT
                            !.count = @ - Cardinality({key} \cap DOMAIN s.records),
                            !.records = M!Dropped(@, {key}),
                            !.tombstones = @ \cup {key},
                            !.snapshots = M!Invalidated(s, M!Holding(s, key))], done))
  BY <1>1, SameCardinality DEF M!DeleteRecord
<1>6. b = Q!Transaction(q, id, request,
            IF ~Q!Existed(t, key) THEN Q!Reply(t, absent)
            ELSE Q!Reply([t EXCEPT !.count = IF key \in DOMAIN t.records THEN @ - 1 ELSE @,
                            !.records = Q!Dropped(@, {key}),
                            !.changes = Q!Added(@, t.next, Q!Event(key, "delete", 1, "none")),
                            !.tombstones = @ \cup {key},
                            !.snapshots = Q!Invalidated(t, Q!Holding(t, key)),
                            !.next = @ + 1], done))
  BY <1>1, <1>2 DEF Q!DeleteRecord
<1>7. CASE ~known
  <2>1. a = M!Idempotently(m, id, request, [store |-> s, answer |-> absent])
    BY <1>5, <1>7 DEF M!Reply
  <2>2. b = Q!Transaction(q, id, request, [store |-> t, answer |-> absent])
    BY <1>3, <1>6, <1>7 DEF Q!Reply
  <2>3. ~IsError(absent)
    BY DEF IsError
  <2> HIDE DEF s, t, absent, request
  <2>4. s = Cleaned(m) /\ t = Cleaned(q)
    BY DEF s, t
  <2> QED BY <1>1, <1>4, <2>1, <2>2, <2>3, <2>4, IdempotentlyAlike
<1>8. CASE known
  <2>1. a = M!Idempotently(m, id, request, [store |-> Deleted(s, key), answer |-> done])
    BY <1>2, <1>5, <1>8, MemoryDeleted DEF M!Reply
  <2>2. b = Q!Transaction(q, id, request, [store |-> Deleted(t, key), answer |-> done])
    BY <1>3, <1>6, <1>8, SqliteDeleted DEF Q!Reply
  <2>3. ~IsError(done)
    BY DEF IsError
  <2>4. key \in DOMAIN s.records \cup s.tombstones
    BY <1>8
  <2> HIDE DEF s, t, done, request, known
  <2>5. s = Cleaned(m) /\ t = Cleaned(q)
    BY DEF s, t
  <2>6. /\ Pair(Deleted(s, key), Deleted(t, key), limit)
        /\ Step(s, Deleted(s, key)) /\ Step(t, Deleted(t, key))
        /\ Deleted(s, key).idempotency = s.idempotency
        /\ Deleted(t, key).idempotency = t.idempotency
    BY <1>1, <2>4, DeletedPair
  <2> QED BY <2>1, <2>2, <2>3, <2>5, <2>6, IdempotentlyAlike
<1> QED BY <1>7, <1>8

LEMMA DeleteAllAlike ==
  ASSUME NEW m, NEW q, NEW limit, Pair(m, q, limit), NEW expected, NEW id,
         NEW a, a = M!DeleteAll(m, expected, id), NEW b, b = Q!DeleteAll(q, expected, id)
  PROVE  /\ a.answer = b.answer
         /\ Pair(a.store, b.store, limit) /\ Step(m, a.store) /\ Step(q, b.store)
<1> DEFINE s == Cleaned(m)
           t == Cleaned(q)
           request == <<"deleteAll", expected>>
           done == [epoch |-> s.epoch + 1]
           changed == Error("ERR_EPOCH_CHANGED")
<1>1. /\ M!Swept(m) = s /\ Q!Begun(q) = t
      /\ Pair(s, t, limit) /\ s.idempotency = t.idempotency
  BY CleanedPair
<1>2. s.epoch = t.epoch
  BY <1>1 DEF Pair, Alike, SameHistory, StoreOK
<1>3. a = M!Idempotently(m, id, request,
            IF expected # s.epoch THEN M!Reply(s, M!Error("ERR_EPOCH_CHANGED"))
            ELSE M!Reply(Cleared(s), done))
  BY <1>1 DEF M!DeleteAll, Cleared
<1>4. b = Q!Transaction(q, id, request,
            IF expected # s.epoch THEN Q!Reply(t, Q!Error("ERR_EPOCH_CHANGED"))
            ELSE Q!Reply(Cleared(t), done))
  BY <1>1, <1>2, SqliteInvalidated DEF Q!DeleteAll, Cleared
<1>5. CASE expected # s.epoch
  <2>1. a = M!Idempotently(m, id, request, [store |-> s, answer |-> changed])
    BY <1>3, <1>5, ErrorOf DEF M!Reply
  <2>2. b = Q!Transaction(q, id, request, [store |-> t, answer |-> changed])
    BY <1>4, <1>5, ErrorOf DEF Q!Reply
  <2>3. IsError(changed)
    BY ErrorOf
  <2> HIDE DEF s, t, changed, request
  <2>4. s = Cleaned(m)
    BY DEF s
  <2> QED BY <2>1, <2>2, <2>3, <2>4, IdempotentlyAlike
<1>6. CASE expected = s.epoch
  <2>1. a = M!Idempotently(m, id, request, [store |-> Cleared(s), answer |-> done])
    BY <1>3, <1>6 DEF M!Reply
  <2>2. b = Q!Transaction(q, id, request, [store |-> Cleared(t), answer |-> done])
    BY <1>4, <1>6 DEF Q!Reply
  <2>3. ~IsError(done)
    BY DEF IsError
  <2> HIDE DEF s, t, done, request
  <2>4. s = Cleaned(m) /\ t = Cleaned(q)
    BY DEF s, t
  <2>5. /\ Pair(Cleared(s), Cleared(t), limit)
        /\ Step(s, Cleared(s)) /\ Step(t, Cleared(t))
        /\ Cleared(s).idempotency = s.idempotency
        /\ Cleared(t).idempotency = t.idempotency
    BY <1>1, ClearedPair
  <2> QED BY <2>1, <2>2, <2>3, <2>4, <2>5, IdempotentlyAlike
<1> QED BY <1>5, <1>6
-----------------------------------------------------------------------------
(***************************************************************************)
(* Archive batches.  The plans and the stores of a batch are recursive     *)
(* functions; that they satisfy their recursion is shown once for each.    *)
(***************************************************************************)
PlanStep(store, batch, p, n) ==
    M!Planned(p, batch[n], M!ItemOutcome(store, p, batch[n]))

IsPlan(f, store, batch, k) ==
    f = [n \in 0..k |-> IF n = 0 THEN M!EmptyPlan(store) ELSE PlanStep(store, batch, f[n - 1], n)]

LEMMA PlanRecursion ==
  ASSUME NEW store, NEW batch, Len(batch) \in Nat
  PROVE  IsPlan(M!Plan(store, batch), store, batch, Len(batch))
<1> DEFINE G == {k \in Nat : \E f : IsPlan(f, store, batch, k)}
<1>1. 0 \in G
  <2> DEFINE z == [n \in 0..0 |-> M!EmptyPlan(store)]
  <2>1. IsPlan(z, store, batch, 0)
    BY DEF IsPlan
  <2> QED BY <2>1
<1>2. ASSUME NEW k \in Nat, k \in G PROVE k + 1 \in G
  <2>1. PICK f : IsPlan(f, store, batch, k)
    BY <1>2
  <2> DEFINE g == [n \in 0..(k + 1) |-> IF n = k + 1 THEN PlanStep(store, batch, f[k], n) ELSE f[n]]
  <2>2. ASSUME NEW n \in 0..(k + 1)
        PROVE  g[n] = IF n = 0 THEN M!EmptyPlan(store) ELSE PlanStep(store, batch, g[n - 1], n)
    <3>1. CASE n = 0
      BY <3>1, <2>1 DEF IsPlan
    <3>2. CASE n = k + 1 /\ n # 0
      BY <3>2
    <3>3. CASE n # 0 /\ n # k + 1
      <4>1. n \in 0..k /\ n - 1 \in 0..k
        BY <3>3
      <4>2. f[n] = PlanStep(store, batch, f[n - 1], n)
        BY <2>1, <3>3, <4>1 DEF IsPlan
      <4> QED BY <3>3, <4>1, <4>2
    <3> QED BY <3>1, <3>2, <3>3
  <2>3. g = [n \in 0..(k + 1) |-> g[n]]
    OBVIOUS
  <2> HIDE DEF g
  <2>4. IsPlan(g, store, batch, k + 1)
    BY <2>2, <2>3 DEF IsPlan
  <2> QED BY <2>4
<1> HIDE DEF G
<1>3. Len(batch) \in G
  BY <1>1, <1>2, SetInduction
<1>4. \E f : IsPlan(f, store, batch, Len(batch))
  BY <1>3 DEF G
<1>5. M!Plan(store, batch) = CHOOSE f : IsPlan(f, store, batch, Len(batch))
  BY DEF M!Plan, IsPlan, PlanStep
<1> QED BY <1>4, <1>5

AdmitStep(store, batch, outcomes, s, n) ==
    IF outcomes[n].outcome # "stored" THEN s ELSE M!StoreItem(s, batch[n], store.next)

IsAdmission(f, store, batch, outcomes, k) ==
    f = [n \in 0..k |-> IF n = 0 THEN store ELSE AdmitStep(store, batch, outcomes, f[n - 1], n)]

LEMMA AdmitRecursion ==
  ASSUME NEW store, NEW batch, NEW outcomes, Len(batch) \in Nat
  PROVE  IsAdmission(M!Admit(store, batch, outcomes), store, batch, outcomes, Len(batch))
<1> DEFINE G == {k \in Nat : \E f : IsAdmission(f, store, batch, outcomes, k)}
<1>1. 0 \in G
  <2> DEFINE z == [n \in 0..0 |-> store]
  <2>1. IsAdmission(z, store, batch, outcomes, 0)
    BY DEF IsAdmission
  <2> QED BY <2>1
<1>2. ASSUME NEW k \in Nat, k \in G PROVE k + 1 \in G
  <2>1. PICK f : IsAdmission(f, store, batch, outcomes, k)
    BY <1>2
  <2> DEFINE g == [n \in 0..(k + 1) |->
                     IF n = k + 1 THEN AdmitStep(store, batch, outcomes, f[k], n) ELSE f[n]]
  <2>2. ASSUME NEW n \in 0..(k + 1)
        PROVE  g[n] = IF n = 0 THEN store ELSE AdmitStep(store, batch, outcomes, g[n - 1], n)
    <3>1. CASE n = 0
      BY <3>1, <2>1 DEF IsAdmission
    <3>2. CASE n = k + 1 /\ n # 0
      BY <3>2
    <3>3. CASE n # 0 /\ n # k + 1
      <4>1. n \in 0..k /\ n - 1 \in 0..k
        BY <3>3
      <4>2. f[n] = AdmitStep(store, batch, outcomes, f[n - 1], n)
        BY <2>1, <3>3, <4>1 DEF IsAdmission
      <4> QED BY <3>3, <4>1, <4>2
    <3> QED BY <3>1, <3>2, <3>3
  <2>3. g = [n \in 0..(k + 1) |-> g[n]]
    OBVIOUS
  <2> HIDE DEF g
  <2>4. IsAdmission(g, store, batch, outcomes, k + 1)
    BY <2>2, <2>3 DEF IsAdmission
  <2> QED BY <2>4
<1> HIDE DEF G
<1>3. Len(batch) \in G
  BY <1>1, <1>2, SetInduction
<1>4. \E f : IsAdmission(f, store, batch, outcomes, Len(batch))
  BY <1>3 DEF G
<1>5. M!Admit(store, batch, outcomes)
        = CHOOSE f : IsAdmission(f, store, batch, outcomes, Len(batch))
  BY DEF M!Admit, IsAdmission, AdmitStep
<1> QED BY <1>4, <1>5

\* SQLite plans as memory does, if the stores are alike.
LEMMA PlansAlike ==
  ASSUME NEW m, NEW q, NEW limit, Pair(m, q, limit), NEW batch, Len(batch) \in Nat
  PROVE  Q!Plan(q, batch)[Len(batch)] = M!Plan(m, batch)[Len(batch)]
<1> DEFINE p == M!Plan(m, batch)
           r == Q!Plan(q, batch)
           K == Len(batch)
<1>1. m.records = q.records /\ m.tombstones = q.tombstones /\ m.count = q.count /\ StoreOK(q)
  BY DEF Pair, Alike, SameHistory
<1>2. Q!EmptyPlan(q) = M!EmptyPlan(m)
  BY <1>1, SameCardinality DEF Q!EmptyPlan, M!EmptyPlan
<1>3. \A k : Q!Fenced(q, k) <=> k \in q.tombstones
  BY <1>1, FencedByTombstone
<1>4. ASSUME NEW plan, NEW n
      PROVE  Q!Planned(plan, batch[n], Q!ItemOutcome(q, plan, batch[n]))
               = PlanStep(m, batch, plan, n)
  <2>1. Q!ItemOutcome(q, plan, batch[n]) = M!ItemOutcome(m, plan, batch[n])
    BY <1>1, <1>3 DEF Q!ItemOutcome, M!ItemOutcome, Q!Present, M!Present, Q!BodyHeld, M!BodyHeld,
                      Q!ExistingOutcome, M!ExistingOutcome, Q!AdmissionOutcome,
                      M!AdmissionOutcome
  <2>2. ASSUME NEW o PROVE Q!Planned(plan, batch[n], o) = M!Planned(plan, batch[n], o)
    BY DEF Q!Planned, M!Planned, Q!Added, M!Added
  <2> QED BY <2>1, <2>2 DEF PlanStep
<1>5. IsPlan(p, m, batch, K)
  BY PlanRecursion
<1> DEFINE IsQ(f) == f = [n \in 0..K |-> IF n = 0 THEN Q!EmptyPlan(q)
                                       ELSE Q!Planned(f[n - 1], batch[n],
                                                      Q!ItemOutcome(q, f[n - 1], batch[n]))]
<1>6. \A f : IsQ(f) <=> IsPlan(f, m, batch, K)
  BY <1>2, <1>4 DEF IsPlan
<1>7. r = CHOOSE f : IsQ(f)
  BY DEF Q!Plan
<1> HIDE DEF p, r, K, IsQ
<1>8. IsPlan(r, m, batch, K)
  BY <1>5, <1>6, <1>7
<1>9. K \in Nat
  BY DEF K
<1> DEFINE G == {n \in Nat : n <= K => r[n] = p[n]}
<1>10. 0 \in G
  BY <1>5, <1>8, <1>9 DEF IsPlan
<1>11. \A n \in Nat : n \in G => n + 1 \in G
  BY <1>5, <1>8, <1>9 DEF IsPlan
<1> HIDE DEF G
<1>12. K \in G
  BY <1>9, <1>10, <1>11, SetInduction
<1> QED BY <1>9, <1>12 DEF G, p, r, K

\* The outcome of item i, and the items to store among the first n
OutcomeAt(store, batch, i) == M!ItemOutcome(store, M!Plan(store, batch)[i - 1], batch[i])

ToStore(store, batch, n) == {i \in 1..n : OutcomeAt(store, batch, i) = "stored"}

KeysOf(batch, S) == {batch[i].key : i \in S}

Outcome == [key : Key, outcome : {"stored", "deleted", "alreadyPresent", "conflict",
                                  "quotaExceeded"}]

\* A plan after n items: their outcomes, and the keys and the count to come.
PlanSound(store, batch, p, n) ==
    /\ {"outcomes", "pending", "count", "reserved"} \subseteq DOMAIN p
    /\ p.outcomes \in Seq(Outcome)
    /\ Len(p.outcomes) = n
    /\ \A i \in 1..n : p.outcomes[i].outcome = OutcomeAt(store, batch, i)
    /\ DOMAIN p.pending = KeysOf(batch, ToStore(store, batch, n))
    /\ p.count = store.count + Cardinality(ToStore(store, batch, n))

LEMMA EmptyPlanSound ==
  ASSUME NEW store, store.count \in Int, NEW batch
  PROVE  PlanSound(store, batch, M!EmptyPlan(store), 0)
<1>1. ToStore(store, batch, 0) = {}
  BY DEF ToStore
<1>2. Cardinality(ToStore(store, batch, 0)) = 0 /\ KeysOf(batch, ToStore(store, batch, 0)) = {}
  BY <1>1, FS_EmptySet DEF KeysOf
<1> QED BY <1>2 DEF PlanSound, M!EmptyPlan

LEMMA PlannedSound ==
  ASSUME NEW store, store.count \in Int, NEW batch \in Seq(Item), NEW n \in 0..Len(batch) - 1,
         NEW p, PlanSound(store, batch, p, n), p = M!Plan(store, batch)[n]
  PROVE  PlanSound(store, batch, PlanStep(store, batch, p, n + 1), n + 1)
<1> DEFINE o == OutcomeAt(store, batch, n + 1)
           item == batch[n + 1]
           entry == [key |-> item.key, outcome |-> o]
           S == ToStore(store, batch, n)
           T == ToStore(store, batch, n + 1)
           t == M!Planned(p, item, o)
           longer == Append(p.outcomes, entry)
<1>1. PlanStep(store, batch, p, n + 1) = t
  BY DEF PlanStep, OutcomeAt
<1>2. item \in Item /\ n \in Nat /\ n + 1 \in Nat
  OBVIOUS
<1>3. entry \in Outcome
  <2>1. o \in {"stored", "deleted", "alreadyPresent", "conflict", "quotaExceeded"}
    BY DEF OutcomeAt, M!ItemOutcome, M!ExistingOutcome, M!AdmissionOutcome
  <2>2. item.key \in Key
    BY <1>2 DEF Item
  <2> HIDE DEF o, item
  <2> QED BY <2>1, <2>2 DEF Outcome
<1>4. /\ longer \in Seq(Outcome) /\ Len(longer) = n + 1
      /\ \A i \in 1..n : longer[i] = p.outcomes[i]
      /\ longer[n + 1] = entry
  <2> HIDE DEF entry
  <2> QED BY <1>3 DEF PlanSound
<1>5. \A i \in 1..n + 1 : longer[i].outcome = OutcomeAt(store, batch, i)
  <2>1. entry.outcome = o
    OBVIOUS
  <2>2. ASSUME NEW i \in 1..n + 1 PROVE longer[i].outcome = OutcomeAt(store, batch, i)
    <3>1. CASE i = n + 1
      BY <3>1, <1>4, <2>1
    <3>2. CASE i # n + 1
      <4>1. i \in 1..n
        BY <3>2, <1>2
      <4> HIDE DEF longer
      <4> QED BY <4>1, <1>4 DEF PlanSound
    <3> QED BY <3>1, <3>2
  <2> QED BY <2>2
<1>6. IsFiniteSet(S) /\ Cardinality(S) \in Nat /\ n + 1 \notin S
  <2>1. S \subseteq 1..n
    BY DEF ToStore
  <2> HIDE DEF S
  <2>2. IsFiniteSet(1..n)
    BY <1>2, FS_Interval
  <2>3. IsFiniteSet(S)
    BY <2>1, <2>2, FS_Subset
  <2> QED BY <1>2, <2>1, <2>3, FS_CardinalityType
<1>7. T = IF o = "stored" THEN S \cup {n + 1} ELSE S
  <2>1. \A i : i \in 1..n + 1 <=> i \in 1..n \/ i = n + 1
    BY <1>2
  <2> QED BY <2>1 DEF ToStore
<1>8. CASE o # "stored"
  <2>1. t = [p EXCEPT !.outcomes = longer]
    BY <1>8 DEF M!Planned
  <2> HIDE DEF t, longer, o, S, T
  <2>2. /\ DOMAIN t = DOMAIN p /\ t.outcomes = longer /\ t.pending = p.pending
        /\ t.count = p.count
    BY <2>1 DEF PlanSound
  <2>3. T = S
    BY <1>7, <1>8
  <2> QED BY <1>1, <1>4, <1>5, <2>2, <2>3 DEF PlanSound, S, T
<1>9. CASE o = "stored"
  <2>1. t = [[p EXCEPT !.outcomes = longer] EXCEPT !.pending = M!Added(@, item.key, item.body),
                                   !.count = @ + 1, !.reserved = @ + 1]
    BY <1>9 DEF M!Planned
  <2> DEFINE pending == M!Added(p.pending, item.key, item.body)
  <2>2. DOMAIN pending = DOMAIN p.pending \cup {item.key}
    BY DEF M!Added
  <2>3. T = S \cup {n + 1} /\ Cardinality(T) = Cardinality(S) + 1
    <3>1. T = S \cup {n + 1}
      BY <1>7, <1>9
    <3> HIDE DEF S, T
    <3> QED BY <3>1, <1>6, FS_AddElement
  <2>4. KeysOf(batch, T) = KeysOf(batch, S) \cup {item.key}
    BY <2>3 DEF KeysOf
  <2>5. /\ DOMAIN t = DOMAIN p /\ t.outcomes = longer /\ t.pending = pending
        /\ t.count = p.count + 1
    <3> HIDE DEF t, longer, o, S, T, item
    <3> QED BY <2>1 DEF PlanSound
  <2>6. DOMAIN t.pending = KeysOf(batch, T)
    BY <2>2, <2>4, <2>5 DEF PlanSound
  <2> HIDE DEF t, longer, o, S, T, pending, item
  <2>7. t.count = store.count + Cardinality(T)
    <3>1. p.count = store.count + Cardinality(S)
      BY DEF PlanSound, S
    <3> QED BY <1>6, <2>3, <2>5, <3>1
  <2> QED BY <1>1, <1>4, <1>5, <2>5, <2>6, <2>7 DEF PlanSound, T
<1> QED BY <1>8, <1>9

LEMMA PlansSound ==
  ASSUME NEW store, store.count \in Int, NEW batch \in Seq(Item)
  PROVE  \A n \in 0..Len(batch) : PlanSound(store, batch, M!Plan(store, batch)[n], n)
<1> DEFINE p == M!Plan(store, batch)
           G == {n \in Nat : n <= Len(batch) => PlanSound(store, batch, p[n], n)}
<1>0. Len(batch) \in Nat
  OBVIOUS
<1>1. IsPlan(p, store, batch, Len(batch))
  BY <1>0, PlanRecursion
<1>2. 0 \in G
  <2>1. p[0] = M!EmptyPlan(store)
    BY <1>0, <1>1 DEF IsPlan
  <2> QED BY <2>1, EmptyPlanSound
<1>3. ASSUME NEW n \in Nat, n \in G PROVE n + 1 \in G
  <2> SUFFICES ASSUME n + 1 <= Len(batch) PROVE PlanSound(store, batch, p[n + 1], n + 1)
    OBVIOUS
  <2>1. n \in 0..Len(batch) - 1 /\ n + 1 \in 0..Len(batch) /\ (n + 1) - 1 = n
    BY <1>0
  <2>2. PlanSound(store, batch, p[n], n)
    BY <1>3, <2>1
  <2>3. p[n + 1] = PlanStep(store, batch, p[n], n + 1)
    <3> HIDE DEF p
    <3> QED BY <1>1, <2>1 DEF IsPlan
  <2> QED BY <2>1, <2>2, <2>3, PlannedSound
<1> HIDE DEF G
<1>4. \A n \in Nat : n \in G
  BY <1>2, <1>3, SetInduction
<1> QED BY <1>0, <1>4 DEF G

(***************************************************************************)
(* What a batch stores: items under keys that are neither held nor fenced, *)
(* no two of them under the same key.                                      *)
(***************************************************************************)
Admissible(store, batch, S) ==
    /\ \A i \in S : batch[i].key \notin DOMAIN store.records \cup store.tombstones
    /\ \A i, j \in S : batch[i].key = batch[j].key => i = j

LEMMA StoredAdmissible ==
  ASSUME NEW store, store.count \in Int, NEW batch \in Seq(Item)
  PROVE  Admissible(store, batch, ToStore(store, batch, Len(batch)))
<1> DEFINE S == ToStore(store, batch, Len(batch))
           p == M!Plan(store, batch)
<1>1. Len(batch) \in Nat
  OBVIOUS
<1>2. ASSUME NEW i \in S
      PROVE  /\ i \in 1..Len(batch) /\ i - 1 \in 0..Len(batch)
             /\ batch[i].key \notin DOMAIN p[i - 1].pending
             /\ batch[i].key \notin DOMAIN store.records \cup store.tombstones
  <2>1. i \in 1..Len(batch) /\ M!ItemOutcome(store, p[i - 1], batch[i]) = "stored"
    BY DEF ToStore, OutcomeAt
  <2> HIDE DEF p
  <2> QED BY <1>1, <2>1 DEF M!ItemOutcome, M!ExistingOutcome, M!Present
<1>3. ASSUME NEW i \in S, NEW j \in S, i < j PROVE batch[i].key # batch[j].key
  <2>1. PlanSound(store, batch, p[j - 1], j - 1)
    BY <1>2, PlansSound
  <2>2. i \in ToStore(store, batch, j - 1)
    BY <1>2, <1>3 DEF ToStore
  <2>3. batch[i].key \in DOMAIN p[j - 1].pending
    BY <2>1, <2>2 DEF PlanSound, KeysOf
  <2> QED BY <1>2, <2>3
<1>4. \A i, j \in S : i = j \/ i < j \/ j < i
  BY <1>1 DEF ToStore
<1> QED BY <1>2, <1>3, <1>4 DEF Admissible

Rank(S, i) == Cardinality({j \in S : j < i})

\* Ranks are numbers below the size of the set, and ascend in it.
LEMMA Ranks ==
  ASSUME NEW S \in SUBSET Nat, IsFiniteSet(S)
  PROVE  /\ Cardinality(S) \in Nat
         /\ \A i \in S : Rank(S, i) \in 0..Cardinality(S) - 1
         /\ \A i, j \in S : i < j => Rank(S, i) < Rank(S, j)
         /\ \A i, j \in S : Rank(S, i) = Rank(S, j) => i = j
<1> DEFINE B(i) == {j \in S : j < i}
<1>1. \A i \in S : IsFiniteSet(B(i)) /\ Cardinality(B(i)) \in Nat /\ i \notin B(i)
  <2> TAKE i \in S
  <2>1. B(i) \subseteq S
    OBVIOUS
  <2>2. IsFiniteSet(B(i))
    <3> HIDE DEF B
    <3> QED BY <2>1, FS_Subset
  <2>3. i \notin B(i)
    OBVIOUS
  <2> HIDE DEF B
  <2> QED BY <2>2, <2>3, FS_CardinalityType
<1>2. Cardinality(S) \in Nat
  BY FS_CardinalityType
<1>3. ASSUME NEW i \in S, NEW T \in SUBSET S, i \in T, B(i) \subseteq T
      PROVE  Cardinality(B(i)) < Cardinality(T)
  <2>1. IsFiniteSet(T) /\ Cardinality(T) \in Nat
    BY FS_Subset, FS_CardinalityType
  <2>2. B(i) # T
    BY <1>1, <1>3
  <2> HIDE DEF B
  <2>3. Cardinality(B(i)) <= Cardinality(T) /\ (Cardinality(T) = Cardinality(B(i)) => T = B(i))
    BY <1>3, <2>1, FS_Subset
  <2> QED BY <1>1, <2>1, <2>2, <2>3
<1>4. \A i \in S : Cardinality(B(i)) \in 0..Cardinality(S) - 1
  <2> TAKE i \in S
  <2>1. Cardinality(B(i)) < Cardinality(S)
    BY <1>3
  <2> HIDE DEF B
  <2> QED BY <1>1, <1>2, <2>1
<1>5. \A i, j \in S : i < j => Cardinality(B(i)) < Cardinality(B(j))
  <2> SUFFICES ASSUME NEW i \in S, NEW j \in S, i < j
               PROVE  Cardinality(B(i)) < Cardinality(B(j))
    OBVIOUS
  <2>1. i \in B(j) /\ B(j) \in SUBSET S
    OBVIOUS
  <2>2. B(i) \subseteq B(j)
    <3> SUFFICES ASSUME NEW k \in S, k < i PROVE k < j
      OBVIOUS
    <3> QED BY k \in Nat /\ i \in Nat /\ j \in Nat
  <2> HIDE DEF B
  <2> QED BY <1>3, <2>1, <2>2
<1>6. \A i, j \in S : Cardinality(B(i)) = Cardinality(B(j)) => i = j
  <2> SUFFICES ASSUME NEW i \in S, NEW j \in S, i # j
               PROVE  Cardinality(B(i)) # Cardinality(B(j))
    OBVIOUS
  <2>1. i < j \/ j < i
    OBVIOUS
  <2>2. Cardinality(B(i)) \in Nat /\ Cardinality(B(j)) \in Nat
    BY <1>1
  <2> HIDE DEF B
  <2> QED BY <1>5, <2>1, <2>2
<1> QED BY <1>2, <1>4, <1>5, <1>6 DEF Rank

SequenceFor(s, S, i) == s.next + Rank(S, i)

NewRow(s, item, n) ==
    [key |-> item.key, body |-> item.body, state |-> item.state, revision |-> 1,
     changeSeq |-> n, created |-> s.next]

Creation(item) == [key |-> item.key, kind |-> "upsert", version |-> 1, state |-> item.state]

\* t is s with the items S of the batch stored in request order
Grown(s, batch, S, t) ==
    /\ Mapping(t) /\ Fields \subseteq DOMAIN t
    /\ t.epoch = s.epoch /\ t.tombstones = s.tombstones
    /\ t.snapshots = s.snapshots /\ t.idempotency = s.idempotency
    /\ t.next = s.next + Cardinality(S) /\ t.count = s.count + Cardinality(S)
    /\ Mapping(t.records) /\ DOMAIN t.records = DOMAIN s.records \cup KeysOf(batch, S)
    /\ \A k \in DOMAIN s.records : t.records[k] = s.records[k]
    /\ \A i \in S : t.records[batch[i].key] = NewRow(s, batch[i], SequenceFor(s, S, i))
    /\ Mapping(t.changes)
    /\ DOMAIN t.changes = DOMAIN s.changes \cup {SequenceFor(s, S, i) : i \in S}
    /\ \A n \in DOMAIN s.changes : t.changes[n] = s.changes[n]
    /\ \A i \in S : t.changes[SequenceFor(s, S, i)] = Creation(batch[i])

LEMMA NothingGrown ==
  ASSUME NEW s, StoreTyped(s), NEW batch
  PROVE  Grown(s, batch, {}, s)
<1>1. Cardinality({}) = 0 /\ KeysOf(batch, {}) = {}
  BY FS_EmptySet DEF KeysOf
<1> QED BY <1>1 DEF Grown, StoreTyped

\* Memory stores one item more.
LEMMA ItemGrown ==
  ASSUME NEW s, StoreTyped(s), NEW batch \in Seq(Item),
         NEW n \in 1..Len(batch), NEW S \in SUBSET (1..n - 1),
         Admissible(s, batch, S \cup {n}),
         NEW t, Grown(s, batch, S, t)
  PROVE  Grown(s, batch, S \cup {n}, M!StoreItem(t, batch[n], s.next))
<1> DEFINE T == S \cup {n}
           item == batch[n]
           row == NewRow(s, item, t.next)
           u == M!StoreItem(t, item, s.next)
<1>1. /\ S \in SUBSET Nat /\ IsFiniteSet(S) /\ Cardinality(S) \in Nat
      /\ n \notin S /\ Cardinality(T) = Cardinality(S) + 1 /\ n \in Nat
  <2>1. 1 \in Int /\ n - 1 \in Int /\ n \in Nat
    OBVIOUS
  <2>2. IsFiniteSet(1..n - 1)
    BY <2>1, FS_Interval
  <2>3. IsFiniteSet(S)
    BY <2>2, FS_Subset
  <2>4. n \notin S /\ S \in SUBSET Nat
    BY <2>1
  <2>5. Cardinality(T) = Cardinality(S) + 1
    BY <2>3, <2>4, FS_AddElement
  <2> QED BY <2>1, <2>3, <2>4, <2>5, FS_CardinalityType
<1>2. s.next \in Nat /\ s.count \in Int
  BY DEF StoreTyped
<1>3. \A i \in S : /\ SequenceFor(s, T, i) = SequenceFor(s, S, i)
                  /\ SequenceFor(s, S, i) \in s.next..t.next - 1
  <2> TAKE i \in S
  <2>1. {j \in T : j < i} = {j \in S : j < i}
    <3>1. i \in Nat /\ i < n
      BY <1>1
    <3>2. ~(n < i)
      BY <1>1, <3>1
    <3> QED BY <3>2
  <2>2. Rank(S, i) \in 0..Cardinality(S) - 1
    BY <1>1, Ranks
  <2>3. t.next = s.next + Cardinality(S)
    BY DEF Grown
  <2>4. Rank(T, i) = Rank(S, i)
    BY <2>1 DEF Rank
  <2> HIDE DEF T
  <2> QED BY <1>1, <1>2, <2>2, <2>3, <2>4 DEF SequenceFor
<1>4. SequenceFor(s, T, n) = t.next
  <2>1. {j \in T : j < n} = S
    <3>1. \A j \in S : j < n
      OBVIOUS
    <3>2. ~(n < n)
      BY <1>1
    <3> QED BY <3>1, <3>2
  <2> QED BY <2>1 DEF SequenceFor, Rank, Grown
<1>5. u = [t EXCEPT !.records = Added(t.records, item.key, row), !.count = t.count + 1,
                    !.changes = Added(t.changes, t.next, Creation(item)), !.next = t.next + 1]
  <2> DEFINE r == Added(t.records, item.key, row)
             v == [t EXCEPT !.records = r, !.count = t.count + 1]
  <2>1. u = M!Logged(v, item.key, "upsert", 1, item.state)
    BY DEF M!StoreItem, NewRow, M!Added, Added
  <2>2. v.changes = t.changes /\ v.next = t.next
    BY DEF Grown, Fields
  <2> HIDE DEF v
  <2>3. u = [v EXCEPT !.changes = Added(v.changes, v.next, Creation(item)), !.next = v.next + 1]
    BY <2>1 DEF M!Logged, Creation, M!Added, Added
  <2>4. u = [v EXCEPT !.changes = Added(t.changes, t.next, Creation(item)), !.next = t.next + 1]
    BY <2>2, <2>3
  <2> DEFINE c == Added(t.changes, t.next, Creation(item))
  <2> HIDE DEF r, u, c
  <2>5. u = [v EXCEPT !.changes = c, !.next = t.next + 1]
    BY <2>4 DEF c
  <2>6. u = [t EXCEPT !.records = r, !.count = t.count + 1, !.changes = c, !.next = t.next + 1]
    BY <2>5 DEF v, Grown, Fields
  <2> QED BY <2>6 DEF r, c
<1> HIDE DEF u, T, row, item
<1>6. /\ Mapping(u) /\ Fields \subseteq DOMAIN u
      /\ u.epoch = t.epoch /\ u.tombstones = t.tombstones
      /\ u.snapshots = t.snapshots /\ u.idempotency = t.idempotency
      /\ u.next = t.next + 1 /\ u.count = t.count + 1
      /\ u.records = Added(t.records, item.key, row)
      /\ u.changes = Added(t.changes, t.next, Creation(item))
  BY <1>5 DEF Grown, Fields, Mapping
<1>7. KeysOf(batch, T) = KeysOf(batch, S) \cup {item.key}
  BY DEF KeysOf, T, item
<1>8. item.key \notin DOMAIN s.records /\ item.key \notin KeysOf(batch, S)
  BY <1>1 DEF Admissible, KeysOf, item
<1>9. /\ Mapping(u.records) /\ DOMAIN u.records = DOMAIN s.records \cup KeysOf(batch, T)
      /\ \A k \in DOMAIN s.records : u.records[k] = s.records[k]
      /\ \A i \in T : u.records[batch[i].key] = NewRow(s, batch[i], SequenceFor(s, T, i))
  <2>1. /\ DOMAIN u.records = DOMAIN t.records \cup {item.key}
        /\ \A k \in DOMAIN u.records : u.records[k] = IF k = item.key THEN row ELSE t.records[k]
        /\ Mapping(u.records)
    BY <1>6 DEF Added, Mapping
  <2>2. \A i \in S : batch[i].key \in DOMAIN t.records /\ batch[i].key # item.key
    BY <1>8 DEF Grown, KeysOf
  <2>3. \A i \in S : u.records[batch[i].key] = NewRow(s, batch[i], SequenceFor(s, T, i))
    BY <1>3, <2>1, <2>2 DEF Grown
  <2>4. u.records[batch[n].key] = NewRow(s, batch[n], SequenceFor(s, T, n))
    BY <1>4, <2>1 DEF item, row
  <2>5. \A k \in DOMAIN s.records : u.records[k] = s.records[k]
    BY <1>8, <2>1 DEF Grown
  <2> QED BY <1>7, <2>1, <2>3, <2>4, <2>5 DEF T, Grown
<1>10. /\ Mapping(u.changes)
       /\ DOMAIN u.changes = DOMAIN s.changes \cup {SequenceFor(s, T, i) : i \in T}
       /\ \A k \in DOMAIN s.changes : u.changes[k] = s.changes[k]
       /\ \A i \in T : u.changes[SequenceFor(s, T, i)] = Creation(batch[i])
  <2>1. /\ DOMAIN u.changes = DOMAIN t.changes \cup {t.next}
        /\ \A k \in DOMAIN u.changes :
              u.changes[k] = IF k = t.next THEN Creation(item) ELSE t.changes[k]
        /\ Mapping(u.changes)
    BY <1>6 DEF Added, Mapping
  <2>2. {SequenceFor(s, T, i) : i \in T} = {SequenceFor(s, S, i) : i \in S} \cup {t.next}
    BY <1>3, <1>4 DEF T
  <2>3. t.next \in Nat /\ t.next >= s.next
    BY <1>1, <1>2 DEF Grown
  <2>4. \A k \in DOMAIN s.changes : k # t.next
    BY <1>2, <2>3 DEF StoreTyped
  <2>5. \A i \in S : SequenceFor(s, S, i) # t.next /\ SequenceFor(s, S, i) \in DOMAIN t.changes
    BY <1>2, <1>3, <2>3 DEF Grown
  <2>6. \A i \in S : u.changes[SequenceFor(s, T, i)] = Creation(batch[i])
    BY <1>3, <2>1, <2>5 DEF Grown
  <2>7. u.changes[SequenceFor(s, T, n)] = Creation(batch[n])
    BY <1>4, <2>1 DEF item
  <2>8. \A k \in DOMAIN s.changes : u.changes[k] = s.changes[k]
    BY <2>1, <2>4 DEF Grown
  <2>9. DOMAIN t.changes = DOMAIN s.changes \cup {SequenceFor(s, S, i) : i \in S}
    BY DEF Grown
  <2> QED BY <2>1, <2>2, <2>6, <2>7, <2>8, <2>9 DEF T
<1>11. u.next = s.next + Cardinality(T) /\ u.count = s.count + Cardinality(T)
  <2>1. t.next = s.next + Cardinality(S) /\ t.count = s.count + Cardinality(S)
    BY DEF Grown
  <2> QED BY <1>1, <1>2, <1>6, <2>1
<1>12. Grown(s, batch, T, u)
  BY <1>6, <1>9, <1>10, <1>11 DEF Grown
<1> QED BY <1>12 DEF T, u, item

\* SQLite's inserts.
LEMMA SqliteGrown ==
  ASSUME NEW s, StoreTyped(s), NEW batch \in Seq(Item), NEW n \in Nat, NEW S \in SUBSET (1..n),
         Admissible(s, batch, S),
         NEW plan, S = {i \in DOMAIN plan.outcomes : plan.outcomes[i].outcome = "stored"},
         plan.count = s.count + Cardinality(S)
  PROVE  Grown(s, batch, S, Q!Inserted(s, batch, plan))
<1> DEFINE Sequence(i) == s.next + Cardinality({j \in S : j < i})
           NextRow(i) == [key |-> batch[i].key, body |-> batch[i].body, state |-> batch[i].state,
                      revision |-> 1, changeSeq |-> Sequence(i), created |-> s.next]
           ItemOf(k) == CHOOSE i \in S : batch[i].key = k
           ItemAt(c) == CHOOSE i \in S : Sequence(i) = c
           keys      == {batch[i].key : i \in S}
           sequences == {Sequence(i) : i \in S}
           t         == Q!Inserted(s, batch, plan)
           records   == [k \in DOMAIN s.records \cup keys |->
                           IF k \in keys THEN NextRow(ItemOf(k)) ELSE s.records[k]]
           changes   == [c \in DOMAIN s.changes \cup sequences |->
                           IF c \in sequences THEN Creation(batch[ItemAt(c)]) ELSE s.changes[c]]
<1>1. t = [s EXCEPT !.records = records, !.changes = changes, !.next = s.next + Cardinality(S),
                    !.count = plan.count]
  BY DEF Q!Inserted, Q!Event, Creation, Q!Cardinality, Cardinality
<1>2. /\ S \in SUBSET Nat /\ IsFiniteSet(S)
  <2>1. IsFiniteSet(1..n)
    BY FS_Interval
  <2> QED BY <2>1, FS_Subset
<1>3. /\ \A i, j \in S : Sequence(i) = Sequence(j) => i = j
      /\ \A i \in S : Sequence(i) = SequenceFor(s, S, i) /\ Sequence(i) >= s.next
  <2>1. /\ \A i \in S : Rank(S, i) \in 0..Cardinality(S) - 1
        /\ \A i, j \in S : Rank(S, i) = Rank(S, j) => i = j
        /\ Cardinality(S) \in Nat
    BY <1>2, Ranks
  <2>2. \A i : Sequence(i) = s.next + Rank(S, i)
    BY DEF Rank
  <2>3. s.next \in Nat
    BY DEF StoreTyped
  <2> HIDE DEF Sequence
  <2>4. \A i \in S : Sequence(i) = SequenceFor(s, S, i)
    BY <2>2 DEF SequenceFor
  <2>5. \A i \in S : Rank(S, i) \in Nat
    BY <2>1
  <2>6. \A i \in S : Sequence(i) >= s.next
    <3> TAKE i \in S
    <3>1. Rank(S, i) \in Nat /\ Sequence(i) = s.next + Rank(S, i)
      BY <2>2, <2>5
    <3> QED BY <2>3, <3>1
  <2>7. \A i, j \in S : Sequence(i) = Sequence(j) => i = j
    <3> SUFFICES ASSUME NEW i \in S, NEW j \in S, Sequence(i) = Sequence(j) PROVE i = j
      OBVIOUS
    <3>1. Rank(S, i) = Rank(S, j)
      BY <2>2, <2>3, <2>5
    <3> QED BY <2>1, <3>1
  <2> QED BY <2>4, <2>6, <2>7
<1> HIDE DEF Sequence
<1>4. \A i \in S : ItemOf(batch[i].key) = i /\ ItemAt(Sequence(i)) = i
  <2> TAKE i \in S
  <2>1. \A j \in S : batch[j].key = batch[i].key => j = i
    BY DEF Admissible
  <2>2. \A j \in S : Sequence(j) = Sequence(i) => j = i
    BY <1>3
  <2> QED BY <2>1, <2>2
<1>5. /\ Mapping(records) /\ DOMAIN records = DOMAIN s.records \cup KeysOf(batch, S)
      /\ \A k \in DOMAIN s.records : records[k] = s.records[k]
      /\ \A i \in S : records[batch[i].key] = NewRow(s, batch[i], SequenceFor(s, S, i))
  <2>1. keys = KeysOf(batch, S)
    BY DEF KeysOf
  <2>2. \A k \in keys : k \notin DOMAIN s.records
    BY DEF Admissible
  <2>3. \A i \in S : NextRow(i) = NewRow(s, batch[i], SequenceFor(s, S, i))
    BY <1>3 DEF NewRow
  <2>4. \A i \in S : batch[i].key \in keys
    OBVIOUS
  <2> HIDE DEF NextRow, ItemOf, keys
  <2>5. \A i \in S : records[batch[i].key] = NextRow(i)
    BY <1>4, <2>4
  <2>6. Mapping(records) /\ DOMAIN records = DOMAIN s.records \cup keys
    BY DEF Mapping
  <2> QED BY <2>1, <2>2, <2>3, <2>5, <2>6
<1>6. /\ Mapping(changes)
      /\ DOMAIN changes = DOMAIN s.changes \cup {SequenceFor(s, S, i) : i \in S}
      /\ \A c \in DOMAIN s.changes : changes[c] = s.changes[c]
      /\ \A i \in S : changes[SequenceFor(s, S, i)] = Creation(batch[i])
  <2>1. sequences = {SequenceFor(s, S, i) : i \in S}
    <3>1. \A i \in S : Sequence(i) = SequenceFor(s, S, i)
      BY <1>3
    <3>2. ASSUME NEW c \in sequences PROVE c \in {SequenceFor(s, S, i) : i \in S}
      BY <3>1
    <3>3. ASSUME NEW c \in {SequenceFor(s, S, i) : i \in S} PROVE c \in sequences
      BY <3>1
    <3> HIDE DEF sequences
    <3> QED BY <3>2, <3>3
  <2>2. \A c \in DOMAIN s.changes : c \notin sequences
    <3>1. \A c \in DOMAIN s.changes : c \in Int /\ c < s.next
      BY DEF StoreTyped
    <3>2. \A c \in sequences : c >= s.next
      BY <1>3
    <3>3. s.next \in Nat
      BY DEF StoreTyped
    <3>4. \A c \in DOMAIN s.changes : ~(c >= s.next)
      BY <3>1, <3>3
    <3> HIDE DEF sequences
    <3> QED BY <3>2, <3>4
  <2>4. \A i \in S : Sequence(i) \in sequences
    OBVIOUS
  <2> HIDE DEF ItemAt, sequences
  <2>5. \A i \in S : changes[Sequence(i)] = Creation(batch[i])
    BY <1>4, <2>4
  <2>6. Mapping(changes) /\ DOMAIN changes = DOMAIN s.changes \cup sequences
    BY DEF Mapping
  <2> QED BY <1>3, <2>1, <2>2, <2>5, <2>6
<1> HIDE DEF t, records, changes
<1>7. /\ Mapping(t) /\ Fields \subseteq DOMAIN t
      /\ t.epoch = s.epoch /\ t.tombstones = s.tombstones
      /\ t.snapshots = s.snapshots /\ t.idempotency = s.idempotency
      /\ t.next = s.next + Cardinality(S) /\ t.count = s.count + Cardinality(S)
      /\ t.records = records /\ t.changes = changes
  BY <1>1 DEF StoreTyped, Fields, Mapping
<1> QED BY <1>5, <1>6, <1>7 DEF Grown, t

\* Memory's batch, item by item.
LEMMA MemoryGrown ==
  ASSUME NEW s, StoreTyped(s), NEW batch \in Seq(Item), NEW outcomes,
         \A i \in 1..Len(batch) : outcomes[i].outcome = OutcomeAt(s, batch, i)
  PROVE  Grown(s, batch, ToStore(s, batch, Len(batch)), M!Admit(s, batch, outcomes)[Len(batch)])
<1> DEFINE a == M!Admit(s, batch, outcomes)
           S(n) == ToStore(s, batch, n)
           G == {n \in Nat : n <= Len(batch) => Grown(s, batch, S(n), a[n])}
<1>0. Len(batch) \in Nat
  OBVIOUS
<1>1. IsAdmission(a, s, batch, outcomes, Len(batch))
  BY <1>0, AdmitRecursion
<1>2. 0 \in G
  <2>1. a[0] = s
    BY <1>0, <1>1 DEF IsAdmission
  <2>2. S(0) = {}
    BY DEF ToStore
  <2> QED BY <2>1, <2>2, NothingGrown
<1>3. ASSUME NEW n \in Nat, n \in G PROVE n + 1 \in G
  <2> SUFFICES ASSUME n + 1 <= Len(batch) PROVE Grown(s, batch, S(n + 1), a[n + 1])
    OBVIOUS
  <2>1. n + 1 \in 1..Len(batch) /\ (n + 1) - 1 = n /\ n + 1 # 0
    BY <1>0
  <2>2. Grown(s, batch, S(n), a[n])
    BY <1>3, <2>1
  <2>3. a[n + 1] = AdmitStep(s, batch, outcomes, a[n], n + 1)
    <3> HIDE DEF a
    <3> QED BY <1>1, <2>1 DEF IsAdmission
  <2>4. S(n + 1) = IF OutcomeAt(s, batch, n + 1) = "stored" THEN S(n) \cup {n + 1} ELSE S(n)
    <3>1. \A i : i \in 1..n + 1 <=> i \in 1..n \/ i = n + 1
      OBVIOUS
    <3> QED BY <3>1 DEF ToStore
  <2>5. S(n) \in SUBSET (1..(n + 1) - 1) /\ S(n + 1) \subseteq S(Len(batch))
    BY <1>0, <2>1 DEF ToStore
  <2>6. CASE OutcomeAt(s, batch, n + 1) # "stored"
    BY <2>1, <2>2, <2>3, <2>4, <2>6 DEF AdmitStep
  <2>7. CASE OutcomeAt(s, batch, n + 1) = "stored"
    <3>1. a[n + 1] = M!StoreItem(a[n], batch[n + 1], s.next)
      BY <2>1, <2>3, <2>7 DEF AdmitStep
    <3>2. Admissible(s, batch, S(n) \cup {n + 1})
      <4>1. Admissible(s, batch, S(Len(batch)))
        BY StoredAdmissible DEF StoreTyped
      <4> HIDE DEF S
      <4> QED BY <2>4, <2>5, <2>7, <4>1 DEF Admissible
    <3> HIDE DEF S, a
    <3>3. Grown(s, batch, S(n) \cup {n + 1}, M!StoreItem(a[n], batch[n + 1], s.next))
      BY <2>1, <2>2, <2>5, <3>2, ItemGrown
    <3> QED BY <2>4, <2>7, <3>1, <3>3
  <2> QED BY <2>6, <2>7
<1> HIDE DEF G
<1>4. Len(batch) \in G
  BY <1>0, <1>2, <1>3, SetInduction
<1> QED BY <1>0, <1>4 DEF G

LEMMA GrownOK ==
  ASSUME NEW s, StoreOK(s), NEW batch \in Seq(Item), NEW S \in SUBSET (1..Len(batch)),
         Admissible(s, batch, S), NEW t, Grown(s, batch, S, t)
  PROVE  StoreOK(t)
<1>1. StoreTyped(s) /\ LogSound(s)
  BY DEF StoreOK
<1>2. S \in SUBSET Nat /\ IsFiniteSet(S) /\ Cardinality(S) \in Nat
  <2>1. Len(batch) \in Nat
    OBVIOUS
  <2>2. IsFiniteSet(1..Len(batch))
    BY <2>1, FS_Interval
  <2>3. IsFiniteSet(S)
    BY <2>2, FS_Subset
  <2> QED BY <2>1, <2>3, FS_CardinalityType
<1>3. s.next \in Nat \ {0} /\ s.count \in Int /\ t.next = s.next + Cardinality(S)
      /\ t.count = s.count + Cardinality(S)
  BY <1>1 DEF StoreTyped, Grown
<1>4. \A i \in S : SequenceFor(s, S, i) \in s.next..t.next - 1
  <2> TAKE i \in S
  <2>1. Rank(S, i) \in 0..Cardinality(S) - 1
    BY <1>2, Ranks
  <2> QED BY <1>2, <1>3, <2>1 DEF SequenceFor
<1>5. \A i \in S : /\ batch[i] \in Item /\ batch[i].key \in Key
                   /\ batch[i].state \in State /\ batch[i].body \in Body
  <2> TAKE i \in S
  <2>1. batch[i] \in Item
    OBVIOUS
  <2> QED BY <2>1 DEF Item, State
<1>6. \A i \in S : LET row == NewRow(s, batch[i], SequenceFor(s, S, i))
                   IN  row \in Row /\ row.key = batch[i].key
  <2> TAKE i \in S
  <2>1. SequenceFor(s, S, i) \in Nat
    BY <1>3, <1>4
  <2> QED BY <1>3, <1>5, <2>1 DEF NewRow, Row
<1>7. \A i \in S : /\ Creation(batch[i]) \in Change /\ Creation(batch[i]).key = batch[i].key
                   /\ Creation(batch[i]).kind = "upsert"
  BY <1>5 DEF Creation, Change
<1>8. /\ Mapping(t.records) /\ DOMAIN t.records \subseteq Key
      /\ \A k \in DOMAIN t.records : t.records[k] \in Row /\ t.records[k].key = k
  <2>1. DOMAIN t.records = DOMAIN s.records \cup KeysOf(batch, S)
    BY DEF Grown
  <2>2. KeysOf(batch, S) \subseteq Key
    BY <1>5 DEF KeysOf
  <2>3. \A k \in DOMAIN s.records : t.records[k] \in Row /\ t.records[k].key = k /\ k \in Key
    BY <1>1 DEF StoreTyped, Grown
  <2>4. \A k \in KeysOf(batch, S) : t.records[k] \in Row /\ t.records[k].key = k
    BY <1>6 DEF KeysOf, Grown
  <2> QED BY <2>1, <2>2, <2>3, <2>4 DEF Grown
<1>9. /\ Mapping(t.changes) /\ DOMAIN t.changes \subseteq 1..t.next - 1
      /\ \A n \in DOMAIN t.changes : t.changes[n] \in Change
  <2>1. DOMAIN t.changes = DOMAIN s.changes \cup {SequenceFor(s, S, i) : i \in S}
    BY DEF Grown
  <2>2. \A n \in DOMAIN s.changes : n \in 1..t.next - 1
    BY <1>1, <1>2, <1>3 DEF StoreTyped
  <2>3. \A i \in S : SequenceFor(s, S, i) \in 1..t.next - 1
    BY <1>2, <1>3, <1>4
  <2>4. \A n \in DOMAIN s.changes : t.changes[n] \in Change
    BY <1>1 DEF StoreTyped, Grown
  <2>5. \A i \in S : t.changes[SequenceFor(s, S, i)] \in Change
    BY <1>7 DEF Grown
  <2> QED BY <2>1, <2>2, <2>3, <2>4, <2>5 DEF Grown
<1>10. t.next \in Nat \ {0} /\ t.count \in Int
  BY <1>2, <1>3
<1>11. StoreTyped(t)
  BY <1>1, <1>8, <1>9, <1>10 DEF StoreTyped, Grown
<1>12. LogSound(t)
  <2>1. DOMAIN t.records \cap t.tombstones = {}
    BY <1>1 DEF LogSound, Grown, Admissible, KeysOf
  <2>2. ASSUME NEW k \in DOMAIN t.records PROVE M!CreationKept(t, k)
    <3>1. CASE k \in DOMAIN s.records
      BY <1>1, <3>1 DEF LogSound, M!CreationKept, Grown
    <3>2. CASE k \in KeysOf(batch, S)
      <4>1. PICK i \in S : k = batch[i].key
        BY <3>2 DEF KeysOf
      <4>2. SequenceFor(s, S, i) \in DOMAIN t.changes
            /\ t.changes[SequenceFor(s, S, i)] = Creation(batch[i])
        BY DEF Grown
      <4> QED BY <1>7, <4>1, <4>2 DEF M!CreationKept
    <3> QED BY <3>1, <3>2 DEF Grown
  <2>3. ASSUME NEW n \in DOMAIN t.changes
        PROVE  /\ t.changes[n].key \in DOMAIN t.records \cup t.tombstones
               /\ t.changes[n].kind = "delete" => t.changes[n].key \in t.tombstones
    <3>1. CASE n \in DOMAIN s.changes
      BY <1>1, <3>1 DEF LogSound, Grown
    <3>2. CASE n \in {SequenceFor(s, S, i) : i \in S}
      <4>1. PICK i \in S : n = SequenceFor(s, S, i)
        BY <3>2
      <4>2. t.changes[n] = Creation(batch[i]) /\ batch[i].key \in DOMAIN t.records
        BY <4>1 DEF Grown, KeysOf
      <4> QED BY <1>7, <4>2
    <3> QED BY <3>1, <3>2 DEF Grown
  <2> QED BY <2>1, <2>2, <2>3 DEF LogSound
<1> QED BY <1>11, <1>12 DEF StoreOK

LEMMA GrownPair ==
  ASSUME NEW m, NEW q, NEW limit, Pair(m, q, limit), NEW batch \in Seq(Item),
         NEW S \in SUBSET (1..Len(batch)), Admissible(m, batch, S),
         NEW a, Grown(m, batch, S, a), NEW b, Grown(q, batch, S, b)
  PROVE  Pair(a, b, limit) /\ Step(m, a) /\ Step(q, b)
<1>1. StoreOK(m) /\ StoreOK(q) /\ StoreTyped(m) /\ StoreTyped(q)
  BY DEF Pair, StoreOK
<1>2. SameHistory(m, q) /\ SameLog(m, q, limit) /\ SameSnapshots(m, q)
  BY DEF Pair, Alike
<1>3. Admissible(q, batch, S)
  BY <1>2 DEF Admissible, SameHistory
<1>4. StoreOK(a) /\ StoreOK(b)
  BY <1>1, <1>3, GrownOK
<1>5. \A i \in S : SequenceFor(m, S, i) = SequenceFor(q, S, i)
  BY <1>2 DEF SequenceFor, SameHistory
<1>6. a.records = b.records
  <2>1. m.records = q.records /\ m.next = q.next
    BY <1>2 DEF SameHistory
  <2>2. DOMAIN a.records = DOMAIN b.records
    BY <2>1 DEF Grown
  <2>3. ASSUME NEW k \in DOMAIN a.records PROVE a.records[k] = b.records[k]
    <3>1. CASE k \in DOMAIN m.records
      BY <2>1, <3>1 DEF Grown
    <3>2. CASE k \in KeysOf(batch, S)
      <4>1. PICK i \in S : k = batch[i].key
        BY <3>2 DEF KeysOf
      <4>2. a.records[k] = NewRow(m, batch[i], SequenceFor(m, S, i))
        BY <4>1 DEF Grown
      <4>3. b.records[k] = NewRow(q, batch[i], SequenceFor(q, S, i))
        BY <4>1 DEF Grown
      <4> QED BY <1>5, <2>1, <4>2, <4>3 DEF NewRow
    <3> QED BY <3>1, <3>2 DEF Grown
  <2> QED BY <2>2, <2>3 DEF Mapping, Grown
<1>7. SameHistory(a, b)
  BY <1>2, <1>6 DEF SameHistory, Grown
<1>8. SameLog(a, b, limit)
  <2>1. \A n \in {SequenceFor(m, S, i) : i \in S} :
           n \in DOMAIN a.changes /\ n \in DOMAIN b.changes /\ a.changes[n] = b.changes[n]
    <3> SUFFICES ASSUME NEW i \in S
                 PROVE  LET n == SequenceFor(m, S, i)
                        IN  n \in DOMAIN a.changes /\ n \in DOMAIN b.changes
                            /\ a.changes[n] = b.changes[n]
      OBVIOUS
    <3> QED BY <1>5 DEF Grown
  <2>2. /\ DOMAIN a.changes = DOMAIN m.changes \cup {SequenceFor(m, S, i) : i \in S}
        /\ DOMAIN b.changes = DOMAIN q.changes \cup {SequenceFor(m, S, i) : i \in S}
    <3>1. {SequenceFor(q, S, i) : i \in S} = {SequenceFor(m, S, i) : i \in S}
      BY <1>5
    <3> QED BY <3>1 DEF Grown
  <2>3. \A n \in DOMAIN a.changes \cap DOMAIN b.changes : a.changes[n] = b.changes[n]
    BY <1>2, <2>1, <2>2 DEF SameLog, Grown
  <2>4. ASSUME NEW n \in DOMAIN m.changes PROVE m.changes[n].key \notin KeysOf(batch, S)
    BY <1>1 DEF StoreOK, LogSound, Admissible, KeysOf
  <2>5. ASSUME NEW n \in DOMAIN q.changes PROVE q.changes[n].key \notin KeysOf(batch, S)
    BY <1>1, <1>3 DEF StoreOK, LogSound, Admissible, KeysOf
  <2>6. Purgeable(a, b, limit)
    <3> SUFFICES ASSUME NEW n \in DOMAIN a.changes \ DOMAIN b.changes
                 PROVE  /\ n <= limit
                        /\ a.changes[n].kind = "upsert" =>
                              a.changes[n].key \notin DOMAIN a.records
      BY DEF Purgeable
    <3>1. n \in DOMAIN m.changes \ DOMAIN q.changes /\ a.changes[n] = m.changes[n]
      BY <2>2 DEF Grown
    <3> QED BY <1>2, <2>4, <3>1 DEF SameLog, Purgeable, Grown
  <2>7. Purgeable(b, a, limit)
    <3> SUFFICES ASSUME NEW n \in DOMAIN b.changes \ DOMAIN a.changes
                 PROVE  /\ n <= limit
                        /\ b.changes[n].kind = "upsert" =>
                              b.changes[n].key \notin DOMAIN b.records
      BY DEF Purgeable
    <3>1. n \in DOMAIN q.changes \ DOMAIN m.changes /\ b.changes[n] = q.changes[n]
      BY <2>2 DEF Grown
    <3> QED BY <1>2, <2>5, <3>1 DEF SameLog, Purgeable, Grown
  <2> QED BY <2>3, <2>6, <2>7 DEF SameLog
<1>9. SameSnapshots(a, b)
  BY <1>2 DEF SameSnapshots, Grown
<1>10. Step(m, a) /\ Step(q, b)
  <2>1. Cardinality(S) \in Nat
    <3>1. IsFiniteSet(1..Len(batch))
      BY FS_Interval, Len(batch) \in Nat
    <3> QED BY <3>1, FS_Subset, FS_CardinalityType
  <2> QED BY <1>1, <2>1 DEF Step, Grown, StoreTyped
<1> QED BY <1>4, <1>7, <1>8, <1>9, <1>10 DEF Pair, Alike

\* A batch is answered alike, and stores the same under the same sequences.
LEMMA ArchiveBatchAlike ==
  ASSUME NEW m, NEW q, NEW limit, Pair(m, q, limit), NEW batch \in Seq(Item), NEW e,
         NEW a, a = M!ArchiveBatch(m, e, batch), NEW b, b = Q!ArchiveBatch(q, e, batch)
  PROVE  /\ a.answer = b.answer
         /\ Pair(a.store, b.store, limit) /\ Step(m, a.store) /\ Step(q, b.store)
<1> DEFINE S == ToStore(m, batch, Len(batch))
           plan == M!Plan(m, batch)[Len(batch)]
<1>1. /\ StoreTyped(m) /\ StoreTyped(q) /\ m.epoch = q.epoch /\ m.count = q.count
      /\ m.records = q.records /\ m.tombstones = q.tombstones
      /\ m.count \in Int
  BY DEF Pair, StoreOK, Alike, SameHistory, StoreTyped
<1>2. CASE e # m.epoch
  <2>1. a.store = m /\ b.store = q
    BY <1>1, <1>2 DEF M!ArchiveBatch, Q!ArchiveBatch, M!Reply, Q!Reply
  <2>2. a.answer = b.answer
    BY <1>1, <1>2 DEF M!ArchiveBatch, Q!ArchiveBatch, M!Reply, Q!Reply, M!EpochChanged,
                      Q!EpochChanged
  <2>3. Step(m, m) /\ Step(q, q)
    BY <1>1 DEF Step, StoreTyped
  <2> QED BY <2>1, <2>2, <2>3
<1>3. CASE e = m.epoch
  <2>0. Len(batch) \in Nat /\ Len(batch) \in 0..Len(batch)
    OBVIOUS
  <2>1. Q!Plan(q, batch)[Len(batch)] = plan
    BY <2>0, PlansAlike
  <2>2. PlanSound(m, batch, plan, Len(batch))
    BY <1>1, <2>0, PlansSound
  <2>3. S \in SUBSET (1..Len(batch)) /\ Admissible(m, batch, S)
    <3>1. Admissible(m, batch, S)
      BY <1>1, StoredAdmissible
    <3> QED BY <3>1 DEF ToStore
  <2>4. S = {i \in DOMAIN plan.outcomes : plan.outcomes[i].outcome = "stored"}
    <3>1. DOMAIN plan.outcomes = 1..Len(batch)
      BY <2>2 DEF PlanSound
    <3> QED BY <2>2, <3>1 DEF PlanSound, ToStore
  <2>5. Grown(m, batch, S, a.store)
    <3>1. a.store = M!Admit(m, batch, plan.outcomes)[Len(batch)]
      BY <1>3 DEF M!ArchiveBatch, M!Reply
    <3>2. \A i \in 1..Len(batch) : plan.outcomes[i].outcome = OutcomeAt(m, batch, i)
      BY <2>2 DEF PlanSound
    <3> QED BY <1>1, <3>1, <3>2, MemoryGrown
  <2>6. Grown(q, batch, S, b.store)
    <3>1. b.store = Q!Inserted(q, batch, plan)
      BY <1>1, <1>3, <2>1 DEF Q!ArchiveBatch, Q!Reply
    <3>2. plan.count = q.count + Cardinality(S)
      BY <1>1, <2>2 DEF PlanSound
    <3>3. Admissible(q, batch, S)
      BY <1>1, <2>3 DEF Admissible
    <3> HIDE DEF S, plan
    <3> QED BY <1>1, <2>0, <2>3, <2>4, <3>1, <3>2, <3>3, SqliteGrown
  <2>7. a.answer = b.answer
    BY <1>1, <1>3, <2>1 DEF M!ArchiveBatch, Q!ArchiveBatch, M!Reply, Q!Reply
  <2> HIDE DEF S
  <2> QED BY <2>3, <2>5, <2>6, <2>7, GrownPair
<1> QED BY <1>2, <1>3
-----------------------------------------------------------------------------
(***************************************************************************)
(* Snapshots.                                                              *)
(***************************************************************************)
Members(store) == {M!MemberOf(store.records[k]) : k \in DOMAIN store.records}

\* The members of a new snapshot, by record in memory and by event in SQLite:
\* all live records, since retention keeps the creation of each.
LEMMA MembersAlike ==
  ASSUME NEW s, StoreOK(s)
  PROVE  /\ M!MembersNow(s) = Members(s)
         /\ Q!JoinedMembers(s) = Members(s)
         /\ Members(s) \subseteq Member
<1>1. StoreTyped(s) /\ LogSound(s)
  BY DEF StoreOK
<1>2. M!MembersNow(s) = Members(s)
  <2>1. {j \in DOMAIN s.records : M!CreationKept(s, j)} = DOMAIN s.records
    BY <1>1 DEF LogSound
  <2> QED BY <2>1 DEF M!MembersNow, Members
<1>3. Q!JoinedMembers(s) = Members(s)
  <2> DEFINE created == {n \in DOMAIN s.changes :
                           /\ s.changes[n].kind = "upsert"
                           /\ n <= Q!Watermark(s)
                           /\ s.changes[n].key \in DOMAIN s.records}
  <2>1. Q!JoinedMembers(s) = {M!MemberOf(s.records[s.changes[n].key]) : n \in created}
    BY DEF Q!JoinedMembers, M!MemberOf
  <2>2. \A n \in created : s.changes[n].key \in DOMAIN s.records
    OBVIOUS
  <2>3. ASSUME NEW k \in DOMAIN s.records PROVE \E n \in created : s.changes[n].key = k
    <3>1. PICK n \in DOMAIN s.changes : s.changes[n].key = k /\ s.changes[n].kind = "upsert"
      BY <1>1 DEF LogSound, M!CreationKept
    <3>2. n <= Q!Watermark(s)
      BY <1>1, <3>1 DEF StoreTyped, Q!Watermark
    <3> QED BY <3>1, <3>2
  <2> HIDE DEF created
  <2>4. ASSUME NEW x \in Members(s)
        PROVE  x \in {M!MemberOf(s.records[s.changes[n].key]) : n \in created}
    <3>1. PICK k \in DOMAIN s.records : x = M!MemberOf(s.records[k])
      BY DEF Members
    <3>2. PICK n \in created : s.changes[n].key = k
      BY <2>3
    <3> QED BY <3>1, <3>2
  <2>5. ASSUME NEW x \in {M!MemberOf(s.records[s.changes[n].key]) : n \in created}
        PROVE  x \in Members(s)
    BY <2>2 DEF Members
  <2> QED BY <2>1, <2>4, <2>5
<1>4. ASSUME NEW k \in DOMAIN s.records PROVE M!MemberOf(s.records[k]) \in Member
  <2>1. s.records[k] \in Row
    BY <1>1 DEF StoreTyped
  <2> QED BY <2>1 DEF M!MemberOf, Row, Member
<1> QED BY <1>2, <1>3, <1>4 DEF Members

SnapshotsTyped(f) == Mapping(f) /\ \A i \in DOMAIN f : f[i] \in Snapshot

\* Only the snapshots of a store change.
LEMMA SnapshotsReplaced ==
  ASSUME NEW s, StoreOK(s), NEW f, SnapshotsTyped(f), NEW t, t = [s EXCEPT !.snapshots = f]
  PROVE  /\ StoreOK(t)
         /\ t.epoch = s.epoch /\ t.next = s.next /\ t.count = s.count /\ t.records = s.records
         /\ t.tombstones = s.tombstones /\ t.changes = s.changes
         /\ t.idempotency = s.idempotency
         /\ t.snapshots = f
<1>1. StoreTyped(s) /\ LogSound(s)
  BY DEF StoreOK
<1>2. /\ Mapping(t) /\ DOMAIN t = DOMAIN s
      /\ t.epoch = s.epoch /\ t.next = s.next /\ t.count = s.count /\ t.records = s.records
      /\ t.tombstones = s.tombstones /\ t.changes = s.changes
      /\ t.idempotency = s.idempotency /\ t.snapshots = f
  BY <1>1 DEF StoreTyped, Fields, Mapping
<1>3. StoreTyped(t)
  BY <1>1, <1>2 DEF StoreTyped, SnapshotsTyped
<1>4. LogSound(t)
  BY <1>1, <1>2 DEF LogSound, M!CreationKept
<1> QED BY <1>2, <1>3, <1>4 DEF StoreOK

SameSnapshotRows(f, g) == \A i \in DOMAIN f \cap DOMAIN g : SameSnapshot(f[i], g[i])

LEMMA SnapshotsReplacedPair ==
  ASSUME NEW m, NEW q, NEW limit, Pair(m, q, limit),
         NEW f, NEW g, SnapshotsTyped(f), SnapshotsTyped(g), SameSnapshotRows(f, g),
         NEW a, NEW b, a = [m EXCEPT !.snapshots = f], b = [q EXCEPT !.snapshots = g]
  PROVE  /\ Pair(a, b, limit)
         /\ a.snapshots = f /\ b.snapshots = g /\ a.next = m.next /\ b.next = q.next
<1>1. StoreOK(m) /\ StoreOK(q) /\ Alike(m, q, limit)
  BY DEF Pair
<1>2. /\ StoreOK(a)
      /\ a.epoch = m.epoch /\ a.next = m.next /\ a.count = m.count /\ a.records = m.records
      /\ a.tombstones = m.tombstones /\ a.changes = m.changes
      /\ a.idempotency = m.idempotency /\ a.snapshots = f
  BY <1>1, SnapshotsReplaced
<1>3. /\ StoreOK(b)
      /\ b.epoch = q.epoch /\ b.next = q.next /\ b.count = q.count /\ b.records = q.records
      /\ b.tombstones = q.tombstones /\ b.changes = q.changes
      /\ b.idempotency = q.idempotency /\ b.snapshots = g
  BY <1>1, SnapshotsReplaced
<1>4. Alike(a, b, limit)
  BY <1>1, <1>2, <1>3 DEF Alike, SameHistory, SameLog, Purgeable, SameSnapshots,
                          SameSnapshotRows
<1> QED BY <1>2, <1>3, <1>4 DEF Pair

NewSnapshot(s) ==
    [epoch |-> s.epoch, watermark |-> s.next - 1, status |-> "active", items |-> Members(s),
     old |-> FALSE]

SnapshotAnswer(s) ==
    [epoch |-> s.epoch, watermark |-> s.next - 1, memberCount |-> Cardinality(Members(s))]

\* A new snapshot is the same in both, or refused for want of room.
LEMMA CreateSnapshotCases ==
  ASSUME NEW m, NEW q, NEW limit, Pair(m, q, limit), NEW id,
         NEW a, a = M!CreateSnapshot(m, id), NEW b, b = Q!CreateSnapshot(q, id)
  PROVE  LET refused == Error("ERR_QUOTA_EXCEEDED")
         IN  /\ \/ a.store = m /\ a.answer = refused
                \/ /\ a.store = [m EXCEPT !.snapshots = Added(m.snapshots, id, NewSnapshot(m))]
                   /\ a.answer = SnapshotAnswer(m)
             /\ \/ b.store = q /\ b.answer = refused
                \/ /\ b.store = [q EXCEPT !.snapshots = Added(q.snapshots, id, NewSnapshot(m))]
                   /\ b.answer = SnapshotAnswer(m)
             /\ SnapshotAnswer(m) # refused
             /\ m.snapshots = q.snapshots => a.answer = b.answer
<1> DEFINE refused == Error("ERR_QUOTA_EXCEEDED")
<1>1. StoreOK(m) /\ StoreOK(q) /\ m.epoch = q.epoch /\ m.next = q.next /\ m.records = q.records
  BY DEF Pair, Alike, SameHistory
<1>2. /\ M!MembersNow(m) = Members(m) /\ Q!JoinedMembers(q) = Members(m)
      /\ Members(q) = Members(m)
  BY <1>1, MembersAlike DEF Members
<1>3. M!Error("ERR_QUOTA_EXCEEDED") = refused /\ Q!Error("ERR_QUOTA_EXCEEDED") = refused
  BY ErrorOf
<1>4. M!Watermark(m) = m.next - 1 /\ Q!Watermark(q) = m.next - 1
  BY <1>1 DEF M!Watermark, Q!Watermark
<1>5. SnapshotAnswer(m) # refused
  <2>1. DOMAIN refused = {"error"} /\ DOMAIN SnapshotAnswer(m) = {"epoch", "watermark", "memberCount"}
    BY DEF SnapshotAnswer, Error
  <2> HIDE DEF refused
  <2> QED BY <2>1
<1> DEFINE fullM == \/ Cardinality(DOMAIN m.snapshots) >= MaxSnapshots
                    \/ M!ItemsIn(m, DOMAIN m.snapshots) + Cardinality(Members(m)) > MaxMembers
           fullQ == \/ Cardinality(DOMAIN q.snapshots) >= MaxSnapshots
                    \/ Q!ItemsIn(q, DOMAIN q.snapshots) + Cardinality(Members(m)) > MaxMembers
<1>6. M!Added(m.snapshots, id, NewSnapshot(m)) = Added(m.snapshots, id, NewSnapshot(m))
  BY SameAdded
<1>7. Q!Added(q.snapshots, id, NewSnapshot(m)) = Added(q.snapshots, id, NewSnapshot(m))
  BY SameAdded
<1>8. a = IF fullM THEN M!Reply(m, refused)
          ELSE M!Reply([m EXCEPT !.snapshots = Added(m.snapshots, id, NewSnapshot(m))],
                       SnapshotAnswer(m))
  <2>1. \A S : M!Cardinality(S) = Cardinality(S)
    BY SameCardinality
  <2> QED BY <1>2, <1>3, <1>4, <1>6, <2>1 DEF M!CreateSnapshot, NewSnapshot, SnapshotAnswer
<1>9. b = IF fullQ THEN Q!Reply(q, refused)
          ELSE Q!Reply([q EXCEPT !.snapshots = Added(q.snapshots, id, NewSnapshot(m))],
                       SnapshotAnswer(m))
  <2>1. \A S : Q!Cardinality(S) = Cardinality(S)
    BY SameCardinality
  <2> QED BY <1>1, <1>2, <1>3, <1>4, <1>7, <2>1 DEF Q!CreateSnapshot, NewSnapshot, SnapshotAnswer
<1>10. m.snapshots = q.snapshots => (fullM <=> fullQ)
  <2> HAVE m.snapshots = q.snapshots
  <2>1. M!ItemsIn(m, DOMAIN m.snapshots) = Q!ItemsIn(q, DOMAIN q.snapshots)
    BY DEF M!ItemsIn, Q!ItemsIn, M!MapThenSumSet, Q!MapThenSumSet, M!MapThenFoldSet,
           Q!MapThenFoldSet, M!Cardinality, Q!Cardinality
  <2> QED BY <2>1
<1> HIDE DEF fullM, fullQ, refused
<1>11. /\ \/ a.store = m /\ a.answer = refused /\ fullM
          \/ /\ a.store = [m EXCEPT !.snapshots = Added(m.snapshots, id, NewSnapshot(m))]
             /\ a.answer = SnapshotAnswer(m) /\ ~fullM
  BY <1>8 DEF M!Reply
<1>12. /\ \/ b.store = q /\ b.answer = refused /\ fullQ
          \/ /\ b.store = [q EXCEPT !.snapshots = Added(q.snapshots, id, NewSnapshot(m))]
             /\ b.answer = SnapshotAnswer(m) /\ ~fullQ
  BY <1>9 DEF Q!Reply
<1> QED BY <1>5, <1>10, <1>11, <1>12 DEF refused

LEMMA CreateSnapshotAlike ==
  ASSUME NEW m, NEW q, NEW limit, Pair(m, q, limit),
         NEW id, id \notin DOMAIN m.snapshots \cup DOMAIN q.snapshots,
         NEW a, a = M!CreateSnapshot(m, id), NEW b, b = Q!CreateSnapshot(q, id)
  PROVE  /\ Pair(a.store, b.store, limit)
         /\ a.store.next = m.next
         /\ DOMAIN a.store.snapshots \subseteq DOMAIN m.snapshots \cup {id}
         /\ DOMAIN b.store.snapshots \subseteq DOMAIN q.snapshots \cup {id}
         /\ m.snapshots = q.snapshots => a.answer = b.answer
         /\ a.answer = b.answer /\ Tidy(m, q) => Tidy(a.store, b.store)
<1> DEFINE f == Added(m.snapshots, id, NewSnapshot(m))
           g == Added(q.snapshots, id, NewSnapshot(m))
           refused == Error("ERR_QUOTA_EXCEEDED")
<1> HIDE DEF f, g, refused
<1>0. /\ f = Added(m.snapshots, id, NewSnapshot(m)) /\ g = Added(q.snapshots, id, NewSnapshot(m))
      /\ refused = Error("ERR_QUOTA_EXCEEDED")
  BY DEF f, g, refused
<1>1. StoreOK(m) /\ StoreOK(q) /\ SameSnapshots(m, q) /\ NewSnapshot(m) \in Snapshot
  <2>1. StoreOK(m) /\ StoreOK(q) /\ SameSnapshots(m, q)
    BY DEF Pair, Alike
  <2>2. m.next - 1 \in Nat /\ m.epoch \in Nat
    BY <2>1 DEF StoreOK, StoreTyped
  <2> QED BY <2>1, <2>2, MembersAlike DEF NewSnapshot, Snapshot
<1>2. /\ SnapshotsTyped(f) /\ DOMAIN f = DOMAIN m.snapshots \cup {id}
      /\ f[id] = NewSnapshot(m)
      /\ \A i \in DOMAIN m.snapshots : i # id => f[i] = m.snapshots[i]
  BY <1>0, <1>1 DEF SnapshotsTyped, Added, Mapping, StoreOK, StoreTyped
<1>3. /\ SnapshotsTyped(g) /\ DOMAIN g = DOMAIN q.snapshots \cup {id}
      /\ g[id] = NewSnapshot(m)
      /\ \A i \in DOMAIN q.snapshots : i # id => g[i] = q.snapshots[i]
  BY <1>0, <1>1 DEF SnapshotsTyped, Added, Mapping, StoreOK, StoreTyped
<1>4. SnapshotsTyped(m.snapshots) /\ SnapshotsTyped(q.snapshots)
  BY <1>1 DEF StoreOK, StoreTyped, SnapshotsTyped
<1>5. m = [m EXCEPT !.snapshots = m.snapshots] /\ q = [q EXCEPT !.snapshots = q.snapshots]
  BY <1>1 DEF StoreOK, StoreTyped, Mapping, Fields
<1>6. /\ \/ a.store = m /\ a.answer = refused
         \/ a.store = [m EXCEPT !.snapshots = f] /\ a.answer = SnapshotAnswer(m)
      /\ \/ b.store = q /\ b.answer = refused
         \/ b.store = [q EXCEPT !.snapshots = g] /\ b.answer = SnapshotAnswer(m)
      /\ SnapshotAnswer(m) # refused
      /\ m.snapshots = q.snapshots => a.answer = b.answer
  BY <1>0, CreateSnapshotCases
<1>9. PICK x \in {m.snapshots, f} :
         a.store = [m EXCEPT !.snapshots = x] /\ (x = f <=> a.answer # refused)
  BY <1>2, <1>5, <1>6
<1>10. PICK y \in {q.snapshots, g} :
         b.store = [q EXCEPT !.snapshots = y] /\ (y = g <=> b.answer # refused)
  BY <1>3, <1>5, <1>6
<1>11. SameSnapshotRows(x, y)
  <2>1. SameSnapshot(NewSnapshot(m), NewSnapshot(m))
    BY DEF SameSnapshot
  <2> QED BY <1>1, <1>2, <1>3, <1>9, <1>10, <2>1 DEF SameSnapshotRows, SameSnapshots
<1>12. SnapshotsTyped(x) /\ SnapshotsTyped(y)
  BY <1>2, <1>3, <1>4, <1>9, <1>10
<1>13. /\ Pair(a.store, b.store, limit)
       /\ a.store.snapshots = x /\ b.store.snapshots = y /\ a.store.next = m.next
  BY <1>9, <1>10, <1>11, <1>12, SnapshotsReplacedPair
<1>14. a.answer = b.answer /\ Tidy(m, q) => Tidy(a.store, b.store)
  <2> HAVE a.answer = b.answer /\ Tidy(m, q)
  <2>1. CASE x = f /\ y = g
    BY <1>2, <1>3, <1>13, <2>1 DEF Tidy
  <2>2. CASE x = m.snapshots /\ y = q.snapshots
    BY <1>13, <2>2 DEF Tidy
  <2> QED BY <1>9, <1>10, <2>1, <2>2
<1> QED BY <1>2, <1>3, <1>6, <1>9, <1>10, <1>13, <1>14
-----------------------------------------------------------------------------
(***************************************************************************)
(* Retention.  A purge takes items only from a snapshot that serves none,  *)
(* and a snapshot's row only when it has expired.                          *)
(***************************************************************************)
Purged(f, g) ==
    /\ SnapshotsTyped(g)
    /\ DOMAIN g \subseteq DOMAIN f
    /\ \A i \in DOMAIN f \ DOMAIN g : f[i].old
    /\ \A i \in DOMAIN g :
          /\ g[i].epoch = f[i].epoch /\ g[i].watermark = f[i].watermark
          /\ g[i].status = f[i].status /\ g[i].old = f[i].old
          /\ ~f[i].old /\ f[i].status = "active" => g[i].items = f[i].items

\* The rows of targets, which are due, lose items; the rows of gone, expired
\* ones, are deleted.
LEMMA ItemsPurged ==
  ASSUME NEW f, SnapshotsTyped(f), NEW gone \in SUBSET DOMAIN f, NEW reached \in SUBSET DOMAIN f,
         \A i \in gone : f[i].old,
         \A i \in reached : f[i].old \/ f[i].status = "invalidated",
         NEW g, Mapping(g), DOMAIN g = DOMAIN f \ gone,
         \A i \in DOMAIN g :
            IF i \in reached THEN \E x \in SUBSET f[i].items : g[i] = [f[i] EXCEPT !.items = x]
            ELSE g[i] = f[i]
  PROVE  Purged(f, g)
<1>2. ASSUME NEW i \in DOMAIN g
      PROVE  /\ g[i] \in Snapshot
             /\ g[i].epoch = f[i].epoch /\ g[i].watermark = f[i].watermark
             /\ g[i].status = f[i].status /\ g[i].old = f[i].old
             /\ ~f[i].old /\ f[i].status = "active" => g[i].items = f[i].items
  <2>1. f[i] \in Snapshot /\ i \in DOMAIN f
    BY DEF SnapshotsTyped
  <2>2. CASE i \in reached
    <3>1. PICK rest \in SUBSET f[i].items : g[i] = [f[i] EXCEPT !.items = rest]
      BY <2>2
    <3>2. f[i].old \/ f[i].status = "invalidated"
      BY <2>2
    <3> QED BY <2>1, <3>1, <3>2 DEF Snapshot
  <2>3. CASE i \notin reached
    BY <2>1, <2>3
  <2> QED BY <2>2, <2>3
<1> QED BY <1>2 DEF Purged, SnapshotsTyped

LEMMA MemoryPurged ==
  ASSUME NEW s, StoreOK(s)
  PROVE  \E f : Purged(s.snapshots, f) /\ M!PurgeSnapshots(s) = [s EXCEPT !.snapshots = f]
<1> DEFINE targets == M!DueSnapshots(s)
           reached == {i \in targets : M!Allowance(s, targets, i) > 0}
           Rest(i) == M!Remaining(s.snapshots[i].items, M!Allowance(s, targets, i))
           gone    == {i \in reached : Rest(i) = {} /\ s.snapshots[i].old}
           f == [i \in DOMAIN s.snapshots \ gone |->
                   IF i \in reached THEN [s.snapshots[i] EXCEPT !.items = Rest(i)]
                   ELSE s.snapshots[i]]
<1>1. M!PurgeSnapshots(s) = [s EXCEPT !.snapshots = f]
  BY DEF M!PurgeSnapshots
<1>2. \A i \in targets : /\ i \in DOMAIN s.snapshots
                         /\ s.snapshots[i].old \/ s.snapshots[i].status = "invalidated"
  BY DEF M!DueSnapshots, M!First, M!DueSnapshot
<1>3. SnapshotsTyped(s.snapshots)
  BY DEF StoreOK, StoreTyped, SnapshotsTyped
<1>4. \A i : Rest(i) \subseteq s.snapshots[i].items
  BY DEF M!Remaining
<1>5. \A i \in gone : s.snapshots[i].old /\ i \in DOMAIN s.snapshots
  BY <1>2
<1>6. \A i \in reached : /\ i \in DOMAIN s.snapshots
                         /\ s.snapshots[i].old \/ s.snapshots[i].status = "invalidated"
  BY <1>2
<1> HIDE DEF targets, reached, Rest, gone
<1>7. Purged(s.snapshots, f)
  <2>1. gone \in SUBSET DOMAIN s.snapshots /\ reached \in SUBSET DOMAIN s.snapshots
    BY <1>5, <1>6
  <2>2. Mapping(f) /\ DOMAIN f = DOMAIN s.snapshots \ gone
    BY DEF Mapping
  <2>3. ASSUME NEW i \in DOMAIN f
        PROVE  IF i \in reached
               THEN \E x \in SUBSET s.snapshots[i].items :
                       f[i] = [s.snapshots[i] EXCEPT !.items = x]
               ELSE f[i] = s.snapshots[i]
    <3>1. Rest(i) \in SUBSET s.snapshots[i].items
      BY <1>4
    <3> QED BY <2>2, <3>1
  <2> HIDE DEF f
  <2> QED BY <1>3, <1>5, <1>6, <2>1, <2>2, <2>3, ItemsPurged
<1> HIDE DEF f
<1> QED BY <1>1, <1>7

LEMMA SqlitePurged ==
  ASSUME NEW s, StoreOK(s)
  PROVE  \E f : Purged(s.snapshots, f) /\ Q!PurgeSnapshots(s) = [s EXCEPT !.snapshots = f]
<1> DEFINE targets == Q!DueSnapshots(s)
           reached == {i \in targets : Q!Allowance(s, targets, i) > 0}
           Rest(i) == Q!Remaining(s.snapshots[i].items, Q!Allowance(s, targets, i))
           gone    == IF Q!ItemsIn(s, targets) < ItemBudget
                      THEN {i \in targets : s.snapshots[i].old} ELSE {}
           f == [i \in DOMAIN s.snapshots \ gone |->
                   IF i \in reached THEN [s.snapshots[i] EXCEPT !.items = Rest(i)]
                   ELSE s.snapshots[i]]
<1>1. Q!PurgeSnapshots(s) = [s EXCEPT !.snapshots = f]
  BY DEF Q!PurgeSnapshots
<1>2. \A i \in targets : /\ i \in DOMAIN s.snapshots
                         /\ s.snapshots[i].old \/ s.snapshots[i].status = "invalidated"
  BY DEF Q!DueSnapshots, Q!First
<1>3. SnapshotsTyped(s.snapshots)
  BY DEF StoreOK, StoreTyped, SnapshotsTyped
<1>4. \A i : Rest(i) \subseteq s.snapshots[i].items
  BY DEF Q!Remaining
<1>5. \A i \in gone : s.snapshots[i].old /\ i \in DOMAIN s.snapshots
  BY <1>2
<1>6. \A i \in reached : /\ i \in DOMAIN s.snapshots
                         /\ s.snapshots[i].old \/ s.snapshots[i].status = "invalidated"
  BY <1>2
<1> HIDE DEF targets, reached, Rest, gone
<1>7. Purged(s.snapshots, f)
  <2>1. gone \in SUBSET DOMAIN s.snapshots /\ reached \in SUBSET DOMAIN s.snapshots
    BY <1>5, <1>6
  <2>2. Mapping(f) /\ DOMAIN f = DOMAIN s.snapshots \ gone
    BY DEF Mapping
  <2>3. ASSUME NEW i \in DOMAIN f
        PROVE  IF i \in reached
               THEN \E x \in SUBSET s.snapshots[i].items :
                       f[i] = [s.snapshots[i] EXCEPT !.items = x]
               ELSE f[i] = s.snapshots[i]
    <3>1. Rest(i) \in SUBSET s.snapshots[i].items
      BY <1>4
    <3> QED BY <2>2, <3>1
  <2> HIDE DEF f
  <2> QED BY <1>3, <1>5, <1>6, <2>1, <2>2, <2>3, ItemsPurged
<1> HIDE DEF f
<1> QED BY <1>1, <1>7

LEMMA PurgeSnapshotsAlike ==
  ASSUME NEW m, NEW q, NEW limit, Pair(m, q, limit),
         NEW a, a = M!PurgeSnapshots(m), NEW b, b = Q!PurgeSnapshots(q)
  PROVE  /\ Pair(a, b, limit) /\ a.next = m.next
         /\ DOMAIN a.snapshots \subseteq DOMAIN m.snapshots
         /\ DOMAIN b.snapshots \subseteq DOMAIN q.snapshots
         /\ Tidy(m, q) => Tidy(a, b)
<1>1. StoreOK(m) /\ StoreOK(q) /\ SameSnapshots(m, q)
  BY DEF Pair, Alike
<1>2. PICK f : Purged(m.snapshots, f) /\ a = [m EXCEPT !.snapshots = f]
  BY <1>1, MemoryPurged
<1>3. PICK g : Purged(q.snapshots, g) /\ b = [q EXCEPT !.snapshots = g]
  BY <1>1, SqlitePurged
<1>4. SameSnapshotRows(f, g)
  <2> SUFFICES ASSUME NEW i \in DOMAIN f \cap DOMAIN g PROVE SameSnapshot(f[i], g[i])
    BY DEF SameSnapshotRows
  <2>1. SameSnapshot(m.snapshots[i], q.snapshots[i])
    BY <1>1, <1>2, <1>3 DEF SameSnapshots, Purged
  <2> QED BY <1>2, <1>3, <2>1 DEF SameSnapshot, Purged
<1>5. SnapshotsTyped(f) /\ SnapshotsTyped(g)
  BY <1>2, <1>3 DEF Purged
<1>6. Pair(a, b, limit) /\ a.snapshots = f /\ b.snapshots = g /\ a.next = m.next
  BY <1>2, <1>3, <1>4, <1>5, SnapshotsReplacedPair
<1>7. Tidy(m, q) => Tidy(a, b)
  <2> HAVE Tidy(m, q)
  <2>1. ASSUME NEW i \in DOMAIN f \ DOMAIN g PROVE f[i].old
    <3>1. i \in DOMAIN m.snapshots /\ f[i].old = m.snapshots[i].old
      BY <1>2 DEF Purged
    <3>2. CASE i \notin DOMAIN q.snapshots
      BY <3>1, <3>2 DEF Tidy
    <3>3. CASE i \in DOMAIN q.snapshots
      BY <1>1, <1>3, <3>1, <3>3 DEF Purged, SameSnapshots, SameSnapshot
    <3> QED BY <3>2, <3>3
  <2>2. ASSUME NEW i \in DOMAIN g \ DOMAIN f PROVE g[i].old
    <3>1. i \in DOMAIN q.snapshots /\ g[i].old = q.snapshots[i].old
      BY <1>3 DEF Purged
    <3>2. CASE i \notin DOMAIN m.snapshots
      BY <3>1, <3>2 DEF Tidy
    <3>3. CASE i \in DOMAIN m.snapshots
      BY <1>1, <1>2, <3>1, <3>3 DEF Purged, SameSnapshots, SameSnapshot
    <3> QED BY <3>2, <3>3
  <2> QED BY <1>6, <2>1, <2>2 DEF Tidy
<1> QED BY <1>2, <1>3, <1>6, <1>7 DEF Purged

(***************************************************************************)
(* A purge of the log takes aged events, and leaves a live record's        *)
(* creation.                                                               *)
(***************************************************************************)
Thinned(s, t, limit) ==
    /\ Mapping(t) /\ Fields \subseteq DOMAIN t
    /\ t.epoch = s.epoch /\ t.next = s.next /\ t.count = s.count /\ t.records = s.records
    /\ t.tombstones = s.tombstones /\ t.snapshots = s.snapshots
    /\ t.idempotency = s.idempotency
    /\ Mapping(t.changes) /\ DOMAIN t.changes \subseteq DOMAIN s.changes
    /\ \A n \in DOMAIN t.changes : t.changes[n] = s.changes[n]
    /\ \A n \in DOMAIN s.changes \ DOMAIN t.changes :
          /\ n <= limit
          /\ s.changes[n].kind = "upsert" => s.changes[n].key \notin DOMAIN s.records

LEMMA MemoryThinned ==
  ASSUME NEW s, StoreOK(s), NEW limit
  PROVE  Thinned(s, M!PurgeChanges(s, limit), limit)
<1> DEFINE examined == M!Examined(s, limit)
           changes == M!Dropped(s.changes, {n \in examined : ~M!Protected(s, n)})
           position == M!ResumeAt(s, examined)
           t == M!PurgeChanges(s, limit)
<1>1. t = [s EXCEPT !.changes = changes, !.purgeAt = position]
  BY DEF M!PurgeChanges
<1>2. \A n \in examined : n <= limit
  BY DEF M!Examined, M!First
<1>3. /\ Mapping(changes) /\ DOMAIN changes \subseteq DOMAIN s.changes
      /\ \A n \in DOMAIN changes : changes[n] = s.changes[n]
      /\ \A n \in DOMAIN s.changes \ DOMAIN changes :
            /\ n <= limit
            /\ s.changes[n].kind = "upsert" => s.changes[n].key \notin DOMAIN s.records
  <2> HIDE DEF examined
  <2> QED BY <1>2 DEF Mapping, M!Dropped, M!Protected
<1> HIDE DEF changes, position, t
<1>4. /\ Mapping(t) /\ Fields \subseteq DOMAIN t
      /\ t.epoch = s.epoch /\ t.next = s.next /\ t.count = s.count /\ t.records = s.records
      /\ t.tombstones = s.tombstones /\ t.snapshots = s.snapshots
      /\ t.idempotency = s.idempotency /\ t.changes = changes
  BY <1>1 DEF StoreOK, StoreTyped, Mapping, Fields
<1> QED BY <1>3, <1>4 DEF Thinned, t

LEMMA SqliteThinned ==
  ASSUME NEW s, StoreOK(s), NEW limit
  PROVE  Thinned(s, Q!PurgeChanges(s, limit), limit)
<1> DEFINE due == {n \in DOMAIN s.changes : Q!Eligible(s, n, limit)}
           changes == Q!Dropped(s.changes, Q!First(due, ItemBudget))
           t == Q!PurgeChanges(s, limit)
<1>1. t = [s EXCEPT !.changes = changes]
  BY DEF Q!PurgeChanges
<1>2. /\ Mapping(changes) /\ DOMAIN changes \subseteq DOMAIN s.changes
      /\ \A n \in DOMAIN changes : changes[n] = s.changes[n]
      /\ \A n \in DOMAIN s.changes \ DOMAIN changes :
            /\ n <= limit
            /\ s.changes[n].kind = "upsert" => s.changes[n].key \notin DOMAIN s.records
  BY DEF Mapping, Q!Dropped, Q!First, Q!Eligible
<1> HIDE DEF changes, t
<1>3. /\ Mapping(t) /\ Fields \subseteq DOMAIN t
      /\ t.epoch = s.epoch /\ t.next = s.next /\ t.count = s.count /\ t.records = s.records
      /\ t.tombstones = s.tombstones /\ t.snapshots = s.snapshots
      /\ t.idempotency = s.idempotency /\ t.changes = changes
  BY <1>1 DEF StoreOK, StoreTyped, Mapping, Fields
<1> QED BY <1>2, <1>3 DEF Thinned, t

LEMMA ThinnedOK ==
  ASSUME NEW s, StoreOK(s), NEW limit, NEW t, Thinned(s, t, limit)
  PROVE  StoreOK(t)
<1>1. StoreTyped(s) /\ LogSound(s)
  BY DEF StoreOK
<1>2. StoreTyped(t)
  <2>1. \A n \in DOMAIN t.changes : t.changes[n] \in Change
    BY <1>1 DEF StoreTyped, Thinned
  <2>2. DOMAIN t.changes \subseteq 1..t.next - 1
    BY <1>1 DEF StoreTyped, Thinned
  <2> QED BY <1>1, <2>1, <2>2 DEF StoreTyped, Thinned
<1>3. LogSound(t)
  <2>1. ASSUME NEW k \in DOMAIN t.records PROVE M!CreationKept(t, k)
    <3>1. k \in DOMAIN s.records
      BY DEF Thinned
    <3>2. PICK n \in DOMAIN s.changes : s.changes[n].key = k /\ s.changes[n].kind = "upsert"
      BY <1>1, <3>1 DEF LogSound, M!CreationKept
    <3>3. n \in DOMAIN t.changes
      BY <3>1, <3>2 DEF Thinned
    <3> QED BY <3>2, <3>3 DEF M!CreationKept, Thinned
  <2> QED BY <1>1, <2>1 DEF LogSound, Thinned
<1> QED BY <1>2, <1>3 DEF StoreOK

LEMMA PurgeChangesAlike ==
  ASSUME NEW m, NEW q, NEW limit, Pair(m, q, limit),
         NEW a, a = M!PurgeChanges(m, limit), NEW b, b = Q!PurgeChanges(q, limit)
  PROVE  /\ Pair(a, b, limit) /\ a.next = m.next
         /\ a.snapshots = m.snapshots /\ b.snapshots = q.snapshots
<1>1. StoreOK(m) /\ StoreOK(q) /\ Alike(m, q, limit)
  BY DEF Pair
<1>2. Thinned(m, a, limit) /\ Thinned(q, b, limit)
  BY <1>1, MemoryThinned, SqliteThinned
<1>3. StoreOK(a) /\ StoreOK(b)
  BY <1>1, <1>2, ThinnedOK
<1>4. SameHistory(a, b) /\ SameSnapshots(a, b)
  BY <1>1, <1>2 DEF Alike, SameHistory, SameSnapshots, Thinned
<1>5. \A n \in DOMAIN m.changes \cap DOMAIN q.changes : m.changes[n] = q.changes[n]
  BY <1>1 DEF Alike, SameLog
<1>6. m.records = q.records /\ a.records = m.records /\ b.records = q.records
  BY <1>1, <1>2 DEF Alike, SameHistory, Thinned
<1>7. Purgeable(m, q, limit) /\ Purgeable(q, m, limit)
  BY <1>1 DEF Alike, SameLog
<1>8. Purgeable(a, b, limit)
  <2> SUFFICES ASSUME NEW n \in DOMAIN a.changes \ DOMAIN b.changes
               PROVE  /\ n <= limit
                      /\ a.changes[n].kind = "upsert" => a.changes[n].key \notin DOMAIN a.records
    BY DEF Purgeable
  <2>1. n \in DOMAIN m.changes /\ a.changes[n] = m.changes[n]
    BY <1>2 DEF Thinned
  <2>2. CASE n \notin DOMAIN q.changes
    BY <1>6, <1>7, <2>1, <2>2 DEF Purgeable
  <2>3. CASE n \in DOMAIN q.changes
    BY <1>2, <1>5, <1>6, <2>1, <2>3 DEF Thinned
  <2> QED BY <2>2, <2>3
<1>9. Purgeable(b, a, limit)
  <2> SUFFICES ASSUME NEW n \in DOMAIN b.changes \ DOMAIN a.changes
               PROVE  /\ n <= limit
                      /\ b.changes[n].kind = "upsert" => b.changes[n].key \notin DOMAIN b.records
    BY DEF Purgeable
  <2>1. n \in DOMAIN q.changes /\ b.changes[n] = q.changes[n]
    BY <1>2 DEF Thinned
  <2>2. CASE n \notin DOMAIN m.changes
    BY <1>6, <1>7, <2>1, <2>2 DEF Purgeable
  <2>3. CASE n \in DOMAIN m.changes
    BY <1>2, <1>5, <1>6, <2>1, <2>3 DEF Thinned
  <2> QED BY <2>2, <2>3
<1>10. SameLog(a, b, limit)
  BY <1>2, <1>5, <1>8, <1>9 DEF SameLog, Thinned
<1> QED BY <1>2, <1>3, <1>4, <1>10 DEF Pair, Alike, Thinned
-----------------------------------------------------------------------------
(***************************************************************************)
(* Time.                                                                   *)
(***************************************************************************)
SnapshotAged(s, i) == [s EXCEPT !.snapshots = Aging(@, i)]

LEMMA SnapshotsAge ==
  ASSUME NEW m, NEW q, NEW limit, Pair(m, q, limit), NEW i,
         NEW a, a = SnapshotAged(m, i), NEW b, b = SnapshotAged(q, i)
  PROVE  /\ Pair(a, b, limit) /\ a.next = m.next
         /\ DOMAIN a.snapshots = DOMAIN m.snapshots
         /\ DOMAIN b.snapshots = DOMAIN q.snapshots
         /\ Tidy(m, q) => Tidy(a, b)
<1> DEFINE f == Aging(m.snapshots, i)
           g == Aging(q.snapshots, i)
<1>1. /\ SnapshotsTyped(m.snapshots) /\ SnapshotsTyped(q.snapshots)
      /\ SameSnapshotRows(m.snapshots, q.snapshots)
  BY DEF Pair, Alike, StoreOK, StoreTyped, SnapshotsTyped, SameSnapshots, SameSnapshotRows
<1>2. ASSUME NEW s, SnapshotsTyped(s)
      PROVE  LET t == Aging(s, i)
             IN  /\ SnapshotsTyped(t) /\ DOMAIN t = DOMAIN s
                 /\ \A j \in DOMAIN s :
                       /\ t[j].epoch = s[j].epoch /\ t[j].watermark = s[j].watermark
                       /\ t[j].status = s[j].status /\ t[j].items = s[j].items
                       /\ t[j].old = IF j = i THEN TRUE ELSE s[j].old
  <2> DEFINE t == Aging(s, i)
  <2>1. DOMAIN t = DOMAIN s /\ Mapping(t)
    BY <1>2 DEF Aging, Mapping, SnapshotsTyped
  <2>2. ASSUME NEW j \in DOMAIN s
        PROVE  /\ t[j] \in Snapshot
               /\ t[j].epoch = s[j].epoch /\ t[j].watermark = s[j].watermark
               /\ t[j].status = s[j].status /\ t[j].items = s[j].items
               /\ t[j].old = IF j = i THEN TRUE ELSE s[j].old
    <3>1. s[j] \in Snapshot
      BY <1>2 DEF SnapshotsTyped
    <3>2. t[j] = IF j = i THEN [s[j] EXCEPT !.old = TRUE] ELSE s[j]
      BY DEF Aging
    <3> HIDE DEF t
    <3>3. CASE j = i
      <4>1. t[j] = [s[j] EXCEPT !.old = TRUE]
        BY <3>2, <3>3
      <4> QED BY <3>1, <3>3, <4>1 DEF Snapshot
    <3>4. CASE j # i
      BY <3>1, <3>2, <3>4
    <3> QED BY <3>3, <3>4
  <2> HIDE DEF t
  <2>3. SnapshotsTyped(t) /\ DOMAIN t = DOMAIN s
    BY <2>1, <2>2 DEF SnapshotsTyped
  <2> QED BY <2>2, <2>3 DEF t
<1> HIDE DEF f, g
<1>3. /\ SnapshotsTyped(f) /\ DOMAIN f = DOMAIN m.snapshots
      /\ \A j \in DOMAIN m.snapshots :
            /\ f[j].epoch = m.snapshots[j].epoch /\ f[j].watermark = m.snapshots[j].watermark
            /\ f[j].status = m.snapshots[j].status /\ f[j].items = m.snapshots[j].items
            /\ f[j].old = IF j = i THEN TRUE ELSE m.snapshots[j].old
  BY <1>1, <1>2 DEF f
<1>4. /\ SnapshotsTyped(g) /\ DOMAIN g = DOMAIN q.snapshots
      /\ \A j \in DOMAIN q.snapshots :
            /\ g[j].epoch = q.snapshots[j].epoch /\ g[j].watermark = q.snapshots[j].watermark
            /\ g[j].status = q.snapshots[j].status /\ g[j].items = q.snapshots[j].items
            /\ g[j].old = IF j = i THEN TRUE ELSE q.snapshots[j].old
  BY <1>1, <1>2 DEF g
<1>5. SameSnapshotRows(f, g)
  <2> SUFFICES ASSUME NEW j \in DOMAIN f \cap DOMAIN g PROVE SameSnapshot(f[j], g[j])
    BY DEF SameSnapshotRows
  <2>1. SameSnapshot(m.snapshots[j], q.snapshots[j])
    BY <1>1, <1>3, <1>4 DEF SameSnapshotRows
  <2>2. CASE j = i
    <3>1. f[j].old = TRUE /\ g[j].old = TRUE
      BY <1>3, <1>4, <2>2
    <3> QED BY <1>3, <1>4, <2>1, <3>1 DEF SameSnapshot
  <2>3. CASE j # i
    <3>1. f[j].old = m.snapshots[j].old /\ g[j].old = q.snapshots[j].old
      BY <1>3, <1>4, <2>3
    <3> QED BY <1>3, <1>4, <2>1, <3>1 DEF SameSnapshot
  <2> QED BY <2>2, <2>3
<1>6. a = [m EXCEPT !.snapshots = f] /\ b = [q EXCEPT !.snapshots = g]
  BY DEF f, g, SnapshotAged
<1>7. Pair(a, b, limit) /\ a.snapshots = f /\ b.snapshots = g /\ a.next = m.next
  <2>1. SnapshotsTyped(f) /\ SnapshotsTyped(g)
    BY <1>3, <1>4
  <2> QED BY <1>5, <1>6, <2>1, SnapshotsReplacedPair
<1>8. Tidy(m, q) => Tidy(a, b)
  <2> HAVE Tidy(m, q)
  <2>1. ASSUME NEW j \in DOMAIN f \ DOMAIN g PROVE f[j].old
    <3>1. m.snapshots[j].old
      BY <1>3, <1>4 DEF Tidy
    <3> QED BY <1>3, <3>1
  <2>2. ASSUME NEW j \in DOMAIN g \ DOMAIN f PROVE g[j].old
    <3>1. q.snapshots[j].old
      BY <1>3, <1>4 DEF Tidy
    <3> QED BY <1>4, <3>1
  <2> QED BY <1>7, <2>1, <2>2 DEF Tidy
<1>9. DOMAIN f = DOMAIN m.snapshots /\ DOMAIN g = DOMAIN q.snapshots
  BY <1>3, <1>4
<1> QED BY <1>7, <1>8, <1>9

LEMMA RowsAge ==
  ASSUME NEW m, NEW q, NEW limit, Pair(m, q, limit), NEW id,
         NEW a, a = [m EXCEPT !.idempotency = Aging(@, id)],
         NEW b, b = [q EXCEPT !.idempotency = Aging(@, id)]
  PROVE  Pair(a, b, limit) /\ Step(m, a) /\ Step(q, b)
<1> DEFINE f == Aging(m.idempotency, id)
           g == Aging(q.idempotency, id)
<1>1. /\ RowsTyped(m.idempotency) /\ RowsTyped(q.idempotency)
      /\ Live(m.idempotency) = Live(q.idempotency)
  BY DEF Pair, Alike, SameHistory, StoreOK, StoreTyped, RowsTyped
<1>2. ASSUME NEW s, RowsTyped(s)
      PROVE  RowsTyped(Aging(s, id)) /\ Live(Aging(s, id)) = Dropped(Live(s), {id})
  <2> DEFINE t == Aging(s, id)
  <2>1. DOMAIN t = DOMAIN s /\ Mapping(t)
    BY <1>2 DEF Aging, Mapping, RowsTyped
  <2>2. ASSUME NEW j \in DOMAIN s
        PROVE  /\ "old" \in DOMAIN t[j] /\ t[j].old \in BOOLEAN
               /\ t[j].old <=> (s[j].old \/ j = id)
               /\ j # id => t[j] = s[j]
    <3>1. "old" \in DOMAIN s[j] /\ s[j].old \in BOOLEAN
      BY <1>2 DEF RowsTyped
    <3>2. t[j] = IF j = id THEN [s[j] EXCEPT !.old = TRUE] ELSE s[j]
      BY DEF Aging
    <3> HIDE DEF t
    <3> QED BY <3>1, <3>2
  <2> HIDE DEF t
  <2>3. {j \in DOMAIN t : ~t[j].old} = {j \in DOMAIN s : ~s[j].old} \ {id}
    BY <2>1, <2>2
  <2>4. DOMAIN Live(t) = DOMAIN Dropped(Live(s), {id})
    BY <2>3 DEF Live, Dropped
  <2>5. \A j \in DOMAIN Live(t) : Live(t)[j] = Dropped(Live(s), {id})[j]
    BY <2>1, <2>2, <2>3 DEF Live, Dropped
  <2>6. Live(t) = Dropped(Live(s), {id})
    BY <2>4, <2>5 DEF Live, Dropped
  <2> QED BY <2>1, <2>2, <2>6 DEF RowsTyped, t
<1> HIDE DEF f, g
<1>3. RowsTyped(f) /\ RowsTyped(g) /\ Live(f) = Live(g)
  BY <1>1, <1>2 DEF f, g
<1>4. a = [m EXCEPT !.idempotency = f] /\ b = [q EXCEPT !.idempotency = g]
  BY DEF f, g
<1> QED BY <1>3, <1>4, RowsReplacedPair

LEMMA LimitRaised ==
  ASSUME NEW m, NEW q, NEW limit \in Int, Pair(m, q, limit), NEW later \in Int, limit <= later
  PROVE  Pair(m, q, later)
<1>1. StoreTyped(m) /\ StoreTyped(q)
  BY DEF Pair, StoreOK
<1>2. \A n \in DOMAIN m.changes \cup DOMAIN q.changes : n \in Int /\ (n <= limit => n <= later)
  BY <1>1 DEF StoreTyped
<1> QED BY <1>2 DEF Pair, Alike, SameLog, Purgeable
-----------------------------------------------------------------------------
(***************************************************************************)
(* The inductive invariant.                                                *)
(***************************************************************************)
LEMMA EmptyStoreOK ==
  /\ Pair(M!EmptyStore, Q!EmptyStore, 0)
  /\ DOMAIN M!EmptyStore.snapshots = {} /\ DOMAIN Q!EmptyStore.snapshots = {}
  /\ M!EmptyStore.next = 1
<1>1. /\ Mapping(M!EmptyStore) /\ Mapping(Q!EmptyStore)
  BY DEF M!EmptyStore, Q!EmptyStore, Mapping
<1>2. StoreTyped(M!EmptyStore) /\ LogSound(M!EmptyStore)
  BY <1>1, EmptyMapping DEF M!EmptyStore, StoreTyped, Fields, LogSound
<1>3. StoreTyped(Q!EmptyStore) /\ LogSound(Q!EmptyStore)
  BY <1>1, EmptyMapping DEF Q!EmptyStore, StoreTyped, Fields, LogSound
<1>4. Alike(M!EmptyStore, Q!EmptyStore, 0)
  BY EmptyMapping DEF M!EmptyStore, Q!EmptyStore, Alike, SameHistory, SameLog, Purgeable,
                      SameSnapshots
<1> QED BY <1>2, <1>3, <1>4, EmptyMapping DEF Pair, StoreOK, M!EmptyStore, Q!EmptyStore

LEMMA AdaptersInitInv == AdaptersInit => AdaptersInv
<1> SUFFICES ASSUME AdaptersInit PROVE AdaptersInv
  OBVIOUS
<1>1. mem = M!EmptyStore /\ sql = Q!EmptyStore /\ aged = 0 /\ taken = 0 /\ parted = {}
  BY DEF AdaptersInit
<1>2. /\ Pair(mem, sql, aged)
      /\ DOMAIN mem.snapshots = {} /\ DOMAIN sql.snapshots = {} /\ mem.next = 1
  BY <1>1, EmptyStoreOK
<1> QED BY <1>1, <1>2 DEF AdaptersInv, Tidy

\* A call that both answer alike and that creates no snapshot.
LEMMA CallKeepsInv ==
  ASSUME AdaptersInv, NEW a, NEW b, NEW operation, Both(a, b, operation),
         a.answer = b.answer, Pair(a.store, b.store, aged),
         Step(mem, a.store), Step(sql, b.store),
         UNCHANGED <<aged, taken>>
  PROVE  AdaptersInv'
<1>1. mem' = a.store /\ sql' = b.store /\ parted' = parted /\ aged' = aged /\ taken' = taken
  BY DEF Both
<1>2. Pair(mem', sql', aged')
  BY <1>1
<1>3. DOMAIN mem'.snapshots = DOMAIN mem.snapshots /\ DOMAIN sql'.snapshots = DOMAIN sql.snapshots
  BY <1>1 DEF Step
<1>4. aged' \in 0..mem'.next - 1
  <2>1. mem.next \in Nat /\ mem'.next \in Nat
    BY <1>2 DEF AdaptersInv, Pair, StoreOK, StoreTyped
  <2> QED BY <1>1, <2>1 DEF AdaptersInv, Step
<1>5. parted' = {} => Tidy(mem', sql')
  BY <1>1 DEF AdaptersInv, Tidy, Step
<1> QED BY <1>1, <1>2, <1>3, <1>4, <1>5 DEF AdaptersInv

LEMMA MutateKeepsInv ==
  ASSUME AdaptersInv, Mutate
  PROVE  AdaptersInv'
<1>1. Pair(mem, sql, aged) /\ aged \in Int
  BY DEF AdaptersInv
<1>2. ASSUME NEW e, NEW batch \in Batch, ArchiveBatch(e, batch) PROVE AdaptersInv'
  <2>1. batch \in Seq(Item)
    BY CallsTyped DEF Item
  <2>2. PICK a : a = M!ArchiveBatch(mem, e, batch)
    OBVIOUS
  <2>3. PICK b : b = Q!ArchiveBatch(sql, e, batch)
    OBVIOUS
  <2>4. /\ a.answer = b.answer
        /\ Pair(a.store, b.store, aged) /\ Step(mem, a.store) /\ Step(sql, b.store)
    BY <1>1, <2>1, <2>2, <2>3, ArchiveBatchAlike
  <2>5. Both(a, b, "archiveBatch") /\ UNCHANGED <<aged, taken>>
    BY <1>2, <2>2, <2>3 DEF ArchiveBatch
  <2> QED BY <2>4, <2>5, CallKeepsInv
<1>3. ASSUME NEW id, NEW k, NEW s \in NewState, NEW r, PatchState(k, s, r, id) PROVE AdaptersInv'
  <2>1. s \in State
    BY CallsTyped DEF State
  <2>2. PICK a : a = M!PatchState(mem, k, s, r, id)
    OBVIOUS
  <2>3. PICK b : b = Q!PatchState(sql, k, s, r, id)
    OBVIOUS
  <2>4. /\ a.answer = b.answer
        /\ Pair(a.store, b.store, aged) /\ Step(mem, a.store) /\ Step(sql, b.store)
    BY <1>1, <2>1, <2>2, <2>3, PatchStateAlike
  <2>5. Both(a, b, "patchState") /\ UNCHANGED <<aged, taken>>
    BY <1>3, <2>2, <2>3 DEF PatchState
  <2> QED BY <2>4, <2>5, CallKeepsInv
<1>4. ASSUME NEW id, NEW k, DeleteRecord(k, id) PROVE AdaptersInv'
  <2>2. PICK a : a = M!DeleteRecord(mem, k, id)
    OBVIOUS
  <2>3. PICK b : b = Q!DeleteRecord(sql, k, id)
    OBVIOUS
  <2>4. /\ a.answer = b.answer
        /\ Pair(a.store, b.store, aged) /\ Step(mem, a.store) /\ Step(sql, b.store)
    BY <1>1, <2>2, <2>3, DeleteRecordAlike
  <2>5. Both(a, b, "deleteRecord") /\ UNCHANGED <<aged, taken>>
    BY <1>4, <2>2, <2>3 DEF DeleteRecord
  <2> QED BY <2>4, <2>5, CallKeepsInv
<1>5. ASSUME NEW id, NEW e, DeleteAll(e, id) PROVE AdaptersInv'
  <2>2. PICK a : a = M!DeleteAll(mem, e, id)
    OBVIOUS
  <2>3. PICK b : b = Q!DeleteAll(sql, e, id)
    OBVIOUS
  <2>4. /\ a.answer = b.answer
        /\ Pair(a.store, b.store, aged) /\ Step(mem, a.store) /\ Step(sql, b.store)
    BY <1>1, <2>2, <2>3, DeleteAllAlike
  <2>5. Both(a, b, "deleteAll") /\ UNCHANGED <<aged, taken>>
    BY <1>5, <2>2, <2>3 DEF DeleteAll
  <2> QED BY <2>4, <2>5, CallKeepsInv
<1> QED BY <1>2, <1>3, <1>4, <1>5 DEF Mutate

LEMMA CreateSnapshotKeepsInv ==
  ASSUME AdaptersInv, CreateSnapshot
  PROVE  AdaptersInv'
<1>1. /\ Pair(mem, sql, aged) /\ taken \in Nat /\ parted \subseteq {"laggingPurge"}
      /\ DOMAIN mem.snapshots \cup DOMAIN sql.snapshots \subseteq 1..taken
      /\ aged \in 0..mem.next - 1
  BY DEF AdaptersInv
<1>2. taken + 1 \notin DOMAIN mem.snapshots \cup DOMAIN sql.snapshots
  BY <1>1
<1>3. PICK a : a = M!CreateSnapshot(mem, taken + 1)
  OBVIOUS
<1>4. PICK b : b = Q!CreateSnapshot(sql, taken + 1)
  OBVIOUS
<1>5. /\ Pair(a.store, b.store, aged)
      /\ a.store.next = mem.next
      /\ DOMAIN a.store.snapshots \subseteq DOMAIN mem.snapshots \cup {taken + 1}
      /\ DOMAIN b.store.snapshots \subseteq DOMAIN sql.snapshots \cup {taken + 1}
      /\ mem.snapshots = sql.snapshots => a.answer = b.answer
      /\ a.answer = b.answer /\ Tidy(mem, sql) => Tidy(a.store, b.store)
  BY <1>1, <1>2, <1>3, <1>4, CreateSnapshotAlike
<1>6. /\ mem' = a.store /\ sql' = b.store /\ aged' = aged /\ taken' = taken + 1
      /\ parted' = IF a.answer = b.answer THEN parted
                   ELSE parted \cup {IF mem.snapshots = sql.snapshots
                                     THEN "createSnapshot" ELSE "laggingPurge"}
  BY <1>3, <1>4 DEF CreateSnapshot, Both
<1>7. parted' \subseteq {"laggingPurge"} /\ (parted' = {} => a.answer = b.answer /\ parted = {})
  BY <1>1, <1>5, <1>6
<1>8. parted' = {} => Tidy(mem', sql')
  BY <1>5, <1>6, <1>7 DEF AdaptersInv
<1>9. taken' \in Nat /\ DOMAIN mem'.snapshots \cup DOMAIN sql'.snapshots \subseteq 1..taken'
  <2>1. taken' \in Nat /\ taken + 1 \in 1..taken' /\ 1..taken \subseteq 1..taken'
    BY <1>1, <1>6
  <2> QED BY <1>1, <1>5, <1>6, <2>1
<1>10. Pair(mem', sql', aged') /\ aged' \in 0..mem'.next - 1
  BY <1>1, <1>5, <1>6
<1> QED BY <1>7, <1>8, <1>9, <1>10 DEF AdaptersInv

LEMMA PurgesKeepInv ==
  ASSUME AdaptersInv, PurgeSnapshots \/ PurgeChanges
  PROVE  AdaptersInv'
<1>1. CASE PurgeSnapshots
  <2>1. /\ mem' = M!PurgeSnapshots(mem) /\ sql' = Q!PurgeSnapshots(sql)
        /\ aged' = aged /\ taken' = taken /\ parted' = parted
    BY <1>1 DEF PurgeSnapshots
  <2>2. Pair(mem, sql, aged)
    BY DEF AdaptersInv
  <2>3. /\ Pair(mem', sql', aged) /\ mem'.next = mem.next
        /\ DOMAIN mem'.snapshots \subseteq DOMAIN mem.snapshots
        /\ DOMAIN sql'.snapshots \subseteq DOMAIN sql.snapshots
        /\ Tidy(mem, sql) => Tidy(mem', sql')
    BY <2>1, <2>2, PurgeSnapshotsAlike
  <2> QED BY <2>1, <2>3 DEF AdaptersInv
<1>2. CASE PurgeChanges
  <2>1. /\ mem' = M!PurgeChanges(mem, aged) /\ sql' = Q!PurgeChanges(sql, aged)
        /\ aged' = aged /\ taken' = taken /\ parted' = parted
    BY <1>2 DEF PurgeChanges
  <2>2. Pair(mem, sql, aged)
    BY DEF AdaptersInv
  <2>3. /\ Pair(mem', sql', aged) /\ mem'.next = mem.next
        /\ mem'.snapshots = mem.snapshots /\ sql'.snapshots = sql.snapshots
    BY <2>1, <2>2, PurgeChangesAlike
  <2> QED BY <2>1, <2>3 DEF AdaptersInv, Tidy
<1> QED BY <1>1, <1>2

LEMMA TimeKeepsInv ==
  ASSUME AdaptersInv, Time
  PROVE  AdaptersInv'
<1>1. Pair(mem, sql, aged) /\ aged \in 0..mem.next - 1
  BY DEF AdaptersInv
<1>2. ASSUME NEW i, SnapshotExpires(i) PROVE AdaptersInv'
  <2>1. /\ mem' = SnapshotAged(mem, i) /\ sql' = SnapshotAged(sql, i)
        /\ aged' = aged /\ taken' = taken /\ parted' = parted
    BY <1>2 DEF SnapshotExpires, SnapshotAged
  <2>2. /\ Pair(mem', sql', aged) /\ mem'.next = mem.next
        /\ DOMAIN mem'.snapshots = DOMAIN mem.snapshots
        /\ DOMAIN sql'.snapshots = DOMAIN sql.snapshots
        /\ Tidy(mem, sql) => Tidy(mem', sql')
    BY <1>1, <2>1, SnapshotsAge
  <2> QED BY <2>1, <2>2 DEF AdaptersInv
<1>3. ASSUME NEW id, IdempotencyExpires(id) PROVE AdaptersInv'
  <2>1. /\ mem' = [mem EXCEPT !.idempotency = Aging(@, id)]
        /\ sql' = [sql EXCEPT !.idempotency = Aging(@, id)]
        /\ aged' = aged /\ taken' = taken /\ parted' = parted
    BY <1>3 DEF IdempotencyExpires
  <2>2. Pair(mem', sql', aged) /\ Step(mem, mem') /\ Step(sql, sql')
    BY <1>1, <2>1, RowsAge
  <2>3. mem'.next \in Nat /\ mem.next \in Nat
    BY <1>1, <2>2 DEF Pair, StoreOK, StoreTyped
  <2> QED BY <2>1, <2>2, <2>3 DEF AdaptersInv, Step, Tidy
<1>4. ASSUME ChangesAge PROVE AdaptersInv'
  <2>1. /\ aged' \in aged + 1 .. mem.next - 1
        /\ mem' = mem /\ sql' = sql /\ taken' = taken /\ parted' = parted
    BY <1>4 DEF ChangesAge
  <2>2. mem.next \in Nat
    BY <1>1 DEF Pair, StoreOK, StoreTyped
  <2>3. aged \in Int /\ aged' \in Int /\ aged <= aged' /\ aged' \in 0..mem.next - 1
    BY <1>1, <2>1, <2>2
  <2>4. Pair(mem, sql, aged')
    BY <1>1, <2>3, LimitRaised
  <2> QED BY <2>1, <2>3, <2>4 DEF AdaptersInv
<1> QED BY <1>2, <1>3, <1>4 DEF Time

LEMMA AdaptersNextInv ==
  AdaptersInv /\ [AdaptersNext]_vars => AdaptersInv'
<1> SUFFICES ASSUME AdaptersInv, [AdaptersNext]_vars PROVE AdaptersInv'
  OBVIOUS
<1>1. CASE UNCHANGED vars
  <2>1. mem' = mem /\ sql' = sql /\ aged' = aged /\ taken' = taken /\ parted' = parted
    BY <1>1 DEF vars
  <2> QED BY <2>1 DEF AdaptersInv
<1> QED BY <1>1, MutateKeepsInv, CreateSnapshotKeepsInv, PurgesKeepInv, TimeKeepsInv DEF AdaptersNext

(***************************************************************************)
(* In every reachable state the two stores agree on the history, on every  *)
(* event that both retain and on every snapshot that serves; what only one *)
(* retains, retention may take; and no two answers have differed but where *)
(* a snapshot was refused for rows that one had not purged yet.            *)
(***************************************************************************)
THEOREM AdaptersInvariant == AdaptersSpec => []AdaptersInv
BY AdaptersInitInv, AdaptersNextInv, PTL DEF AdaptersSpec
-----------------------------------------------------------------------------
(***************************************************************************)
(* What the properties of the runs follow from.                            *)
(***************************************************************************)

(***************************************************************************)
(* Parity of the answers: in every reachable state both adapters have      *)
(* answered every call alike, but for a snapshot refused for rows not yet  *)
(* purged, and agree on records, counters, epoch, allocator and fences     *)
(* (repository.mjs and repository.sqlite.mjs side by side).                *)
(***************************************************************************)
THEOREM AnswersAlike == AdaptersSpec => []SameAnswers
<1>1. AdaptersInv => SameAnswers
  BY DEF AdaptersInv, Pair, Alike, SameHistory, SameAnswers, M!GetUsage, Q!GetUsage
<1> QED BY <1>1, AdaptersInvariant, PTL

\* A purge that finds nothing within its budget leaves nothing due.
LEMMA FirstEmpty ==
  ASSUME NEW S \in SUBSET Nat, NEW n \in Nat \ {0}, First(S, n) = {}
  PROVE  S = {}
<1> SUFFICES ASSUME S # {} PROVE FALSE
  OBVIOUS
<1>1. PICK s \in S : \A r \in S : s <= r
  BY Smallest
<1>2. {r \in S : r < s} = {}
  <2>1. \A r \in S : ~(r < s)
    <3> TAKE r \in S
    <3> QED BY <1>1, r \in Nat, s \in Nat
  <2> QED BY <2>1
<1>3. Cardinality({r \in S : r < s}) = 0
  BY <1>2, FS_EmptySet
<1>4. s \in First(S, n)
  BY <1>3 DEF First
<1> QED BY <1>4

LEMMA SameFirst ==
  ASSUME NEW S, NEW n
  PROVE  M!First(S, n) = First(S, n) /\ Q!First(S, n) = First(S, n)
BY SameCardinality DEF M!First, Q!First, First

LEMMA NoneDue ==
  ASSUME AdaptersInv, NothingDue
  PROVE  /\ \A i \in DOMAIN mem.snapshots :
               /\ ~mem.snapshots[i].old
               /\ mem.snapshots[i].status = "invalidated" => mem.snapshots[i].items = {}
         /\ \A i \in DOMAIN sql.snapshots :
               /\ ~sql.snapshots[i].old
               /\ sql.snapshots[i].status = "invalidated" => sql.snapshots[i].items = {}
<1> DEFINE A == {i \in DOMAIN mem.snapshots : M!DueSnapshot(mem.snapshots[i])}
           B == {i \in DOMAIN sql.snapshots :
                   sql.snapshots[i].old \/ (sql.snapshots[i].status = "invalidated"
                                            /\ sql.snapshots[i].items # {})}
<1>1. A \in SUBSET Nat /\ B \in SUBSET Nat
  BY DEF AdaptersInv
<1>2. SnapBudget \in Nat \ {0}
  BY LimitsPositive
<1>3. First(A, SnapBudget) = {}
  BY SameFirst DEF NothingDue, M!DueSnapshots
<1>4. First(B, SnapBudget) = {}
  BY SameFirst DEF NothingDue, Q!DueSnapshots
<1> HIDE DEF A, B
<1>5. A = {}
  BY <1>1, <1>2, <1>3, FirstEmpty
<1>6. B = {}
  BY <1>1, <1>2, <1>4, FirstEmpty
<1> QED BY <1>5, <1>6 DEF A, B, M!DueSnapshot

LEMMA SettledChanges ==
  ASSUME AdaptersInv, NothingDue
  PROVE  mem.changes = sql.changes
<1>1. SameLog(mem, sql, aged)
  BY DEF AdaptersInv, Pair, Alike
<1>2. DOMAIN mem.changes \subseteq DOMAIN sql.changes
  <2> SUFFICES ASSUME NEW s \in DOMAIN mem.changes \ DOMAIN sql.changes PROVE FALSE
    OBVIOUS
  <2>1. s <= aged /\ ~M!Protected(mem, s)
    BY <1>1 DEF SameLog, Purgeable, M!Protected
  <2> QED BY <2>1 DEF NothingDue
<1>3. DOMAIN sql.changes \subseteq DOMAIN mem.changes
  <2> SUFFICES ASSUME NEW s \in DOMAIN sql.changes \ DOMAIN mem.changes PROVE FALSE
    OBVIOUS
  <2>1. Q!Eligible(sql, s, aged)
    BY <1>1 DEF SameLog, Purgeable, Q!Eligible
  <2> QED BY <2>1 DEF NothingDue
<1>4. \A s \in DOMAIN mem.changes : mem.changes[s] = sql.changes[s]
  BY <1>1, <1>2 DEF SameLog
<1>5. Mapping(mem.changes) /\ Mapping(sql.changes)
  BY DEF AdaptersInv, Pair, StoreOK, StoreTyped
<1> QED BY <1>2, <1>3, <1>4, <1>5 DEF Mapping

LEMMA SettledSnapshots ==
  ASSUME AdaptersInv, NothingDue, parted = {}
  PROVE  mem.snapshots = sql.snapshots
<1>1. /\ StoreTyped(mem) /\ StoreTyped(sql) /\ SameSnapshots(mem, sql) /\ Tidy(mem, sql)
  BY DEF AdaptersInv, Pair, Alike, StoreOK
<1>2. DOMAIN mem.snapshots = DOMAIN sql.snapshots
  BY <1>1, NoneDue DEF Tidy
<1>3. ASSUME NEW i \in DOMAIN mem.snapshots PROVE mem.snapshots[i] = sql.snapshots[i]
  <2>1. mem.snapshots[i] \in Snapshot /\ sql.snapshots[i] \in Snapshot
    BY <1>1, <1>2 DEF StoreTyped
  <2>2. SameSnapshot(mem.snapshots[i], sql.snapshots[i])
    BY <1>1, <1>2 DEF SameSnapshots
  <2>3. /\ ~mem.snapshots[i].old
        /\ mem.snapshots[i].status = "invalidated" => mem.snapshots[i].items = {}
        /\ sql.snapshots[i].status = "invalidated" => sql.snapshots[i].items = {}
    BY <1>2, NoneDue
  <2> QED BY <2>1, <2>2, <2>3 DEF SameSnapshot, Snapshot
<1>4. Mapping(mem.snapshots) /\ Mapping(sql.snapshots)
  BY <1>1 DEF StoreTyped
<1> QED BY <1>2, <1>3, <1>4 DEF Mapping

(***************************************************************************)
(* Retention converges: whatever order, accounting and resume position the *)
(* purges of the two adapters used, once neither has a row that is due     *)
(* they retain the same log, and the same snapshots if no answer differed. *)
(***************************************************************************)
THEOREM RetentionConverges == AdaptersSpec => []SettledAlike
<1>1. AdaptersInv => SettledAlike
  BY SettledChanges, SettledSnapshots DEF SettledAlike
<1> QED BY <1>1, AdaptersInvariant, PTL
-----------------------------------------------------------------------------
(***************************************************************************)
(* Each adapter implements OwnerHistory.  Its part of a store is the       *)
(* epoch, the records and the tombstones.                                  *)
(***************************************************************************)
SamePart(s, t) == t.epoch = s.epoch /\ t.records = s.records /\ t.tombstones = s.tombstones

HistoryStored(s, t) ==
    \E batch \in Seq(Item) : \E S \in SUBSET (1..Len(batch)) :
       Admissible(s, batch, S) /\ Grown(s, batch, S, t)

HistoryPatched(s, t) ==
    \E key \in DOMAIN s.records, newState \in State :
       /\ s.records[key].state = "accepted" => newState = "accepted"
       /\ t.records = [s.records EXCEPT ![key] = PatchedRow(s, key, newState)]
       /\ t.epoch = s.epoch /\ t.tombstones = s.tombstones

HistoryRemoved(s, t) ==
    \E key \in DOMAIN s.records \cup s.tombstones :
       /\ t.records = Dropped(s.records, {key})
       /\ t.tombstones = s.tombstones \cup {key}
       /\ t.epoch = s.epoch

HistoryCleared(s, t) == t.epoch = s.epoch + 1 /\ t.records = <<>> /\ t.tombstones = {}

HistoryStep(s, t) ==
    \/ SamePart(s, t)
    \/ HistoryStored(s, t)
    \/ HistoryPatched(s, t)
    \/ HistoryRemoved(s, t)
    \/ HistoryCleared(s, t)

\* A call under an idempotency key leaves the history as it was, or as its
\* mutation makes it.
LEMMA CallPart ==
  ASSUME NEW m, NEW id, NEW request, NEW x, NEW answer,
         NEW a, a = M!Idempotently(m, id, request, [store |-> x, answer |-> answer])
  PROVE  SamePart(m, a.store) \/ SamePart(x, a.store)
<1> DEFINE s == M!Swept(m)
           y(r) == [x EXCEPT !.idempotency = M!Added(@, id, r)]
<1>1. SamePart(m, s)
  BY DEF M!Swept, SamePart
<1>2. \A r : SamePart(x, y(r))
  BY DEF SamePart
<1>3. \/ a.store = s \/ a.store = x
      \/ \E r : a.store = y(r)
  <2> HIDE DEF s
  <2> QED BY DEF M!Idempotently, M!Reply, s
<1> QED BY <1>1, <1>2, <1>3 DEF SamePart

LEMMA PatchStatePart ==
  ASSUME NEW m, StoreOK(m), NEW key, NEW newState \in State, NEW expected, NEW id,
         NEW a, a = M!PatchState(m, key, newState, expected, id)
  PROVE  SamePart(m, a.store) \/ HistoryPatched(m, a.store)
<1> DEFINE s == M!Swept(m)
           request == <<"patchState", key, newState, expected>>
           refusal == M!PatchRefused(s, key, newState, expected)
           row == s.records[key]
           patched == [row EXCEPT !.state = newState, !.revision = row.revision + 1,
                                  !.changeSeq = s.next]
           logged == M!Logged([s EXCEPT !.records[key] = patched],
                              key, "state", patched.revision, newState)
           deduped == [revision |-> row.revision, sequence |-> row.changeSeq, deduped |-> TRUE]
           changed == [revision |-> patched.revision, sequence |-> s.next]
<1>1. SamePart(m, s) /\ s.next = m.next
  BY DEF M!Swept, SamePart
<1>2. a = M!Idempotently(m, id, request,
            IF refusal # "none" THEN [store |-> s, answer |-> M!Error(refusal)]
            ELSE IF row.state = newState THEN [store |-> s, answer |-> deduped]
            ELSE [store |-> logged, answer |-> changed])
  BY DEF M!PatchState, M!Reply
<1>3. CASE refusal # "none" \/ row.state = newState
  <2>1. \E answer : a = M!Idempotently(m, id, request, [store |-> s, answer |-> answer])
    BY <1>2, <1>3
  <2> HIDE DEF s, request
  <2>2. SamePart(m, a.store) \/ SamePart(s, a.store)
    BY <2>1, CallPart
  <2> QED BY <1>1, <2>2 DEF SamePart
<1>4. CASE refusal = "none" /\ row.state # newState
  <2>1. a = M!Idempotently(m, id, request, [store |-> logged, answer |-> changed])
    BY <1>2, <1>4
  <2>2. /\ key \in DOMAIN s.records
        /\ row.state = "accepted" => newState = "accepted"
    BY <1>4 DEF M!PatchRefused
  <2>3. /\ logged.epoch = s.epoch /\ logged.tombstones = s.tombstones
        /\ logged.records = [s.records EXCEPT ![key] = patched]
    <3>1. "records" \in DOMAIN s
      BY DEF M!Swept, StoreOK, StoreTyped, Fields
    <3> HIDE DEF s, patched
    <3> QED BY <3>1 DEF M!Logged
  <2>4. patched = PatchedRow(m, key, newState)
    BY <1>1 DEF PatchedRow, SamePart
  <2> HIDE DEF s, request, logged, changed, patched, row
  <2>5. SamePart(m, a.store) \/ SamePart(logged, a.store)
    BY <2>1, CallPart
  <2>6. CASE SamePart(logged, a.store)
    <3>1. a.store.records = [m.records EXCEPT ![key] = PatchedRow(m, key, newState)]
      BY <1>1, <2>3, <2>4, <2>6 DEF SamePart
    <3>2. a.store.epoch = m.epoch /\ a.store.tombstones = m.tombstones
      BY <1>1, <2>3, <2>6 DEF SamePart
    <3>3. key \in DOMAIN m.records /\ (m.records[key].state = "accepted" => newState = "accepted")
      BY <1>1, <2>2 DEF SamePart, row
    <3> QED BY <3>1, <3>2, <3>3 DEF HistoryPatched
  <2> QED BY <2>5, <2>6
<1> QED BY <1>3, <1>4

LEMMA DeleteRecordPart ==
  ASSUME NEW m, StoreOK(m), NEW key, NEW id, NEW a, a = M!DeleteRecord(m, key, id)
  PROVE  SamePart(m, a.store) \/ HistoryRemoved(m, a.store)
<1> DEFINE s == M!Swept(m)
           request == <<"deleteRecord", key>>
           removed == [M!Logged(s, key, "delete", 1, "none") EXCEPT
                         !.count = @ - M!Cardinality({key} \cap DOMAIN s.records),
                         !.records = M!Dropped(@, {key}),
                         !.tombstones = @ \cup {key},
                         !.snapshots = M!Invalidated(s, M!Holding(s, key))]
<1>1. SamePart(m, s) /\ StoreTyped(s)
  <2>1. SamePart(m, s)
    BY DEF M!Swept, SamePart
  <2>2. s = [m EXCEPT !.idempotency = Live(m.idempotency)]
    BY DEF M!Swept, M!ExpiredKeys, M!Dropped, Live, Dropped
  <2>3. RowsTyped(Live(m.idempotency))
    BY LiveRowsTyped DEF StoreOK, StoreTyped, RowsTyped
  <2> HIDE DEF s
  <2>4. StoreTyped(s)
    BY <2>2, <2>3, RowsReplaced DEF StoreOK
  <2> QED BY <2>1, <2>4
<1>2. a = M!Idempotently(m, id, request,
            IF key \notin DOMAIN s.records \cup s.tombstones
            THEN [store |-> s, answer |-> [deleted |-> FALSE, epoch |-> s.epoch]]
            ELSE [store |-> removed,
                  answer |-> [deleted |-> TRUE, sequence |-> s.next, epoch |-> s.epoch]])
  BY DEF M!DeleteRecord, M!Reply
<1>3. CASE key \notin DOMAIN s.records \cup s.tombstones
  <2>1. \E answer : a = M!Idempotently(m, id, request, [store |-> s, answer |-> answer])
    BY <1>2, <1>3
  <2> HIDE DEF s, request
  <2>2. SamePart(m, a.store) \/ SamePart(s, a.store)
    BY <2>1, CallPart
  <2> QED BY <1>1, <2>2 DEF SamePart
<1>4. CASE key \in DOMAIN s.records \cup s.tombstones
  <2>1. \E answer : a = M!Idempotently(m, id, request, [store |-> removed, answer |-> answer])
    BY <1>2, <1>4
  <2>2. removed = Deleted(s, key)
    <3> HIDE DEF s
    <3>1. M!Cardinality({key} \cap DOMAIN s.records) = Cardinality({key} \cap DOMAIN s.records)
      BY SameCardinality
    <3> QED BY <1>1, <3>1, MemoryDeleted
  <2>3. /\ Deleted(s, key).epoch = s.epoch
        /\ Deleted(s, key).tombstones = s.tombstones \cup {key}
        /\ Deleted(s, key).records = Dropped(s.records, {key})
    <3> HIDE DEF s
    <3> QED BY <1>1 DEF Deleted, StoreTyped, Fields
  <2> HIDE DEF s, request, removed
  <2>4. SamePart(m, a.store) \/ SamePart(removed, a.store)
    BY <2>1, CallPart
  <2>5. CASE SamePart(removed, a.store)
    BY <1>1, <1>4, <2>2, <2>3, <2>5 DEF SamePart, HistoryRemoved
  <2> QED BY <2>4, <2>5
<1> QED BY <1>3, <1>4

LEMMA DeleteAllPart ==
  ASSUME NEW m, StoreOK(m), NEW expected, NEW id, NEW a, a = M!DeleteAll(m, expected, id)
  PROVE  SamePart(m, a.store) \/ HistoryCleared(m, a.store)
<1> DEFINE s == M!Swept(m)
           request == <<"deleteAll", expected>>
<1>1. SamePart(m, s) /\ DOMAIN s = DOMAIN m
  BY DEF M!Swept, SamePart
<1>2. a = M!Idempotently(m, id, request,
            IF expected # s.epoch THEN [store |-> s, answer |-> M!Error("ERR_EPOCH_CHANGED")]
            ELSE [store |-> Cleared(s), answer |-> [epoch |-> s.epoch + 1]])
  BY DEF M!DeleteAll, M!Reply, Cleared
<1>3. PICK x \in {s, Cleared(s)} :
         \E answer : a = M!Idempotently(m, id, request, [store |-> x, answer |-> answer])
  BY <1>2
<1>4. HistoryCleared(m, Cleared(s))
  <2>1. {"epoch", "records", "tombstones"} \subseteq DOMAIN s
    BY <1>1 DEF StoreOK, StoreTyped, Fields
  <2> HIDE DEF s
  <2>2. /\ Cleared(s).epoch = s.epoch + 1 /\ Cleared(s).records = <<>>
        /\ Cleared(s).tombstones = {}
    BY <2>1 DEF Cleared
  <2> QED BY <1>1, <2>2 DEF HistoryCleared, SamePart
<1> HIDE DEF s, request
<1>5. SamePart(m, a.store) \/ SamePart(x, a.store)
  BY <1>3, CallPart
<1> QED BY <1>1, <1>3, <1>4, <1>5 DEF SamePart, HistoryCleared

LEMMA ArchiveBatchPart ==
  ASSUME NEW m, StoreOK(m), NEW batch \in Seq(Item), NEW e,
         NEW a, a = M!ArchiveBatch(m, e, batch)
  PROVE  SamePart(m, a.store) \/ HistoryStored(m, a.store)
<1> DEFINE S == ToStore(m, batch, Len(batch))
           plan == M!Plan(m, batch)[Len(batch)]
<1>1. StoreTyped(m) /\ m.count \in Int
  BY DEF StoreOK, StoreTyped
<1>2. CASE e # m.epoch
  BY <1>2 DEF M!ArchiveBatch, M!Reply, SamePart
<1>3. CASE e = m.epoch
  <2>1. a.store = M!Admit(m, batch, plan.outcomes)[Len(batch)]
    BY <1>3 DEF M!ArchiveBatch, M!Reply
  <2>2. \A i \in 1..Len(batch) : plan.outcomes[i].outcome = OutcomeAt(m, batch, i)
    <3>1. Len(batch) \in 0..Len(batch)
      OBVIOUS
    <3>2. PlanSound(m, batch, plan, Len(batch))
      BY <1>1, <3>1, PlansSound
    <3> QED BY <3>2 DEF PlanSound
  <2>3. Grown(m, batch, S, a.store)
    BY <1>1, <2>1, <2>2, MemoryGrown
  <2>4. S \in SUBSET (1..Len(batch)) /\ Admissible(m, batch, S)
    <3>1. Admissible(m, batch, S)
      BY <1>1, StoredAdmissible
    <3> QED BY <3>1 DEF ToStore
  <2> HIDE DEF S
  <2> QED BY <2>3, <2>4 DEF HistoryStored
<1> QED BY <1>2, <1>3

\* The steps of OwnerHistory, of what it sees of a store.
Stored(s, t, K) ==
    /\ K \cap (DOMAIN HistoryOf(s) \cup s.tombstones) = {}
    /\ DOMAIN HistoryOf(t) = DOMAIN HistoryOf(s) \cup K
    /\ \A k \in DOMAIN HistoryOf(s) : HistoryOf(t)[k] = HistoryOf(s)[k]
    /\ \A k \in K : /\ HistoryOf(t)[k].body \in Body
                    /\ HistoryOf(t)[k].state \in {"prepared", "received"}
    /\ t.epoch = s.epoch /\ t.tombstones = s.tombstones

StateSet(s, t, k, newState) ==
    /\ k \in DOMAIN HistoryOf(s)
    /\ HistoryOf(s)[k].state = "accepted" => newState = "accepted"
    /\ HistoryOf(t) = [HistoryOf(s) EXCEPT ![k].state = newState]
    /\ t.epoch = s.epoch /\ t.tombstones = s.tombstones

Removed(s, t, k) ==
    /\ k \in DOMAIN HistoryOf(s) \cup s.tombstones
    /\ HistoryOf(t) = [j \in DOMAIN HistoryOf(s) \ {k} |-> HistoryOf(s)[j]]
    /\ t.tombstones = s.tombstones \cup {k}
    /\ t.epoch = s.epoch

AbstractStep(s, t) ==
    \/ t.epoch = s.epoch /\ HistoryOf(t) = HistoryOf(s) /\ t.tombstones = s.tombstones
    \/ \E K \in SUBSET Key : Stored(s, t, K)
    \/ \E k \in Key, newState \in State : StateSet(s, t, k, newState)
    \/ \E k \in Key : Removed(s, t, k)
    \/ /\ t.epoch = s.epoch + 1 /\ HistoryOf(t) = [k \in {} |-> k]
       /\ t.tombstones = {}

LEMMA HistoryStepAbstract ==
  ASSUME NEW s, StoreOK(s), NEW t, HistoryStep(s, t)
  PROVE  AbstractStep(s, t)
<1>1. /\ DOMAIN s.records \subseteq Key /\ s.tombstones \subseteq Key
      /\ \A k \in DOMAIN s.records : s.records[k] \in Row
  BY DEF StoreOK, StoreTyped
<1>2. DOMAIN HistoryOf(s) = DOMAIN s.records /\ DOMAIN HistoryOf(t) = DOMAIN t.records
  BY DEF HistoryOf
<1>3. CASE SamePart(s, t)
  BY <1>3 DEF SamePart, AbstractStep, HistoryOf
<1>4. CASE HistoryStored(s, t)
  <2>0. PICK batch \in Seq(Item) : \E S \in SUBSET (1..Len(batch)) :
               Admissible(s, batch, S) /\ Grown(s, batch, S, t)
    BY <1>4 DEF HistoryStored
  <2>1. PICK S \in SUBSET (1..Len(batch)) : Admissible(s, batch, S) /\ Grown(s, batch, S, t)
    BY <2>0
  <2> DEFINE K == KeysOf(batch, S)
  <2>2. ASSUME NEW k \in K
        PROVE  /\ k \in Key
               /\ k \notin DOMAIN s.records \cup s.tombstones
               /\ HistoryOf(t)[k].body \in Body
               /\ HistoryOf(t)[k].state \in {"prepared", "received"}
    <3>1. PICK i \in S : k = batch[i].key
      BY DEF KeysOf
    <3>2. batch[i] \in Item
      BY <2>1
    <3>3. k \in DOMAIN t.records /\ t.records[k] = NewRow(s, batch[i], SequenceFor(s, S, i))
      BY <2>1, <3>1 DEF Grown
    <3>4. HistoryOf(t)[k].body = batch[i].body /\ HistoryOf(t)[k].state = batch[i].state
      BY <3>3 DEF HistoryOf, NewRow
    <3> QED BY <2>1, <3>1, <3>2, <3>4 DEF Item, Admissible
  <2>3. DOMAIN HistoryOf(t) = DOMAIN HistoryOf(s) \cup K
    BY <1>2, <2>1 DEF Grown
  <2>4. \A k \in DOMAIN HistoryOf(s) : HistoryOf(t)[k] = HistoryOf(s)[k]
    BY <1>2, <2>1 DEF Grown, HistoryOf
  <2>5. t.epoch = s.epoch /\ t.tombstones = s.tombstones
    BY <2>1 DEF Grown
  <2> HIDE DEF K
  <2>6. K \in SUBSET Key /\ Stored(s, t, K)
    BY <1>2, <2>2, <2>3, <2>4, <2>5 DEF Stored
  <2> QED BY <2>6 DEF AbstractStep
<1>5. CASE HistoryPatched(s, t)
  <2>1. PICK k \in DOMAIN s.records, newState \in State :
           /\ s.records[k].state = "accepted" => newState = "accepted"
           /\ t.records = [s.records EXCEPT ![k] = PatchedRow(s, k, newState)]
           /\ t.epoch = s.epoch /\ t.tombstones = s.tombstones
    BY <1>5 DEF HistoryPatched
  <2>2. /\ PatchedRow(s, k, newState).body = s.records[k].body
        /\ PatchedRow(s, k, newState).state = newState
    <3>1. s.records[k] \in Row
      BY <1>1
    <3> QED BY <3>1 DEF Row, PatchedRow
  <2>3. DOMAIN t.records = DOMAIN s.records
    BY <2>1
  <2>4. HistoryOf(t) = [HistoryOf(s) EXCEPT ![k] =
                          [body |-> s.records[k].body, state |-> newState]]
    BY <2>1, <2>2, <2>3 DEF HistoryOf
  <2>5. HistoryOf(s)[k] = [body |-> s.records[k].body, state |-> s.records[k].state]
    BY DEF HistoryOf
  <2>6. [HistoryOf(s)[k] EXCEPT !.state = newState]
          = [body |-> s.records[k].body, state |-> newState]
    BY <2>5
  <2>7. HistoryOf(t) = [HistoryOf(s) EXCEPT ![k].state = newState]
    BY <2>4, <2>6
  <2>8. k \in Key /\ StateSet(s, t, k, newState)
    BY <1>1, <1>2, <2>1, <2>5, <2>7 DEF StateSet
  <2> QED BY <2>8 DEF AbstractStep
<1>6. CASE HistoryRemoved(s, t)
  <2>1. PICK k \in DOMAIN s.records \cup s.tombstones :
           /\ t.records = Dropped(s.records, {k})
           /\ t.tombstones = s.tombstones \cup {k}
           /\ t.epoch = s.epoch
    BY <1>6 DEF HistoryRemoved
  <2>2. HistoryOf(t) = [j \in DOMAIN HistoryOf(s) \ {k} |-> HistoryOf(s)[j]]
    BY <2>1 DEF HistoryOf, Dropped
  <2>3. k \in Key /\ Removed(s, t, k)
    BY <1>1, <1>2, <2>1, <2>2 DEF Removed
  <2> QED BY <2>3 DEF AbstractStep
<1>7. CASE HistoryCleared(s, t)
  <2>1. HistoryOf(t) = [k \in {} |-> k]
    BY <1>7, EmptyMapping DEF HistoryCleared, HistoryOf
  <2> QED BY <1>7, <2>1 DEF HistoryCleared, AbstractStep
<1> QED BY <1>3, <1>4, <1>5, <1>6, <1>7 DEF HistoryStep

\* Memory's part in every step.
LEMMA MutateSteps ==
  ASSUME AdaptersInv, Mutate
  PROVE  HistoryStep(mem, mem')
<1>1. StoreOK(mem)
  BY DEF AdaptersInv, Pair
<1>2. ASSUME NEW e, NEW batch \in Batch, ArchiveBatch(e, batch) PROVE HistoryStep(mem, mem')
  <2>1. batch \in Seq(Item)
    BY CallsTyped DEF Item
  <2>2. PICK a : a = M!ArchiveBatch(mem, e, batch)
    OBVIOUS
  <2>3. mem' = a.store
    BY <1>2, <2>2 DEF ArchiveBatch, Both
  <2> QED BY <1>1, <2>1, <2>2, <2>3, ArchiveBatchPart DEF HistoryStep
<1>3. ASSUME NEW id, NEW k, NEW s \in NewState, NEW r, PatchState(k, s, r, id)
      PROVE  HistoryStep(mem, mem')
  <2>1. s \in State
    BY CallsTyped DEF State
  <2>2. PICK a : a = M!PatchState(mem, k, s, r, id)
    OBVIOUS
  <2>3. mem' = a.store
    BY <1>3, <2>2 DEF PatchState, Both
  <2> QED BY <1>1, <2>1, <2>2, <2>3, PatchStatePart DEF HistoryStep
<1>4. ASSUME NEW id, NEW k, DeleteRecord(k, id) PROVE HistoryStep(mem, mem')
  <2>2. PICK a : a = M!DeleteRecord(mem, k, id)
    OBVIOUS
  <2>3. mem' = a.store
    BY <1>4, <2>2 DEF DeleteRecord, Both
  <2> QED BY <1>1, <2>2, <2>3, DeleteRecordPart DEF HistoryStep
<1>5. ASSUME NEW id, NEW e, DeleteAll(e, id) PROVE HistoryStep(mem, mem')
  <2>2. PICK a : a = M!DeleteAll(mem, e, id)
    OBVIOUS
  <2>3. mem' = a.store
    BY <1>5, <2>2 DEF DeleteAll, Both
  <2> QED BY <1>1, <2>2, <2>3, DeleteAllPart DEF HistoryStep
<1> QED BY <1>2, <1>3, <1>4, <1>5 DEF Mutate

\* Snapshots, retention and time leave the history as it was.
LEMMA HousekeepingSteps ==
  ASSUME AdaptersInv, CreateSnapshot \/ PurgeSnapshots \/ PurgeChanges \/ Time
  PROVE  SamePart(mem, mem')
<1>1. StoreOK(mem) /\ Pair(mem, sql, aged)
  BY DEF AdaptersInv, Pair
<1>2. ASSUME NEW f, \/ mem' = [mem EXCEPT !.snapshots = f]
                    \/ mem' = [mem EXCEPT !.idempotency = f]
      PROVE  SamePart(mem, mem')
  BY <1>1, <1>2 DEF SamePart, StoreOK, StoreTyped, Fields
<1>3. CASE CreateSnapshot
  <2>1. PICK a : a = M!CreateSnapshot(mem, taken + 1)
    OBVIOUS
  <2>2. mem' = a.store
    BY <1>3, <2>1 DEF CreateSnapshot, Both
  <2>3. a.store = mem \/ \E f : a.store = [mem EXCEPT !.snapshots = f]
    BY <2>1 DEF M!CreateSnapshot, M!Reply
  <2>4. CASE a.store = mem
    BY <2>2, <2>4 DEF SamePart
  <2>5. CASE a.store # mem
    BY <1>2, <2>2, <2>3, <2>5
  <2> QED BY <2>4, <2>5
<1>4. CASE PurgeSnapshots
  <2>1. mem' = M!PurgeSnapshots(mem)
    BY <1>4 DEF PurgeSnapshots
  <2> QED BY <1>1, <1>2, <2>1, MemoryPurged
<1>5. CASE PurgeChanges
  <2>1. mem' = M!PurgeChanges(mem, aged)
    BY <1>5 DEF PurgeChanges
  <2>2. Thinned(mem, mem', aged)
    BY <1>1, <2>1, MemoryThinned
  <2> QED BY <2>2 DEF Thinned, SamePart
<1>6. CASE Time
  <2>1. \/ \E i : mem' = [mem EXCEPT !.snapshots = Aging(mem.snapshots, i)]
        \/ \E id : mem' = [mem EXCEPT !.idempotency = Aging(mem.idempotency, id)]
        \/ mem' = mem
    BY <1>6 DEF Time, SnapshotExpires, IdempotencyExpires, ChangesAge
  <2> QED BY <1>2, <2>1 DEF SamePart
<1> QED BY <1>3, <1>4, <1>5, <1>6

LEMMA AdaptersStepAbstract ==
  ASSUME AdaptersInv, AdaptersInv', [AdaptersNext]_vars
  PROVE  AbstractStep(mem, mem') /\ AbstractStep(sql, sql')
<1>1. HistoryStep(mem, mem')
  <2>1. CASE UNCHANGED vars
    BY <2>1 DEF vars, HistoryStep, SamePart
  <2> QED BY <2>1, MutateSteps, HousekeepingSteps DEF AdaptersNext, HistoryStep
<1>2. AbstractStep(mem, mem')
  BY <1>1, HistoryStepAbstract DEF AdaptersInv, Pair
<1>3. /\ sql.epoch = mem.epoch /\ sql.tombstones = mem.tombstones
      /\ HistoryOf(sql) = HistoryOf(mem)
  BY DEF AdaptersInv, Pair, Alike, SameHistory, HistoryOf
<1>4. /\ sql'.epoch = mem'.epoch /\ sql'.tombstones = mem'.tombstones
      /\ HistoryOf(sql') = HistoryOf(mem')
  BY DEF AdaptersInv, Pair, Alike, SameHistory, HistoryOf
<1>5. AbstractStep(sql, sql')
  BY <1>2, <1>3, <1>4 DEF AbstractStep, Stored, StateSet, Removed
<1> QED BY <1>2, <1>5

LEMMA MemoryImplements ==
  ASSUME AbstractStep(mem, mem')
  PROVE  [MemoryHistory!Next]_(MemoryHistory!vars)
<1>1. ASSUME NEW K, Stored(mem, mem', K) PROVE MemoryHistory!Store(K)
  BY <1>1 DEF Stored, MemoryHistory!Store, MemoryHistory!InitialState
<1>2. ASSUME NEW k, NEW newState, StateSet(mem, mem', k, newState)
      PROVE  MemoryHistory!SetState(k, newState)
  BY <1>2 DEF StateSet, MemoryHistory!SetState
<1>3. ASSUME NEW k, Removed(mem, mem', k) PROVE MemoryHistory!Remove(k)
  BY <1>3 DEF Removed, MemoryHistory!Remove
<1>4. CASE mem'.epoch = mem.epoch /\ HistoryOf(mem') = HistoryOf(mem)
           /\ mem'.tombstones = mem.tombstones
  BY <1>4 DEF MemoryHistory!vars
<1>5. CASE mem'.epoch = mem.epoch + 1 /\ HistoryOf(mem') = [k \in {} |-> k]
           /\ mem'.tombstones = {}
  BY <1>5 DEF MemoryHistory!Next, MemoryHistory!Clear
<1> QED BY <1>1, <1>2, <1>3, <1>4, <1>5
        DEF AbstractStep, MemoryHistory!Next, MemoryHistory!DeliveryState, State

LEMMA SqliteImplements ==
  ASSUME AbstractStep(sql, sql')
  PROVE  [SqliteHistory!Next]_(SqliteHistory!vars)
<1>1. ASSUME NEW K, Stored(sql, sql', K) PROVE SqliteHistory!Store(K)
  BY <1>1 DEF Stored, SqliteHistory!Store, SqliteHistory!InitialState
<1>2. ASSUME NEW k, NEW newState, StateSet(sql, sql', k, newState)
      PROVE  SqliteHistory!SetState(k, newState)
  BY <1>2 DEF StateSet, SqliteHistory!SetState
<1>3. ASSUME NEW k, Removed(sql, sql', k) PROVE SqliteHistory!Remove(k)
  BY <1>3 DEF Removed, SqliteHistory!Remove
<1>4. CASE sql'.epoch = sql.epoch /\ HistoryOf(sql') = HistoryOf(sql)
           /\ sql'.tombstones = sql.tombstones
  BY <1>4 DEF SqliteHistory!vars
<1>5. CASE sql'.epoch = sql.epoch + 1 /\ HistoryOf(sql') = [k \in {} |-> k]
           /\ sql'.tombstones = {}
  BY <1>5 DEF SqliteHistory!Next, SqliteHistory!Clear
<1> QED BY <1>1, <1>2, <1>3, <1>4, <1>5
        DEF AbstractStep, SqliteHistory!Next, SqliteHistory!DeliveryState, State

(***************************************************************************)
(* Each adapter implements OwnerHistory: bodies are written once, accepted *)
(* is final, a deleted key stays fenced for the rest of the epoch whatever *)
(* retention purges, delete-all starts anew (repository.mjs:180 and        *)
(* repository.sqlite.mjs:268 keep the fences by different data).           *)
(***************************************************************************)
THEOREM AdaptersImplement == AdaptersSpec => AdaptersKeepPromise
<1>1. AdaptersInit => MemoryHistory!Init /\ SqliteHistory!Init
  <2> HAVE AdaptersInit
  <2>1. mem = M!EmptyStore /\ sql = Q!EmptyStore
    BY DEF AdaptersInit
  <2>2. /\ mem.epoch = 1 /\ mem.records = <<>> /\ mem.tombstones = {}
        /\ sql.epoch = 1 /\ sql.records = <<>> /\ sql.tombstones = {}
    BY <2>1 DEF M!EmptyStore, Q!EmptyStore
  <2>3. HistoryOf(mem) = [k \in {} |-> k] /\ HistoryOf(sql) = [k \in {} |-> k]
    BY <2>2, EmptyMapping DEF HistoryOf
  <2> QED BY <2>2, <2>3 DEF MemoryHistory!Init, SqliteHistory!Init
<1>2. AdaptersInv /\ AdaptersInv' /\ [AdaptersNext]_vars
        => [MemoryHistory!Next]_(MemoryHistory!vars) /\ [SqliteHistory!Next]_(SqliteHistory!vars)
  BY AdaptersStepAbstract, MemoryImplements, SqliteImplements
<1> QED
  BY <1>1, <1>2, AdaptersInvariant, PTL
  DEF AdaptersSpec, AdaptersKeepPromise, MemoryHistory!Spec, SqliteHistory!Spec
-----------------------------------------------------------------------------
(***************************************************************************)
(* The feeds.  The paging operators of the two instances are those of this *)
(* module.                                                                 *)
(***************************************************************************)
LEMMA SameFitting ==
  ASSUME NEW e
  PROVE  /\ M!Fitting(e) = Fitting(e) /\ Q!Fitting(e) = Fitting(e)
         /\ M!Records(e) = Records(e) /\ Q!Records(e) = Records(e)
<1>1. M!Fitting(e) = Fitting(e) /\ Q!Fitting(e) = Fitting(e)
  BY DEF M!Fitting, Q!Fitting, Fitting, M!Cardinality, Q!Cardinality, Cardinality,
         M!Max, Q!Max, Max
<1>2. M!Records(e) = Records(e) /\ Q!Records(e) = Records(e)
  BY DEF M!Records, Q!Records, Records
<1> QED BY <1>1, <1>2

LEMMA SameRows ==
  /\ \A e, n : M!FirstRows(e, n) = FirstRows(e, n) /\ Q!FirstRows(e, n) = FirstRows(e, n)
  /\ \A p, rows : M!After(p, rows) = After(p, rows) /\ Q!After(p, rows) = After(p, rows)
  /\ \A S : M!Ordered(S) = Ordered(S) /\ Q!Ordered(S) = Ordered(S)
<1>1. ASSUME NEW rows PROVE M!Sorted(rows) = Sorted(rows) /\ Q!Sorted(rows) = Sorted(rows)
  BY DEF M!Sorted, Q!Sorted, Sorted, M!Cardinality, Q!Cardinality, Cardinality,
         M!Before, Q!Before, Before
<1>2. ASSUME NEW p, NEW rows
      PROVE  M!After(p, rows) = After(p, rows) /\ Q!After(p, rows) = After(p, rows)
  BY <1>1 DEF M!After, Q!After, After, M!Before, Q!Before, Before
<1>3. ASSUME NEW S PROVE M!Ordered(S) = Ordered(S) /\ Q!Ordered(S) = Ordered(S)
  BY DEF M!Ordered, Q!Ordered, Ordered, M!Cardinality, Q!Cardinality, Cardinality
<1>4. ASSUME NEW e, NEW n
      PROVE  M!FirstRows(e, n) = FirstRows(e, n) /\ Q!FirstRows(e, n) = FirstRows(e, n)
  BY DEF M!FirstRows, Q!FirstRows, FirstRows
<1> QED BY <1>2, <1>3, <1>4

LEMMA SameBrowsePage ==
  ASSUME NEW e
  PROVE  /\ M!BrowsePage(e) = BrowsePage(e) /\ Q!BrowsePage(e) = BrowsePage(e)
         /\ M!SnapshotPage(e) = SnapshotPage(e) /\ Q!SnapshotPage(e) = SnapshotPage(e)
<1>1. M!BrowsePage(e) = BrowsePage(e) /\ Q!BrowsePage(e) = BrowsePage(e)
  BY SameFitting, SameRows DEF M!BrowsePage, Q!BrowsePage, BrowsePage
<1>2. M!SnapshotPage(e) = SnapshotPage(e) /\ Q!SnapshotPage(e) = SnapshotPage(e)
  BY SameFitting DEF M!SnapshotPage, Q!SnapshotPage, SnapshotPage
<1> QED BY <1>1, <1>2

LEMMA SameChangePage ==
  ASSUME NEW w, NEW e, NEW s
  PROVE  /\ M!ChangePage(w, e, s) = ChangePage(w, e, s)
         /\ Q!ChangePage(w, e, s) = ChangePage(w, e, s)
         /\ M!NoGap(w, s) <=> NoGap(w, s)
         /\ Q!NoGap(w, s) <=> NoGap(w, s)
         /\ M!FlattenSeq(e) = FlattenSeq(e) /\ Q!FlattenSeq(e) = FlattenSeq(e)
<1>1. /\ M!ChangePage(w, e, s) = ChangePage(w, e, s)
      /\ Q!ChangePage(w, e, s) = ChangePage(w, e, s)
  BY SameFitting DEF M!ChangePage, Q!ChangePage, ChangePage, M!Last, Q!Last, Last
<1>2. (M!NoGap(w, s) <=> NoGap(w, s)) /\ (Q!NoGap(w, s) <=> NoGap(w, s))
  BY DEF M!Fresh, Q!Fresh, Fresh, M!NoGap, Q!NoGap, NoGap, M!Last, Q!Last, Last
<1>3. M!FlattenSeq(e) = FlattenSeq(e) /\ Q!FlattenSeq(e) = FlattenSeq(e)
  BY DEF M!FlattenSeq, Q!FlattenSeq, FlattenSeq
<1> QED BY <1>1, <1>2, <1>3
-----------------------------------------------------------------------------
(***************************************************************************)
(* Sequences of rows.                                                      *)
(***************************************************************************)

\* A page has no more rows than were asked for.
LEMMA FittingBounded ==
  ASSUME NEW R, NEW e \in Seq(R)
  PROVE  Len(Fitting(e)) \in Nat /\ Len(Fitting(e)) <= PageSize
<1> DEFINE Bodies(n) == Cardinality({i \in 1..n : "body" \in DOMAIN e[i].record})
           fitting == {n \in 0..Len(e) : n <= PageSize /\ Bodies(n) <= PageBodies}
<1>1. PageSize \in Nat /\ PageBodies \in Nat
  BY LimitsPositive
<1>2. Bodies(0) = 0
  <2>1. {i \in 1..0 : "body" \in DOMAIN e[i].record} = {}
    OBVIOUS
  <2> QED BY <2>1, FS_EmptySet
<1>3. 0 \in fitting
  BY <1>1, <1>2
<1>4. fitting \in SUBSET Nat /\ \A n \in fitting : n <= Len(e) /\ n <= PageSize
  OBVIOUS
<1>5. Fitting(e) = SubSeq(e, 1, Max(fitting))
  BY DEF Fitting
<1> HIDE DEF fitting
<1>6. Max(fitting) \in fitting
  <2>1. \E n \in fitting : \A m \in fitting : n >= m
    <3>1. Len(e) \in Nat /\ fitting # {}
      BY <1>3
    <3> QED BY <1>4, <3>1, Largest
  <2> QED BY <2>1 DEF Max
<1>7. Max(fitting) \in Nat /\ Max(fitting) <= Len(e) /\ Max(fitting) <= PageSize
  BY <1>4, <1>6
<1>8. Len(SubSeq(e, 1, Max(fitting))) = Max(fitting)
  BY <1>7
<1> QED BY <1>5, <1>7, <1>8

\* Sorted, a finite set is a sequence.
LEMMA SortedRows ==
  ASSUME NEW rows, IsFiniteSet(rows)
  PROVE  \E R : Sorted(rows) \in Seq(R)
<1>1. Cardinality(rows) \in Nat
  BY FS_CardinalityType
<1> DEFINE e(i) == CHOOSE row \in rows : Cardinality({r \in rows : Before(r, row)}) = i - 1
           n == Cardinality(rows)
           R == {e(i) : i \in 1..n}
<1>2. Sorted(rows) = [i \in 1..n |-> e(i)]
  BY DEF Sorted
<1>3. \A i \in 1..n : e(i) \in R
  OBVIOUS
<1> HIDE DEF e, n, R
<1>4. [i \in 1..n |-> e(i)] \in Seq(R)
  BY <1>1, <1>3 DEF n
<1> QED BY <1>2, <1>4

\* Browsing from all the rows, or from one more than a page has.
LEMMA BrowsePages ==
  ASSUME NEW R, NEW rows \in Seq(R),
         NEW some, some = FirstRows(rows, PageSize + 1)
  PROVE  BrowsePage([i \in DOMAIN rows |-> [record |-> rows[i]]])
           = BrowsePage([i \in DOMAIN some |-> [record |-> some[i]]])
<1> DEFINE E == [record : R]
           e == [i \in DOMAIN rows |-> [record |-> rows[i]]]
           f == [i \in DOMAIN some |-> [record |-> some[i]]]
<1>1. PageSize \in Nat
  BY LimitsPositive
<1>2. e \in Seq(E) /\ Len(e) = Len(rows) /\ DOMAIN rows = 1..Len(rows)
  <2>1. DOMAIN rows = 1..Len(rows) /\ Len(rows) \in Nat /\ \A i \in 1..Len(rows) : rows[i] \in R
    OBVIOUS
  <2>2. \A i \in 1..Len(rows) : [record |-> rows[i]] \in E
    BY <2>1
  <2> HIDE DEF E
  <2>3. [i \in 1..Len(rows) |-> [record |-> rows[i]]] \in Seq(E)
    BY <2>1, <2>2
  <2>4. Len([i \in 1..Len(rows) |-> [record |-> rows[i]]]) = Len(rows)
    BY <2>1
  <2> QED BY <2>1, <2>3, <2>4
<1>3. CASE Len(rows) <= PageSize + 1
  <2>1. some = rows
    <3>1. (IF PageSize + 1 < Len(rows) THEN PageSize + 1 ELSE Len(rows)) = Len(rows)
      BY <1>1, <1>3
    <3> QED BY <3>1 DEF FirstRows
  <2> QED BY <2>1
<1>4. CASE Len(rows) > PageSize + 1
  <2>1. some = SubSeq(rows, 1, PageSize + 1)
    BY <1>1, <1>4 DEF FirstRows
  <2>2. /\ some \in Seq(R) /\ Len(some) = PageSize + 1 /\ DOMAIN some = 1..PageSize + 1
        /\ \A i \in 1..PageSize + 1 : some[i] = rows[i]
    BY <1>1, <1>4, <2>1
  <2>3. /\ f \in Seq(E) /\ Len(f) = PageSize + 1
        /\ \A i \in 1..PageSize : f[i] = e[i]
    <3>1. \A i \in 1..PageSize + 1 : some[i] \in R
      BY <2>2
    <3>2. \A i \in 1..PageSize + 1 : [record |-> some[i]] \in E
      BY <3>1
    <3>3. f = [i \in 1..PageSize + 1 |-> [record |-> some[i]]] /\ PageSize + 1 \in Nat
      BY <1>1, <2>2
    <3>4. \A i \in 1..PageSize : i \in DOMAIN rows /\ i \in 1..PageSize + 1
      BY <1>1, <1>2, <1>4
    <3>5. \A i \in 1..PageSize : f[i] = e[i]
      BY <2>2, <3>3, <3>4
    <3> HIDE DEF E, f
    <3>6. f \in Seq(E) /\ Len(f) = PageSize + 1
      BY <3>2, <3>3
    <3> QED BY <3>5, <3>6
  <2> HIDE DEF e, f, E
  <2>4. FirstRows(e, PageSize) = SubSeq(e, 1, PageSize)
    BY <1>1, <1>2, <1>4 DEF FirstRows
  <2>5. FirstRows(f, PageSize) = SubSeq(f, 1, PageSize)
    BY <1>1, <2>3 DEF FirstRows
  <2>6. SubSeq(e, 1, PageSize) = SubSeq(f, 1, PageSize)
    BY <1>1, <1>2, <1>4, <2>3
  <2>7. SubSeq(e, 1, PageSize) \in Seq(E)
    BY <1>1, <1>2, <1>4
  <2> DEFINE admitted == Fitting(SubSeq(e, 1, PageSize))
  <2>8. Len(admitted) \in Nat /\ Len(admitted) <= PageSize
    BY <2>7, FittingBounded
  <2>9. Len(admitted) < Len(e) /\ Len(admitted) < Len(f)
    BY <1>1, <1>2, <1>4, <2>3, <2>8
  <2>10. BrowsePage(e) = [records |-> Records(admitted), hasMore |-> TRUE]
    BY <2>4, <2>9 DEF BrowsePage
  <2>11. BrowsePage(f) = [records |-> Records(admitted), hasMore |-> TRUE]
    BY <2>5, <2>6, <2>9 DEF BrowsePage
  <2> QED BY <2>10, <2>11 DEF e, f
<1> QED BY <1>1, <1>3, <1>4

\* The members of a set in their order.
LEMMA OrderedRows ==
  ASSUME NEW S \in SUBSET Nat, IsFiniteSet(S)
  PROVE  Ordered(S) \in Seq(S)
<1> DEFINE n == Cardinality(S)
           f == [s \in S |-> Rank(S, s)]
           T == 0..n - 1
<1>1. n \in Nat
  BY FS_CardinalityType
<1>2. f \in [S -> T] /\ \A s, t \in S : f[s] = f[t] => s = t
  BY Ranks
<1> HIDE DEF n
<1>3. IsFiniteSet(T) /\ Cardinality(T) = n
  <2>1. 0 \in Int /\ n - 1 \in Int
    BY <1>1
  <2>2. /\ IsFiniteSet(0..n - 1)
        /\ Cardinality(0..n - 1) = IF 0 > n - 1 THEN 0 ELSE n - 1 - 0 + 1
    BY <2>1, FS_Interval
  <2> QED BY <1>1, <2>2
<1> HIDE DEF f, T
<1>4. f \in Injection(S, T)
  BY <1>2 DEF Injection, IsInjective
<1>5. f \in Surjection(S, T)
  BY <1>3, <1>4, FS_Injection DEF n
<1>6. \A i \in T : \E s \in S : f[s] = i
  BY <1>5 DEF Surjection
<1>7. ASSUME NEW i \in 1..n
      PROVE  \E s \in S : Cardinality({r \in S : r < s}) = i - 1
  <2>1. i - 1 \in T
    BY <1>1 DEF T
  <2>2. PICK s \in S : f[s] = i - 1
    BY <1>6, <2>1
  <2> QED BY <2>2 DEF f, Rank
<1> DEFINE e(i) == CHOOSE s \in S : Cardinality({r \in S : r < s}) = i - 1
<1>8. \A i \in 1..n : e(i) \in S
  BY <1>7
<1>9. Ordered(S) = [i \in 1..n |-> e(i)]
  BY DEF Ordered, n
<1> HIDE DEF e
<1>10. [i \in 1..n |-> e(i)] \in Seq(S)
  BY <1>1, <1>8
<1> QED BY <1>9, <1>10
-----------------------------------------------------------------------------
(***************************************************************************)
(* Both adapters browse alike and serve the same snapshot pages.           *)
(***************************************************************************)
LEMMA BrowseAlike ==
  ASSUME AdaptersInv, NEW p
  PROVE  M!ListBrowse(mem, p) = Q!ListBrowse(sql, p)
<1> DEFINE live == {mem.records[k] : k \in DOMAIN mem.records}
           rows == After(p, live)
           some == FirstRows(rows, PageSize + 1)
<1>1. StoreTyped(mem) /\ mem.records = sql.records
  BY DEF AdaptersInv, Pair, StoreOK, Alike, SameHistory
<1>2. IsFiniteSet(live)
  <2>1. IsFiniteSet(DOMAIN mem.records)
    BY <1>1, KeysNumbered, FS_Subset DEF StoreTyped
  <2>2. mem.records \in Surjection(DOMAIN mem.records, live)
    <3>1. mem.records \in [DOMAIN mem.records -> live]
      BY <1>1 DEF StoreTyped, Mapping
    <3> QED BY <3>1 DEF Surjection
  <2> HIDE DEF live
  <2> QED BY <2>1, <2>2, FS_Surjection
<1>3. M!ListBrowse(mem, p) = BrowsePage([i \in DOMAIN rows |-> [record |-> rows[i]]])
  BY SameRows, SameBrowsePage DEF M!ListBrowse, M!LiveRows
<1>4. Q!ListBrowse(sql, p) = BrowsePage([i \in DOMAIN some |-> [record |-> some[i]]])
  BY <1>1, SameRows, SameBrowsePage DEF Q!ListBrowse
<1>5. PICK R : rows \in Seq(R)
  <2>1. {row \in live : Before(p, row)} \subseteq live
    OBVIOUS
  <2> HIDE DEF live
  <2>2. IsFiniteSet({row \in live : Before(p, row)})
    BY <1>2, <2>1, FS_Subset
  <2> QED BY <2>2, SortedRows DEF After
<1> HIDE DEF rows
<1> QED BY <1>3, <1>4, <1>5, BrowsePages

LEMMA MembersAnsweredAlike ==
  ASSUME AdaptersInv, NEW i, NEW p
  PROVE  /\ SameMembers(M!SnapshotMembers(mem, i, p), Q!SnapshotMembers(sql, i, p))
         /\ ~Expired(i) => SamePage(M!SnapshotMembers(mem, i, p), Q!SnapshotMembers(sql, i, p))
<1> DEFINE a == M!SnapshotMembers(mem, i, p)
           b == Q!SnapshotMembers(sql, i, p)
<1>1. CASE i \notin DOMAIN mem.snapshots
  BY <1>1 DEF M!SnapshotMembers, M!Error, IsError, SameMembers, SamePage
<1>2. CASE i \notin DOMAIN sql.snapshots
  BY <1>2 DEF Q!SnapshotMembers, Q!Error, IsError, SameMembers, SamePage
<1>3. CASE i \in DOMAIN mem.snapshots /\ i \in DOMAIN sql.snapshots
  <2> DEFINE r == mem.snapshots[i]
             s == sql.snapshots[i]
  <2>1. SameSnapshot(r, s)
    BY <1>3 DEF AdaptersInv, Pair, Alike, SameSnapshots
  <2>2. r \in Snapshot /\ s \in Snapshot
    BY <1>3 DEF AdaptersInv, Pair, StoreOK, StoreTyped
  <2>3. M!Serving(r) <=> Q!Serving(s)
    BY <2>1 DEF SameSnapshot, M!Serving, Q!Serving
  <2>4. M!Serving(r) => r.items = s.items
    BY <2>1 DEF SameSnapshot, M!Serving
  <2>5. a = [status |-> r.status,
             items |-> IF M!Serving(r) THEN FirstRows(After(p, r.items), PageSize) ELSE <<>>]
    BY <1>3, SameRows DEF M!SnapshotMembers
  <2>6. b = [status |-> s.status,
             items |-> IF Q!Serving(s) THEN FirstRows(After(p, s.items), PageSize) ELSE <<>>]
    BY <1>3, SameRows DEF Q!SnapshotMembers
  <2>7. a.items = b.items
    BY <2>3, <2>4, <2>5, <2>6
  <2>8. ~Expired(i) => a = b
    <3>1. ~Expired(i) => r.status = s.status
      BY <1>3, <2>1 DEF Expired, SameSnapshot
    <3> QED BY <2>3, <2>4, <2>5, <2>6, <3>1
  <2> QED BY <2>7, <2>8 DEF SameMembers, SamePage
<1> QED BY <1>1, <1>2, <1>3

\* A row with the four fields that a snapshot's member keeps put into it.
LEMMA RowUpdated ==
  ASSUME NEW item, NEW row \in Row
  PROVE  [row EXCEPT !.revision = item.revision, !.state = item.state,
                     !.changeSeq = item.changeSeq, !.created = item.created]
           = [key |-> row.key, body |-> row.body, state |-> item.state,
              revision |-> item.revision, changeSeq |-> item.changeSeq, created |-> item.created]
<1> DEFINE x1 == [row EXCEPT !.revision = item.revision]
           x2 == [x1 EXCEPT !.state = item.state]
           x3 == [x2 EXCEPT !.changeSeq = item.changeSeq]
           x4 == [x3 EXCEPT !.created = item.created]
<1>1. x4 = [row EXCEPT !.revision = item.revision, !.state = item.state,
                       !.changeSeq = item.changeSeq, !.created = item.created]
  OBVIOUS
<1>2. x1 = [key |-> row.key, body |-> row.body, state |-> row.state,
            revision |-> item.revision, changeSeq |-> row.changeSeq, created |-> row.created]
  BY DEF Row
<1>3. x2 = [key |-> row.key, body |-> row.body, state |-> item.state,
            revision |-> item.revision, changeSeq |-> row.changeSeq, created |-> row.created]
  <2> HIDE DEF x1
  <2> QED BY <1>2
<1>4. x3 = [key |-> row.key, body |-> row.body, state |-> item.state,
            revision |-> item.revision, changeSeq |-> item.changeSeq, created |-> row.created]
  <2> HIDE DEF x2
  <2> QED BY <1>3
<1>5. x4 = [key |-> row.key, body |-> row.body, state |-> item.state,
            revision |-> item.revision, changeSeq |-> item.changeSeq, created |-> item.created]
  <2> HIDE DEF x3
  <2> QED BY <1>4
<1> QED BY <1>1, <1>5

\* A row of a snapshot page, as the two adapters put it together.
LEMMA RowsResolvedAlike ==
  ASSUME AdaptersInv, NEW item, item.key \in DOMAIN mem.records
  PROVE  M!Resolved(mem, item) = Q!PageRow(sql, item)
<1> DEFINE r == mem.records[item.key]
<1>1. /\ r \in Row /\ r.key = item.key /\ sql.records = mem.records
  BY DEF AdaptersInv, Pair, StoreOK, StoreTyped, Alike, SameHistory
<1>2. M!Resolved(mem, item) = [r EXCEPT !.revision = item.revision, !.state = item.state,
                                   !.changeSeq = item.changeSeq, !.created = item.created]
  BY DEF M!Resolved
<1>3. Q!PageRow(sql, item) = [key |-> item.key, body |-> r.body, state |-> item.state,
          revision |-> item.revision, changeSeq |-> item.changeSeq, created |-> item.created]
  BY <1>1 DEF Q!PageRow
<1>4. [r EXCEPT !.revision = item.revision, !.state = item.state,
                !.changeSeq = item.changeSeq, !.created = item.created]
        = [key |-> item.key, body |-> r.body, state |-> item.state,
           revision |-> item.revision, changeSeq |-> item.changeSeq,
           created |-> item.created]
  <2>1. PICK row : row = r
    OBVIOUS
  <2> HIDE DEF r
  <2>2. [row EXCEPT !.revision = item.revision, !.state = item.state,
                    !.changeSeq = item.changeSeq, !.created = item.created]
          = [key |-> row.key, body |-> row.body, state |-> item.state,
             revision |-> item.revision, changeSeq |-> item.changeSeq,
             created |-> item.created]
    BY <1>1, <2>1, RowUpdated
  <2> QED BY <1>1, <2>1, <2>2
<1> QED BY <1>2, <1>3, <1>4

LEMMA SnapshotPagesAlike ==
  ASSUME AdaptersInv, NEW i, NEW p
  PROVE  SamePage(M!ListSnapshotPage(mem, i, p), Q!ListSnapshotPage(sql, i, p))
<1> SUFFICES ASSUME ~IsError(M!ListSnapshotPage(mem, i, p)),
                    ~IsError(Q!ListSnapshotPage(sql, i, p))
             PROVE  M!ListSnapshotPage(mem, i, p) = Q!ListSnapshotPage(sql, i, p)
  BY DEF SamePage
<1>1. i \in DOMAIN mem.snapshots /\ i \in DOMAIN sql.snapshots
  BY DEF M!ListSnapshotPage, Q!ListSnapshotPage, M!Error, Q!Error, IsError
<1> DEFINE r == mem.snapshots[i]
           s == sql.snapshots[i]
           Page(row) == FirstRows(After(p, row.items), PageSize + 1)
           items == Page(r)
<1>2. M!Serving(r) /\ \A n \in DOMAIN items : items[n].key \in DOMAIN mem.records
  BY <1>1, SameRows DEF M!ListSnapshotPage, M!Error, IsError
<1>3. Q!Serving(s)
  BY <1>1 DEF Q!ListSnapshotPage, Q!Error, IsError
<1>4. SameSnapshot(r, s)
  BY <1>1 DEF AdaptersInv, Pair, Alike, SameSnapshots
<1>5. Page(s) = items
  BY <1>2, <1>4 DEF SameSnapshot, M!Serving
<1>6. sql.records = mem.records
  BY DEF AdaptersInv, Pair, Alike, SameHistory
<1>7. M!ListSnapshotPage(mem, i, p)
        = SnapshotPage([n \in DOMAIN items |-> [record |-> M!Resolved(mem, items[n])]])
  BY <1>1, <1>2, SameRows, SameBrowsePage DEF M!ListSnapshotPage
<1>8. Q!ListSnapshotPage(sql, i, p)
        = SnapshotPage([n \in DOMAIN items |-> [record |-> Q!PageRow(sql, items[n])]])
  BY <1>1, <1>2, <1>3, <1>5, <1>6, SameRows, SameBrowsePage DEF Q!ListSnapshotPage
<1> HIDE DEF items
<1>9. [n \in DOMAIN items |-> [record |-> M!Resolved(mem, items[n])]]
        = [n \in DOMAIN items |-> [record |-> Q!PageRow(sql, items[n])]]
  BY <1>2, RowsResolvedAlike
<1> QED BY <1>7, <1>8, <1>9
-----------------------------------------------------------------------------
(***************************************************************************)
(* Pages of changes.                                                       *)
(***************************************************************************)

\* The rows a page is made from.
Scanned(store, window) ==
    FirstRows(Ordered({s \in DOMAIN store.changes : s > window.from /\ s <= window.to}),
              PageSize)

LEMMA ScannedRows ==
  ASSUME NEW store, StoreTyped(store), NEW window
  PROVE  LET rows == Scanned(store, window)
         IN  /\ rows \in Seq(DOMAIN store.changes)
             /\ \A i \in DOMAIN rows : rows[i] <= window.to
             /\ Len(rows) <= PageSize
<1> DEFINE S == {s \in DOMAIN store.changes : s > window.from /\ s <= window.to}
           rows == Scanned(store, window)
           n == IF PageSize < Len(Ordered(S)) THEN PageSize ELSE Len(Ordered(S))
<1>1. S \in SUBSET Nat /\ IsFiniteSet(S)
  <2>1. DOMAIN store.changes \subseteq 1..store.next - 1 /\ store.next \in Nat
    BY DEF StoreTyped
  <2>2. IsFiniteSet(1..store.next - 1)
    BY <2>1, FS_Interval
  <2>3. S \subseteq 1..store.next - 1
    BY <2>1
  <2>4. S \in SUBSET Nat
    BY <2>1
  <2> HIDE DEF S
  <2>5. IsFiniteSet(S)
    BY <2>2, <2>3, FS_Subset
  <2> QED BY <2>4, <2>5
<1>2. \A s \in S : s \in DOMAIN store.changes /\ s <= window.to
  OBVIOUS
<1>3. rows = SubSeq(Ordered(S), 1, n)
  BY DEF Scanned, FirstRows
<1> HIDE DEF S, rows
<1>4. Ordered(S) \in Seq(S)
  BY <1>1, OrderedRows
<1>5. PageSize \in Nat
  BY LimitsPositive
<1>6. n \in Nat /\ n <= Len(Ordered(S)) /\ n <= PageSize
  BY <1>4, <1>5
<1> HIDE DEF n
<1>7. /\ rows \in Seq(S) /\ Len(rows) = n
  BY <1>3, <1>4, <1>6
<1>8. rows \in Seq(DOMAIN store.changes)
  BY <1>2, <1>7
<1>9. \A i \in DOMAIN rows : rows[i] <= window.to
  BY <1>2, <1>7
<1> QED BY <1>6, <1>7, <1>8, <1>9 DEF rows

\* Two pages without a gap are made from the same rows.
LEMMA GaplessRows ==
  ASSUME NEW window, window.from \in Nat, window.to \in Nat, ~Fresh(window),
         NEW R, NEW S, NEW r \in Seq(R), NEW s \in Seq(S), R \subseteq Int, S \subseteq Int,
         Len(r) <= PageSize, Len(s) <= PageSize,
         \A i \in DOMAIN r : r[i] <= window.to,
         \A i \in DOMAIN s : s[i] <= window.to,
         NoGap(window, r), NoGap(window, s)
  PROVE  r = s
<1>1. PageSize \in Nat
  BY LimitsPositive
<1>2. CASE window.from = window.to
  BY <1>2 DEF NoGap
<1>3. CASE window.from # window.to
  <2>1. ASSUME NEW T, NEW x \in Seq(T), NEW U, NEW y \in Seq(U), T \subseteq Int,
               Len(y) <= PageSize, \A i \in DOMAIN y : y[i] <= window.to,
               NoGap(window, x), NoGap(window, y)
        PROVE  Len(y) <= Len(x)
    <3> SUFFICES ASSUME Len(x) < Len(y) PROVE FALSE
      OBVIOUS
    <3>1. Len(x) < PageSize /\ Len(x) # 0 /\ Len(x) \in 1..Len(x) /\ Len(x) + 1 \in 1..Len(y)
      BY <1>1, <1>3, <2>1 DEF NoGap
    <3>2. x[Len(x)] = window.to /\ x[Len(x)] = window.from + Len(x)
      BY <1>3, <2>1, <3>1 DEF NoGap, Last
    <3>3. y[Len(x) + 1] = window.from + (Len(x) + 1) /\ y[Len(x) + 1] <= window.to
      BY <1>3, <2>1, <3>1 DEF NoGap
    <3> QED BY <3>1, <3>2, <3>3
  <2>2. Len(r) = Len(s)
    <3>1. Len(r) <= Len(s) /\ Len(s) <= Len(r)
      BY <2>1
    <3> QED BY <3>1
  <2>3. \A i \in 1..Len(r) : r[i] = s[i]
    BY <1>3, <2>2 DEF NoGap
  <2> QED BY <2>2, <2>3
<1> QED BY <1>2, <1>3

\* The deletion of a key after the window, if there is one.
LEMMA LatestDeleteAlike ==
  ASSUME NEW m, NEW q, NEW limit \in Int, StoreTyped(m), StoreTyped(q), SameLog(m, q, limit),
         NEW to \in Nat, to >= limit, NEW key
  PROVE  /\ M!LatestDelete(m, key) > to <=> Q!LatestDelete(q, key) > to
         /\ M!LatestDelete(m, key) > to => M!LatestDelete(m, key) = Q!LatestDelete(q, key)
<1> DEFINE D(store) == {s \in DOMAIN store.changes :
                          store.changes[s].key = key /\ store.changes[s].kind = "delete"}
           A == D(m)
           B == D(q)
<1>1. M!LatestDelete(m, key) = IF A = {} THEN 0 ELSE Max(A)
  BY SameMax DEF M!LatestDelete
<1>2. Q!LatestDelete(q, key) = IF B = {} THEN 0 ELSE Max(B)
  <2>1. {s \in Q!EventsOf(q, key) : q.changes[s].kind = "delete"} = B
    BY DEF Q!EventsOf
  <2> HIDE DEF B
  <2> QED BY <2>1, SameMax DEF Q!LatestDelete
<1>3. \A s \in A : s > to => s \in B
  <2> SUFFICES ASSUME NEW s \in A, s > to PROVE s \in B
    OBVIOUS
  <2>1. s \in Int /\ ~(s <= limit)
    BY DEF StoreTyped
  <2>2. s \in DOMAIN q.changes
    BY <2>1 DEF SameLog, Purgeable
  <2> QED BY <2>2 DEF SameLog
<1>4. \A s \in B : s > to => s \in A
  <2> SUFFICES ASSUME NEW s \in B, s > to PROVE s \in A
    OBVIOUS
  <2>1. s \in Int /\ ~(s <= limit)
    BY DEF StoreTyped
  <2>2. s \in DOMAIN m.changes
    BY <2>1 DEF SameLog, Purgeable
  <2> QED BY <2>2 DEF SameLog
<1>5. /\ A \in SUBSET Nat /\ m.next \in Nat /\ \A s \in A : s <= m.next
      /\ B \in SUBSET Nat /\ q.next \in Nat /\ \A s \in B : s <= q.next
  BY DEF StoreTyped
<1> HIDE DEF A, B, D
<1>6. A # {} => Max(A) \in A /\ \A s \in A : Max(A) >= s
  <2> HAVE A # {}
  <2>1. \E n \in A : \A s \in A : n >= s
    BY <1>5, Largest
  <2> QED BY <2>1 DEF Max
<1>7. B # {} => Max(B) \in B /\ \A s \in B : Max(B) >= s
  <2> HAVE B # {}
  <2>1. \E n \in B : \A s \in B : n >= s
    BY <1>5, Largest
  <2> QED BY <2>1 DEF Max
<1>8. ASSUME NEW X \in SUBSET Nat, NEW Y \in SUBSET Nat, NEW x \in X, NEW y, x > to,
             Y # {} => y \in Y /\ \A s \in Y : y >= s, \A s \in X : x >= s,
             \A s \in X : s > to => s \in Y, \A s \in Y : s > to => s \in X
      PROVE  Y # {} /\ y = x
  <2>1. x \in Y /\ y \in Y /\ y >= x /\ x \in Nat /\ y \in Nat
    BY <1>8
  <2>2. y > to
    BY <1>8, <2>1
  <2>3. x >= y
    BY <1>8, <2>1, <2>2
  <2> QED BY <2>1, <2>3
<1>9. A # {} /\ Max(A) > to => B # {} /\ Max(B) = Max(A)
  <2> HAVE A # {} /\ Max(A) > to
  <2>1. PICK x : x = Max(A)
    OBVIOUS
  <2>2. PICK y : y = Max(B)
    OBVIOUS
  <2>3. x \in A /\ x > to /\ \A s \in A : x >= s
    BY <1>6, <2>1
  <2>4. B # {} => y \in B /\ \A s \in B : y >= s
    BY <1>7, <2>2
  <2>5. A \in SUBSET Nat /\ B \in SUBSET Nat
    BY <1>5
  <2>6. B # {} /\ y = x
    BY ONLY <1>3, <1>4, <1>8, <2>3, <2>4, <2>5
  <2> QED BY <2>1, <2>2, <2>6
<1>10. B # {} /\ Max(B) > to => A # {} /\ Max(A) = Max(B)
  <2> HAVE B # {} /\ Max(B) > to
  <2>1. PICK x : x = Max(B)
    OBVIOUS
  <2>2. PICK y : y = Max(A)
    OBVIOUS
  <2>3. x \in B /\ x > to /\ \A s \in B : x >= s
    BY <1>7, <2>1
  <2>4. A # {} => y \in A /\ \A s \in A : y >= s
    BY <1>6, <2>2
  <2>5. A \in SUBSET Nat /\ B \in SUBSET Nat
    BY <1>5
  <2>6. A # {} /\ y = x
    BY ONLY <1>3, <1>4, <1>8, <2>3, <2>4, <2>5
  <2> QED BY <2>1, <2>2, <2>6
<1>11. ~(0 > to)
  OBVIOUS
<1> QED BY <1>1, <1>2, <1>9, <1>10, <1>11

\* What a page says of an event that both retain.
LEMMA EntriesAlike ==
  ASSUME NEW m, NEW q, NEW limit \in Int, StoreTyped(m), StoreTyped(q), SameLog(m, q, limit),
         m.records = q.records, NEW window, window.to \in Nat, window.to >= limit,
         NEW s \in DOMAIN m.changes \cap DOMAIN q.changes
  PROVE  M!ChangeEntry(m, window, s) = Q!ChangeEntry(q, window, s)
<1> DEFINE c == m.changes[s]
           a == M!LatestDelete(m, c.key)
           b == Q!LatestDelete(q, c.key)
<1>1. q.changes[s] = c
  BY DEF SameLog
<1>2. (a > window.to <=> b > window.to) /\ (a > window.to => a = b)
  BY LatestDeleteAlike
<1> HIDE DEF a, b
<1> QED BY <1>1, <1>2 DEF M!ChangeEntry, Q!ChangeEntry, M!DeleteEntry, Q!DeleteEntry, a, b

\* With one log they serve one page.
LEMMA SettledPagesAlike ==
  ASSUME NEW m, NEW q, m.changes = q.changes, m.records = q.records, NEW window
  PROVE  M!ListChangesPage(m, window) = Q!ListChangesPage(q, window)
<1>1. \A key : M!LatestDelete(m, key) = Q!LatestDelete(q, key)
  <2> TAKE key
  <2>1. {s \in Q!EventsOf(q, key) : q.changes[s].kind = "delete"}
          = {s \in DOMAIN m.changes : m.changes[s].key = key /\ m.changes[s].kind = "delete"}
    BY DEF Q!EventsOf
  <2> QED BY <2>1, SameMax DEF M!LatestDelete, Q!LatestDelete
<1>2. \A s : M!ChangeEntry(m, window, s) = Q!ChangeEntry(q, window, s)
  BY <1>1 DEF M!ChangeEntry, Q!ChangeEntry, M!DeleteEntry, Q!DeleteEntry
<1>3. M!StartRetained(window, M!EarliestSequence(m))
        <=> Q!StartRetained(window, Q!EarliestSequence(q))
  BY DEF M!StartRetained, Q!StartRetained, M!EarliestSequence, Q!EarliestSequence,
         M!Min, Q!Min, M!Fresh, Q!Fresh
<1> DEFINE scanned == Scanned(m, window)
           a == [i \in DOMAIN scanned |-> M!ChangeEntry(m, window, scanned[i])]
           b == [i \in DOMAIN scanned |-> Q!ChangeEntry(q, window, scanned[i])]
<1>4. M!ListChangesPage(m, window)
        = IF M!StartRetained(window, M!EarliestSequence(m)) /\ NoGap(window, scanned)
          THEN ChangePage(window, FlattenSeq(a), scanned)
          ELSE Error("ERR_CURSOR_EXPIRED")
  BY SameRows, SameChangePage DEF M!ListChangesPage, Scanned, M!Error, Error
<1>5. Q!ListChangesPage(q, window)
        = IF Q!StartRetained(window, Q!EarliestSequence(q)) /\ NoGap(window, scanned)
          THEN ChangePage(window, FlattenSeq(b), scanned)
          ELSE Error("ERR_CURSOR_EXPIRED")
  BY SameRows, SameChangePage DEF Q!ListChangesPage, Scanned, Q!Error, Error
<1>6. a = b
  BY <1>2
<1> HIDE DEF a, b, scanned
<1> QED BY <1>3, <1>4, <1>5, <1>6

LEMMA ChangesPagesAlike ==
  ASSUME AdaptersInv, NEW window \in Windows, InUse(window)
  PROVE  SamePage(M!ListChangesPage(mem, window), Q!ListChangesPage(sql, window))
<1>1. /\ StoreTyped(mem) /\ StoreTyped(sql) /\ SameLog(mem, sql, aged) /\ aged \in Int
      /\ mem.records = sql.records
  BY DEF AdaptersInv, Pair, StoreOK, Alike, SameHistory
<1>2. window.from \in Nat /\ window.to \in Nat /\ window.to >= aged
  BY <1>1 DEF Windows, InUse, StoreTyped
<1>3. CASE Fresh(window)
  <2>1. mem.changes = sql.changes
    BY <1>3, SettledChanges DEF InUse
  <2> QED BY <1>1, <2>1, SettledPagesAlike DEF SamePage
<1>4. CASE ~Fresh(window)
  <2> SUFFICES ASSUME ~IsError(M!ListChangesPage(mem, window)),
                      ~IsError(Q!ListChangesPage(sql, window))
               PROVE  M!ListChangesPage(mem, window) = Q!ListChangesPage(sql, window)
    BY DEF SamePage
  <2> DEFINE r == Scanned(mem, window)
             s == Scanned(sql, window)
             a == [i \in DOMAIN r |-> M!ChangeEntry(mem, window, r[i])]
             b == [i \in DOMAIN s |-> Q!ChangeEntry(sql, window, s[i])]
  <2>1. /\ NoGap(window, r)
        /\ M!ListChangesPage(mem, window) = ChangePage(window, FlattenSeq(a), r)
    BY SameRows, SameChangePage DEF M!ListChangesPage, Scanned, M!Error, IsError
  <2>2. /\ NoGap(window, s)
        /\ Q!ListChangesPage(sql, window) = ChangePage(window, FlattenSeq(b), s)
    BY SameRows, SameChangePage DEF Q!ListChangesPage, Scanned, Q!Error, IsError
  <2>3. /\ r \in Seq(DOMAIN mem.changes) /\ s \in Seq(DOMAIN sql.changes)
        /\ \A i \in DOMAIN r : r[i] <= window.to
        /\ \A i \in DOMAIN s : s[i] <= window.to
        /\ Len(r) <= PageSize /\ Len(s) <= PageSize
    BY <1>1, ScannedRows
  <2>4. DOMAIN mem.changes \subseteq Int /\ DOMAIN sql.changes \subseteq Int
    BY <1>1 DEF StoreTyped
  <2> HIDE DEF r, s
  <2>5. r = s
    BY <1>2, <1>4, <2>1, <2>2, <2>3, <2>4, GaplessRows
  <2>6. ASSUME NEW i \in DOMAIN r
        PROVE  M!ChangeEntry(mem, window, r[i]) = Q!ChangeEntry(sql, window, s[i])
    <3>1. r[i] \in DOMAIN mem.changes /\ s[i] \in DOMAIN sql.changes /\ r[i] = s[i]
      BY <2>3, <2>5
    <3> QED BY <1>1, <1>2, <3>1, EntriesAlike
  <2>7. a = b
    BY <2>5, <2>6
  <2> QED BY <2>1, <2>2, <2>5, <2>7
<1> QED BY <1>3, <1>4

(***************************************************************************)
(* Parity of the feeds: in every reachable state, where both adapters      *)
(* serve a page, of the changes in any window in use, of any snapshot at   *)
(* any position or of browsing, it is the same page, with the same         *)
(* checkpoint and continuation, although their purges delete rows in       *)
(* different calls (repository.mjs:863, repository.sqlite.mjs:1128).       *)
(***************************************************************************)
THEOREM FeedsAgree == AdaptersSpec => []PagesAgree
<1>1. AdaptersInv => PagesAgree
  BY ChangesPagesAlike, BrowseAlike, MembersAnsweredAlike, SnapshotPagesAlike DEF PagesAgree
<1> QED BY <1>1, AdaptersInvariant, PTL
=============================================================================
