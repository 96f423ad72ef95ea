------------------------- MODULE RepositoryContract -------------------------
(***************************************************************************)
(* What the repository adapters share, as functions of one owner's store:  *)
(* the outcomes of an archive batch (repository-contract.mjs), and the     *)
(* retention checks and page assembly of the feeds (feeds.mjs).            *)
(*                                                                         *)
(* A store is a record: epoch, next (the next sequence), count, records    *)
(* (key -> row), tombstones, changes (sequence -> event), snapshots (id -> *)
(* row), idempotency (key -> row).  An operation on it is a function that  *)
(* returns the store it leaves behind and the answer it gives.             *)
(*                                                                         *)
(* Keys are integers, since pages are ordered by creation, then by key.  A *)
(* body stands for everything the identity of a record does not cover.     *)
(* The byte quota is charged like the count and left out, as is the audit  *)
(* log; a filter that selects nothing is the only one.                     *)
(***************************************************************************)
EXTENDS Integers, Sequences, FiniteSets, SequencesExt

CONSTANTS
    MaxRecords,    \* MAX_RECORDS_PER_OWNER
    MaxReserved,   \* MAX_RESERVED_RECORD_KEYS_PER_OWNER
    MaxIdem,       \* MAX_IDEMPOTENCY_ROWS_PER_OWNER
    MaxSnapshots,  \* MAX_SNAPSHOTS_PER_OWNER
    MaxMembers,    \* MAX_SNAPSHOT_ITEMS_PER_OWNER
    PageSize,      \* limit: the rows of a page
    PageBodies,    \* the bodies that fit into MAX_PAGE_BYTES
    ItemBudget,    \* maxItems of a cleanup call
    SnapBudget     \* maxSnapshots of a cleanup call

\* boundPurgeParams, boundFeedLimit: no limit is below one
ASSUME LimitsPositive ==
    /\ {PageSize, ItemBudget, SnapBudget} \subseteq Nat \ {0}
    /\ PageBodies \in Nat

Reply(store, answer) == [store |-> store, answer |-> answer]
Error(code) == [error |-> code]
IsError(answer) == "error" \in DOMAIN answer

Added(f, x, v) == [y \in DOMAIN f \cup {x} |-> IF y = x THEN v ELSE f[y]]
Dropped(f, S)  == [y \in DOMAIN f \ S |-> f[y]]
Watermark(store) == store.next - 1

\* The order of sequences and of snapshots: a set of numbers as a sequence, and
\* its n least elements
Ordered(S)  == [i \in 1..Cardinality(S) |->
                  CHOOSE s \in S : Cardinality({r \in S : r < s}) = i - 1]
First(S, n) == {s \in S : Cardinality({r \in S : r < s}) < n}
-----------------------------------------------------------------------------
(***************************************************************************)
(* Archive batches.  A plan has an outcome for each item so far, the       *)
(* bodies it means to store, and the projected quotas.                     *)
(***************************************************************************)
EmptyPlan(store) ==
    [outcomes |-> <<>>, pending |-> <<>>, count |-> store.count,
     reserved |-> store.count + Cardinality(store.tombstones)]

EpochChanged(store, batch) ==
    [epoch |-> store.epoch, committed |-> FALSE,
     outcomes |-> [i \in DOMAIN batch |-> [key |-> batch[i].key, outcome |-> "epochChanged"]]]

Present(store, plan) == DOMAIN plan.pending \cup DOMAIN store.records

\* pending.get(key) ?? records.get(key)
BodyHeld(store, plan, key) ==
    IF key \in DOMAIN plan.pending THEN plan.pending[key] ELSE store.records[key].body

\* archiveExistingOutcome: an item under a key that is held
ExistingOutcome(body, item) == IF body = item.body THEN "alreadyPresent" ELSE "conflict"

\* archiveAdmissionOutcome: an item under a new key
AdmissionOutcome(plan) ==
    IF plan.count + 1 > MaxRecords \/ plan.reserved + 1 > MaxReserved
    THEN "quotaExceeded" ELSE "stored"

Planned(plan, item, outcome) ==
    LET noted == [plan EXCEPT !.outcomes = Append(@, [key |-> item.key, outcome |-> outcome])]
    IN  IF outcome # "stored" THEN noted
        ELSE [noted EXCEPT !.pending = Added(@, item.key, item.body),
                           !.count = @ + 1, !.reserved = @ + 1]
-----------------------------------------------------------------------------
(***************************************************************************)
(* Pages of changes.  A window is what prepareChangesRead makes of a       *)
(* request: the changes after `from', up to `to'.  It is explicit if the   *)
(* client named its checkpoint.                                            *)
(***************************************************************************)
Fresh(window) == window.from = 0 /\ ~window.explicit

\* assertRetainedChanges, assertNoRetentionGap; earliest is 0 if there is none
StartRetained(window, earliest) ==
    \/ Fresh(window)
    \/ IF earliest = 0 THEN window.from = window.to ELSE window.from + 1 >= earliest

\* assertNoInternalRetentionGap
NoGap(window, scanned) ==
    \/ Fresh(window)
    \/ window.from = window.to /\ scanned = <<>>
    \/ /\ window.from # window.to
       /\ scanned # <<>>
       /\ \A i \in DOMAIN scanned : scanned[i] = window.from + i
       /\ Len(scanned) < PageSize => Last(scanned) = window.to

\* fitRecordsToPage: the longest prefix within the limits on rows and bytes
Fitting(entries) ==
    LET Bodies(n) == Cardinality({i \in 1..n : "body" \in DOMAIN entries[i].record})
        fitting == {n \in 0..Len(entries) : n <= PageSize /\ Bodies(n) <= PageBodies}
    IN  SubSeq(entries, 1, Max(fitting))

Records(entries) == [i \in DOMAIN entries |-> entries[i].record]

\* assembleChangePage: an entry has a record and the sequence it is reported at
ChangePage(window, entries, scanned) ==
    LET admitted == Fitting(entries)
        Page(checkpoint, more) ==
          [records |-> Records(admitted), checkpoint |-> checkpoint, hasMore |-> more]
    IN  IF Len(admitted) < Len(entries)
        THEN Page(IF admitted = <<>> THEN window.from ELSE Last(admitted).at, TRUE)
        ELSE IF scanned = <<>> \/ Last(scanned) >= window.to THEN Page(window.to, FALSE)
        ELSE Page(Last(scanned), TRUE)
-----------------------------------------------------------------------------
(***************************************************************************)
(* Positions in the order of creation, then of keys: what a snapshot's     *)
(* members and browsing are paged by.                                      *)
(***************************************************************************)
Start == [created |-> 0, key |-> 0]

Before(a, b) == \/ a.created < b.created
                \/ a.created = b.created /\ a.key < b.key

Sorted(rows) == [i \in 1..Cardinality(rows) |->
                   CHOOSE row \in rows : Cardinality({r \in rows : Before(r, row)}) = i - 1]

After(position, rows) == Sorted({row \in rows : Before(position, row)})

FirstRows(rows, n) == SubSeq(rows, 1, IF n < Len(rows) THEN n ELSE Len(rows))

\* assembleSnapshotPage: the entries are one more than a page may have
SnapshotPage(entries) ==
    LET admitted == Fitting(entries)
    IN  [records |-> Records(admitted), hasMore |-> Len(admitted) < Len(entries)]

\* createBrowsePageBuilder, filled from at most PageSize rows
BrowsePage(rows) ==
    LET admitted == Fitting(FirstRows(rows, PageSize))
    IN  [records |-> Records(admitted), hasMore |-> Len(admitted) < Len(rows)]
-----------------------------------------------------------------------------
(***************************************************************************)
(* The items of snapshots, and what a purge with a budget leaves of them.  *)
(***************************************************************************)
ItemsIn(store, ids) == MapThenSumSet(LAMBDA i : Cardinality(store.snapshots[i].items), ids)

\* The item allowance left when the targets up to i have had their turn
Allowance(store, targets, i) == ItemBudget - ItemsIn(store, {j \in targets : j < i})

\* Without the first n
Remaining(items, n) == {item \in items : Cardinality({m \in items : Before(m, item)}) >= n}
=============================================================================
