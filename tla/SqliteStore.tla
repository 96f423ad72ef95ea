----------------------------- MODULE SqliteStore ----------------------------
(***************************************************************************)
(* The SQLite repository (repository.sqlite.mjs), one owner's rows.  A     *)
(* mutation is one BEGIN IMMEDIATE transaction under the owner's lock, and *)
(* nothing in it awaits, so an operation is one function; a transaction    *)
(* that is rolled back leaves the rows as they were.  Closing and opening  *)
(* the database file changes nothing.                                      *)
(*                                                                         *)
(* history_changes is joined with history_change_details: the two are      *)
(* written and deleted together.  The rows of a database that an older     *)
(* release wrote, with no details or a change boundary, do not occur.      *)
(***************************************************************************)
EXTENDS RepositoryContract

EmptyStore ==
    [epoch |-> 1, next |-> 1, count |-> 0, records |-> <<>>, tombstones |-> {},
     changes |-> <<>>, snapshots |-> <<>>, idempotency |-> <<>>]

EventsOf(store, key) == {s \in DOMAIN store.changes : store.changes[s].key = key}

\* latestChangeKind
LastKind(store, key) ==
    LET events == EventsOf(store, key)
    IN  IF events = {} THEN "none" ELSE store.changes[Max(events)].kind

\* Deletion wins while its event is retained, and by the tombstone ever after.
Fenced(store, key) == LastKind(store, key) = "delete" \/ key \in store.tombstones

Event(key, kind, version, state) ==
    [key |-> key, kind |-> kind, version |-> version, state |-> state]
-----------------------------------------------------------------------------
(***************************************************************************)
(* Archive batches.  The owner's lock leaves no room for the duplicate key *)
(* that the insert would answer by alreadyPresent or conflict.             *)
(***************************************************************************)

ItemOutcome(store, plan, item) ==
    IF item.key \in Present(store, plan)
    THEN ExistingOutcome(BodyHeld(store, plan, item.key), item)
    ELSE IF Fenced(store, item.key) THEN "deleted"
    ELSE AdmissionOutcome(plan)

\* The plan after the first n items.
Plan(store, batch) ==
    LET plan[n \in 0..Len(batch)] ==
          IF n = 0 THEN EmptyPlan(store)
          ELSE Planned(plan[n - 1], batch[n], ItemOutcome(store, plan[n - 1], batch[n]))
    IN  plan

\* The inserts take consecutive sequences; the owner's row is updated once.
Inserted(store, batch, plan) ==
    LET stored == {i \in DOMAIN plan.outcomes : plan.outcomes[i].outcome = "stored"}
        Sequence(i) == store.next + Cardinality({j \in stored : j < i})
        Row(i) == [key |-> batch[i].key, body |-> batch[i].body, state |-> batch[i].state,
                   revision |-> 1, changeSeq |-> Sequence(i), created |-> store.next]
        Creation(i) == Event(batch[i].key, "upsert", 1, batch[i].state)
        ItemOf(k) == CHOOSE i \in stored : batch[i].key = k
        ItemAt(s) == CHOOSE i \in stored : Sequence(i) = s
        keys      == {batch[i].key : i \in stored}
        sequences == {Sequence(i) : i \in stored}
    IN  [store EXCEPT
           !.records = [k \in DOMAIN @ \cup keys |-> IF k \in keys THEN Row(ItemOf(k)) ELSE @[k]],
           !.changes = [s \in DOMAIN @ \cup sequences |->
                          IF s \in sequences THEN Creation(ItemAt(s)) ELSE @[s]],
           !.next = @ + Cardinality(stored),
           !.count = plan.count]

ArchiveBatch(store, epoch, batch) ==
    IF epoch # store.epoch THEN Reply(store, EpochChanged(store, batch))
    ELSE LET plan == Plan(store, batch)[Len(batch)]
         IN  Reply(Inserted(store, batch, plan),
                   [epoch |-> store.epoch, committed |-> TRUE, outcomes |-> plan.outcomes])
-----------------------------------------------------------------------------
(***************************************************************************)
(* The mutations under an idempotency key.                                 *)
(***************************************************************************)
ExpiredKeys(store) == {i \in DOMAIN store.idempotency : store.idempotency[i].old}

\* The transaction deletes the expired rows first.
Begun(store) == [store EXCEPT !.idempotency = Dropped(@, ExpiredKeys(store))]

\* The mutation in it comes to done.  A replay and every error roll it back.
Transaction(store, id, request, done) ==
    LET begun == Begun(store)
    IN  IF id \in DOMAIN begun.idempotency
        THEN Reply(store, IF begun.idempotency[id].request = request
                          THEN [replayed |-> begun.idempotency[id].result]
                          ELSE Error("ERR_IDEMPOTENCY_CONFLICT"))
        ELSE IF Cardinality(DOMAIN begun.idempotency) >= MaxIdem
        THEN Reply(store, Error("ERR_QUOTA_EXCEEDED"))
        ELSE IF IsError(done.answer) THEN Reply(store, done.answer)
        ELSE Reply([done.store EXCEPT !.idempotency =
                      Added(@, id, [request |-> request, result |-> done.answer, old |-> FALSE])],
                   done.answer)

PatchRefused(store, key, newState, expected) ==
    IF Fenced(store, key) \/ key \notin DOMAIN store.records THEN "ERR_INVALID_RECORD"
    ELSE IF \/ store.records[key].revision # expected
            \/ store.records[key].state = "accepted" /\ newState # "accepted"
    THEN "ERR_REVISION_CONFLICT"
    ELSE "none"

PatchState(store, key, newState, expected, id) ==
    LET s        == Begun(store)
        refusal  == PatchRefused(s, key, newState, expected)
        row      == s.records[key]
        revision == row.revision + 1
        patched  == [row EXCEPT !.state = newState, !.revision = revision, !.changeSeq = s.next]
        done     ==
          IF refusal # "none" THEN Reply(s, Error(refusal))
          ELSE IF row.state = newState
          THEN Reply(s, [revision |-> row.revision, sequence |-> row.changeSeq, deduped |-> TRUE])
          ELSE Reply([s EXCEPT
                        !.records[key] = patched,
                        !.changes = Added(@, s.next, Event(key, "state", revision, newState)),
                        !.next = @ + 1],
                     [revision |-> revision, sequence |-> s.next])
    IN  Transaction(store, id, <<"patchState", key, newState, expected>>, done)

\* invalidateSnapshotsForRecord, invalidateSnapshotsForEpoch: the active
\* snapshots of the epoch among ids
Invalidated(store, ids) ==
    [i \in DOMAIN store.snapshots |->
       LET row == store.snapshots[i]
       IN  IF i \in ids /\ row.epoch = store.epoch /\ row.status = "active"
           THEN [row EXCEPT !.status = "invalidated"] ELSE row]

Holding(store, key) ==
    {i \in DOMAIN store.snapshots : \E item \in store.snapshots[i].items : item.key = key}

\* There is a record, an event or a tombstone of the key.
Existed(store, key) ==
    \/ key \in DOMAIN store.records \cup store.tombstones
    \/ EventsOf(store, key) # {}

DeleteRecord(store, key, id) ==
    LET s    == Begun(store)
        done ==
          IF ~Existed(s, key) THEN Reply(s, [deleted |-> FALSE, epoch |-> s.epoch])
          ELSE Reply([s EXCEPT
                        !.count = IF key \in DOMAIN s.records THEN @ - 1 ELSE @,
                        !.records = Dropped(@, {key}),
                        !.changes = Added(@, s.next, Event(key, "delete", 1, "none")),
                        !.tombstones = @ \cup {key},
                        !.snapshots = Invalidated(s, Holding(s, key)),
                        !.next = @ + 1],
                     [deleted |-> TRUE, sequence |-> s.next, epoch |-> s.epoch])
    IN  Transaction(store, id, <<"deleteRecord", key>>, done)

DeleteAll(store, expected, id) ==
    LET s    == Begun(store)
        done ==
          IF expected # s.epoch THEN Reply(s, Error("ERR_EPOCH_CHANGED"))
          ELSE Reply([s EXCEPT !.epoch = @ + 1, !.count = 0, !.records = <<>>,
                               !.tombstones = {}, !.changes = <<>>,
                               !.snapshots = Invalidated(s, DOMAIN s.snapshots)],
                     [epoch |-> s.epoch + 1])
    IN  Transaction(store, id, <<"deleteAll", expected>>, done)
-----------------------------------------------------------------------------
(***************************************************************************)
(* Snapshots.                                                              *)
(***************************************************************************)

\* The records joined with their upsert events.
JoinedMembers(store) ==
    LET created == {s \in DOMAIN store.changes :
                      /\ store.changes[s].kind = "upsert"
                      /\ s <= Watermark(store)
                      /\ store.changes[s].key \in DOMAIN store.records}
        Member(row) == [key |-> row.key, revision |-> row.revision, state |-> row.state,
                        changeSeq |-> row.changeSeq, created |-> row.created]
    IN  {Member(store.records[store.changes[s].key]) : s \in created}

CreateSnapshot(store, id) ==
    LET members == JoinedMembers(store)
    IN  IF \/ Cardinality(DOMAIN store.snapshots) >= MaxSnapshots
           \/ ItemsIn(store, DOMAIN store.snapshots) + Cardinality(members) > MaxMembers
        THEN Reply(store, Error("ERR_QUOTA_EXCEEDED"))
        ELSE Reply([store EXCEPT !.snapshots =
                      Added(@, id, [epoch |-> store.epoch, watermark |-> Watermark(store),
                                    status |-> "active", items |-> members, old |-> FALSE])],
                   [epoch |-> store.epoch, watermark |-> Watermark(store),
                    memberCount |-> Cardinality(members)])

Serving(row) == row.status = "active" /\ ~row.old

\* listSnapshotMembers: no bodies, and no items unless the snapshot serves
SnapshotMembers(store, id, position) ==
    IF id \notin DOMAIN store.snapshots THEN Error("none")
    ELSE LET row == store.snapshots[id]
         IN  [status |-> row.status,
              items |-> IF Serving(row) THEN FirstRows(After(position, row.items), PageSize)
                        ELSE <<>>]

\* listSnapshotPage: the body is the live record's, the rest is the member's
PageRow(store, item) ==
    [key |-> item.key, body |-> store.records[item.key].body, state |-> item.state,
     revision |-> item.revision, changeSeq |-> item.changeSeq, created |-> item.created]

ListSnapshotPage(store, id, position) ==
    IF id \notin DOMAIN store.snapshots THEN Error("none")
    ELSE LET row   == store.snapshots[id]
             items == FirstRows(After(position, row.items), PageSize + 1)
         IN  IF Serving(row) /\ \A i \in DOMAIN items : items[i].key \in DOMAIN store.records
             THEN SnapshotPage([i \in DOMAIN items |-> [record |-> PageRow(store, items[i])]])
             ELSE Error("ERR_CURSOR_EXPIRED")

\* ORDER BY expires_at LIMIT maxSnapshots
DueSnapshots(store) ==
    LET Due(row) == row.old \/ (row.status = "invalidated" /\ row.items # {})
    IN  First({i \in DOMAIN store.snapshots : Due(store.snapshots[i])}, SnapBudget)

\* purgeExpiredSnapshots: first the items of the targets, as far as the allowance
\* goes, then the expired rows among them, which are empty, if it was not used up.
\* SQL leaves open which items go first; a snapshot that loses any serves none.
PurgeSnapshots(store) ==
    LET targets == DueSnapshots(store)
        reached == {i \in targets : Allowance(store, targets, i) > 0}
        Rest(i) == Remaining(store.snapshots[i].items, Allowance(store, targets, i))
        gone    == IF ItemsIn(store, targets) < ItemBudget
                   THEN {i \in targets : store.snapshots[i].old} ELSE {}
    IN  [store EXCEPT !.snapshots =
           [i \in DOMAIN @ \ gone |->
              IF i \in reached THEN [@[i] EXCEPT !.items = Rest(i)] ELSE @[i]]]
-----------------------------------------------------------------------------
(***************************************************************************)
(* Reads.                                                                  *)
(***************************************************************************)
GetUsage(store) == [epoch |-> store.epoch, next |-> store.next, count |-> store.count]

\* ORDER BY created_at, record_key LIMIT limit + 1
ListBrowse(store, position) ==
    LET live == {store.records[k] : k \in DOMAIN store.records}
        rows == FirstRows(After(position, live), PageSize + 1)
    IN  BrowsePage([i \in DOMAIN rows |-> [record |-> rows[i]]])

EarliestSequence(store) == IF DOMAIN store.changes = {} THEN 0 ELSE Min(DOMAIN store.changes)

\* findLatestDeleteSql, 0 if there is none
LatestDelete(store, key) ==
    LET deletes == {s \in EventsOf(store, key) : store.changes[s].kind = "delete"}
    IN  IF deletes = {} THEN 0 ELSE Max(deletes)

DeleteEntry(key, sequence, at) == [record |-> [key |-> key, sequence |-> sequence], at |-> at]

\* (mutant) no early delete: the event of a dead record is always skipped
MutChangeEntry(store, window, s) ==
    LET c == store.changes[s]
    IN  IF c.kind = "delete" THEN <<DeleteEntry(c.key, s, s)>>
        ELSE IF c.key \in DOMAIN store.records
        THEN <<[record |-> [store.records[c.key] EXCEPT
                              !.state = c.state, !.revision = c.version, !.changeSeq = s],
                at |-> s]>>
        ELSE <<>>

\* An event of a live record is reported as of the event; of a record deleted
\* after the window the deletion is reported in its place; an event of a record
\* deleted within the window is left to the deletion.
ChangeEntry(store, window, s) ==
    LET c == store.changes[s]
    IN  IF c.kind = "delete" THEN <<DeleteEntry(c.key, s, s)>>
        ELSE IF c.key \in DOMAIN store.records
        THEN <<[record |-> [store.records[c.key] EXCEPT
                              !.state = c.state, !.revision = c.version, !.changeSeq = s],
                at |-> s]>>
        ELSE IF LatestDelete(store, c.key) > window.to
        THEN <<DeleteEntry(c.key, LatestDelete(store, c.key), s)>>
        ELSE <<>>

ListChangesPage(store, window) ==
    LET inWindow == {s \in DOMAIN store.changes : s > window.from /\ s <= window.to}
        scanned  == FirstRows(Ordered(inWindow), PageSize)
        entries  == FlattenSeq([i \in DOMAIN scanned |-> ChangeEntry(store, window, scanned[i])])
    IN  IF StartRetained(window, EarliestSequence(store)) /\ NoGap(window, scanned)
        THEN ChangePage(window, entries, scanned)
        ELSE Error("ERR_CURSOR_EXPIRED")
-----------------------------------------------------------------------------
(***************************************************************************)
(* purgeExpiredChanges.  Changes up to the sequence `aged' are older than  *)
(* the retention period.  The query leaves out the upserts of live         *)
(* records, so the budget counts the rows deleted.                         *)
(***************************************************************************)

\* (mutant) the upsert of a live record is eligible too
MutEligible(store, s, aged) == s <= aged

Eligible(store, s, aged) ==
    /\ s <= aged
    /\ store.changes[s].kind = "upsert" => store.changes[s].key \notin DOMAIN store.records

PurgeChanges(store, aged) ==
    LET due == {s \in DOMAIN store.changes : Eligible(store, s, aged)}
    IN  [store EXCEPT !.changes = Dropped(@, First(due, ItemBudget))]
=============================================================================
