----------------------------- MODULE MemoryStore ----------------------------
(***************************************************************************)
(* The in-memory repository (repository.mjs), one owner's part of its      *)
(* Maps.  The body of every operation is synchronous under the owner's     *)
(* lock, so an operation is one function.  purgeAt is the owner's entry in *)
(* changePurgePositions, 0 if there is none.                               *)
(***************************************************************************)
EXTENDS RepositoryContract

EmptyStore ==
    [epoch |-> 1, next |-> 1, count |-> 0, records |-> <<>>, tombstones |-> {},
     changes |-> <<>>, snapshots |-> <<>>, idempotency |-> <<>>, purgeAt |-> 0]

\* allocSequence, and the event that takes the sequence
Logged(store, key, kind, version, state) ==
    [store EXCEPT !.changes = Added(@, store.next, [key |-> key, kind |-> kind,
                                                    version |-> version, state |-> state]),
                  !.next = @ + 1]
-----------------------------------------------------------------------------
(***************************************************************************)
(* Archive batches.                                                        *)
(***************************************************************************)

\* (mutant) the fence is not consulted
MutItemOutcome(store, plan, item) ==
    IF item.key \in Present(store, plan)
    THEN ExistingOutcome(BodyHeld(store, plan, item.key), item)
    ELSE AdmissionOutcome(plan)

ItemOutcome(store, plan, item) ==
    IF item.key \in Present(store, plan)
    THEN ExistingOutcome(BodyHeld(store, plan, item.key), item)
    ELSE IF item.key \in store.tombstones THEN "deleted"
    ELSE AdmissionOutcome(plan)

\* Phase 1: the plan after the first n items.
Plan(store, batch) ==
    LET plan[n \in 0..Len(batch)] ==
          IF n = 0 THEN EmptyPlan(store)
          ELSE Planned(plan[n - 1], batch[n], ItemOutcome(store, plan[n - 1], batch[n]))
    IN  plan

StoreItem(store, item, created) ==
    LET row == [key |-> item.key, body |-> item.body, state |-> item.state, revision |-> 1,
                changeSeq |-> store.next, created |-> created]
    IN  Logged([store EXCEPT !.records = Added(@, item.key, row), !.count = @ + 1],
               item.key, "upsert", 1, item.state)

\* Phase 2: the store after the first n items, of which the admitted ones are
\* stored in request order, created at one instant.
Admit(store, batch, outcomes) ==
    LET admit[n \in 0..Len(batch)] ==
          IF n = 0 THEN store
          ELSE IF outcomes[n].outcome # "stored" THEN admit[n - 1]
          ELSE StoreItem(admit[n - 1], batch[n], store.next)
    IN  admit

ArchiveBatch(store, epoch, batch) ==
    IF epoch # store.epoch THEN Reply(store, EpochChanged(store, batch))
    ELSE LET outcomes == Plan(store, batch)[Len(batch)].outcomes
         IN  Reply(Admit(store, batch, outcomes)[Len(batch)],
                   [epoch |-> store.epoch, committed |-> TRUE, outcomes |-> outcomes])
-----------------------------------------------------------------------------
(***************************************************************************)
(* The mutations under an idempotency key.                                 *)
(***************************************************************************)
ExpiredKeys(store) == {i \in DOMAIN store.idempotency : store.idempotency[i].old}

Swept(store) == [store EXCEPT !.idempotency = Dropped(@, ExpiredKeys(store))]

\* checkIdempotency and storeIdempotency around a mutation, which comes to done.
\* The check sweeps the store, whatever comes of the call; an error is not
\* remembered.
Idempotently(store, id, request, done) ==
    LET swept == Swept(store)
    IN  IF id \in DOMAIN swept.idempotency
        THEN Reply(swept, IF swept.idempotency[id].request = request
                          THEN [replayed |-> swept.idempotency[id].result]
                          ELSE Error("ERR_IDEMPOTENCY_CONFLICT"))
        ELSE IF Cardinality(DOMAIN swept.idempotency) >= MaxIdem
        THEN Reply(swept, Error("ERR_QUOTA_EXCEEDED"))
        ELSE IF IsError(done.answer) THEN done
        ELSE Reply([done.store EXCEPT !.idempotency =
                      Added(@, id, [request |-> request, result |-> done.answer, old |-> FALSE])],
                   done.answer)

\* (mutant) accepted can be taken back
MutPatchRefused(store, key, newState, expected) ==
    IF key \in store.tombstones \/ key \notin DOMAIN store.records THEN "ERR_INVALID_RECORD"
    ELSE IF store.records[key].revision # expected THEN "ERR_REVISION_CONFLICT"
    ELSE "none"

\* Deletion wins, the revision is compared, accepted is final.
PatchRefused(store, key, newState, expected) ==
    IF key \in store.tombstones \/ key \notin DOMAIN store.records THEN "ERR_INVALID_RECORD"
    ELSE IF \/ store.records[key].revision # expected
            \/ store.records[key].state = "accepted" /\ newState # "accepted"
    THEN "ERR_REVISION_CONFLICT"
    ELSE "none"

PatchState(store, key, newState, expected, id) ==
    LET s       == Swept(store)
        refusal == PatchRefused(s, key, newState, expected)
        row     == s.records[key]
        patched == [row EXCEPT !.state = newState, !.revision = @ + 1, !.changeSeq = s.next]
        done    == IF refusal # "none" THEN Reply(s, Error(refusal))
                   ELSE IF row.state = newState
                   THEN Reply(s, [revision |-> row.revision, sequence |-> row.changeSeq,
                                  deduped |-> TRUE])
                   ELSE Reply(Logged([s EXCEPT !.records[key] = patched],
                                     key, "state", patched.revision, newState),
                              [revision |-> patched.revision, sequence |-> s.next])
    IN  Idempotently(store, id, <<"patchState", key, newState, expected>>, done)

\* invalidateSnapshotsForRecord, invalidateSnapshotsForEpoch: the active
\* snapshots of the epoch among ids
Invalidated(store, ids) ==
    [i \in DOMAIN store.snapshots |->
       LET row == store.snapshots[i]
       IN  IF i \in ids /\ row.epoch = store.epoch /\ row.status = "active"
           THEN [row EXCEPT !.status = "invalidated"] ELSE row]

Holding(store, key) ==
    {i \in DOMAIN store.snapshots : \E item \in store.snapshots[i].items : item.key = key}

DeleteRecord(store, key, id) ==
    LET s    == Swept(store)
        done == IF key \notin DOMAIN s.records \cup s.tombstones
                THEN Reply(s, [deleted |-> FALSE, epoch |-> s.epoch])
                ELSE Reply([Logged(s, key, "delete", 1, "none") EXCEPT
                              !.count = @ - Cardinality({key} \cap DOMAIN s.records),
                              !.records = Dropped(@, {key}),
                              !.tombstones = @ \cup {key},
                              !.snapshots = Invalidated(s, Holding(s, key))],
                           [deleted |-> TRUE, sequence |-> s.next, epoch |-> s.epoch])
    IN  Idempotently(store, id, <<"deleteRecord", key>>, done)

\* The resume position of the change purge outlives the history.
DeleteAll(store, expected, id) ==
    LET s    == Swept(store)
        done == IF expected # s.epoch THEN Reply(s, Error("ERR_EPOCH_CHANGED"))
                ELSE Reply([s EXCEPT !.epoch = @ + 1, !.count = 0, !.records = <<>>,
                                     !.tombstones = {}, !.changes = <<>>,
                                     !.snapshots = Invalidated(s, DOMAIN s.snapshots)],
                           [epoch |-> s.epoch + 1])
    IN  Idempotently(store, id, <<"deleteAll", expected>>, done)
-----------------------------------------------------------------------------
(***************************************************************************)
(* Snapshots.                                                              *)
(***************************************************************************)

\* creationSequenceOf is not null: the record's upsert event is retained
CreationKept(store, key) ==
    \E s \in DOMAIN store.changes :
       store.changes[s].key = key /\ store.changes[s].kind = "upsert"

MemberOf(row) == [key |-> row.key, revision |-> row.revision, state |-> row.state,
                  changeSeq |-> row.changeSeq, created |-> row.created]

MembersNow(store) ==
    {MemberOf(store.records[k]) : k \in {j \in DOMAIN store.records : CreationKept(store, j)}}

CreateSnapshot(store, id) ==
    LET members == MembersNow(store)
    IN  IF \/ Cardinality(DOMAIN store.snapshots) >= MaxSnapshots
           \/ ItemsIn(store, DOMAIN store.snapshots) + Cardinality(members) > MaxMembers
        THEN Reply(store, Error("ERR_QUOTA_EXCEEDED"))
        ELSE Reply([store EXCEPT !.snapshots =
                      Added(@, id, [epoch |-> store.epoch, watermark |-> Watermark(store),
                                    status |-> "active", items |-> members, old |-> FALSE])],
                   [epoch |-> store.epoch, watermark |-> Watermark(store),
                    memberCount |-> Cardinality(members)])

Serving(row) == row.status = "active" /\ ~row.old

\* listSnapshotMembers: no bodies, and no items unless the snapshot serves
SnapshotMembers(store, id, position) ==
    IF id \notin DOMAIN store.snapshots THEN Error("none")
    ELSE LET row == store.snapshots[id]
         IN  [status |-> row.status,
              items |-> IF Serving(row) THEN FirstRows(After(position, row.items), PageSize)
                        ELSE <<>>]

\* listSnapshotPage: the body is the live record's, the rest is the member's
Resolved(store, item) ==
    [store.records[item.key] EXCEPT !.revision = item.revision, !.state = item.state,
                                    !.changeSeq = item.changeSeq, !.created = item.created]

ListSnapshotPage(store, id, position) ==
    IF id \notin DOMAIN store.snapshots THEN Error("none")
    ELSE LET row   == store.snapshots[id]
             items == FirstRows(After(position, row.items), PageSize + 1)
         IN  IF ~Serving(row) \/ \E i \in DOMAIN items : items[i].key \notin DOMAIN store.records
             THEN Error("ERR_CURSOR_EXPIRED")
             ELSE SnapshotPage([i \in DOMAIN items |-> [record |-> Resolved(store, items[i])]])

\* Map order is the order of creation.
DueSnapshot(row) == \/ row.old
                    \/ row.status = "invalidated" /\ row.items # {}

DueSnapshots(store) ==
    First({i \in DOMAIN store.snapshots : DueSnapshot(store.snapshots[i])}, SnapBudget)

\* purgeExpiredSnapshots, as far as the allowance goes.  Its batch size splits
\* the work and does not change it.  An expired row goes as soon as it is empty.
PurgeSnapshots(store) ==
    LET targets == DueSnapshots(store)
        reached == {i \in targets : Allowance(store, targets, i) > 0}
        Rest(i) == Remaining(store.snapshots[i].items, Allowance(store, targets, i))
        gone    == {i \in reached : Rest(i) = {} /\ store.snapshots[i].old}
    IN  [store EXCEPT !.snapshots =
           [i \in DOMAIN @ \ gone |->
              IF i \in reached THEN [@[i] EXCEPT !.items = Rest(i)] ELSE @[i]]]
-----------------------------------------------------------------------------
(***************************************************************************)
(* Reads.                                                                  *)
(***************************************************************************)
GetUsage(store) == [epoch |-> store.epoch, next |-> store.next, count |-> store.count]

LiveRows(store) == {store.records[k] : k \in DOMAIN store.records}

ListBrowse(store, position) ==
    LET rows == After(position, LiveRows(store))
    IN  BrowsePage([i \in DOMAIN rows |-> [record |-> rows[i]]])

EarliestSequence(store) == IF DOMAIN store.changes = {} THEN 0 ELSE Min(DOMAIN store.changes)

\* findLatestDelete, 0 if there is none
LatestDelete(store, key) ==
    LET deletes == {s \in DOMAIN store.changes :
                      store.changes[s].key = key /\ store.changes[s].kind = "delete"}
    IN  IF deletes = {} THEN 0 ELSE Max(deletes)

DeleteEntry(key, sequence, at) == [record |-> [key |-> key, sequence |-> sequence], at |-> at]

\* An event of a live record is reported as of the event; of a record deleted
\* after the window the deletion is reported in its place; an event of a record
\* deleted within the window is left to the deletion.
ChangeEntry(store, window, s) ==
    LET c == store.changes[s]
    IN  IF c.kind = "delete" THEN <<DeleteEntry(c.key, s, s)>>
        ELSE IF c.key \in DOMAIN store.records
        THEN <<[record |-> [store.records[c.key] EXCEPT
                              !.state = c.state, !.revision = c.version, !.changeSeq = s],
                at |-> s]>>
        ELSE IF LatestDelete(store, c.key) > window.to
        THEN <<DeleteEntry(c.key, LatestDelete(store, c.key), s)>>
        ELSE <<>>

ListChangesPage(store, window) ==
    LET inWindow == {s \in DOMAIN store.changes : s > window.from /\ s <= window.to}
        scanned  == FirstRows(Ordered(inWindow), PageSize)
        entries  == FlattenSeq([i \in DOMAIN scanned |-> ChangeEntry(store, window, scanned[i])])
    IN  IF StartRetained(window, EarliestSequence(store)) /\ NoGap(window, scanned)
        THEN ChangePage(window, entries, scanned)
        ELSE Error("ERR_CURSOR_EXPIRED")
-----------------------------------------------------------------------------
(***************************************************************************)
(* purgeExpiredChanges.  Changes up to the sequence `aged' are older than  *)
(* the retention period.  The budget counts the aged rows examined, also   *)
(* those that stay because they created a live record, and the next call   *)
(* resumes behind them; at the end of the log it starts over.              *)
(***************************************************************************)
Protected(store, s) ==
    store.changes[s].kind = "upsert" /\ store.changes[s].key \in DOMAIN store.records

\* The rows examined: the aged ones behind the position, or from the start if
\* the position is the end of the log.
Examined(store, aged) ==
    LET behind == {s \in DOMAIN store.changes : s > store.purgeAt}
        rows   == IF behind = {} THEN DOMAIN store.changes ELSE behind
    IN  First({s \in rows : s <= aged}, ItemBudget)

\* (mutant) the position is kept at the end of the log
MutResumeAt(store, examined) ==
    IF examined = {} THEN store.purgeAt ELSE Max(examined)

ResumeAt(store, examined) ==
    IF examined = {} \/ Max(examined) = Max(DOMAIN store.changes) THEN 0 ELSE Max(examined)

PurgeChanges(store, aged) ==
    LET examined == Examined(store, aged)
    IN  [store EXCEPT !.changes = Dropped(@, {s \in examined : ~Protected(store, s)}),
                      !.purgeAt = ResumeAt(store, examined)]
=============================================================================
