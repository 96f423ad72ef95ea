---------------------------- MODULE StoreAdapters ---------------------------
(***************************************************************************)
(* The in-memory and the SQLite repository side by side: every call goes   *)
(* to both, time passes for both, and `parted' names the calls that the    *)
(* two have ever answered differently.  Reads are not steps: the           *)
(* properties compare what the two would answer in every state.            *)
(*                                                                         *)
(* The two are the parity adapters of the project: what is tested with     *)
(* them is to be evidence for the other.  So they must not only keep a     *)
(* promise each (both are shown to implement OwnerHistory) but agree.      *)
(***************************************************************************)
EXTENDS RepositoryContract

CONSTANTS
    Key,         \* record keys, numbered from 1 in their order
    Body,        \* encrypted bodies
    Batch,       \* the archive batches callers submit
    NewState,    \* the delivery states callers patch to
    IdemKey,     \* idempotency keys
    MaxSeq,      \* bound of the model on sequences
    MaxRotations,\* bound of the model on epochs
    MaxTaken     \* bound of the model on snapshots asked for

ASSUME KeysNumbered == IsFiniteSet(Key) /\ Key \subseteq Nat \ {0}

\* The states an item is archived in, and those a record can be patched to
ASSUME CallsTyped ==
    /\ \A batch \in Batch :
          batch \in Seq([key : Key, body : Body, state : {"prepared", "received"}])
    /\ NewState \subseteq {"prepared", "received", "unknown", "accepted", "failed"}

VARIABLES
    mem,     \* the store of MemoryStore
    sql,     \* the store of SqliteStore
    aged,    \* changes up to this sequence are older than 30 days
    taken,   \* snapshots asked for so far, which numbers them
    parted   \* the operations whose answers have differed

vars == <<mem, sql, aged, taken, parted>>

M == INSTANCE MemoryStore
Q == INSTANCE SqliteStore

AdaptersInit ==
    /\ mem = M!EmptyStore
    /\ sql = Q!EmptyStore
    /\ aged = 0
    /\ taken = 0
    /\ parted = {}

Both(m, q, operation) ==
    /\ mem' = m.store
    /\ sql' = q.store
    /\ parted' = IF m.answer = q.answer THEN parted ELSE parted \cup {operation}

Room(n) == mem.next + n <= MaxSeq + 1

ArchiveBatch(epoch, batch) ==
    /\ Room(Len(batch))
    /\ Both(M!ArchiveBatch(mem, epoch, batch), Q!ArchiveBatch(sql, epoch, batch), "archiveBatch")
    /\ UNCHANGED <<aged, taken>>

PatchState(key, newState, expected, id) ==
    /\ Room(1)
    /\ Both(M!PatchState(mem, key, newState, expected, id),
            Q!PatchState(sql, key, newState, expected, id), "patchState")
    /\ UNCHANGED <<aged, taken>>

DeleteRecord(key, id) ==
    /\ Room(1)
    /\ Both(M!DeleteRecord(mem, key, id), Q!DeleteRecord(sql, key, id), "deleteRecord")
    /\ UNCHANGED <<aged, taken>>

DeleteAll(expected, id) ==
    /\ mem.epoch <= MaxRotations
    /\ Both(M!DeleteAll(mem, expected, id), Q!DeleteAll(sql, expected, id), "deleteAll")
    /\ UNCHANGED <<aged, taken>>

\* A snapshot may be refused for rows that only one of the two has purged.
CreateSnapshot ==
    /\ taken < MaxTaken
    /\ taken' = taken + 1
    /\ Both(M!CreateSnapshot(mem, taken + 1), Q!CreateSnapshot(sql, taken + 1),
            IF mem.snapshots = sql.snapshots THEN "createSnapshot" ELSE "laggingPurge")
    /\ UNCHANGED aged

PurgeSnapshots ==
    /\ mem' = M!PurgeSnapshots(mem)
    /\ sql' = Q!PurgeSnapshots(sql)
    /\ UNCHANGED <<aged, taken, parted>>

PurgeChanges ==
    /\ mem' = M!PurgeChanges(mem, aged)
    /\ sql' = Q!PurgeChanges(sql, aged)
    /\ UNCHANGED <<aged, taken, parted>>
-----------------------------------------------------------------------------
(***************************************************************************)
(* Time passes.                                                            *)
(***************************************************************************)
Aging(f, i) == IF i \in DOMAIN f THEN [f EXCEPT ![i].old = TRUE] ELSE f

\* expires_at of a snapshot passes; the earlier ones have expired before.
SnapshotExpires(i) ==
    LET ids == DOMAIN mem.snapshots \cup DOMAIN sql.snapshots
    IN  /\ i \in ids
        /\ \A j \in ids : j < i => \A store \in {mem, sql} :
              j \in DOMAIN store.snapshots => store.snapshots[j].old
        /\ mem' = [mem EXCEPT !.snapshots = Aging(@, i)]
        /\ sql' = [sql EXCEPT !.snapshots = Aging(@, i)]
        /\ UNCHANGED <<aged, taken, parted>>

\* IDEMPOTENCY_TTL_MS passes for a key.
IdempotencyExpires(id) ==
    /\ mem' = [mem EXCEPT !.idempotency = Aging(@, id)]
    /\ sql' = [sql EXCEPT !.idempotency = Aging(@, id)]
    /\ UNCHANGED <<aged, taken, parted>>

ChangesAge ==
    /\ aged < mem.next - 1
    /\ aged' \in aged + 1 .. mem.next - 1
    /\ UNCHANGED <<mem, sql, taken, parted>>

Mutate ==
    \/ \E e \in 1..mem.epoch, batch \in Batch : ArchiveBatch(e, batch)
    \/ \E id \in IdemKey :
          \/ \E k \in Key, s \in NewState, r \in 1..2 : PatchState(k, s, r, id)
          \/ \E k \in Key : DeleteRecord(k, id)
          \/ \E e \in 1..mem.epoch : DeleteAll(e, id)

Time ==
    \/ \E i \in 1..taken : SnapshotExpires(i)
    \/ \E id \in IdemKey : IdempotencyExpires(id)
    \/ ChangesAge

AdaptersNext == Mutate \/ CreateSnapshot \/ PurgeSnapshots \/ PurgeChanges \/ Time

\* The scheduler goes on to call both purges; nothing obliges the callers.
AdaptersSpec ==
    /\ AdaptersInit /\ [][AdaptersNext]_vars
    /\ WF_vars(PurgeSnapshots) /\ WF_vars(PurgeChanges)
-----------------------------------------------------------------------------
NothingDue ==
    /\ M!DueSnapshots(mem) = {}
    /\ Q!DueSnapshots(sql) = {}
    /\ \A s \in DOMAIN mem.changes : s <= aged => M!Protected(mem, s)
    /\ \A s \in DOMAIN sql.changes : ~Q!Eligible(sql, s, aged)

(***************************************************************************)
(* Parity of the answers: whatever calls came before, and however far each *)
(* adapter's retention has got, both answer a call alike (outcome of every *)
(* batch item, sequence, revision, epoch, replayed result, error code) and *)
(* agree on the history: records, counters, epoch, allocator, fences.  The *)
(* fences are decided by different data: memory looks for a tombstone,     *)
(* SQLite also at the latest retained change (repository.mjs:180,          *)
(* repository.sqlite.mjs:268).                                             *)
(***************************************************************************)
SameAnswers ==
    /\ parted \subseteq {"laggingPurge"}
    /\ M!GetUsage(mem) = Q!GetUsage(sql)
    /\ mem.records = sql.records
    /\ mem.tombstones = sql.tombstones

Windows ==
    LET latest == mem.next - 1
    IN  {[from |-> 0, to |-> latest, explicit |-> FALSE]}
          \cup {[from |-> c, to |-> latest, explicit |-> TRUE] : c \in 0..latest}
          \cup {[from |-> c, to |-> w, explicit |-> FALSE] : c \in 1..latest, w \in 1..latest}

\* A cursor is good for minutes and a change for 30 days: no window in use
\* ends in a change that may be purged.  A fresh start takes what is retained.
InUse(window) ==
    /\ window.from <= window.to
    /\ window.to >= aged
    /\ ~Fresh(window) \/ NothingDue

Positions == {Start} \cup {[created |-> c, key |-> k] : c \in 1..MaxSeq, k \in Key}

SamePage(m, q) == IsError(m) \/ IsError(q) \/ m = q

\* A snapshot past its expiry may have lost items in one adapter only, and is
\* then invalidated by deletes that leave it alone in the other.
Expired(i) == i \in DOMAIN mem.snapshots /\ mem.snapshots[i].old

SameMembers(m, q) == IsError(m) \/ IsError(q) \/ m.items = q.items

(***************************************************************************)
(* Parity of the feeds: where both adapters serve a page, of the changes   *)
(* in any window and of any snapshot at any position, it is the same page, *)
(* with the same checkpoint and continuation, although the purges of the   *)
(* two delete rows in different calls (repository.mjs:863,                 *)
(* repository.sqlite.mjs:1128).  One may be ahead and answer that the      *)
(* cursor has expired, never serve other records.  Only what an expired    *)
(* snapshot, which serves none, says of its status may differ.             *)
(***************************************************************************)
PagesAgree ==
    /\ \A w \in Windows :
          InUse(w) => SamePage(M!ListChangesPage(mem, w), Q!ListChangesPage(sql, w))
    /\ \A p \in Positions :
          /\ M!ListBrowse(mem, p) = Q!ListBrowse(sql, p)
          /\ \A i \in 1..taken :
                /\ SamePage(M!ListSnapshotPage(mem, i, p), Q!ListSnapshotPage(sql, i, p))
                /\ SameMembers(M!SnapshotMembers(mem, i, p), Q!SnapshotMembers(sql, i, p))
                /\ ~Expired(i) =>
                     SamePage(M!SnapshotMembers(mem, i, p), Q!SnapshotMembers(sql, i, p))

(***************************************************************************)
(* The purges of the two adapters differ in order, accounting and resume   *)
(* position, and still reach the same rows: as soon as neither has a row   *)
(* that is due, they retain the same changes and the same snapshots,       *)
(* unless one of them had to refuse a snapshot for rows not yet purged.    *)
(***************************************************************************)
SettledAlike ==
    NothingDue =>
      /\ mem.changes = sql.changes
      /\ parted = {} => mem.snapshots = sql.snapshots

HistoryOf(store) == [k \in DOMAIN store.records |->
                       [body |-> store.records[k].body, state |-> store.records[k].state]]

MemoryHistory == INSTANCE OwnerHistory
    WITH epoch <- mem.epoch, entries <- HistoryOf(mem), fenced <- mem.tombstones
SqliteHistory == INSTANCE OwnerHistory
    WITH epoch <- sql.epoch, entries <- HistoryOf(sql), fenced <- sql.tombstones

(***************************************************************************)
(* Each adapter implements what the repository promises an owner: bodies   *)
(* are written once, accepted is final, a deleted key stays fenced for the *)
(* rest of the epoch whatever retention purges, delete-all starts anew.    *)
(***************************************************************************)
AdaptersKeepPromise == MemoryHistory!Spec /\ SqliteHistory!Spec

(***************************************************************************)
(* Retention makes progress within its budgets: whatever the callers do in *)
(* between, calling the purges again and again deletes everything that is  *)
(* due, in both adapters.  Memory's budget is also spent on rows that stay *)
(* (repository.mjs:870), which must not keep it from the rows behind them. *)
(***************************************************************************)
CleanupEnds == []<>NothingDue
=============================================================================
