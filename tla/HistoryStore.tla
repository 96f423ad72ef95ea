---------------------------- MODULE HistoryStore ----------------------------
(***************************************************************************)
(* The durable history of one owner, as the MySQL repository keeps it.     *)
(*                                                                         *)
(* Every mutation runs in one transaction that first locks the owner's     *)
(* state row (ensureOwner / lockOwner), so a mutation is one action and    *)
(* owners do not interact.  Retention cleanup takes no such lock: it       *)
(* selects its victims outside the transaction that deletes them, and so   *)
(* is two actions with any mutation in between.                            *)
(*                                                                         *)
(* Data.  A record key stands for the hash of the six identity fields, a   *)
(* body for the encrypted body with its hash: two submissions under one    *)
(* key are the same immutable record exactly if their bodies agree.  Items *)
(* the validation rejects leave no trace in the store and do not occur.    *)
(* The byte quota, which is charged like the record count, and the audit   *)
(* log, which nothing reads back, are left out.                            *)
(***************************************************************************)
EXTENDS Integers, Sequences, FiniteSets

CONSTANTS
    Key,           \* canonical record keys
    Body,          \* encrypted bodies
    IdemKey,       \* client-chosen idempotency keys
    NoIdem,        \* stands for an absent idempotency key
    SnapId,        \* snapshot identifiers
    Batch,         \* the archive batches clients submit
    NewState,      \* the delivery states clients patch to
    Filter,        \* snapshot filters, as the set of keys each one matches
    MaxRecords,    \* MAX_RECORDS_PER_OWNER
    MaxReserved,   \* MAX_RESERVED_RECORD_KEYS_PER_OWNER
    MaxIdem,       \* MAX_IDEMPOTENCY_ROWS_PER_OWNER
    MaxSnapshots,  \* MAX_SNAPSHOTS_PER_OWNER
    MaxItems,      \* MAX_SNAPSHOT_ITEMS_PER_OWNER
    PurgeBudget,   \* maxItems of one retention pass
    MaxEpoch,      \* MAX_EPOCH_GENERATION: rotation refuses to pass it
    MaxSeq         \* bound of the model on next_sequence

DeliveryState == {"prepared", "received", "unknown", "accepted", "failed"}
InitialState  == {"prepared", "received"}

(***************************************************************************)
(* What a batch item is: validateArchiveInput lets only the initial states *)
(* through.                                                                *)
(***************************************************************************)
Item == [key : Key, body : Body, state : InitialState]

ASSUME KeysFinite    == IsFiniteSet(Key)
ASSUME BatchType     == Batch \subseteq Seq(Item)
ASSUME NewStateType  == NewState \subseteq DeliveryState
ASSUME FilterType    == Filter \subseteq SUBSET Key
ASSUME NoIdemFresh   == NoIdem \notin IdemKey
ASSUME LimitsNatural == {MaxRecords, MaxReserved, MaxIdem, MaxSnapshots,
                         MaxItems, PurgeBudget, MaxEpoch, MaxSeq} \subseteq Nat

VARIABLES
    epoch,         \* history_owner_state.epoch, the n of 'gen-n'
    nextSeq,       \* history_owner_state.next_sequence
    recordCount,   \* history_owner_state.record_count
    records,       \* history_records: live key -> row
    tombstones,    \* history_tombstones: deleted keys
    changes,       \* history_changes joined with history_change_details
    snapshots,     \* history_snapshots with its items: id -> row
    idem,          \* history_idempotency: key -> row
    expiredSnaps,  \* the snapshots whose expires_at has passed
    expiredIdem,   \* the idempotency keys whose row is older than a day
    agedThrough,   \* changes up to this sequence are older than 30 days
    victims,       \* sequences a retention pass has selected to delete
    epochBase      \* (history variable) next_sequence when the epoch began

ownerVars == <<epoch, nextSeq, recordCount, records, tombstones, changes>>
idemVars  == <<idem, expiredIdem>>
snapVars  == <<snapshots, expiredSnaps>>
purgeVars == <<agedThrough, victims>>
vars == <<ownerVars, idemVars, snapVars, purgeVars, epochBase>>

Record == [body : Body, state : DeliveryState, revision : Nat, changeSeq : Nat]

Change == [seq : Nat, key : Key, kind : {"upsert", "state", "delete"},
           version : Nat, state : DeliveryState \cup {"none"}]

Member   == [key : Key, revision : Nat, state : DeliveryState, changeSeq : Nat]
Snapshot == [status : {"active", "invalidated"}, epoch : Nat,
             filter : Filter, watermark : Nat, items : SUBSET Member]

Request ==
    [op : {"patchState"}, key : Key, state : DeliveryState, expected : Nat]
      \cup [op : {"deleteRecord"}, key : Key]
      \cup [op : {"deleteAll"}, expected : Nat]
Result ==
    [revision : Nat, sequence : Nat]
      \cup [deleted : {TRUE}, sequence : Nat, epoch : Nat]
      \cup [deleted : {FALSE}, epoch : Nat]
      \cup [epoch : Nat]
-----------------------------------------------------------------------------
Empty == [x \in {} |-> x]
Without(f, S) == [x \in DOMAIN f \ S |-> f[x]]
With(f, x, v) == [y \in DOMAIN f \cup {x} |-> IF y = x THEN v ELSE f[y]]

Live == DOMAIN records
ChangesOf(k) == {c \in changes : c.key = k}

\* latestChangeFor(key).kind = 'delete'
LastChangeIsDelete(k) ==
    \E c \in ChangesOf(k) : /\ c.kind = "delete"
                            /\ \A d \in ChangesOf(k) : d.seq <= c.seq

\* Deletion wins: the key's latest change is a delete, or the key is fenced.
Deleted(k) == LastChangeIsDelete(k) \/ k \in tombstones

Init ==
    /\ epoch = 1 /\ nextSeq = 1 /\ recordCount = 0
    /\ records = Empty /\ tombstones = {} /\ changes = {}
    /\ snapshots = Empty /\ expiredSnaps = {}
    /\ idem = Empty /\ expiredIdem = {}
    /\ agedThrough = 0 /\ victims = {}
    /\ epochBase = 1
-----------------------------------------------------------------------------
(***************************************************************************)
(* Idempotency.  The check first deletes the owner's rows older than a day *)
(* (and a rejected mutation rolls that deletion back), replays the stored  *)
(* result of the same request, refuses another request under a used key,   *)
(* and refuses a new key at capacity.                                      *)
(***************************************************************************)
Unexpired == DOMAIN idem \ expiredIdem

\* The check lets the mutation run: no key, or a new key below capacity.
Admitted(ik) ==
    \/ ik = NoIdem
    \/ ik \notin Unexpired /\ Cardinality(Unexpired) < MaxIdem

\* storeIdempotencyTrx, together with the deletion made by the check
Remember(ik, request, result) ==
    IF ik = NoIdem
    THEN UNCHANGED idemVars
    ELSE /\ idem' = With(Without(idem, expiredIdem), ik,
                         [request |-> request, result |-> result])
         /\ expiredIdem' = {}

\* A retry of any of the three mutations commits only that deletion.
Replay(ik, request) ==
    /\ ik \in Unexpired
    /\ idem[ik].request = request
    /\ idem' = Without(idem, expiredIdem)
    /\ expiredIdem' = {}
    /\ UNCHANGED <<ownerVars, snapVars, purgeVars, epochBase>>
-----------------------------------------------------------------------------
(***************************************************************************)
(* archiveBatch.  Items are judged in order against the rows, the items    *)
(* stored before them in the batch and the remaining room.  Room never     *)
(* comes back within a batch, so the stored items are the first            *)
(* occurrences of the admissible keys, as many as there is room for.       *)
(***************************************************************************)
Smaller(m, n) == IF m <= n THEN m ELSE n

RoomForRows == MaxRecords - recordCount

\* A live row also reserves the place of the fence it will leave behind.
Room == Smaller(RoomForRows, MaxReserved - (recordCount + Cardinality(tombstones)))

Admissible(b) ==
    {i \in DOMAIN b : /\ b[i].key \notin Live
                      /\ ~Deleted(b[i].key)
                      /\ \A j \in 1..(i - 1) : b[j].key # b[i].key}

\* How many items are admitted up to and including item i.
Rank(b, i) == Cardinality({j \in Admissible(b) : j <= i})

Stored(b) == {i \in Admissible(b) : Rank(b, i) <= Room}

StoredKeys(b) == {b[i].key : i \in Stored(b)}

\* (mutant) the sequence is read after it was advanced
MutSkippedSeq(b, i) == nextSeq + Rank(b, i)

\* Stored items take consecutive sequences in batch order.
ItemSeq(b, i) == nextSeq + Rank(b, i) - 1

\* (mutant) the default of a missing delivery state is not applied
MutUnsetState(b, i) == [body |-> b[i].body, state |-> "none",
                        revision |-> 1, changeSeq |-> ItemSeq(b, i)]

RowOf(b, i) == [body |-> b[i].body, state |-> b[i].state,
                revision |-> 1, changeSeq |-> ItemSeq(b, i)]

UpsertOf(b, i) == [seq |-> ItemSeq(b, i), key |-> b[i].key, kind |-> "upsert",
                   version |-> 1, state |-> b[i].state]

ArchiveBatch(e, b) ==
    /\ e = epoch
    /\ nextSeq + Cardinality(Stored(b)) <= MaxSeq
    /\ records' = [k \in Live \cup StoredKeys(b) |->
                      IF k \in Live THEN records[k]
                      ELSE RowOf(b, CHOOSE i \in Stored(b) : b[i].key = k)]
    /\ changes' = changes \cup {UpsertOf(b, i) : i \in Stored(b)}
    /\ nextSeq' = nextSeq + Cardinality(Stored(b))
    /\ recordCount' = recordCount + Cardinality(Stored(b))
    /\ UNCHANGED <<epoch, tombstones, idemVars, snapVars, purgeVars, epochBase>>

(***************************************************************************)
(* patchState: a compare-and-set on the revision.  "accepted" is final; a  *)
(* patch to the current state is deduplicated and allocates nothing.       *)
(***************************************************************************)
\* (mutant) an accepted record may be patched like any other
MutPatchPastAccepted(k, s, expected) ==
    ~Deleted(k) /\ k \in Live /\ records[k].revision = expected

PatchAllowed(k, s, expected) ==
    /\ ~Deleted(k)
    /\ k \in Live
    /\ records[k].revision = expected
    /\ records[k].state = "accepted" => s = "accepted"

PatchRequest(k, s, expected) ==
    [op |-> "patchState", key |-> k, state |-> s, expected |-> expected]

PatchDeduped(k, s, expected, ik) ==
    /\ Admitted(ik)
    /\ PatchAllowed(k, s, expected)
    /\ records[k].state = s
    /\ Remember(ik, PatchRequest(k, s, expected),
                [revision |-> records[k].revision,
                 sequence |-> records[k].changeSeq])
    /\ UNCHANGED <<ownerVars, snapVars, purgeVars, epochBase>>

\* (mutant) the event carries the revision the patch replaced
MutEventBehind(k, s) ==
    [seq |-> nextSeq, key |-> k, kind |-> "state",
     version |-> records[k].revision, state |-> s]

StateEvent(k, s) ==
    [seq |-> nextSeq, key |-> k, kind |-> "state",
     version |-> records[k].revision + 1, state |-> s]

PatchApplied(k, s, expected, ik) ==
    /\ Admitted(ik)
    /\ PatchAllowed(k, s, expected)
    /\ records[k].state # s
    /\ nextSeq < MaxSeq
    /\ records' = [records EXCEPT ![k].state = s,
                                  ![k].revision = @ + 1,
                                  ![k].changeSeq = nextSeq]
    /\ changes' = changes \cup {StateEvent(k, s)}
    /\ nextSeq' = nextSeq + 1
    /\ Remember(ik, PatchRequest(k, s, expected),
                [revision |-> records[k].revision + 1, sequence |-> nextSeq])
    /\ UNCHANGED <<epoch, recordCount, tombstones, snapVars, purgeVars, epochBase>>

(***************************************************************************)
(* deleteRecord.  A key with no row, no change and no fence never existed: *)
(* nothing changes.  Any other key, an already deleted one included, gets  *)
(* a new body-free delete event and its fence, and the active snapshots    *)
(* that still hold it are invalidated.                                     *)
(***************************************************************************)
Existed(k) == k \in Live \/ ChangesOf(k) # {} \/ k \in tombstones

DeleteRequest(k) == [op |-> "deleteRecord", key |-> k]

DeleteNothing(k, ik) ==
    /\ Admitted(ik)
    /\ ~Existed(k)
    /\ Remember(ik, DeleteRequest(k), [deleted |-> FALSE, epoch |-> epoch])
    /\ UNCHANGED <<ownerVars, snapVars, purgeVars, epochBase>>

\* The snapshots a mutation of the current epoch may invalidate.
ActiveSnapshots ==
    {s \in DOMAIN snapshots : /\ snapshots[s].epoch = epoch
                              /\ snapshots[s].status = "active"}

\* (mutant) deleteRecord leaves the snapshots alone
MutNoSnapshots(k) == {}

HoldingSnapshots(k) ==
    {s \in ActiveSnapshots : \E m \in snapshots[s].items : m.key = k}

Invalidated(S) ==
    [s \in DOMAIN snapshots |->
        IF s \in S THEN [snapshots[s] EXCEPT !.status = "invalidated"]
                   ELSE snapshots[s]]

DeleteRecord(k, ik) ==
    /\ Admitted(ik)
    /\ Existed(k)
    /\ nextSeq < MaxSeq
    /\ records' = Without(records, {k})
    /\ recordCount' = IF k \in Live THEN recordCount - 1 ELSE recordCount
    /\ changes' = changes \cup {[seq |-> nextSeq, key |-> k, kind |-> "delete",
                                 version |-> 1, state |-> "none"]}
    /\ tombstones' = tombstones \cup {k}
    /\ nextSeq' = nextSeq + 1
    /\ snapshots' = Invalidated(HoldingSnapshots(k))
    /\ Remember(ik, DeleteRequest(k),
                [deleted |-> TRUE, sequence |-> nextSeq, epoch |-> epoch])
    /\ UNCHANGED <<epoch, expiredSnaps, purgeVars, epochBase>>

(***************************************************************************)
(* deleteAll.  The optional expectedEpoch (0 when it is absent) is         *)
(* compared after the idempotency check, so a retry replays although the   *)
(* original rotated the epoch.  The idempotency rows and next_sequence     *)
(* survive.                                                                *)
(***************************************************************************)
\* (mutant) the sequence starts over with the new epoch
MutWipeSequence ==
    /\ records' = Empty /\ changes' = {} /\ tombstones' = {}
    /\ recordCount' = 0 /\ nextSeq' = 1

Wipe ==
    /\ records' = Empty /\ changes' = {} /\ tombstones' = {}
    /\ recordCount' = 0 /\ nextSeq' = nextSeq

DeleteAll(expected, ik) ==
    /\ Admitted(ik)
    /\ expected \in {0, epoch}
    /\ epoch < MaxEpoch
    /\ Wipe
    /\ epoch' = epoch + 1
    /\ snapshots' = Invalidated(ActiveSnapshots)
    /\ Remember(ik, [op |-> "deleteAll", expected |-> expected],
                [epoch |-> epoch + 1])
    /\ epochBase' = nextSeq'
    /\ UNCHANGED <<expiredSnaps, purgeVars>>
-----------------------------------------------------------------------------
(***************************************************************************)
(* createSnapshot: the live rows that match the filter, joined with their  *)
(* upsert change, as they are at the watermark W.  The join gives one      *)
(* member per upsert change, and the items' primary key refuses two.       *)
(***************************************************************************)
Watermark == nextSeq - 1

JoinedUpserts(f) ==
    {c \in changes : /\ c.kind = "upsert"
                     /\ c.key \in Live \cap f
                     /\ c.seq <= Watermark}

MemberOf(k) == [key |-> k, revision |-> records[k].revision,
                state |-> records[k].state, changeSeq |-> records[k].changeSeq]

SnapshotItemCount ==
    Cardinality(UNION {{<<s, m>> : m \in snapshots[s].items} : s \in DOMAIN snapshots})

CreateSnapshot(id, f) ==
    /\ id \notin DOMAIN snapshots
    /\ Cardinality(DOMAIN snapshots) < MaxSnapshots
    /\ SnapshotItemCount + Cardinality(JoinedUpserts(f)) <= MaxItems
    /\ \A c, d \in JoinedUpserts(f) : c.key = d.key => c = d
    /\ snapshots' = With(snapshots, id,
                         [status |-> "active", epoch |-> epoch, filter |-> f,
                          watermark |-> Watermark,
                          items |-> {MemberOf(c.key) : c \in JoinedUpserts(f)}])
    /\ UNCHANGED <<ownerVars, idemVars, expiredSnaps, purgeVars, epochBase>>

(***************************************************************************)
(* purgeExpiredSnapshots works statement by statement.  The items of an    *)
(* expired or invalidated snapshot go in bounded chunks; the row goes once *)
(* the snapshot has expired and no item is left.                           *)
(***************************************************************************)
PurgeSnapshotItems(id) ==
    /\ id \in DOMAIN snapshots
    /\ id \in expiredSnaps \/ snapshots[id].status = "invalidated"
    /\ \E chunk \in SUBSET snapshots[id].items :
          /\ chunk # {}
          /\ snapshots' = [snapshots EXCEPT ![id].items = @ \ chunk]
    /\ UNCHANGED <<ownerVars, idemVars, expiredSnaps, purgeVars, epochBase>>

PurgeSnapshotRow(id) ==
    /\ id \in expiredSnaps
    /\ snapshots[id].items = {}
    /\ snapshots' = Without(snapshots, {id})
    /\ expiredSnaps' = expiredSnaps \ {id}
    /\ UNCHANGED <<ownerVars, idemVars, purgeVars, epochBase>>

(***************************************************************************)
(* purgeExpiredChanges.  Due are the changes older than 30 days, but for   *)
(* the upsert of a row that is still live.  The pass takes the first of    *)
(* them in sequence order and deletes these in a later transaction.        *)
(***************************************************************************)
\* (mutant) the upserts of live rows are not protected
MutDueByAge == {c \in changes : c.seq <= agedThrough}

Due == {c \in changes : /\ c.seq <= agedThrough
                        /\ c.kind = "upsert" => c.key \notin Live}

\* (mutant) the selection is ordered newest first
MutDueRank(c) == Cardinality({d \in Due : d.seq >= c.seq})

DueRank(c) == Cardinality({d \in Due : d.seq <= c.seq})

SelectVictims ==
    /\ victims = {}
    /\ victims' = {c.seq : c \in {d \in Due : DueRank(d) <= PurgeBudget}}
    /\ UNCHANGED <<ownerVars, idemVars, snapVars, agedThrough, epochBase>>

PurgeVictims ==
    /\ victims # {}
    /\ changes' = {c \in changes : c.seq \notin victims}
    /\ victims' = {}
    /\ UNCHANGED <<epoch, nextSeq, recordCount, records, tombstones,
                   idemVars, snapVars, agedThrough, epochBase>>

(***************************************************************************)
(* The clock.  Changes are stamped in sequence order, so those older than  *)
(* the retention period are a prefix.                                      *)
(***************************************************************************)
AgeChanges(n) ==
    /\ n \in (agedThrough + 1)..(nextSeq - 1)
    /\ agedThrough' = n
    /\ UNCHANGED <<ownerVars, idemVars, snapVars, victims, epochBase>>

AgeSnapshot(id) ==
    /\ id \in DOMAIN snapshots \ expiredSnaps
    /\ expiredSnaps' = expiredSnaps \cup {id}
    /\ UNCHANGED <<ownerVars, idemVars, snapshots, purgeVars, epochBase>>

AgeIdempotency(ik) ==
    /\ ik \in Unexpired
    /\ expiredIdem' = expiredIdem \cup {ik}
    /\ UNCHANGED <<ownerVars, idem, snapVars, purgeVars, epochBase>>
-----------------------------------------------------------------------------
Mutate ==
    \/ \E e \in 1..MaxEpoch, b \in Batch : ArchiveBatch(e, b)
    \/ \E k \in Key, s \in NewState, r \in 1..MaxSeq, ik \in IdemKey :
          PatchDeduped(k, s, r, ik) \/ PatchApplied(k, s, r, ik)
    \/ \E k \in Key, ik \in IdemKey \cup {NoIdem} :
          DeleteNothing(k, ik) \/ DeleteRecord(k, ik)
    \/ \E e \in 0..MaxEpoch, ik \in IdemKey \cup {NoIdem} : DeleteAll(e, ik)
    \/ \E ik \in IdemKey : ik \in Unexpired /\ Replay(ik, idem[ik].request)

Capture == \E id \in SnapId, f \in Filter : CreateSnapshot(id, f)

Cleanup ==
    \/ \E id \in SnapId : PurgeSnapshotItems(id) \/ PurgeSnapshotRow(id)
    \/ SelectVictims
    \/ PurgeVictims

Clock ==
    \/ \E n \in 1..MaxSeq : AgeChanges(n)
    \/ \E id \in SnapId : AgeSnapshot(id)
    \/ \E ik \in IdemKey : AgeIdempotency(ik)

Next == Mutate \/ Capture \/ Cleanup \/ Clock

Spec == Init /\ [][Next]_vars
-----------------------------------------------------------------------------
(***************************************************************************)
(* Properties                                                              *)
(***************************************************************************)

(***************************************************************************)
(* Every variable has its type; the partial functions are defined on keys  *)
(* of the right kind.                                                      *)
(***************************************************************************)
TypeOK ==
    /\ epoch \in Nat \ {0}
    /\ nextSeq \in Nat \ {0}
    /\ recordCount \in Int
    /\ Live \subseteq Key
    /\ records \in [Live -> Record]
    /\ tombstones \subseteq Key
    /\ changes \subseteq Change
    /\ DOMAIN snapshots \subseteq SnapId
    /\ snapshots \in [DOMAIN snapshots -> Snapshot]
    /\ expiredSnaps \subseteq DOMAIN snapshots
    /\ DOMAIN idem \subseteq IdemKey
    /\ idem \in [DOMAIN idem -> [request : Request, result : Result]]
    /\ expiredIdem \subseteq DOMAIN idem
    /\ agedThrough \in Nat
    /\ victims \subseteq Nat
    /\ epochBase \in Nat

(***************************************************************************)
(* Deletion wins: no live key is fenced, and every delete event in the log *)
(* has its fence, so purging the event loses nothing.                      *)
(***************************************************************************)
DeletionFence ==
    /\ Live \cap tombstones = {}
    /\ \A c \in changes : c.kind = "delete" => c.key \in tombstones

(***************************************************************************)
(* Retention keeps exactly one upsert change for every live row whatever   *)
(* its age: createSnapshot joins on it, so without it a live record would  *)
(* silently drop out of every new snapshot, and with two the snapshot      *)
(* would fail on its items' primary key.                                   *)
(***************************************************************************)
UpsertRetained ==
    \A k \in Live : \E c \in ChangesOf(k) :
        /\ c.kind = "upsert"
        /\ \A d \in ChangesOf(k) : d.kind = "upsert" => d = c

(***************************************************************************)
(* The log tells the store: what the feed last says of a live key is the   *)
(* row's revision and state, unless that event has aged out, and what it   *)
(* last says of a key that is gone is a delete.                            *)
(***************************************************************************)
LogTellsStore ==
    \A c \in changes :
        (\A d \in ChangesOf(c.key) : d.seq <= c.seq) =>
            IF c.key \in Live
            THEN LET r == records[c.key]
                 IN  \/ /\ r.changeSeq = c.seq
                        /\ r.revision = c.version
                        /\ r.state = c.state
                     \/ c.seq < r.changeSeq /\ r.changeSeq <= agedThrough
            ELSE c.kind = "delete"

(***************************************************************************)
(* The changes feed has no hole a client could fall into unnoticed: every  *)
(* sequence allocated in this epoch is still in the log unless it is past  *)
(* retention, and no sequence is allocated twice.                          *)
(***************************************************************************)
RetainedSuffix ==
    /\ \A n \in epochBase..(nextSeq - 1) :
          n > agedThrough => \E c \in changes : c.seq = n
    /\ \A c, d \in changes : c.seq = d.seq => c = d

(***************************************************************************)
(* The stored counter is the number of live rows, and neither quota is     *)
(* exceeded although batches are charged item by item: the live rows fit,  *)
(* and with the fences they fit the reserved keys.                         *)
(***************************************************************************)
QuotaRespected ==
    /\ recordCount = Cardinality(Live)
    /\ recordCount <= MaxRecords
    /\ recordCount + Cardinality(tombstones) <= MaxReserved

(***************************************************************************)
(* A snapshot a client may still read is the history at its watermark: it  *)
(* belongs to the current epoch, its members are the live keys that match  *)
(* the filter and were stored by W, each at the version it had at W (no    *)
(* retained change of that key lies between the member and W).             *)
(***************************************************************************)
SnapshotExact ==
    \A id \in DOMAIN snapshots \ expiredSnaps :
        LET s == snapshots[id] IN
        s.status = "active" =>
            /\ s.epoch = epoch
            /\ {m.key : m \in s.items} =
                 {k \in Live \cap s.filter :
                     \E c \in ChangesOf(k) : c.kind = "upsert" /\ c.seq <= s.watermark}
            /\ \A m \in s.items :
                 /\ m.changeSeq <= s.watermark
                 /\ \A c \in ChangesOf(m.key) :
                      /\ ~(m.changeSeq < c.seq /\ c.seq <= s.watermark)
                      /\ c.seq = m.changeSeq => /\ c.version = m.revision
                                               /\ c.state = m.state

(***************************************************************************)
(* What a retry replays is still true of the epoch it was recorded in: a   *)
(* replayed deletion finds the key fenced, and a replayed patch finds the  *)
(* row at that revision or a later one, unless the key was deleted.        *)
(***************************************************************************)
ReplayTruthful ==
    \A ik \in DOMAIN idem :
        LET q == idem[ik].request
            r == idem[ik].result
        IN  /\ (q.op = "deleteRecord" /\ r.deleted /\ r.epoch = epoch)
                 => q.key \in tombstones
            /\ (q.op = "patchState" /\ r.sequence >= epochBase)
                 => \/ q.key \in tombstones
                    \/ /\ q.key \in Live
                       /\ records[q.key].revision >= r.revision
                       /\ q.state = "accepted" => records[q.key].state = "accepted"

(***************************************************************************)
(* The log is append-only across epochs: sequences never go back, so what  *)
(* a step adds lies at or above the sequence the owner was at, even after  *)
(* delete-all.  A cursor or a purge selection from an old epoch can        *)
(* therefore never hit an event of a newer one.                            *)
(***************************************************************************)
AppendsOnly ==
    /\ nextSeq' >= nextSeq
    /\ \A c \in changes' \ changes : nextSeq <= c.seq /\ c.seq < nextSeq'
LogAppendOnly == [][AppendsOnly]_vars

(***************************************************************************)
(* A row that survives a step within an epoch keeps its body; its revision *)
(* and its change sequence move together, by one event at a time.          *)
(***************************************************************************)
VersionsMove ==
    epoch' = epoch =>
        \A k \in Live \cap DOMAIN records' :
            /\ records'[k].body = records[k].body
            /\ \/ records'[k] = records[k]
               \/ /\ records'[k].revision = records[k].revision + 1
                  /\ records'[k].changeSeq > records[k].changeSeq
                  /\ \E c \in changes' : /\ c.seq = records'[k].changeSeq
                                         /\ c.key = k
                                         /\ c.version = records'[k].revision
VersionsAdvance == [][VersionsMove]_vars

(***************************************************************************)
(* The repository keeps its promise to the owner (module OwnerHistory):    *)
(* bodies are written once, accepted is final, deletion wins until the     *)
(* epoch rotates, and snapshots, retention and retries are invisible.      *)
(***************************************************************************)
Promise == INSTANCE OwnerHistory WITH
    entries <- [k \in Live |-> [body |-> records[k].body, state |-> records[k].state]],
    fenced  <- tombstones
KeepsPromise == Promise!Spec
=============================================================================
