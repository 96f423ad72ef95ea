--------------------------- MODULE RecoveryProofs ---------------------------
(***************************************************************************)
(* Proofs about RestoreRecovery, for every set of keys, batches and        *)
(* filters, every number of backups and restores, and whatever happens     *)
(* between them.                                                           *)
(***************************************************************************)
EXTENDS RestoreRecovery, HistoryStoreProofs
-----------------------------------------------------------------------------
(***************************************************************************)
(* The inductive invariant.                                                *)
(*                                                                         *)
(* A row's change sequence names an event of that row, if it names one in  *)
(* the log at all; sequences identify events and lie below the next one.   *)
(* This must hold of the image too, as it comes back with a restore.       *)
(***************************************************************************)
Consistent(next, rows, fences, log, snaps) ==
    /\ next \in Nat \ {0}
    /\ DOMAIN rows \subseteq Key /\ rows \in [DOMAIN rows -> Record]
    /\ fences \subseteq Key /\ log \subseteq Change
    /\ snaps \in [DOMAIN snaps -> Snapshot]
    /\ \A c \in log : c.seq < next
    /\ \A c, d \in log : c.seq = d.seq => c = d
    /\ \A k \in DOMAIN rows :
          /\ rows[k].changeSeq < next
          /\ \A c \in log : c.seq = rows[k].changeSeq => c.key = k

StoreConsistent == /\ recordCount \in Int
                   /\ Consistent(nextSeq, records, tombstones, changes, snapshots)
ImageConsistent == /\ image.recordCount \in Int
                   /\ Consistent(image.nextSeq, image.records, image.tombstones,
                                 image.changes, image.snapshots)

(***************************************************************************)
(* The running service is at the highest epoch handed out.  While it is    *)
(* stopped no device has been at the epoch of the bundle, and the owner is *)
(* there once the bundle has been applied.                                 *)
(***************************************************************************)
EpochsInOrder ==
    /\ epoch \in Nat \ {0} /\ image.epoch \in Nat \ {0} /\ issued \in Nat
    /\ epoch <= issued /\ image.epoch <= issued
    /\ replica.epoch \in Nat /\ replica.epoch <= issued
    /\ bundle.recoveryEpoch \in Nat /\ bundle.recoveryEpoch <= issued
    /\ ~offline => epoch = issued
    /\ offline => /\ bundle.recoveryEpoch = issued /\ replica.epoch < issued
                  /\ bundle.id \in markers => epoch = issued

\* No recovery is known to the audit log, or to its image, before it was made.
BundleNew ==
    /\ bundle.id \in Nat
    /\ \A n \in markers \cup image.markers : n \in Nat /\ n <= bundle.id
    /\ bundle.deletions \in Seq(Key) /\ receipts \subseteq Key
    /\ ~offline => bundle.id \in markers \/ bundle.restoredEpoch = 0

(***************************************************************************)
(* In the epoch of the recovery every receipt has its fence.               *)
(***************************************************************************)
Recovered == bundle.id \in markers /\ epoch = bundle.recoveryEpoch

ReceiptsFenced ==
    Recovered =>
        /\ ReceiptKeys(bundle) \subseteq tombstones
        /\ Live \cap ReceiptKeys(bundle) = {}
        /\ \A s \in DOMAIN snapshots : snapshots[s].status = "active" =>
              \A m \in snapshots[s].items : m.key \notin ReceiptKeys(bundle)
        /\ replica.epoch = epoch => DOMAIN replica.rows \cap ReceiptKeys(bundle) = {}

(***************************************************************************)
(* A device of the current epoch holds the history as of its checkpoint:   *)
(* the rows not changed since, and of those that are gone only such as a   *)
(* client that finds no hole in the log will hear of.                      *)
(***************************************************************************)
NoHole(n) == \A i \in (n + 1)..Watermark : \E c \in changes : c.seq = i

AsOfCheckpoint ==
    ~offline /\ replica.epoch = epoch =>
        /\ replica.checkpoint \in Nat /\ replica.checkpoint < nextSeq
        /\ replica.rows = [k \in DOMAIN replica.rows |-> replica.rows[k]]
        /\ \A k \in Live : records[k].changeSeq <= replica.checkpoint =>
              k \in DOMAIN replica.rows /\ replica.rows[k] = records[k]
        /\ NoHole(replica.checkpoint) =>
              \A k \in DOMAIN replica.rows \ Live :
                 \E c \in changes : c.key = k /\ c.seq > replica.checkpoint

RecoveryInv == /\ StoreConsistent /\ ImageConsistent
               /\ expiredSnaps = {}
               /\ EpochsInOrder /\ BundleNew /\ ReceiptsFenced /\ AsOfCheckpoint
-----------------------------------------------------------------------------
(***************************************************************************)
(* What a mutation of the epoch, and the recovery command, do to the rows  *)
(* and the log: new events N above all old ones, one for each row that is  *)
(* changed, added or gone; no fence is lifted and no fenced key comes back.*)
(***************************************************************************)
Extends(N) ==
    /\ nextSeq' \in Nat \ {0} /\ nextSeq <= nextSeq' /\ recordCount' \in Int
    /\ changes' = changes \cup N /\ N \subseteq Change
    /\ \A c \in N : nextSeq <= c.seq /\ c.seq < nextSeq'
    /\ \A c, d \in N : c.seq = d.seq => c = d
    /\ tombstones \subseteq tombstones' /\ tombstones' \subseteq Key
    /\ Live' \subseteq Key /\ records' \in [Live' -> Record]
    /\ \A k \in Live' : \/ k \in Live /\ records'[k] = records[k]
                        \/ \E c \in N : c.key = k /\ c.seq = records'[k].changeSeq
    /\ \A k \in Live \ Live' : \E c \in N : c.key = k
    /\ \A k \in Live' \ Live : k \notin tombstones

\* Snapshots are at most invalidated.
SnapshotsFade ==
    /\ DOMAIN snapshots' = DOMAIN snapshots /\ snapshots' \in [DOMAIN snapshots -> Snapshot]
    /\ \A s \in DOMAIN snapshots :
          /\ snapshots'[s].items = snapshots[s].items
          /\ snapshots'[s].status = "active" => snapshots[s].status = "active"

LEMMA InvalidatedFade ==
    ASSUME StoreConsistent, NEW S, snapshots' = Invalidated(S)
    PROVE  SnapshotsFade
BY DEF StoreConsistent, Consistent, SnapshotsFade, Invalidated, Snapshot

LEMMA UnchangedFade ==
    ASSUME StoreConsistent, UNCHANGED snapshots
    PROVE  SnapshotsFade
BY DEF StoreConsistent, Consistent, SnapshotsFade

LEMMA ExtendsConsistent ==
    ASSUME StoreConsistent, NEW N, Extends(N), SnapshotsFade
    PROVE  StoreConsistent'
<1>1. /\ nextSeq \in Nat \ {0} /\ nextSeq' \in Nat \ {0} /\ nextSeq <= nextSeq'
      /\ \A c \in changes : c.seq \in Nat /\ c.seq < nextSeq
      /\ \A c \in N : c.seq \in Nat /\ nextSeq <= c.seq /\ c.seq < nextSeq'
      /\ changes' = changes \cup N
  BY DEF StoreConsistent, Consistent, Extends, Change
<1>2. \A c \in changes' : c.seq < nextSeq'
  BY <1>1
<1>3. \A c, d \in changes' : c.seq = d.seq => c = d
  BY <1>1 DEF StoreConsistent, Consistent, Extends
<1>4. ASSUME NEW k \in Live'
      PROVE  /\ records'[k].changeSeq < nextSeq'
             /\ \A c \in changes' : c.seq = records'[k].changeSeq => c.key = k
  <2>1. CASE k \in Live /\ records'[k] = records[k]
    <3>1. /\ records[k].changeSeq \in Nat /\ records[k].changeSeq < nextSeq
          /\ \A c \in changes : c.seq = records[k].changeSeq => c.key = k
      BY <2>1 DEF StoreConsistent, Consistent, Live, Record
    <3>2. QED
      BY <1>1, <2>1, <3>1
  <2>2. CASE \E c \in N : c.key = k /\ c.seq = records'[k].changeSeq
    BY <1>1, <1>3, <2>2
  <2>3. QED
    BY <2>1, <2>2 DEF Extends
<1>5. /\ DOMAIN records' \subseteq Key /\ records' \in [DOMAIN records' -> Record]
      /\ tombstones' \subseteq Key /\ changes' \subseteq Change
      /\ snapshots' \in [DOMAIN snapshots' -> Snapshot] /\ recordCount' \in Int
  BY DEF StoreConsistent, Consistent, Extends, SnapshotsFade, Live
<1>6. QED
  BY <1>1, <1>2, <1>3, <1>4, <1>5 DEF StoreConsistent, Consistent, Live
-----------------------------------------------------------------------------
(***************************************************************************)
(* The mutations and the recovery command extend the history.              *)
(***************************************************************************)
LEMMA ArchiveExtends ==
    ASSUME StoreConsistent, NEW e, NEW b \in Seq(Item), ArchiveBatch(e, b)
    PROVE  Extends({UpsertOf(b, i) : i \in Stored(b)}) /\ UNCHANGED <<epoch, snapVars>>
<1>1. Room \in Int
  BY RoomInteger DEF StoreConsistent, Consistent
<1>2. nextSeq \in Nat \ {0} /\ Cardinality(Stored(b)) \in Nat
  BY <1>1, StoredItems DEF StoreConsistent, Consistent
<1>3. ASSUME NEW i \in Stored(b)
      PROVE  /\ b[i] \in Item /\ i \in Admissible(b) /\ i \in Nat
             /\ Rank(b, i) \in Nat \ {0}
             /\ ItemSeq(b, i) \in Nat /\ nextSeq <= ItemSeq(b, i)
             /\ ItemSeq(b, i) < nextSeq + Cardinality(Stored(b))
  <2>1. i \in Admissible(b) /\ b[i] \in Item /\ i \in Nat
    BY <1>1, StoredItems, AdmissibleItems
  <2>2. Rank(b, i) \in Nat \ {0} /\ Rank(b, i) <= Cardinality(Stored(b))
    BY <1>1, <2>1, StoredItems, RankIncreases
  <2>3. QED
    BY <1>2, <2>1, <2>2 DEF ItemSeq
<1>4. \A i \in Stored(b) :
         /\ RowOf(b, i) \in Record /\ RowOf(b, i).changeSeq = ItemSeq(b, i)
         /\ UpsertOf(b, i) \in Change /\ UpsertOf(b, i).seq = ItemSeq(b, i)
         /\ UpsertOf(b, i).key = b[i].key
  BY <1>3 DEF RowOf, UpsertOf, Record, Change, Item, InitialState, DeliveryState
<1>5. ASSUME NEW i \in Stored(b), NEW j \in Stored(b), ItemSeq(b, i) = ItemSeq(b, j)
      PROVE  i = j
  <2>1. Rank(b, i) = Rank(b, j)
    BY <1>2, <1>3, <1>5 DEF ItemSeq
  <2>2. QED
    BY <1>3, <2>1, RankIncreases
<1>6. /\ Live' = Live \cup StoredKeys(b)
      /\ \A k \in Live : records'[k] = records[k]
      /\ \A k \in StoredKeys(b) :
            \E i \in Stored(b) : b[i].key = k /\ records'[k] = RowOf(b, i)
  BY StoredKeyItem DEF ArchiveBatch, Live
<1>7. records' \in [Live' -> Record]
  BY <1>4, <1>6 DEF ArchiveBatch, Live, StoreConsistent, Consistent
<1>8. \A k \in StoredKeys(b) : k \in Key /\ k \notin tombstones /\ k \notin Live
  BY StoredKeyItem DEF Deleted
<1>9. \A k \in StoredKeys(b) : \E c \in {UpsertOf(b, i) : i \in Stored(b)} :
         c.key = k /\ c.seq = records'[k].changeSeq
  BY <1>4, <1>6
<1>10. /\ nextSeq' = nextSeq + Cardinality(Stored(b))
       /\ recordCount' = recordCount + Cardinality(Stored(b))
       /\ changes' = changes \cup {UpsertOf(b, i) : i \in Stored(b)}
       /\ UNCHANGED <<epoch, tombstones, snapVars>>
  BY DEF ArchiveBatch
<1>11. tombstones \subseteq Key /\ Live \subseteq Key /\ recordCount \in Int
  BY DEF StoreConsistent, Consistent, Live
<1> DEFINE N == {UpsertOf(b, i) : i \in Stored(b)}
<1>12. \A c \in N : \E i \in Stored(b) : c = UpsertOf(b, i)
  OBVIOUS
<1>13. ASSUME NEW c \in N
       PROVE  c \in Change /\ nextSeq <= c.seq /\ c.seq < nextSeq'
  <2>1. PICK i \in Stored(b) : c = UpsertOf(b, i)
    BY <1>12
  <2>2. c \in Change /\ c.seq = ItemSeq(b, i)
    BY <1>4, <2>1
  <2>3. QED
    BY <1>3, <1>10, <2>2
<1>14. ASSUME NEW c \in N, NEW d \in N, c.seq = d.seq
       PROVE  c = d
  <2>1. PICK i \in Stored(b) : c = UpsertOf(b, i)
    BY <1>12
  <2>2. PICK j \in Stored(b) : d = UpsertOf(b, j)
    BY <1>12
  <2>3. ItemSeq(b, i) = ItemSeq(b, j)
    BY <1>4, <1>14, <2>1, <2>2
  <2>4. QED
    BY <1>5, <2>1, <2>2, <2>3
<1>15. \A k \in StoredKeys(b) : \E c \in N : c.key = k /\ c.seq = records'[k].changeSeq
  BY <1>9
<1>16. changes' = changes \cup N
  BY <1>10
<1> HIDE DEF N
<1>17. nextSeq' \in Nat \ {0} /\ nextSeq <= nextSeq' /\ recordCount' \in Int
  BY <1>2, <1>10, <1>11
<1>18. Live' \subseteq Key /\ Live \ Live' = {} /\ Live' \ Live \subseteq StoredKeys(b)
  BY <1>6, <1>8, <1>11
<1>19. \A k \in Live' : \/ k \in Live /\ records'[k] = records[k]
                        \/ \E c \in N : c.key = k /\ c.seq = records'[k].changeSeq
  BY <1>6, <1>15
<1>20. \A k \in Live' \ Live : k \notin tombstones
  BY <1>8, <1>18
<1>21. tombstones \subseteq tombstones' /\ tombstones' \subseteq Key
  BY <1>10, <1>11
<1>22. Extends(N)
  <2>1. \A k \in Live \ Live' : \E c \in N : c.key = k
    BY <1>18
  <2>2. /\ N \subseteq Change
        /\ \A c \in N : nextSeq <= c.seq /\ c.seq < nextSeq'
    BY <1>13
  <2>3. \A c, d \in N : c.seq = d.seq => c = d
    BY <1>14
  <2>4. QED
    BY <1>7, <1>16, <1>17, <1>18, <1>19, <1>20, <1>21, <2>1, <2>2, <2>3 DEF Extends
<1>23. QED
  BY <1>10, <1>22 DEF N

LEMMA PatchExtends ==
    ASSUME StoreConsistent, NEW k \in Key, NEW s \in NewState, NEW r, NEW ik,
           PatchApplied(k, s, r, ik)
    PROVE  Extends({StateEvent(k, s)}) /\ UNCHANGED <<epoch, snapVars>>
<1>1. /\ k \in Live /\ nextSeq \in Nat \ {0} /\ records \in [Live -> Record]
      /\ Live \subseteq Key /\ tombstones \subseteq Key /\ recordCount \in Int
      /\ s \in DeliveryState
  BY NewStateType DEF StoreConsistent, Consistent, PatchApplied, PatchAllowed, Live
<1>2. /\ records' = [records EXCEPT ![k].state = s, ![k].revision = @ + 1,
                                    ![k].changeSeq = nextSeq]
      /\ changes' = changes \cup {StateEvent(k, s)} /\ nextSeq' = nextSeq + 1
      /\ UNCHANGED <<epoch, recordCount, tombstones, snapVars>>
  BY DEF PatchApplied
<1>3. /\ Live' = Live /\ records' \in [Live' -> Record]
      /\ records'[k].changeSeq = nextSeq
      /\ \A j \in Live : j # k => records'[j] = records[j]
  <2>1. Live' = Live
    BY <1>2 DEF Live
  <2>2. records[k] \in Record
    BY <1>1
  <2>3. records' \in [Live' -> Record]
    BY <1>1, <1>2, <2>1, <2>2 DEF Record
  <2>4. records'[k].changeSeq = nextSeq
    BY <1>1, <1>2, <2>2 DEF Record
  <2>5. \A j \in Live : j # k => records'[j] = records[j]
    BY <1>1, <1>2
  <2>6. QED
    BY <2>1, <2>3, <2>4, <2>5
<1>4. /\ StateEvent(k, s) \in Change /\ StateEvent(k, s).key = k
      /\ StateEvent(k, s).seq = nextSeq
  BY <1>1 DEF StateEvent, Change, Record
<1>5. QED
  BY <1>1, <1>2, <1>3, <1>4 DEF Extends

LEMMA DeleteExtends ==
    ASSUME StoreConsistent, NEW k \in Key, NEW ik, DeleteRecord(k, ik)
    PROVE  /\ \E N : Extends(N)
           /\ SnapshotsFade /\ UNCHANGED <<epoch, expiredSnaps>>
<1>1. /\ nextSeq \in Nat \ {0} /\ records \in [Live -> Record]
      /\ Live \subseteq Key /\ tombstones \subseteq Key /\ recordCount \in Int
  BY DEF StoreConsistent, Consistent, Live
<1>2. PICK c : c = [seq |-> nextSeq, key |-> k, kind |-> "delete", version |-> 1,
                    state |-> "none"]
  OBVIOUS
<1>3. c \in Change /\ c.key = k /\ c.seq = nextSeq
  BY <1>1, <1>2 DEF Change
<1>4. /\ records' = Without(records, {k}) /\ recordCount' \in Int
      /\ changes' = changes \cup {c} /\ nextSeq' = nextSeq + 1
      /\ tombstones' = tombstones \cup {k}
      /\ snapshots' = Invalidated(HoldingSnapshots(k))
      /\ UNCHANGED <<epoch, expiredSnaps>>
  BY <1>1, <1>2 DEF DeleteRecord
<1>5. /\ Live' = Live \ {k} /\ records' \in [Live' -> Record]
      /\ \A j \in Live' : records'[j] = records[j]
  BY <1>1, <1>4 DEF Without, Live
<1>6. PICK N : N = {c}
  OBVIOUS
<1>7. Extends(N)
  <2>1. /\ N \subseteq Change
        /\ \A x \in N : nextSeq <= x.seq /\ x.seq < nextSeq'
        /\ \A x, y \in N : x.seq = y.seq => x = y
        /\ \A j \in Live \ Live' : \E x \in N : x.key = j
        /\ changes' = changes \cup N
    BY <1>1, <1>3, <1>4, <1>5, <1>6
  <2>2. /\ nextSeq' \in Nat \ {0} /\ nextSeq <= nextSeq'
        /\ tombstones \subseteq tombstones' /\ tombstones' \subseteq Key
        /\ Live' \subseteq Key /\ Live' \ Live = {}
        /\ \A j \in Live' : j \in Live /\ records'[j] = records[j]
    BY <1>1, <1>4, <1>5
  <2>3. QED
    BY <1>4, <1>5, <2>1, <2>2 DEF Extends
<1>8. QED
  BY <1>4, <1>7, InvalidatedFade

LEMMA RecoverExtends ==
    ASSUME StoreConsistent, BundleNew, Recover
    PROVE  /\ \E N : Extends(N)
           /\ SnapshotsFade
           /\ \A s \in DOMAIN snapshots' : snapshots'[s].status # "active"
           /\ tombstones' = tombstones \cup ReceiptKeys(bundle)
           /\ Live' = Live \ ReceiptKeys(bundle)
<1>1. /\ nextSeq \in Nat \ {0} /\ records \in [Live -> Record]
      /\ Live \subseteq Key /\ tombstones \subseteq Key /\ recordCount \in Int
      /\ snapshots \in [DOMAIN snapshots -> Snapshot]
  BY DEF StoreConsistent, Consistent, Live
<1>2. /\ Len(bundle.deletions) \in Nat /\ DOMAIN bundle.deletions = 1..Len(bundle.deletions)
      /\ \A i \in DOMAIN bundle.deletions : bundle.deletions[i] \in Key
  BY DEF BundleNew
<1>3. /\ records' = Without(records, ReceiptKeys(bundle))
      /\ changes' = changes \cup ReceiptEvents(bundle)
      /\ tombstones' = tombstones \cup ReceiptKeys(bundle)
      /\ nextSeq' = nextSeq + Len(bundle.deletions)
      /\ snapshots' = Invalidated({s \in DOMAIN snapshots : snapshots[s].status = "active"})
      /\ recordCount' = Cardinality(DOMAIN records')
  BY DEF Recover, Refence
<1>4. /\ Live' = Live \ ReceiptKeys(bundle) /\ records' \in [Live' -> Record]
      /\ \A j \in Live' : records'[j] = records[j]
  BY <1>1, <1>3 DEF Without, Live
<1>5. recordCount' \in Int
  <2>1. IsFiniteSet(Live')
    BY <1>1, <1>4, KeysFinite, FS_Subset
  <2>2. QED
    BY <1>3, <2>1, FS_CardinalityType DEF Live
<1>6. ReceiptKeys(bundle) \subseteq Key
  BY <1>2 DEF ReceiptKeys
<1>7. \A c \in ReceiptEvents(bundle) :
         /\ c \in Change
         /\ \E i \in DOMAIN bundle.deletions :
               c = [seq |-> nextSeq + i - 1, key |-> bundle.deletions[i],
                    kind |-> "delete", version |-> 1, state |-> "none"]
  BY <1>1, <1>2 DEF ReceiptEvents, Change
<1>8. \A c \in ReceiptEvents(bundle) : nextSeq <= c.seq /\ c.seq < nextSeq'
  BY <1>1, <1>2, <1>3, <1>7
<1>9. ASSUME NEW c \in ReceiptEvents(bundle), NEW d \in ReceiptEvents(bundle), c.seq = d.seq
      PROVE  c = d
  <2>1. PICK i \in DOMAIN bundle.deletions :
           c = [seq |-> nextSeq + i - 1, key |-> bundle.deletions[i],
                kind |-> "delete", version |-> 1, state |-> "none"]
    BY <1>7
  <2>2. PICK j \in DOMAIN bundle.deletions :
           d = [seq |-> nextSeq + j - 1, key |-> bundle.deletions[j],
                kind |-> "delete", version |-> 1, state |-> "none"]
    BY <1>7
  <2>3. i = j
    BY <1>1, <1>2, <1>9, <2>1, <2>2
  <2>4. QED
    BY <2>1, <2>2, <2>3
<1>10. ASSUME NEW k \in ReceiptKeys(bundle)
       PROVE  \E c \in ReceiptEvents(bundle) : c.key = k
  <2>1. PICK i \in DOMAIN bundle.deletions : k = bundle.deletions[i]
    BY DEF ReceiptKeys
  <2>2. PICK c : c = [seq |-> nextSeq + i - 1, key |-> bundle.deletions[i],
                      kind |-> "delete", version |-> 1, state |-> "none"]
    OBVIOUS
  <2>3. c \in ReceiptEvents(bundle) /\ c.key = k
    BY <2>1, <2>2 DEF ReceiptEvents
  <2>4. QED
    BY <2>3
<1>11. Extends(ReceiptEvents(bundle))
  BY <1>1, <1>2, <1>3, <1>4, <1>5, <1>6, <1>7, <1>8, <1>9, <1>10 DEF Extends
<1>12. \A s \in DOMAIN snapshots' : snapshots'[s].status # "active"
  BY <1>1, <1>3 DEF Invalidated, Snapshot
<1>13. QED
  BY <1>3, <1>4, <1>11, <1>12, InvalidatedFade
-----------------------------------------------------------------------------
LEMMA Widened ==
    ASSUME NEW a \in Nat, NEW b \in Nat, NEW c \in Nat, b <= c, NEW n \in (a + 1)..(b - 1)
    PROVE  n \in Nat /\ n < b /\ n \in (a + 1)..(c - 1)
OBVIOUS

(***************************************************************************)
(* What a device holds stays the history as of its checkpoint, and no      *)
(* receipt comes to life, while the history goes on.                       *)
(***************************************************************************)
LEMMA ExtendsAsOf ==
    ASSUME StoreConsistent, AsOfCheckpoint, NEW N, Extends(N),
           UNCHANGED <<epoch, replica, offline>>
    PROVE  AsOfCheckpoint'
<1> SUFFICES ASSUME ~offline', replica'.epoch = epoch'
             PROVE  AsOfCheckpoint'
  BY DEF AsOfCheckpoint
<1>1. ~offline /\ replica.epoch = epoch /\ replica' = replica
  OBVIOUS
<1>2. /\ replica.checkpoint \in Nat /\ replica.checkpoint < nextSeq
      /\ nextSeq \in Nat /\ nextSeq' \in Nat /\ nextSeq <= nextSeq'
      /\ \A c \in N : c.seq \in Nat /\ nextSeq <= c.seq
      /\ changes' = changes \cup N
      /\ replica.rows = [k \in DOMAIN replica.rows |-> replica.rows[k]]
  BY <1>1 DEF AsOfCheckpoint, Extends, StoreConsistent, Consistent, Change
<1>3. ASSUME NEW k \in Live', records'[k].changeSeq <= replica.checkpoint
      PROVE  k \in DOMAIN replica.rows /\ replica.rows[k] = records'[k]
  <2>1. CASE k \in Live /\ records'[k] = records[k]
    BY <1>1, <1>3, <2>1 DEF AsOfCheckpoint
  <2>2. CASE \E c \in N : c.key = k /\ c.seq = records'[k].changeSeq
    BY <1>2, <1>3, <2>2
  <2>3. QED
    BY <2>1, <2>2 DEF Extends
<1>4. ASSUME NoHole(replica.checkpoint)', NEW k \in DOMAIN replica.rows \ Live'
      PROVE  \E c \in changes' : c.key = k /\ c.seq > replica.checkpoint
  <2>1. CASE k \in Live
    <3>1. PICK c \in N : c.key = k
      BY <1>4, <2>1 DEF Extends
    <3>2. QED
      BY <1>2, <3>1
  <2>2. CASE k \notin Live
    <3>1. ASSUME NEW n \in (replica.checkpoint + 1)..Watermark
          PROVE  \E c \in changes : c.seq = n
      <4>1. n \in Nat /\ n < nextSeq /\ n \in (replica.checkpoint + 1)..Watermark'
        <5>1. /\ n \in (replica.checkpoint + 1)..(nextSeq - 1)
              /\ replica.checkpoint \in Nat /\ nextSeq \in Nat /\ nextSeq' \in Nat
              /\ nextSeq <= nextSeq'
          BY <1>2, <3>1 DEF Watermark
        <5>2. n \in Nat /\ n < nextSeq /\ n \in (replica.checkpoint + 1)..(nextSeq' - 1)
          BY <5>1, Widened
        <5>3. QED
          BY <5>2 DEF Watermark
      <4>2. PICK c \in changes' : c.seq = n
        BY <1>1, <1>4, <4>1 DEF NoHole
      <4>3. c \notin N
        BY <1>2, <4>1, <4>2
      <4>4. QED
        BY <1>2, <4>2, <4>3
    <3>2. NoHole(replica.checkpoint)
      BY <3>1 DEF NoHole
    <3>3. PICK c \in changes : c.key = k /\ c.seq > replica.checkpoint
      BY <1>1, <1>4, <2>2, <3>2 DEF AsOfCheckpoint
    <3>4. QED
      BY <1>2, <3>3
  <2>3. QED
    BY <2>1, <2>2
<1>5. QED
  BY <1>1, <1>2, <1>3, <1>4 DEF AsOfCheckpoint

LEMMA PurgeAsOf ==
    ASSUME StoreConsistent, AsOfCheckpoint, changes' \subseteq changes,
           UNCHANGED <<epoch, replica, offline, nextSeq, records>>
    PROVE  AsOfCheckpoint'
<1> SUFFICES ASSUME ~offline', replica'.epoch = epoch'
             PROVE  AsOfCheckpoint'
  BY DEF AsOfCheckpoint
<1>1. /\ ~offline /\ replica.epoch = epoch /\ replica' = replica
      /\ Live' = Live /\ Watermark' = Watermark
  BY DEF Live, Watermark
<1>2. /\ replica.checkpoint \in Nat /\ nextSeq \in Nat
      /\ \A c \in changes : c.seq \in Nat /\ c.seq < nextSeq
      /\ \A c, d \in changes : c.seq = d.seq => c = d
  BY <1>1 DEF AsOfCheckpoint, StoreConsistent, Consistent, Change
<1>3. ASSUME NoHole(replica.checkpoint)', NEW k \in DOMAIN replica.rows \ Live
      PROVE  \E c \in changes' : c.key = k /\ c.seq > replica.checkpoint
  <2>1. NoHole(replica.checkpoint)
    BY <1>1, <1>3 DEF NoHole
  <2>2. PICK c \in changes : c.key = k /\ c.seq > replica.checkpoint
    BY <1>1, <1>3, <2>1 DEF AsOfCheckpoint
  <2>3. c.seq \in (replica.checkpoint + 1)..Watermark
    BY <1>2, <2>2 DEF Watermark
  <2>4. PICK d \in changes' : d.seq = c.seq
    BY <1>1, <1>3, <2>3 DEF NoHole
  <2>5. d = c
    BY <1>2, <2>4
  <2>6. QED
    BY <2>2, <2>4, <2>5
<1>4. QED
  BY <1>1, <1>3 DEF AsOfCheckpoint

LEMMA ExtendsFenced ==
    ASSUME ReceiptsFenced, NEW N, Extends(N), SnapshotsFade,
           UNCHANGED <<epoch, replica, bundle, markers>>
    PROVE  ReceiptsFenced'
<1> SUFFICES ASSUME Recovered'
             PROVE  ReceiptsFenced'
  BY DEF ReceiptsFenced
<1>1. Recovered /\ ReceiptKeys(bundle)' = ReceiptKeys(bundle)
  BY DEF Recovered, ReceiptKeys
<1>2. /\ tombstones \subseteq tombstones'
      /\ \A k \in Live' \ Live : k \notin tombstones
  BY DEF Extends
<1>3. /\ \A s \in DOMAIN snapshots' :
            /\ s \in DOMAIN snapshots /\ snapshots'[s].items = snapshots[s].items
            /\ snapshots'[s].status = "active" => snapshots[s].status = "active"
  BY DEF SnapshotsFade
<1>4. QED
  BY <1>1, <1>2, <1>3 DEF ReceiptsFenced
-----------------------------------------------------------------------------
(***************************************************************************)
(* What a device reads when it follows the changes is the live rows: a row *)
(* changed after its checkpoint has its event in the log, which has no     *)
(* hole there, and so has a row that is gone.                              *)
(***************************************************************************)
LEMMA FollowedExactly ==
    ASSUME StoreConsistent, AsOfCheckpoint, FollowChanges
    PROVE  replica'.rows = records
<1> DEFINE touched == {c.key : c \in {d \in changes : d.seq > replica.checkpoint}}
<1>1. /\ ~offline /\ replica.epoch = epoch
      /\ NoHole(replica.checkpoint)
      /\ replica' = [epoch |-> epoch, checkpoint |-> Watermark,
                     rows |-> [k \in (DOMAIN replica.rows \ touched) \cup (touched \cap Live) |->
                                 IF k \in touched THEN records[k] ELSE replica.rows[k]]]
  BY DEF FollowChanges, NoHole
<1>2. replica'.rows = [k \in (DOMAIN replica.rows \ touched) \cup (touched \cap Live) |->
                          IF k \in touched THEN records[k] ELSE replica.rows[k]]
  BY <1>1
<1>3. ASSUME NEW k \in Live, k \notin touched
      PROVE  k \in DOMAIN replica.rows /\ replica.rows[k] = records[k]
  <2>1. /\ records[k].changeSeq \in Nat /\ records[k].changeSeq < nextSeq
        /\ \A c \in changes : c.seq = records[k].changeSeq => c.key = k
        /\ nextSeq \in Nat /\ replica.checkpoint \in Nat
    BY <1>1 DEF StoreConsistent, Consistent, Live, Record, AsOfCheckpoint
  <2>2. ASSUME records[k].changeSeq > replica.checkpoint
        PROVE  FALSE
    <3>1. records[k].changeSeq \in (replica.checkpoint + 1)..Watermark
      BY <2>1, <2>2 DEF Watermark
    <3>2. PICK c \in changes : c.seq = records[k].changeSeq
      BY <1>1, <3>1 DEF NoHole
    <3>3. QED
      BY <1>3, <2>1, <2>2, <3>2
  <2>3. QED
    BY <1>1, <2>1, <2>2 DEF AsOfCheckpoint
<1>4. ASSUME NEW k \in DOMAIN replica.rows, k \notin touched
      PROVE  k \in Live
  BY <1>1, <1>4 DEF AsOfCheckpoint
<1>5. (DOMAIN replica.rows \ touched) \cup (touched \cap Live) = Live
  BY <1>3, <1>4
<1>6. \A k \in Live : (IF k \in touched THEN records[k] ELSE replica.rows[k]) = records[k]
  BY <1>3
<1>7. records = [k \in Live |-> records[k]]
  BY DEF StoreConsistent, Consistent, Live
<1> HIDE DEF touched
<1>8. QED
  BY <1>2, <1>5, <1>6, <1>7

\* A device that holds the live rows at the watermark holds them as of there.
LEMMA UpToDateAsOf ==
    ASSUME StoreConsistent, replica'.rows = records, replica'.checkpoint = Watermark,
           UNCHANGED <<nextSeq, records, changes>>
    PROVE  AsOfCheckpoint'
<1>1. /\ nextSeq \in Nat \ {0} /\ Watermark \in Nat /\ Watermark < nextSeq
      /\ records = [k \in DOMAIN records |-> records[k]]
  BY DEF StoreConsistent, Consistent, Watermark
<1>2. Live' = Live
  BY DEF Live
<1>3. QED
  BY <1>1, <1>2 DEF AsOfCheckpoint, Live
-----------------------------------------------------------------------------
LEMMA RecoveryInvInit == RecoveryInit => RecoveryInv
<1> SUFFICES ASSUME RecoveryInit PROVE RecoveryInv
  OBVIOUS
<1>1. /\ epoch = 1 /\ nextSeq = 1 /\ recordCount = 0 /\ records = Empty
      /\ tombstones = {} /\ changes = {} /\ snapshots = Empty /\ expiredSnaps = {}
      /\ markers = {} /\ image = Image /\ receipts = {} /\ offline = FALSE
      /\ bundle = NoBundle /\ issued = 1
      /\ replica = [epoch |-> 0, checkpoint |-> 0, rows |-> Empty]
  BY DEF RecoveryInit, Init
<1>2. /\ image.epoch = 1 /\ image.nextSeq = 1 /\ image.recordCount = 0
      /\ image.records = Empty /\ image.tombstones = {} /\ image.changes = {}
      /\ image.snapshots = Empty /\ image.markers = {}
  BY <1>1 DEF Image
<1>3. /\ DOMAIN Empty = {} /\ Empty \in [DOMAIN Empty -> Record]
      /\ Empty \in [DOMAIN Empty -> Snapshot]
  BY DEF Empty
<1>4. Consistent(1, Empty, {}, {}, Empty)
  BY <1>3 DEF Consistent
<1>5. StoreConsistent /\ ImageConsistent
  BY <1>1, <1>2, <1>4 DEF StoreConsistent, ImageConsistent
<1>6. EpochsInOrder
  BY <1>1, <1>2 DEF EpochsInOrder, NoBundle
<1>7. BundleNew
  <2>1. bundle.id = 0 /\ bundle.deletions = <<>> /\ bundle.restoredEpoch = 0
    BY <1>1 DEF NoBundle
  <2>2. <<>> \in Seq(Key)
    OBVIOUS
  <2>3. QED
    BY <1>1, <1>2, <2>1, <2>2 DEF BundleNew
<1>8. ReceiptsFenced
  BY <1>1 DEF ReceiptsFenced, Recovered, NoBundle
<1>9. AsOfCheckpoint
  BY <1>1 DEF AsOfCheckpoint
<1>10. QED
  BY <1>1, <1>5, <1>6, <1>7, <1>8, <1>9 DEF RecoveryInv

(***************************************************************************)
(* A mutation of the running service: the history goes on in its epoch, or *)
(* ends with it.                                                           *)
(***************************************************************************)
LEMMA MutationStep ==
    ASSUME RecoveryInv, ~offline, WriteOrDelete,
           UNCHANGED <<image, backups, offline, bundle, markers, replica>>
    PROVE  RecoveryInv'
<1>1. /\ StoreConsistent /\ ImageConsistent /\ expiredSnaps = {}
      /\ EpochsInOrder /\ BundleNew /\ ReceiptsFenced /\ AsOfCheckpoint
  BY DEF RecoveryInv
<1>2. ImageConsistent'
  BY <1>1 DEF ImageConsistent, Consistent
<1>3. ASSUME NEW N, Extends(N), SnapshotsFade, UNCHANGED <<epoch, expiredSnaps, issued>>,
             receipts' \subseteq Key
      PROVE  RecoveryInv'
  <2>1. StoreConsistent' /\ AsOfCheckpoint' /\ ReceiptsFenced'
    BY <1>1, <1>3, ExtendsConsistent, ExtendsAsOf, ExtendsFenced
  <2>2. EpochsInOrder' /\ BundleNew'
    BY <1>1, <1>3 DEF EpochsInOrder, BundleNew
  <2>3. QED
    BY <1>1, <1>2, <1>3, <2>1, <2>2 DEF RecoveryInv
<1>4. CASE /\ \/ \E b \in Batch : ArchiveBatch(epoch, b)
              \/ \E k \in Live, s \in NewState :
                    PatchApplied(k, s, records[k].revision, NoIdem)
           /\ UNCHANGED <<receipts, issued>>
  <2>1. Live \subseteq Key /\ receipts' \subseteq Key
    BY <1>1, <1>4 DEF StoreConsistent, Consistent, Live, BundleNew
  <2>2. \E N : Extends(N) /\ UNCHANGED <<epoch, snapVars>>
    BY <1>1, <1>4, <2>1, ArchiveExtends, PatchExtends, BatchType
  <2>3. QED
    BY <1>1, <1>3, <1>4, <2>1, <2>2, UnchangedFade DEF snapVars
<1>5. ASSUME NEW k \in Key, DeleteRecord(k, NoIdem), receipts' = receipts \cup {k},
             UNCHANGED issued
      PROVE  RecoveryInv'
  <2>1. receipts' \subseteq Key
    BY <1>1, <1>5 DEF BundleNew
  <2>2. PICK N : Extends(N)
    BY <1>1, <1>5, DeleteExtends
  <2>3. SnapshotsFade /\ UNCHANGED <<epoch, expiredSnaps>>
    BY <1>1, <1>5, DeleteExtends
  <2>4. QED
    BY <1>3, <1>5, <2>1, <2>2, <2>3
<1>6. CASE /\ DeleteAll(0, NoIdem)
           /\ receipts' = receipts \cup DOMAIN image.records
           /\ issued' = epoch'
  <2>1. /\ records' = Empty /\ changes' = {} /\ tombstones' = {} /\ recordCount' = 0
        /\ nextSeq' = nextSeq /\ epoch' = epoch + 1
        /\ snapshots' = Invalidated(ActiveSnapshots)
        /\ UNCHANGED expiredSnaps
    BY <1>6 DEF DeleteAll, Wipe
  <2>2. StoreConsistent'
    <3>1. snapshots' \in [DOMAIN snapshots' -> Snapshot]
      BY <1>1, <2>1, InvalidatedFade DEF SnapshotsFade
    <3>2. DOMAIN Empty = {} /\ Empty \in [DOMAIN Empty -> Record]
      BY DEF Empty
    <3>3. QED
      BY <1>1, <2>1, <3>1, <3>2 DEF StoreConsistent, Consistent
  <2>3. /\ epoch \in Nat \ {0} /\ epoch = issued
        /\ replica.epoch \in Nat /\ replica.epoch <= epoch
        /\ bundle.recoveryEpoch \in Nat /\ bundle.recoveryEpoch <= epoch
    BY <1>1 DEF EpochsInOrder
  <2>4. EpochsInOrder'
    BY <1>1, <1>6, <2>1, <2>3 DEF EpochsInOrder
  <2>5. BundleNew'
    <3>1. receipts' \subseteq Key
      BY <1>1, <1>6 DEF BundleNew, ImageConsistent, Consistent
    <3>2. QED
      BY <1>1, <3>1 DEF BundleNew
  <2>6. ReceiptsFenced' /\ AsOfCheckpoint'
    BY <2>1, <2>3 DEF ReceiptsFenced, Recovered, AsOfCheckpoint
  <2>7. QED
    BY <1>1, <1>2, <2>1, <2>2, <2>4, <2>5, <2>6 DEF RecoveryInv
<1>7. QED
  BY <1>4, <1>5, <1>6 DEF WriteOrDelete

(***************************************************************************)
(* A snapshot holds live rows only; retention takes changes and opens      *)
(* holes; time passes.                                                     *)
(***************************************************************************)
LEMMA CaptureConsistent ==
    ASSUME RecoveryInv, NEW id, NEW f \in Filter, CreateSnapshot(id, f),
           UNCHANGED <<replica, bundle, markers>>
    PROVE  StoreConsistent' /\ ReceiptsFenced'
<1>1. /\ StoreConsistent /\ EpochsInOrder /\ ReceiptsFenced
  BY DEF RecoveryInv
<1>2. PICK snap : snap = [status |-> "active", epoch |-> epoch, filter |-> f,
                          watermark |-> Watermark,
                          items |-> {MemberOf(c.key) : c \in JoinedUpserts(f)}]
  OBVIOUS
<1>3. /\ snapshots' = With(snapshots, id, snap) /\ UNCHANGED ownerVars
  BY <1>2 DEF CreateSnapshot
<1>4. /\ nextSeq \in Nat \ {0} /\ records \in [Live -> Record] /\ Live \subseteq Key
      /\ snapshots \in [DOMAIN snapshots -> Snapshot] /\ epoch \in Nat
  BY <1>1 DEF StoreConsistent, Consistent, Live, EpochsInOrder
<1>5. \A c \in JoinedUpserts(f) :
         MemberOf(c.key) \in Member /\ MemberOf(c.key).key \in Live
  BY <1>4 DEF JoinedUpserts, MemberOf, Member, Record
<1>6. snap \in Snapshot /\ \A m \in snap.items : m.key \in Live
  BY <1>2, <1>4, <1>5 DEF Snapshot, Watermark
<1>7. /\ DOMAIN snapshots' = DOMAIN snapshots \cup {id}
      /\ \A s \in DOMAIN snapshots' :
            snapshots'[s] = IF s = id THEN snap ELSE snapshots[s]
      /\ snapshots' \in [DOMAIN snapshots' -> Snapshot]
  BY <1>3, <1>4, <1>6 DEF With
<1>8. StoreConsistent'
  BY <1>1, <1>3, <1>7 DEF StoreConsistent, Consistent, ownerVars
<1>9. ReceiptsFenced'
  <2> SUFFICES ASSUME Recovered'
               PROVE  ReceiptsFenced'
    BY DEF ReceiptsFenced
  <2>1. /\ Recovered /\ ReceiptKeys(bundle)' = ReceiptKeys(bundle) /\ Live' = Live
    BY <1>3 DEF Recovered, ReceiptKeys, ownerVars, Live
  <2>2. \A s \in DOMAIN snapshots' : snapshots'[s].status = "active" =>
           \A m \in snapshots'[s].items : m.key \notin ReceiptKeys(bundle)
    BY <1>1, <1>6, <1>7, <2>1 DEF ReceiptsFenced
  <2>3. QED
    BY <1>1, <1>3, <2>1, <2>2 DEF ReceiptsFenced, ownerVars
<1>10. QED
  BY <1>8, <1>9

LEMMA BackgroundStep ==
    ASSUME RecoveryInv, ~offline, Background,
           UNCHANGED <<image, backups, offline, bundle, markers, replica>>
    PROVE  RecoveryInv'
<1>1. /\ StoreConsistent /\ ImageConsistent /\ expiredSnaps = {}
      /\ EpochsInOrder /\ BundleNew /\ ReceiptsFenced /\ AsOfCheckpoint
      /\ UNCHANGED <<receipts, issued>>
  BY DEF RecoveryInv, Background
<1>2. ASSUME UNCHANGED <<epoch, nextSeq, recordCount, records, tombstones, expiredSnaps>>,
             changes' \subseteq changes, StoreConsistent', ReceiptsFenced'
      PROVE  RecoveryInv'
  <2>1. ImageConsistent' /\ EpochsInOrder' /\ BundleNew'
    BY <1>1, <1>2 DEF ImageConsistent, Consistent, EpochsInOrder, BundleNew
  <2>2. AsOfCheckpoint'
    BY <1>1, <1>2, PurgeAsOf
  <2>3. QED
    BY <1>1, <1>2, <2>1, <2>2 DEF RecoveryInv
<1>3. CASE Capture
  <2>1. PICK id \in SnapId, f \in Filter : CreateSnapshot(id, f)
    BY <1>3 DEF Capture
  <2>2. StoreConsistent' /\ ReceiptsFenced'
    BY <2>1, CaptureConsistent
  <2>3. UNCHANGED <<ownerVars, expiredSnaps>>
    BY <2>1 DEF CreateSnapshot
  <2>4. QED
    BY <1>2, <2>2, <2>3 DEF ownerVars
<1>4. CASE PurgeChanges \/ \E n \in 1..MaxSeq : AgeChanges(n)
  <2>1. /\ UNCHANGED <<epoch, nextSeq, recordCount, records, tombstones, snapVars>>
        /\ changes' \subseteq changes
    BY <1>4 DEF PurgeChanges, AgeChanges, ownerVars, snapVars
  <2>2. StoreConsistent'
    BY <1>1, <2>1 DEF StoreConsistent, Consistent, snapVars
  <2>3. ReceiptsFenced'
    BY <1>1, <2>1 DEF ReceiptsFenced, Recovered, ReceiptKeys, Live, snapVars
  <2>4. QED
    BY <1>2, <2>1, <2>2, <2>3 DEF snapVars
<1>5. QED
  BY <1>3, <1>4 DEF Background
(***************************************************************************)
(* Devices, backups and restores.                                          *)
(***************************************************************************)
LEMMA DeviceStep ==
    ASSUME RecoveryInv, Reconcile \/ FollowChanges
    PROVE  RecoveryInv'
<1>1. /\ StoreConsistent /\ ImageConsistent /\ expiredSnaps = {}
      /\ EpochsInOrder /\ BundleNew /\ ReceiptsFenced /\ AsOfCheckpoint
  BY DEF RecoveryInv
<1>2. ~offline /\ UNCHANGED <<vars, operatorVars, issued>>
  BY DEF Reconcile, FollowChanges
<1>3. UNCHANGED <<epoch, nextSeq, recordCount, records, tombstones, changes, snapshots,
                  expiredSnaps, image, receipts, offline, bundle, markers, issued>>
  BY <1>2 DEF vars, ownerVars, snapVars, operatorVars
<1>4. replica'.epoch = epoch /\ replica'.checkpoint = Watermark /\ replica'.rows = records
  BY <1>1, FollowedExactly DEF Reconcile, FollowChanges
<1>5. StoreConsistent' /\ ImageConsistent' /\ BundleNew'
  BY <1>1, <1>3 DEF StoreConsistent, ImageConsistent, Consistent, BundleNew
<1>6. EpochsInOrder'
  BY <1>1, <1>2, <1>3, <1>4 DEF EpochsInOrder
<1>7. ReceiptsFenced'
  BY <1>1, <1>3, <1>4 DEF ReceiptsFenced, Recovered, ReceiptKeys, Live
<1>8. AsOfCheckpoint'
  BY <1>1, <1>3, <1>4, UpToDateAsOf
<1>9. QED
  BY <1>1, <1>3, <1>5, <1>6, <1>7, <1>8 DEF RecoveryInv

LEMMA BackupStep ==
    ASSUME RecoveryInv, TakeBackup
    PROVE  RecoveryInv'
<1>1. /\ StoreConsistent /\ ImageConsistent /\ expiredSnaps = {}
      /\ EpochsInOrder /\ BundleNew /\ ReceiptsFenced /\ AsOfCheckpoint
  BY DEF RecoveryInv
<1>2. /\ image'.epoch = epoch /\ image'.nextSeq = nextSeq
      /\ image'.recordCount = recordCount /\ image'.records = records
      /\ image'.tombstones = tombstones /\ image'.changes = changes
      /\ image'.snapshots = snapshots /\ image'.markers = markers
      /\ receipts' = {}
  BY DEF TakeBackup, Image
<1>3. UNCHANGED <<epoch, nextSeq, recordCount, records, tombstones, changes, snapshots,
                  expiredSnaps, offline, bundle, markers, issued, replica>>
  BY DEF TakeBackup, vars, ownerVars, snapVars
<1>4. StoreConsistent'
  BY <1>1, <1>3 DEF StoreConsistent, Consistent
<1>5. ImageConsistent'
  BY <1>1, <1>2 DEF StoreConsistent, ImageConsistent, Consistent
<1>6. EpochsInOrder' /\ BundleNew'
  BY <1>1, <1>2, <1>3 DEF EpochsInOrder, BundleNew
<1>7. ReceiptsFenced'
  BY <1>1, <1>3 DEF ReceiptsFenced, Recovered, ReceiptKeys, Live
<1>8. AsOfCheckpoint'
  BY <1>1, <1>3 DEF AsOfCheckpoint, NoHole, Watermark, Live
<1>9. QED
  BY <1>1, <1>3, <1>4, <1>5, <1>6, <1>7, <1>8 DEF RecoveryInv

LEMMA RestoreStep ==
    ASSUME RecoveryInv, Restore
    PROVE  RecoveryInv'
<1>1. /\ StoreConsistent /\ ImageConsistent /\ expiredSnaps = {}
      /\ EpochsInOrder /\ BundleNew
  BY DEF RecoveryInv
<1>2. /\ epoch' = image.epoch /\ nextSeq' = image.nextSeq
      /\ recordCount' = image.recordCount /\ records' = image.records
      /\ tombstones' = image.tombstones /\ changes' = image.changes
      /\ snapshots' = image.snapshots /\ markers' = image.markers
      /\ issued' = issued + 1 /\ offline'
      /\ UNCHANGED <<expiredSnaps, image, receipts, replica>>
  BY DEF Restore
<1>3. PICK order \in Orders(receipts) : bundle' = BundleOf(order)
  BY DEF Restore
<1>4. order \in Seq(Key)
  <2>1. receipts \subseteq Key /\ Cardinality(receipts) \in Nat
    BY <1>1, KeysFinite, FS_Subset, FS_CardinalityType DEF BundleNew
  <2>2. order \in [1..Cardinality(receipts) -> Key]
    BY <2>1 DEF Orders
  <2>3. QED
    BY <2>1, <2>2
<1>5. /\ bundle'.id = bundle.id + 1 /\ bundle'.recoveryEpoch = issued + 1
      /\ bundle'.deletions = order
  BY <1>3 DEF BundleOf
<1>6. StoreConsistent'
  BY <1>1, <1>2 DEF StoreConsistent, ImageConsistent, Consistent
<1>7. ImageConsistent'
  BY <1>1, <1>2 DEF ImageConsistent, Consistent
<1>8. bundle.id \in Nat /\ bundle'.id \notin markers'
      /\ \A n \in markers' \cup image'.markers : n \in Nat /\ n <= bundle'.id
  BY <1>1, <1>2, <1>5 DEF BundleNew
<1>9. BundleNew'
  BY <1>1, <1>2, <1>4, <1>5, <1>8 DEF BundleNew
<1>10. EpochsInOrder'
  BY <1>1, <1>2, <1>5, <1>8 DEF EpochsInOrder
<1>11. ReceiptsFenced' /\ AsOfCheckpoint'
  BY <1>2, <1>8 DEF ReceiptsFenced, Recovered, AsOfCheckpoint
<1>12. QED
  BY <1>1, <1>2, <1>6, <1>7, <1>9, <1>10, <1>11 DEF RecoveryInv

(***************************************************************************)
(* The recovery command runs only while the service is stopped, and moves  *)
(* the owner to an epoch no device has seen.                               *)
(***************************************************************************)
LEMMA RecoverStep ==
    ASSUME RecoveryInv, Recover
    PROVE  RecoveryInv'
<1>1. /\ StoreConsistent /\ ImageConsistent /\ expiredSnaps = {}
      /\ EpochsInOrder /\ BundleNew
  BY DEF RecoveryInv
<1>2. /\ bundle.id \notin markers /\ epoch = bundle.restoredEpoch
      /\ epoch' = bundle.recoveryEpoch
      /\ markers' = markers \cup {bundle.id}
      /\ UNCHANGED <<expiredSnaps, image, receipts, offline, bundle, issued, replica>>
  BY DEF Recover, RotateTo
<1>3. offline
  BY <1>1, <1>2 DEF BundleNew, EpochsInOrder
<1>4. /\ StoreConsistent'
      /\ \A s \in DOMAIN snapshots' : snapshots'[s].status # "active"
      /\ tombstones' = tombstones \cup ReceiptKeys(bundle)
      /\ Live' = Live \ ReceiptKeys(bundle)
  BY <1>1, RecoverExtends, ExtendsConsistent
<1>5. ImageConsistent'
  BY <1>1, <1>2 DEF ImageConsistent, Consistent
<1>6. /\ issued \in Nat /\ bundle.recoveryEpoch = issued
      /\ replica.epoch \in Nat /\ replica.epoch < issued
  BY <1>1, <1>3 DEF EpochsInOrder
<1>7. EpochsInOrder'
  BY <1>1, <1>2, <1>3, <1>6 DEF EpochsInOrder
<1>8. BundleNew'
  BY <1>1, <1>2, <1>3 DEF BundleNew
<1>9. ReceiptsFenced'
  <2>1. ReceiptKeys(bundle)' = ReceiptKeys(bundle) /\ replica'.epoch # epoch'
    BY <1>2, <1>6 DEF ReceiptKeys
  <2>2. QED
    BY <1>4, <2>1 DEF ReceiptsFenced
<1>10. AsOfCheckpoint'
  BY <1>2, <1>3 DEF AsOfCheckpoint
<1>11. QED
  BY <1>1, <1>2, <1>4, <1>5, <1>7, <1>8, <1>9, <1>10 DEF RecoveryInv

LEMMA ResumeStep ==
    ASSUME RecoveryInv, Resume
    PROVE  RecoveryInv'
<1>1. /\ StoreConsistent /\ ImageConsistent /\ expiredSnaps = {}
      /\ EpochsInOrder /\ BundleNew /\ ReceiptsFenced
  BY DEF RecoveryInv
<1>2. UNCHANGED <<epoch, nextSeq, recordCount, records, tombstones, changes, snapshots,
                  expiredSnaps, image, receipts, bundle, markers, issued, replica>>
  BY DEF Resume, vars, ownerVars, snapVars
<1>3. offline /\ ~offline' /\ bundle.id \in markers
  BY DEF Resume
<1>4. StoreConsistent' /\ ImageConsistent' /\ BundleNew'
  BY <1>1, <1>2, <1>3 DEF StoreConsistent, ImageConsistent, Consistent, BundleNew
<1>5. epoch = issued /\ replica.epoch \in Nat /\ replica.epoch < issued
  BY <1>1, <1>3 DEF EpochsInOrder
<1>6. EpochsInOrder'
  BY <1>1, <1>2, <1>3, <1>5 DEF EpochsInOrder
<1>7. ReceiptsFenced'
  BY <1>1, <1>2 DEF ReceiptsFenced, Recovered, ReceiptKeys, Live
<1>8. AsOfCheckpoint'
  <2>1. replica'.epoch # epoch'
    BY <1>1, <1>2, <1>5 DEF EpochsInOrder
  <2>2. QED
    BY <2>1 DEF AsOfCheckpoint
<1>9. QED
  BY <1>1, <1>2, <1>4, <1>6, <1>7, <1>8 DEF RecoveryInv

LEMMA RecoveryInvStep == RecoveryInv /\ [RecoveryNext]_recoveryVars => RecoveryInv'
<1> SUFFICES ASSUME RecoveryInv, [RecoveryNext]_recoveryVars
             PROVE  RecoveryInv'
  OBVIOUS
<1>1. CASE Serve
  BY <1>1, MutationStep, BackgroundStep DEF Serve
<1>2. CASE UNCHANGED recoveryVars
  <2>1. UNCHANGED <<epoch, nextSeq, recordCount, records, tombstones, changes, snapshots,
                    expiredSnaps, image, receipts, offline, bundle, markers, issued,
                    replica>>
    BY <1>2 DEF recoveryVars, operatorVars, vars, ownerVars, snapVars
  <2>2. StoreConsistent' /\ ImageConsistent' /\ EpochsInOrder' /\ BundleNew'
    BY <2>1 DEF RecoveryInv, StoreConsistent, ImageConsistent, Consistent, EpochsInOrder,
       BundleNew
  <2>3. ReceiptsFenced' /\ AsOfCheckpoint'
    BY <2>1 DEF RecoveryInv, ReceiptsFenced, Recovered, ReceiptKeys, AsOfCheckpoint,
       NoHole, Watermark, Live
  <2>4. QED
    BY <2>1, <2>2, <2>3 DEF RecoveryInv
<1>3. QED
  BY <1>1, <1>2, DeviceStep, BackupStep, RestoreStep, RecoverStep, ResumeStep
     DEF RecoveryNext

(***************************************************************************)
(* However backups, restores and recoveries alternate with the life of the *)
(* service, the tables and the image stay consistent, no epoch is handed   *)
(* out twice, receipts stay fenced, and devices hold what they believe.    *)
(***************************************************************************)
THEOREM RecoveryInvariant == RecoverySpec => []RecoveryInv
BY RecoveryInvInit, RecoveryInvStep, PTL DEF RecoverySpec

(***************************************************************************)
(* What the owner was told is deleted stays deleted through any number of  *)
(* restores: once the recovery command has applied its receipts no client, *)
(* snapshot or device brings one of these keys back in that epoch.         *)
(***************************************************************************)
THEOREM DeletionsSurviveRestore == RecoverySpec => []DeletedStaysDeleted
<1>1. RecoveryInv => DeletedStaysDeleted
  BY DEF RecoveryInv, ReceiptsFenced, Recovered, DeletedStaysDeleted
<1>2. QED
  BY <1>1, RecoveryInvariant, PTL

(***************************************************************************)
(* A device at the current epoch and watermark holds exactly the live      *)
(* rows, although a restored allocator hands out sequences again that it   *)
(* may have seen on a lost branch.                                         *)
(***************************************************************************)
THEOREM NoBranchMistaken == RecoverySpec => []UpToDateIsRight
<1>1. RecoveryInv => UpToDateIsRight
  <2> SUFFICES ASSUME RecoveryInv, ~offline, replica.epoch = epoch,
                      replica.checkpoint = Watermark
               PROVE  replica.rows = records
    BY DEF UpToDateIsRight
  <2>1. /\ nextSeq \in Nat \ {0} /\ Watermark = nextSeq - 1
        /\ records = [k \in Live |-> records[k]]
        /\ \A k \in Live : records[k].changeSeq \in Nat /\ records[k].changeSeq < nextSeq
        /\ \A c \in changes : c.seq \in Nat /\ c.seq < nextSeq
    BY DEF RecoveryInv, StoreConsistent, Consistent, Watermark, Live, Record, Change
  <2>2. /\ replica.rows = [k \in DOMAIN replica.rows |-> replica.rows[k]]
        /\ \A k \in Live : records[k].changeSeq <= replica.checkpoint =>
              k \in DOMAIN replica.rows /\ replica.rows[k] = records[k]
        /\ NoHole(replica.checkpoint) =>
              \A k \in DOMAIN replica.rows \ Live :
                 \E c \in changes : c.key = k /\ c.seq > replica.checkpoint
    BY DEF RecoveryInv, AsOfCheckpoint
  <2>3. \A k \in Live : k \in DOMAIN replica.rows /\ replica.rows[k] = records[k]
    BY <2>1, <2>2
  <2>4. NoHole(replica.checkpoint)
    BY <2>1 DEF NoHole
  <2>5. DOMAIN replica.rows = Live
    BY <2>1, <2>2, <2>3, <2>4
  <2>6. QED
    BY <2>1, <2>2, <2>3, <2>5
<1>2. QED
  BY <1>1, RecoveryInvariant, PTL
=============================================================================
