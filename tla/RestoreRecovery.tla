-------------------------- MODULE RestoreRecovery ---------------------------
(***************************************************************************)
(* A backup of the owner's database is restored, and the recovery command  *)
(* fences it before the service resumes.                                   *)
(*                                                                         *)
(* The image may predate deletions the owner was promised and epochs the   *)
(* devices have synchronised with.  Outside the database the operator      *)
(* keeps a receipt for every deletion since the backup; the command takes  *)
(* them as a bundle, applies them in one transaction, and moves the owner  *)
(* to the bundle's epoch.  It reads no clock and the service is stopped    *)
(* meanwhile, so the actions of the service and of time wait for it.       *)
(*                                                                         *)
(* That the bundle's epoch is fresh and its receipts complete is the       *)
(* operator's word (docs/RUNBOOK.md): the command can only compare the     *)
(* epoch with the image's.  Fresh epochs are the next number, as rotations *)
(* are; the real ones are arbitrary strings that only equality reads.      *)
(***************************************************************************)
EXTENDS HistoryStore

CONSTANTS
    MaxBackups,    \* bound of the model on backups
    MaxRestores    \* bound of the model on restores, hence on recovery ids

ASSUME RecoveryBounds == MaxBackups \in Nat /\ MaxRestores \in Nat

VARIABLES
    image,        \* the backup: the tables at one instant
    backups,      \* backups taken so far
    receipts,     \* the operator's receipts: keys deleted since the backup
    offline,      \* the service is stopped
    bundle,       \* the receipt bundle of the last restore
    markers,      \* recoveries the audit log knows of
    issued,       \* (history variable) the highest epoch handed out
    replica       \* what a device holds: coverage and rows

operatorVars == <<image, backups, receipts, offline, bundle, markers>>
recoveryVars == <<vars, operatorVars, issued, replica>>

Image == [epoch |-> epoch, nextSeq |-> nextSeq, recordCount |-> recordCount,
          records |-> records, tombstones |-> tombstones, changes |-> changes,
          snapshots |-> snapshots, idem |-> idem, agedThrough |-> agedThrough,
          epochBase |-> epochBase, markers |-> markers]

NoBundle == [id |-> 0, restoredEpoch |-> 0, recoveryEpoch |-> 0, deletions |-> <<>>]

RecoveryInit ==
    /\ Init
    /\ markers = {} /\ image = Image /\ backups = 0 /\ receipts = {}
    /\ offline = FALSE /\ bundle = NoBundle
    /\ issued = 1
    /\ replica = [epoch |-> 0, checkpoint |-> 0, rows |-> Empty]
-----------------------------------------------------------------------------
(***************************************************************************)
(* The service.  Each deletion leaves its receipt; a bulk deletion is      *)
(* expanded into receipts for every record of the image.                   *)
(***************************************************************************)
WriteOrDelete ==
    \/ /\ \/ \E b \in Batch : ArchiveBatch(epoch, b)
          \/ \E k \in Live, s \in NewState :
                PatchApplied(k, s, records[k].revision, NoIdem)
       /\ UNCHANGED <<receipts, issued>>
    \/ \E k \in Key : /\ DeleteRecord(k, NoIdem)
                      /\ receipts' = receipts \cup {k}
                      /\ UNCHANGED issued
    \/ /\ DeleteAll(0, NoIdem)
       /\ receipts' = receipts \cup DOMAIN image.records
       /\ issued' = epoch'

\* A retention pass in one step (HistoryStore interleaves its two halves).
\* Snapshots are kept as if none expired: the longest they could be read.
PurgeChanges ==
    /\ Due # {}
    /\ changes' = {c \in changes : c \in Due => DueRank(c) > PurgeBudget}
    /\ UNCHANGED <<epoch, nextSeq, recordCount, records, tombstones,
                   idemVars, snapVars, purgeVars, epochBase>>

Background ==
    /\ \/ Capture
       \/ PurgeChanges
       \/ \E n \in 1..MaxSeq : AgeChanges(n)
    /\ UNCHANGED <<receipts, issued>>

Serve ==
    /\ ~offline
    /\ WriteOrDelete \/ Background
    /\ UNCHANGED <<image, backups, offline, bundle, markers, replica>>

(***************************************************************************)
(* A device: full reconciliation, or the changes after its checkpoint if   *)
(* its coverage is of the current epoch and retention took none of them.   *)
(* (ReplicaSync shows how a cycle of requests comes to either.)            *)
(***************************************************************************)
Reconcile ==
    /\ ~offline
    /\ replica' = [epoch |-> epoch, checkpoint |-> Watermark, rows |-> records]
    /\ UNCHANGED <<vars, operatorVars, issued>>

FollowChanges ==
    LET touched == {c.key : c \in {d \in changes : d.seq > replica.checkpoint}} IN
    /\ ~offline
    /\ replica.epoch = epoch
    /\ \A n \in (replica.checkpoint + 1)..Watermark : \E c \in changes : c.seq = n
    /\ replica' = [epoch |-> epoch, checkpoint |-> Watermark,
                   rows |-> [k \in (DOMAIN replica.rows \ touched) \cup (touched \cap Live) |->
                               IF k \in touched THEN records[k] ELSE replica.rows[k]]]
    /\ UNCHANGED <<vars, operatorVars, issued>>
-----------------------------------------------------------------------------
(***************************************************************************)
(* The operator takes a consistent backup while the service runs, and the  *)
(* receipts start over with it.                                            *)
(***************************************************************************)
TakeBackup ==
    /\ ~offline
    /\ backups < MaxBackups
    /\ image' = Image
    /\ backups' = backups + 1
    /\ receipts' = {}
    /\ UNCHANGED <<vars, offline, bundle, markers, issued, replica>>

\* The bundle for the image: its receipts in some order, no key twice.
BundleOf(order) == [id |-> bundle.id + 1, restoredEpoch |-> image.epoch,
                    recoveryEpoch |-> issued + 1, deletions |-> order]

Orders(S) == {d \in [1..Cardinality(S) -> S] : \A i, j \in DOMAIN d : d[i] = d[j] => i = j}

\* The database is lost, with the service that was using it; the image is put
\* in its place.
Restore ==
    /\ backups > 0
    /\ bundle.id < MaxRestores
    /\ offline' = TRUE
    /\ epoch' = image.epoch /\ nextSeq' = image.nextSeq
    /\ recordCount' = image.recordCount
    /\ records' = image.records /\ tombstones' = image.tombstones
    /\ changes' = image.changes
    /\ snapshots' = image.snapshots /\ UNCHANGED expiredSnaps
    /\ idem' = image.idem /\ expiredIdem' = {}
    /\ agedThrough' = Smaller(agedThrough, image.nextSeq - 1) /\ victims' = {}
    /\ epochBase' = image.epochBase
    /\ markers' = image.markers
    /\ \E order \in Orders(receipts) : bundle' = BundleOf(order)
    /\ issued' = issued + 1
    /\ UNCHANGED <<image, backups, receipts, replica>>

(***************************************************************************)
(* applyMysqlRestoreRecovery: one transaction.  A bundle the audit log     *)
(* already knows changes nothing, however often it is run again; any other *)
(* must name the epoch the owner is at.  The restored allocator goes on    *)
(* with the receipts: each deletes its record, and leaves a body-free      *)
(* delete event and a fence although the record may not be in the image.   *)
(***************************************************************************)
ReceiptKeys(b) == {b.deletions[i] : i \in DOMAIN b.deletions}

\* (mutant) the events are written and the fences are not
MutRefence(b) == tombstones

Refence(b) == tombstones \cup ReceiptKeys(b)

ReceiptEvents(b) ==
    {[seq |-> nextSeq + i - 1, key |-> b.deletions[i], kind |-> "delete",
      version |-> 1, state |-> "none"] : i \in DOMAIN b.deletions}

\* (mutant) the owner stays at the epoch of the image
MutRotateTo(b) == epoch

RotateTo(b) == b.recoveryEpoch

Recover ==
    /\ bundle.id \notin markers
    /\ epoch = bundle.restoredEpoch
    /\ \A c \in changes : c.seq < nextSeq
    /\ nextSeq + Len(bundle.deletions) <= MaxSeq
    /\ records' = Without(records, ReceiptKeys(bundle))
    /\ changes' = changes \cup ReceiptEvents(bundle)
    /\ tombstones' = Refence(bundle)
    /\ nextSeq' = nextSeq + Len(bundle.deletions)
    /\ snapshots' = Invalidated({s \in DOMAIN snapshots : snapshots[s].status = "active"})
    /\ idem' = Empty /\ expiredIdem' = {}
    /\ epoch' = RotateTo(bundle)
    /\ epochBase' = nextSeq
    /\ recordCount' = Cardinality(DOMAIN records')
    /\ markers' = markers \cup {bundle.id}
    /\ UNCHANGED <<expiredSnaps, purgeVars, image, backups, receipts, offline,
                   bundle, issued, replica>>

\* The service may be started again once the command has succeeded.
Resume ==
    /\ offline
    /\ bundle.id \in markers
    /\ offline' = FALSE
    /\ UNCHANGED <<vars, image, backups, receipts, bundle, markers, issued, replica>>
-----------------------------------------------------------------------------
RecoveryNext ==
    \/ Serve
    \/ Reconcile \/ FollowChanges
    \/ TakeBackup \/ Restore \/ Recover \/ Resume

RecoverySpec == RecoveryInit /\ [][RecoveryNext]_recoveryVars
-----------------------------------------------------------------------------
(***************************************************************************)
(* Properties                                                              *)
(***************************************************************************)

(***************************************************************************)
(* What the owner was told is deleted stays deleted through a restore (PRD *)
(* 6: post-backup deletions must be reapplied): while the recovery's       *)
(* epoch lasts no key it had a receipt for is live again, in a snapshot a  *)
(* client may still read, or on a device that has synchronised with that   *)
(* epoch, whatever the clients that still hold the record submit and       *)
(* whatever events retention takes from the log.                           *)
(***************************************************************************)
DeletedStaysDeleted ==
    (bundle.id \in markers /\ epoch = bundle.recoveryEpoch) =>
        /\ Live \cap ReceiptKeys(bundle) = {}
        /\ \A s \in DOMAIN snapshots \ expiredSnaps : \A m \in snapshots[s].items :
              snapshots[s].status = "active" => m.key \notin ReceiptKeys(bundle)
        /\ replica.epoch = epoch => DOMAIN replica.rows \cap ReceiptKeys(bundle) = {}

(***************************************************************************)
(* Rolling the database back is never mistaken for progress: a device that *)
(* believes itself up to date, at the current epoch and watermark, holds   *)
(* exactly the live rows, although the sequences of the lost branch are    *)
(* handed out a second time and its rows came to other devices before.     *)
(***************************************************************************)
UpToDateIsRight ==
    (~offline /\ replica.epoch = epoch /\ replica.checkpoint = Watermark) =>
        replica.rows = records
=============================================================================
