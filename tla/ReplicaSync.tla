---------------------------- MODULE ReplicaSync -----------------------------
(***************************************************************************)
(* A device reconciling its local replica with the owner's history: the    *)
(* sync cycle (syncHistory) against the store of HistoryStore.             *)
(*                                                                         *)
(* The replica holds rows complete up to a checkpoint.  A cycle asks for   *)
(* the changes after it, page by page, inside a watermark W fixed by the   *)
(* first page; when the cursor, the retained log or the epoch no longer    *)
(* allows that it captures a snapshot, stages its pages, and commits them  *)
(* as one transaction.  Other devices write, delete, rotate the epoch and  *)
(* the server expires and purges between any two requests.                 *)
(*                                                                         *)
(* A change page is read as the MySQL repository reads it, outside any     *)
(* transaction: the owner's state and the scan first, then row by row what *)
(* the row has become.  (SQLite and memory read a page synchronously: the  *)
(* same steps with nothing in between.)  A snapshot page is one step.  One *)
(* cycle runs at a time and one filter is replicated, so the replica's     *)
(* compare-and-set never fails and its generation counter is left out.  A  *)
(* page reaches the replica in a step of its own.                          *)
(***************************************************************************)
EXTENDS HistoryStore

CONSTANTS
    Scope,        \* the keys the replica's filter matches
    PageSize,     \* rows a page request may scan
    MaxPages,     \* pages a cycle may read
    MaxMishaps    \* bound of the model: cycles cut short from outside

ASSUME ScopeType == Scope \in Filter
ASSUME SyncLimits ==
    PageSize \in Nat \ {0} /\ MaxPages \in Nat \ {0} /\ MaxMishaps \in Nat

VARIABLES
    replica,    \* the committed coverage and its rows
    pc,         \* where the cycle is
    pages,      \* pages read since the cycle began or turned to a snapshot
    scan,       \* the change page the server is assembling
    resynced,   \* the cycle has already taken its snapshot
    page,       \* the change page received and not yet applied
    staging,    \* the snapshot being staged
    mishaps,    \* cycles cancelled, and snapshots expired while in use
    viewAt      \* (history variable) the epoch's rows in scope after each sequence

cycleVars  == <<pc, pages, scan, resynced, page, staging>>
clientVars == <<replica, cycleVars, mishaps>>
serverVars == vars
allVars    == <<serverVars, clientVars, viewAt>>

(***************************************************************************)
(* The coverage row and the rows it references.  Epoch 0 stands for "no    *)
(* coverage"; pass is the watermark of a persisted continuation, 0 without *)
(* one; expired tells that the continuation's cursor has outlived its TTL. *)
(***************************************************************************)
NoReplica == [epoch |-> 0, checkpoint |-> 0, pass |-> 0, expired |-> FALSE,
              rows |-> Empty]
NoScan    == [watermark |-> 0, last |-> 0, rows |-> {}, candidates |-> {}]
NoPage    == [checkpoint |-> 0, watermark |-> 0, events |-> {}]
NoStaging == [id |-> CHOOSE s \in SnapId : TRUE, epoch |-> 0, watermark |-> 0,
              rows |-> Empty]

SyncInit ==
    /\ Init
    /\ replica = NoReplica
    /\ pc = "idle" /\ pages = 0 /\ scan = NoScan /\ resynced = FALSE
    /\ page = NoPage /\ staging = NoStaging
    /\ mishaps = 0
    /\ viewAt = [n \in {0} |-> Empty]
-----------------------------------------------------------------------------
(***************************************************************************)
(* The server's side: the mutations of other devices, and cleanup.         *)
(***************************************************************************)
ObserveViews ==
    viewAt' = [n \in 0..(nextSeq' - 1) |->
                 IF epoch' = epoch /\ n < nextSeq THEN viewAt[n]
                 ELSE [k \in {j \in DOMAIN records' \cap Scope :
                                records'[j].changeSeq <= n} |-> records'[k]]]

Write ==
    /\ \/ \E b \in Batch : ArchiveBatch(epoch, b)
       \/ \E k \in Live, s \in NewState : PatchApplied(k, s, records[k].revision, NoIdem)
       \/ \E k \in Key : DeleteRecord(k, NoIdem)
       \/ DeleteAll(0, NoIdem)
    /\ ObserveViews
    /\ UNCHANGED clientVars

CursorExpires ==
    /\ replica.pass # 0 /\ ~replica.expired
    /\ replica' = [replica EXCEPT !.expired = TRUE]
    /\ UNCHANGED <<serverVars, cycleVars, mishaps, viewAt>>

\* purgeExpiredChanges in one step: what a pass has selected stays due until
\* it is deleted, and no device sees the selection.
PurgeChanges ==
    /\ Due # {}
    /\ changes' = {c \in changes : c \in Due => DueRank(c) > PurgeBudget}
    /\ UNCHANGED <<epoch, nextSeq, recordCount, records, tombstones,
                   idemVars, snapVars, purgeVars, epochBase>>

\* The last change that can be 30 days old: a request is answered, and a pass
\* by cursors that live for minutes is over, before a change written after its
\* watermark comes of age.
Oldest ==
    IF scan # NoScan THEN scan.watermark
    ELSE IF pc = "apply" THEN page.watermark
    ELSE IF replica.pass # 0 /\ ~replica.expired THEN replica.pass
    ELSE Watermark

Housekeeping ==
    /\ \/ PurgeChanges
       \/ \E n \in 1..Oldest : AgeChanges(n)
       \/ \E id \in SnapId : PurgeSnapshotItems(id) \/ PurgeSnapshotRow(id)
    /\ UNCHANGED <<clientVars, viewAt>>

\* The snapshot being staged outlives a cycle but for the mishaps allowed.
SnapshotExpires ==
    /\ \E id \in SnapId :
         /\ AgeSnapshot(id)
         /\ IF pc = "stage" /\ id = staging.id
            THEN mishaps < MaxMishaps /\ mishaps' = mishaps + 1
            ELSE UNCHANGED mishaps
    /\ UNCHANGED <<replica, cycleVars, viewAt>>
-----------------------------------------------------------------------------
(***************************************************************************)
(* listChangesPage.  The request scans the first PageSize sequences of     *)
(* (C, W].  A hole among them means retention took one: the cursor has     *)
(* expired.  A delete is served as it is.  Any other event is served with  *)
(* its own version while its row is live and matches the filter; if the    *)
(* row is gone and was deleted after W, the later delete is served in the  *)
(* event's place, so that no deleted body leaves the server; if it was     *)
(* deleted within the window the event is skipped.                         *)
(***************************************************************************)
\* (mutant) the position in the cursor is ignored
MutScanFromStart(C, W) == 1..Smaller(PageSize, W)

Scanned(C, W) == (C + 1)..(C + Smaller(PageSize, W - C))

\* (mutant) a page is served although retention took part of it
MutAnyGap(C, W) == TRUE

GapFree(C, W) == \A n \in Scanned(C, W) : \E c \in changes : c.seq = n

DeletesAfter(k, W) == {c \in ChangesOf(k) : c.kind = "delete" /\ c.seq > W}

\* What the change becomes on a page bounded by W: no event or one event.
\* An event's seq is what the client sees, its origin where the scan stood;
\* its row is empty for a delete.
Served(c, W) ==
    IF c.kind = "delete"
    THEN {[origin |-> c.seq, seq |-> c.seq, key |-> c.key, row |-> {}]}
    ELSE IF c.key \in Live
    THEN {[origin |-> c.seq, seq |-> c.seq, key |-> c.key,
           row |-> {[body |-> records[c.key].body, state |-> c.state,
                    revision |-> c.version, changeSeq |-> c.seq]}]
            : k \in {c.key} \cap Scope}
    ELSE {[origin |-> c.seq, seq |-> d.seq, key |-> c.key, row |-> {}]
            : d \in {x \in DeletesAfter(c.key, W) :
                       \A y \in DeletesAfter(c.key, W) : y.seq <= x.seq}}

(***************************************************************************)
(* assembleChangePage: all candidates, or as many as the byte budget lets  *)
(* in, at least one.  The checkpoint is the last admitted candidate's      *)
(* origin if some were cut off, else the last scanned sequence.            *)
(***************************************************************************)
PageEnds ==
    LET cuts == {e.origin : e \in scan.candidates}
    IN  {scan.last} \cup {n \in cuts : \E m \in cuts : n < m}

PageUpto(end) ==
    [checkpoint |-> end, watermark |-> scan.watermark,
     events |-> {e \in scan.candidates : e.origin <= end}]

\* A request with a cursor stays inside its pass, one without opens a pass.
PassWatermark == IF replica.pass = 0 THEN Watermark ELSE replica.pass

\* (mutant) a change of epoch goes unnoticed
MutEpochIgnored ==
    \/ replica.pass # 0 /\ replica.expired
    \/ ~GapFree(replica.checkpoint, PassWatermark)

NeedsSnapshot ==
    \/ replica.epoch # epoch
    \/ replica.pass # 0 /\ replica.expired
    \/ ~GapFree(replica.checkpoint, PassWatermark)

\* orderedEvents refuses an event beyond the page's checkpoint.
Consistent(p) == \A e \in p.events : e.seq <= p.checkpoint
-----------------------------------------------------------------------------
(***************************************************************************)
(* The cycle.                                                              *)
(***************************************************************************)
\* (mutant) the page count is kept for the next cycle
MutKeepPages ==
    /\ pc' = "idle" /\ scan' = NoScan /\ resynced' = FALSE
    /\ page' = NoPage /\ staging' = NoStaging
    /\ UNCHANGED pages

EndCycle ==
    /\ pc' = "idle" /\ pages' = 0 /\ scan' = NoScan /\ resynced' = FALSE
    /\ page' = NoPage /\ staging' = NoStaging

StartCycle ==
    /\ pc = "idle"
    /\ pc' = IF replica.epoch = 0 THEN "capture" ELSE "changes"
    /\ UNCHANGED <<serverVars, replica, pages, scan, resynced, page, staging, mishaps, viewAt>>

ScanChanges ==
    LET C == replica.checkpoint
        W == PassWatermark
    IN  /\ pc = "changes"
        /\ ~NeedsSnapshot
        /\ pc' = "resolve"
        /\ scan' = [watermark |-> W, last |-> C + Smaller(PageSize, W - C),
                    rows |-> {c \in changes : c.seq \in Scanned(C, W)},
                    candidates |-> {}]
        /\ UNCHANGED <<serverVars, replica, pages, resynced, page, staging, mishaps, viewAt>>

ResolveRow ==
    /\ pc = "resolve"
    /\ \E c \in scan.rows :
         /\ \A d \in scan.rows : c.seq <= d.seq
         /\ scan' = [scan EXCEPT !.rows = @ \ {c},
                                 !.candidates = @ \cup Served(c, scan.watermark)]
    /\ UNCHANGED <<serverVars, replica, pc, pages, resynced, page, staging, mishaps, viewAt>>

Assembled == pc = "resolve" /\ scan.rows = {}

ReceiveChanges ==
    /\ Assembled
    /\ \E end \in PageEnds :
         /\ Consistent(PageUpto(end))
         /\ page' = PageUpto(end)
    /\ pc' = "apply" /\ scan' = NoScan
    /\ UNCHANGED <<serverVars, replica, pages, resynced, staging, mishaps, viewAt>>

\* ERR_REPLICA_PAGE_INCONSISTENT leaves the cycle and the coverage stays.
RefuseChanges ==
    /\ Assembled
    /\ \E end \in PageEnds : ~Consistent(PageUpto(end))
    /\ EndCycle
    /\ UNCHANGED <<serverVars, replica, mishaps, viewAt>>

\* The first such error of a cycle turns to a snapshot, a second one ends it.
ChangesUnavailable ==
    /\ pc = "changes"
    /\ NeedsSnapshot
    /\ IF resynced
       THEN EndCycle
       ELSE /\ pc' = "capture" /\ pages' = 0
            /\ UNCHANGED <<scan, resynced, page, staging>>
    /\ UNCHANGED <<serverVars, replica, mishaps, viewAt>>

(***************************************************************************)
(* applyIncrementalPage: events in sequence order, checkpoint and          *)
(* continuation in one transaction.  The cycle goes on inside the pass,    *)
(* and ends with the pass or when its pages are used up.                   *)
(***************************************************************************)
LastEvent(p, k) ==
    CHOOSE e \in p.events : /\ e.key = k
                            /\ \A d \in p.events : d.key = k => d.seq <= e.seq

RowsAfter(p) ==
    LET touched == {e.key : e \in p.events}
        kept    == {k \in touched : LastEvent(p, k).row # {}}
    IN  [k \in (DOMAIN replica.rows \ touched) \cup kept |->
            IF k \in touched THEN CHOOSE r \in LastEvent(p, k).row : TRUE
            ELSE replica.rows[k]]

ApplyChanges ==
    /\ pc = "apply"
    /\ LET more == page.checkpoint < page.watermark IN
       /\ replica' = [epoch |-> replica.epoch, checkpoint |-> page.checkpoint,
                      pass |-> IF more THEN page.watermark ELSE 0,
                      expired |-> FALSE, rows |-> RowsAfter(page)]
       /\ IF more /\ pages + 1 < MaxPages
          THEN /\ pc' = "changes" /\ pages' = pages + 1 /\ page' = NoPage
               /\ UNCHANGED <<scan, resynced, staging>>
          ELSE EndCycle
    /\ UNCHANGED <<serverVars, mishaps, viewAt>>
-----------------------------------------------------------------------------
(***************************************************************************)
(* stageSnapshot.  The server captures the filter's rows at W; every page  *)
(* is refused once the snapshot is invalidated, expired or purged; and the *)
(* staged rows replace the replica's only when the last page has come.     *)
(***************************************************************************)
CaptureSnapshot ==
    /\ pc = "capture"
    /\ \E id \in SnapId :
         /\ CreateSnapshot(id, Scope)
         /\ staging' = [id |-> id, epoch |-> epoch, watermark |-> Watermark,
                        rows |-> Empty]
    /\ pc' = "stage"
    /\ UNCHANGED <<replica, pages, scan, resynced, page, mishaps, viewAt>>

CaptureRefused ==
    /\ pc = "capture"
    /\ \/ Cardinality(DOMAIN snapshots) >= MaxSnapshots
       \/ SnapshotItemCount + Cardinality(JoinedUpserts(Scope)) > MaxItems
    /\ EndCycle
    /\ UNCHANGED <<serverVars, replica, mishaps, viewAt>>

SnapshotReadable ==
    /\ staging.id \in DOMAIN snapshots \ expiredSnaps
    /\ snapshots[staging.id].status = "active"

Unstaged == {m \in snapshots[staging.id].items : m.key \notin DOMAIN staging.rows}

\* A member is served at its version at W with the body of the live row.
RowsOf(members) ==
    [k \in {m.key : m \in members} |->
        LET m == CHOOSE x \in members : x.key = k
        IN  [body |-> records[k].body, state |-> m.state,
             revision |-> m.revision, changeSeq |-> m.changeSeq]]

Merge(f, g) == [x \in DOMAIN f \cup DOMAIN g |-> IF x \in DOMAIN g THEN g[x] ELSE f[x]]

StagePage ==
    /\ pc = "stage"
    /\ SnapshotReadable
    /\ \E chunk \in SUBSET Unstaged :
         /\ Cardinality(chunk) <= PageSize
         /\ chunk = {} => Unstaged = {}
         /\ IF chunk # Unstaged /\ pages + 1 >= MaxPages
            THEN EndCycle
            ELSE /\ staging' = [staging EXCEPT !.rows = Merge(@, RowsOf(chunk))]
                 /\ pages' = pages + 1
                 /\ pc' = IF chunk = Unstaged THEN "commit" ELSE "stage"
                 /\ UNCHANGED <<scan, resynced, page>>
    /\ UNCHANGED <<serverVars, replica, mishaps, viewAt>>

StageRefused ==
    /\ pc = "stage"
    /\ ~SnapshotReadable
    /\ EndCycle
    /\ UNCHANGED <<serverVars, replica, mishaps, viewAt>>

\* The changes after W follow in the same cycle while it has pages left.
CommitSnapshot ==
    /\ pc = "commit"
    /\ replica' = [epoch |-> staging.epoch, checkpoint |-> staging.watermark,
                   pass |-> 0, expired |-> FALSE, rows |-> staging.rows]
    /\ IF pages < MaxPages
       THEN /\ pc' = "changes" /\ resynced' = TRUE /\ staging' = NoStaging
            /\ UNCHANGED <<pages, scan, page>>
       ELSE EndCycle
    /\ UNCHANGED <<serverVars, mishaps, viewAt>>

(***************************************************************************)
(* An abort signal, a transport error, a failed local transaction or a     *)
(* crash of the device: the committed replica is all that is left.         *)
(***************************************************************************)
Cancel ==
    /\ pc # "idle"
    /\ mishaps < MaxMishaps
    /\ mishaps' = mishaps + 1
    /\ EndCycle
    /\ UNCHANGED <<serverVars, replica, viewAt>>
-----------------------------------------------------------------------------
Cycle ==
    \/ StartCycle
    \/ ScanChanges \/ ResolveRow \/ ReceiveChanges \/ RefuseChanges \/ ChangesUnavailable \/ ApplyChanges
    \/ CaptureSnapshot \/ CaptureRefused
    \/ StagePage \/ StageRefused \/ CommitSnapshot

SyncNext ==
    \/ Cycle \/ Cancel
    \/ Write \/ Housekeeping \/ SnapshotExpires \/ CursorExpires

SyncSpec == SyncInit /\ [][SyncNext]_allVars

(***************************************************************************)
(* The device calls syncHistory again and again, time passes, and the      *)
(* server's cleanup loop keeps running.  Nobody is obliged to write, and   *)
(* retention need not be in step with anything.                            *)
(***************************************************************************)
Fairness ==
    /\ WF_allVars(Cycle)
    /\ WF_allVars(CursorExpires)
    /\ WF_allVars(SnapshotExpires)
    /\ \A id \in SnapId :
         /\ WF_allVars(PurgeSnapshotItems(id) /\ UNCHANGED <<clientVars, viewAt>>)
         /\ WF_allVars(PurgeSnapshotRow(id) /\ UNCHANGED <<clientVars, viewAt>>)

FairSyncSpec == SyncSpec /\ Fairness
-----------------------------------------------------------------------------
(***************************************************************************)
(* Properties                                                              *)
(***************************************************************************)
(***************************************************************************)
(* The variables of the device have their types; a cycle never reads more  *)
(* pages than it may, and a continuation lies ahead of its checkpoint.     *)
(***************************************************************************)
SyncTypeOK ==
    /\ replica.epoch \in 0..epoch
    /\ replica.checkpoint \in 0..MaxSeq
    /\ replica.pass = 0 \/ replica.pass > replica.checkpoint
    /\ replica.expired \in BOOLEAN
    /\ DOMAIN replica.rows \subseteq Scope
    /\ replica.rows \in [DOMAIN replica.rows -> Record]
    /\ pc \in {"idle", "changes", "resolve", "apply", "capture", "stage", "commit"}
    /\ pages \in 0..MaxPages
    /\ scan.rows \subseteq Change
    /\ \A e \in scan.candidates : e.origin \in 1..scan.last
    /\ pc = "changes" => pages < MaxPages
    /\ resynced \in BOOLEAN
    /\ DOMAIN staging.rows \subseteq Scope
    /\ staging.rows \in [DOMAIN staging.rows -> Record]
    /\ mishaps \in 0..MaxMishaps
    /\ DOMAIN viewAt = 0..(nextSeq - 1)

(***************************************************************************)
(* A replica of the current epoch says what the history said at its        *)
(* checkpoint, row for row and version for version.  Only within an        *)
(* unfinished pass may it lag for a key that has been deleted meanwhile,   *)
(* whose last versions the server no longer serves.  Interrupted cycles,   *)
(* retention gaps, invalidated snapshots and cut pages never show.         *)
(***************************************************************************)
ReplicaAtCheckpoint ==
    replica.epoch = epoch =>
        LET seen == viewAt[replica.checkpoint] IN
        /\ DOMAIN replica.rows \subseteq DOMAIN seen
        /\ \A k \in DOMAIN seen :
             \/ k \in DOMAIN replica.rows /\ replica.rows[k] = seen[k]
             \/ replica.pass # 0 /\ k \notin Live

(***************************************************************************)
(* The replica only moves forward: to a later epoch, or within one to a    *)
(* later checkpoint with no row going back to an earlier version and none  *)
(* it has dropped coming back.  (A page in the making when delete-all      *)
(* rotates the epoch can pair old versions with new bodies: that coverage  *)
(* is of an ended epoch, and the next cycle replaces it.)                  *)
(***************************************************************************)
MovesForward ==
    \/ replica'.epoch > replica.epoch
    \/ /\ replica'.epoch = replica.epoch
       /\ replica'.checkpoint >= replica.checkpoint
       /\ \A k \in DOMAIN replica.rows \cap DOMAIN replica'.rows :
            /\ replica'.rows[k].revision >= replica.rows[k].revision
            /\ replica.epoch = epoch => replica'.rows[k].body = replica.rows[k].body
       /\ \A k \in DOMAIN replica'.rows \ DOMAIN replica.rows :
            replica'.rows[k].changeSeq > replica.checkpoint
ReplicaMovesForward == [][MovesForward]_allVars

(***************************************************************************)
(* Once the other devices stop writing, a device that keeps synchronising  *)
(* ends up with exactly the live rows of the current epoch, whatever pages *)
(* were refused, cut or lost on the way.                                   *)
(***************************************************************************)
Converges ==
    <>[](/\ replica.epoch = epoch
         /\ replica.checkpoint = Watermark
         /\ replica.rows = viewAt[Watermark])

(***************************************************************************)
(* What PRD.md:688 says of the pages: interleaved writes after a watermark *)
(* converge on the next change page, so the client accepts it.             *)
(***************************************************************************)
NextPageAccepted == Assembled => \A end \in PageEnds : Consistent(PageUpto(end))
=============================================================================
