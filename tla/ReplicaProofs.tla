--------------------------- MODULE ReplicaProofs ----------------------------
(***************************************************************************)
(* Proofs about ReplicaSync: a replica of the current epoch is what the    *)
(* history said at its checkpoint, and it only moves forward, for every    *)
(* filter, every size of pages and cycles, and every limit of the history. *)
(*                                                                         *)
(* viewAt is the reference: the rows in scope after each sequence of the   *)
(* epoch.  Operators of a view V are constant expressions, so that what    *)
(* holds of one history of views is stated apart from its growth.          *)
(***************************************************************************)
EXTENDS ReplicaSync, HistoryStoreProofs

Has(V, n, k) == k \in DOMAIN V[n]

Partial(f) == DOMAIN f \subseteq Scope /\ f \in [DOMAIN f -> Record]

(***************************************************************************)
(* What every history of views up to sequence N is like.  A row stands     *)
(* unchanged from its change sequence on; a key has one life, in which the *)
(* body stays and the revision grows, and which ends at some sequence.     *)
(***************************************************************************)
Typed(V, N) == DOMAIN V = 0..N /\ \A n \in 0..N : Partial(V[n])

Lasting(V, N) ==
    \A n \in 0..N : \A k \in DOMAIN V[n] :
       /\ V[n][k].changeSeq \in 1..n
       /\ \A m \in V[n][k].changeSeq..n : Has(V, m, k) /\ V[m][k] = V[n][k]

OneLife(V, N) ==
    \A m, n \in 0..N : m <= n => \A k \in DOMAIN V[m] :
       IF Has(V, n, k)
       THEN V[m][k].body = V[n][k].body /\ V[m][k].revision <= V[n][k].revision
       ELSE \E d \in (m + 1)..n : Has(V, d - 1, k) /\ ~Has(V, d, k)

History(V, N) == N \in Nat /\ Typed(V, N) /\ Lasting(V, N) /\ OneLife(V, N)

(***************************************************************************)
(* A change tells what became of the rows at its sequence.                 *)
(***************************************************************************)
Told(V, c) ==
    /\ \A k \in DOMAIN V[c.seq - 1] : Has(V, c.seq, k) \/ (c.kind = "delete" /\ c.key = k)
    /\ \A k \in DOMAIN V[c.seq] :
          V[c.seq][k].changeSeq = c.seq => c.kind # "delete" /\ c.key = k
    /\ c.kind = "delete" => ~Has(V, c.seq, c.key)
    /\ c.kind # "delete" => c.state \in DeliveryState
    /\ c.kind # "delete" /\ c.key \in Scope =>
          /\ Has(V, c.seq, c.key)
          /\ V[c.seq][c.key].state = c.state
          /\ V[c.seq][c.key].revision = c.version
          /\ V[c.seq][c.key].changeSeq = c.seq

(***************************************************************************)
(* The views and the store.  The last view is the live rows in scope; what *)
(* was in a view is live, and then in all later views, or fenced; and the  *)
(* log still has the delete of a key that is gone while the last view that *)
(* had it is young.                                                        *)
(***************************************************************************)
Current ==
    /\ DOMAIN viewAt[Watermark] = Live \cap Scope
    /\ \A k \in Live \cap Scope : viewAt[Watermark][k] = records[k]

Settled ==
    \A n \in 0..Watermark : \A k \in DOMAIN viewAt[n] :
       /\ k \in Live \cup tombstones
       /\ k \in Live => \A m \in n..Watermark : Has(viewAt, m, k)

EventsTold == \A c \in changes : c.seq \in 1..Watermark /\ Told(viewAt, c)

DeathKnown ==
    \A n \in 0..Watermark : \A k \in DOMAIN viewAt[n] :
       k \notin Live /\ agedThrough <= n =>
          \E c \in changes : c.key = k /\ c.kind = "delete" /\ c.seq > n

ViewsOK == History(viewAt, Watermark) /\ Current /\ Settled /\ EventsTold /\ DeathKnown

StoreOK == /\ IInv /\ victims = {}
           /\ Watermark <= MaxSeq /\ agedThrough <= Watermark
-----------------------------------------------------------------------------
(***************************************************************************)
(* What a mutation within the epoch does: new events N above all old ones, *)
(* one for each row that is changed, added or gone.  An event about a row  *)
(* that was there is the only one of its mutation.                         *)
(***************************************************************************)
Recorded(c) ==
    /\ c.kind = "delete" \/ c.key \in Live => c.seq = nextSeq
    /\ c.kind = "delete" => c.key \notin Live'
    /\ c.kind # "delete" => /\ c.key \in Live' /\ c.state \in DeliveryState
                            /\ records'[c.key].changeSeq = c.seq
                            /\ records'[c.key].revision = c.version
                            /\ records'[c.key].state = c.state

Grows(N) ==
    /\ nextSeq' \in Nat \ {0} /\ nextSeq <= nextSeq' /\ nextSeq' <= MaxSeq
    /\ UNCHANGED <<epoch, agedThrough>>
    /\ changes' = changes \cup N /\ N \subseteq Change
    /\ \A c \in N : nextSeq <= c.seq /\ c.seq < nextSeq'
    /\ \A c, d \in N : c.seq = d.seq => c = d
    /\ \A c \in N : Recorded(c)
    /\ tombstones \subseteq tombstones'
    /\ Live' \subseteq Key /\ records' \in [Live' -> Record]
    /\ \A k \in Live' : \/ k \in Live /\ records'[k] = records[k]
                        \/ \E c \in N : c.key = k /\ c.seq = records'[k].changeSeq
    /\ \A k \in Live \ Live' : k \in tombstones' /\ \E c \in N : c.key = k /\ c.kind = "delete"
    /\ \A k \in Live' \ Live : k \notin tombstones
    /\ \A k \in Live \cap Live' : /\ records'[k].body = records[k].body
                                  /\ records[k].revision <= records'[k].revision

LEMMA ArchiveGrows ==
    ASSUME IInv, NEW e, NEW b \in Seq(Item), ArchiveBatch(e, b)
    PROVE  Grows({UpsertOf(b, i) : i \in Stored(b)})
<1>1. Room \in Int
  BY RoomInteger DEF IInv, TypeOK
<1>2. nextSeq \in Nat \ {0} /\ Cardinality(Stored(b)) \in Nat
  BY <1>1, StoredItems DEF IInv, TypeOK
<1>3. ASSUME NEW i \in Stored(b)
      PROVE  /\ b[i] \in Item /\ i \in Admissible(b) /\ i \in Nat
             /\ Rank(b, i) \in Nat \ {0}
             /\ ItemSeq(b, i) \in Nat /\ nextSeq <= ItemSeq(b, i)
             /\ ItemSeq(b, i) < nextSeq + Cardinality(Stored(b))
  <2>1. i \in Admissible(b) /\ b[i] \in Item /\ i \in Nat
    BY <1>1, StoredItems, AdmissibleItems
  <2>2. Rank(b, i) \in Nat \ {0} /\ Rank(b, i) <= Cardinality(Stored(b))
    BY <1>1, <2>1, StoredItems, RankIncreases
  <2>3. QED
    BY <1>2, <2>1, <2>2 DEF ItemSeq
<1>4. \A i \in Stored(b) :
         /\ RowOf(b, i) \in Record /\ RowOf(b, i).changeSeq = ItemSeq(b, i)
         /\ RowOf(b, i).revision = 1 /\ RowOf(b, i).state = b[i].state
         /\ UpsertOf(b, i) \in Change /\ UpsertOf(b, i).seq = ItemSeq(b, i)
         /\ UpsertOf(b, i).key = b[i].key /\ UpsertOf(b, i).kind = "upsert"
         /\ UpsertOf(b, i).version = 1 /\ UpsertOf(b, i).state = b[i].state
         /\ b[i].state \in DeliveryState
  BY <1>3 DEF RowOf, UpsertOf, Record, Change, Item, InitialState, DeliveryState
<1>5. ASSUME NEW i \in Stored(b), NEW j \in Stored(b), ItemSeq(b, i) = ItemSeq(b, j)
      PROVE  i = j
  <2>1. Rank(b, i) = Rank(b, j)
    BY <1>2, <1>3, <1>5 DEF ItemSeq
  <2>2. QED
    BY <1>3, <2>1, RankIncreases
<1>6. /\ Live' = Live \cup StoredKeys(b)
      /\ \A k \in Live : records'[k] = records[k]
      /\ \A k \in StoredKeys(b) :
            \E i \in Stored(b) : b[i].key = k /\ records'[k] = RowOf(b, i)
  BY StoredKeyItem DEF ArchiveBatch, Live
<1>7. records' \in [Live' -> Record]
  BY <1>4, <1>6 DEF ArchiveBatch, Live, IInv, TypeOK
<1>8. /\ \A k \in StoredKeys(b) : k \in Key /\ k \notin tombstones /\ k \notin Live
      /\ \A i \in Stored(b) : b[i].key \in StoredKeys(b)
      /\ \A i, j \in Stored(b) : b[i].key = b[j].key => i = j
  BY StoredKeyItem DEF Deleted, StoredKeys
<1>9. PICK N : N = {UpsertOf(b, i) : i \in Stored(b)}
  OBVIOUS
<1>10. \A k \in StoredKeys(b) : \E c \in N : c.key = k /\ c.seq = records'[k].changeSeq
  BY <1>4, <1>6, <1>9
<1>11. ASSUME NEW c \in N
       PROVE  Recorded(c)
  <2>1. PICK i \in Stored(b) : c = UpsertOf(b, i)
    BY <1>9
  <2>2. records'[c.key] = RowOf(b, i) /\ c.key \in Live' /\ c.key \notin Live
    BY <1>4, <1>6, <1>8, <2>1
  <2>3. QED
    BY <1>4, <2>1, <2>2 DEF Recorded
<1>12. /\ nextSeq' = nextSeq + Cardinality(Stored(b)) /\ nextSeq' <= MaxSeq
       /\ changes' = changes \cup N
       /\ UNCHANGED <<epoch, agedThrough, tombstones>>
  BY <1>9 DEF ArchiveBatch, purgeVars
<1>13. /\ N \subseteq Change
       /\ \A c \in N : nextSeq <= c.seq /\ c.seq < nextSeq'
       /\ \A c, d \in N : c.seq = d.seq => c = d
  BY <1>3, <1>4, <1>5, <1>9, <1>12
<1>14. tombstones \subseteq Key /\ Live \subseteq Key /\ records \in [Live -> Record]
  BY DEF IInv, TypeOK
<1>15. \A k \in Live \cap Live' : /\ records'[k].body = records[k].body
                                  /\ records[k].revision <= records'[k].revision
  BY <1>6, <1>14 DEF Record
<1>16. Grows(N)
  BY <1>2, <1>6, <1>7, <1>8, <1>10, <1>11, <1>12, <1>13, <1>14, <1>15 DEF Grows
<1>17. QED
  BY <1>9, <1>16

LEMMA PatchGrows ==
    ASSUME IInv, NEW k \in Key, NEW s \in NewState, NEW r, NEW ik,
           PatchApplied(k, s, r, ik)
    PROVE  Grows({StateEvent(k, s)})
<1>1. /\ k \in Live /\ nextSeq \in Nat \ {0} /\ records \in [Live -> Record]
      /\ Live \subseteq Key /\ tombstones \subseteq Key /\ s \in DeliveryState
  BY NewStateType DEF IInv, TypeOK, PatchApplied, PatchAllowed
<1>2. /\ records' = [records EXCEPT ![k].state = s, ![k].revision = @ + 1,
                                    ![k].changeSeq = nextSeq]
      /\ changes' = changes \cup {StateEvent(k, s)}
      /\ nextSeq' = nextSeq + 1 /\ nextSeq < MaxSeq
      /\ UNCHANGED <<epoch, tombstones, agedThrough>>
  BY DEF PatchApplied, purgeVars
<1>3. records[k] \in Record /\ records[k].revision \in Nat
  BY <1>1 DEF Record
<1>4. Live' = Live
  BY <1>2 DEF Live
<1>5. records' \in [Live' -> Record]
  BY <1>1, <1>2, <1>3, <1>4 DEF Record
<1>6. /\ records'[k].changeSeq = nextSeq /\ records'[k].revision = records[k].revision + 1
      /\ records'[k].state = s /\ records'[k].body = records[k].body
  BY <1>1, <1>2, <1>3 DEF Record
<1>7. \A j \in Live : j # k => records'[j] = records[j]
  BY <1>1, <1>2
<1>8. /\ StateEvent(k, s) \in Change /\ StateEvent(k, s).key = k
      /\ StateEvent(k, s).seq = nextSeq /\ StateEvent(k, s).kind = "state"
      /\ StateEvent(k, s).version = records[k].revision + 1 /\ StateEvent(k, s).state = s
  BY <1>1, <1>3 DEF StateEvent, Change
<1>9. Recorded(StateEvent(k, s))
  BY <1>1, <1>4, <1>6, <1>8 DEF Recorded
<1>10. PICK N : N = {StateEvent(k, s)}
  OBVIOUS
<1>11. \A j \in Live \cap Live' : /\ records'[j].body = records[j].body
                                  /\ records[j].revision <= records'[j].revision
  BY <1>1, <1>3, <1>6, <1>7 DEF Record
<1>12. /\ nextSeq' \in Nat \ {0} /\ nextSeq <= nextSeq' /\ nextSeq' <= MaxSeq
       /\ changes' = changes \cup N /\ N \subseteq Change
       /\ \A c \in N : nextSeq <= c.seq /\ c.seq < nextSeq'
       /\ \A c, d \in N : c.seq = d.seq => c = d
       /\ \A c \in N : Recorded(c)
  BY <1>1, <1>2, <1>8, <1>9, <1>10, LimitsNatural
<1>13. \A j \in Live' : \/ j \in Live /\ records'[j] = records[j]
                        \/ \E c \in N : c.key = j /\ c.seq = records'[j].changeSeq
  BY <1>4, <1>6, <1>7, <1>8, <1>10
<1>14. Grows(N)
  BY <1>1, <1>2, <1>4, <1>5, <1>11, <1>12, <1>13 DEF Grows
<1>15. QED
  BY <1>10, <1>14

LEMMA DeleteGrows ==
    ASSUME IInv, NEW k \in Key, NEW ik, DeleteRecord(k, ik)
    PROVE  \E N : Grows(N)
<1>1. /\ nextSeq \in Nat \ {0} /\ records \in [Live -> Record]
      /\ Live \subseteq Key /\ tombstones \subseteq Key
  BY DEF IInv, TypeOK
<1>2. PICK c : c = [seq |-> nextSeq, key |-> k, kind |-> "delete", version |-> 1,
                    state |-> "none"]
  OBVIOUS
<1>3. c \in Change /\ c.key = k /\ c.seq = nextSeq /\ c.kind = "delete"
  BY <1>1, <1>2 DEF Change
<1>4. /\ records' = Without(records, {k})
      /\ changes' = changes \cup {c} /\ nextSeq' = nextSeq + 1 /\ nextSeq < MaxSeq
      /\ tombstones' = tombstones \cup {k}
      /\ UNCHANGED <<epoch, agedThrough>>
  BY <1>2 DEF DeleteRecord, purgeVars
<1>5. /\ Live' = Live \ {k} /\ records' \in [Live' -> Record]
      /\ \A j \in Live' : records'[j] = records[j]
  BY <1>1, <1>4 DEF Without, Live
<1>6. Recorded(c)
  BY <1>3, <1>5 DEF Recorded
<1>7. PICK N : N = {c}
  OBVIOUS
<1>8. /\ N \subseteq Change /\ changes' = changes \cup N
      /\ \A x \in N : nextSeq <= x.seq /\ x.seq < nextSeq'
      /\ \A x, y \in N : x.seq = y.seq => x = y
      /\ \A x \in N : Recorded(x)
      /\ \A j \in Live \ Live' : j \in tombstones' /\ \E x \in N : x.key = j /\ x.kind = "delete"
  BY <1>1, <1>3, <1>4, <1>5, <1>6, <1>7
<1>9. /\ nextSeq' \in Nat \ {0} /\ nextSeq <= nextSeq' /\ nextSeq' <= MaxSeq
      /\ tombstones \subseteq tombstones'
      /\ Live' \subseteq Key /\ Live' \ Live = {}
      /\ \A j \in Live' : j \in Live /\ records'[j] = records[j]
  <2>1. MaxSeq \in Nat
    BY LimitsNatural
  <2>2. nextSeq' \in Nat \ {0} /\ nextSeq <= nextSeq' /\ nextSeq' <= MaxSeq
    BY <1>1, <1>4, <2>1
  <2>3. QED
    BY <1>1, <1>4, <1>5, <2>2
<1>10. \A j \in Live \cap Live' : /\ records'[j].body = records[j].body
                                  /\ records[j].revision <= records'[j].revision
  BY <1>1, <1>5 DEF Record
<1>11. Grows(N)
  BY <1>4, <1>5, <1>8, <1>9, <1>10 DEF Grows
<1>12. QED
  BY <1>11
-----------------------------------------------------------------------------
(***************************************************************************)
(* The views grow with the history: what was seen stays, and each new view *)
(* is the rows of the new state up to its sequence.                        *)
(***************************************************************************)
Seen == 0..Watermark

Kept == Seen \subseteq Seen' /\ \A n \in Seen : viewAt'[n] = viewAt[n]

LEMMA ViewsAfter ==
    ASSUME IInv, NEW N, Grows(N), ObserveViews
    PROVE  /\ Watermark \in Nat /\ Watermark' \in Nat /\ Watermark <= Watermark'
           /\ nextSeq = Watermark + 1 /\ nextSeq' = Watermark' + 1
           /\ Kept /\ \A n \in 0..Watermark : viewAt'[n] = viewAt[n]
           /\ DOMAIN viewAt' = 0..Watermark'
           /\ \A n \in 0..Watermark' :
                 n > Watermark =>
                   /\ DOMAIN viewAt'[n] = {j \in Live' \cap Scope : records'[j].changeSeq <= n}
                   /\ \A k \in DOMAIN viewAt'[n] : viewAt'[n][k] = records'[k]
                   /\ Partial(viewAt'[n])
<1>1. /\ nextSeq \in Nat \ {0} /\ nextSeq' \in Nat \ {0} /\ nextSeq <= nextSeq'
      /\ epoch' = epoch /\ records' \in [Live' -> Record]
  BY DEF IInv, TypeOK, Grows
<1>2. /\ Watermark \in Nat /\ Watermark' \in Nat /\ Watermark <= Watermark'
      /\ nextSeq = Watermark + 1 /\ nextSeq' = Watermark' + 1
  <2>1. nextSeq \in Nat \ {0} /\ nextSeq' \in Nat \ {0} /\ nextSeq <= nextSeq'
    BY <1>1
  <2>2. Watermark = nextSeq - 1 /\ Watermark' = nextSeq' - 1
    BY DEF Watermark
  <2>3. \A a, b \in Nat \ {0} : a <= b => /\ a - 1 \in Nat /\ b - 1 \in Nat /\ a - 1 <= b - 1
                                        /\ a = (a - 1) + 1 /\ b = (b - 1) + 1
    OBVIOUS
  <2>4. /\ nextSeq - 1 \in Nat /\ nextSeq' - 1 \in Nat
        /\ nextSeq - 1 <= nextSeq' - 1
        /\ nextSeq = (nextSeq - 1) + 1 /\ nextSeq' = (nextSeq' - 1) + 1
    BY <2>1, <2>3
  <2>5. QED
    BY <2>2, <2>4
<1>3. viewAt' = [n \in 0..Watermark' |->
                   IF n < nextSeq THEN viewAt[n]
                   ELSE [k \in {j \in Live' \cap Scope :
                                  records'[j].changeSeq <= n} |-> records'[k]]]
  BY <1>1 DEF ObserveViews, Watermark, Live
<1>4. Kept /\ \A n \in 0..Watermark : viewAt'[n] = viewAt[n]
  <2>1. \A n \in 0..Watermark : n \in 0..Watermark' /\ n < nextSeq
    BY <1>2
  <2>2. \A n \in 0..Watermark : viewAt'[n] = viewAt[n]
    BY <1>3, <2>1
  <2>3. QED
    BY <2>1, <2>2 DEF Kept, Seen
<1>5. ASSUME NEW n \in 0..Watermark', n > Watermark
      PROVE  viewAt'[n] = [k \in {j \in Live' \cap Scope :
                                    records'[j].changeSeq <= n} |-> records'[k]]
  BY <1>1, <1>3, <1>5 DEF Watermark
<1>6. ASSUME NEW n \in 0..Watermark', n > Watermark
      PROVE  /\ DOMAIN viewAt'[n] = {j \in Live' \cap Scope : records'[j].changeSeq <= n}
             /\ \A k \in DOMAIN viewAt'[n] : viewAt'[n][k] = records'[k]
             /\ Partial(viewAt'[n])
  BY <1>1, <1>5, <1>6 DEF Partial
<1>7. QED
  BY <1>2, <1>3, <1>4, <1>6

(***************************************************************************)
(* What a mutation does to a row as seen from the last view.               *)
(***************************************************************************)
LEMMA RowsAfterGrowth ==
    ASSUME IInv, ViewsOK, NEW N, Grows(N), NEW k \in Scope
    PROVE  /\ k \in Live => /\ k \in DOMAIN viewAt[Watermark]
                            /\ viewAt[Watermark][k] = records[k]
                            /\ records[k].changeSeq \in Nat
                            /\ records[k].changeSeq <= Watermark
           /\ k \in Live' => /\ records'[k] \in Record
                             /\ records'[k].changeSeq \in Nat \ {0}
           /\ k \in Live' /\ k \in Live => records'[k].changeSeq <= nextSeq
           /\ k \in Live' /\ records'[k].changeSeq < nextSeq
                => k \in Live /\ records'[k] = records[k]
<1>1. /\ nextSeq \in Nat \ {0} /\ Watermark \in Nat /\ Watermark = nextSeq - 1
      /\ records \in [Live -> Record] /\ records' \in [Live' -> Record]
      /\ \A c \in N : c.seq \in Nat /\ nextSeq <= c.seq
  BY DEF IInv, TypeOK, Grows, Watermark, Change
<1>2. k \in Live => /\ k \in DOMAIN viewAt[Watermark]
                    /\ viewAt[Watermark][k] = records[k]
  BY DEF ViewsOK, Current
<1>3. k \in Live => records[k].changeSeq \in 1..Watermark
  BY <1>1, <1>2 DEF ViewsOK, History, Lasting
<1>4. \A c \in N : c.key \in Live => c.seq = nextSeq
  BY DEF Grows, Recorded
<1>5. k \in Live' => \/ k \in Live /\ records'[k] = records[k]
                     \/ \E c \in N : c.key = k /\ c.seq = records'[k].changeSeq
  BY DEF Grows
<1>6. QED
  BY <1>1, <1>2, <1>3, <1>4, <1>5 DEF Record

LEMMA HistoryGrows ==
    ASSUME IInv, ViewsOK, NEW N, Grows(N), ObserveViews
    PROVE  History(viewAt', Watermark')
<1>1. PICK V, U, w, M, R, L : /\ V = viewAt /\ U = viewAt' /\ w = Watermark /\ M = Watermark'
                              /\ R = records' /\ L = Live'
  OBVIOUS
<1>2. /\ w \in Nat /\ M \in Nat /\ w <= M /\ nextSeq = w + 1
      /\ DOMAIN U = 0..M
      /\ \A n \in 0..w : n \in 0..M /\ U[n] = V[n]
      /\ \A n \in 0..M : n > w => /\ DOMAIN U[n] = {j \in L \cap Scope : R[j].changeSeq <= n}
                                  /\ \A k \in DOMAIN U[n] : U[n][k] = R[k]
                                  /\ Partial(U[n])
  BY <1>1, ViewsAfter
<1>3. History(V, w)
  BY <1>1 DEF ViewsOK
<1>4. ASSUME NEW k \in Scope
      PROVE  /\ k \in Live => Has(V, w, k) /\ V[w][k] = records[k] /\ records[k].changeSeq <= w
             /\ k \in L => R[k] \in Record /\ R[k].changeSeq \in Nat \ {0}
             /\ k \in L /\ k \in Live => R[k].changeSeq <= w + 1
             /\ k \in L /\ R[k].changeSeq <= w => k \in Live /\ R[k] = records[k]
  BY <1>1, <1>2, RowsAfterGrowth DEF Has
<1>5. Typed(U, M)
  BY <1>2, <1>3 DEF History, Typed
<1>6. \A n \in 0..M : DOMAIN U[n] \subseteq Scope
  BY <1>5 DEF Typed, Partial
<1>7. Lasting(U, M)
  <2> SUFFICES ASSUME NEW n \in 0..M, NEW k \in DOMAIN U[n]
               PROVE  /\ U[n][k].changeSeq \in 1..n
                      /\ \A m \in U[n][k].changeSeq..n : Has(U, m, k) /\ U[m][k] = U[n][k]
    BY DEF Lasting
  <2>1. CASE n <= w
    BY <1>2, <1>3, <2>1 DEF History, Lasting, Has
  <2>2. CASE n > w
    <3>1. k \in Scope /\ k \in L /\ R[k].changeSeq <= n /\ U[n][k] = R[k]
      BY <1>2, <1>6, <2>2
    <3>2. R[k].changeSeq \in 1..n
      BY <1>2, <1>4, <3>1
    <3>3. ASSUME NEW m \in R[k].changeSeq..n
          PROVE  Has(U, m, k) /\ U[m][k] = R[k]
      <4>1. m \in 0..M
        BY <1>2, <3>2
      <4>2. CASE m > w
        BY <1>2, <3>1, <3>2, <4>1, <4>2 DEF Has
      <4>3. CASE m <= w
        <5>1. /\ R[k] = records[k] /\ Has(V, w, k) /\ V[w][k] = R[k]
              /\ m \in V[w][k].changeSeq..w /\ m \in 0..w
          BY <1>2, <1>4, <3>1, <3>2, <4>3
        <5>2. Has(V, m, k) /\ V[m][k] = R[k]
          BY <1>2, <1>3, <5>1 DEF History, Lasting, Has
        <5>3. QED
          BY <1>2, <5>1, <5>2 DEF Has
      <4>4. QED
        BY <1>2, <4>1, <4>2, <4>3
    <3>4. QED
      BY <3>1, <3>2, <3>3
  <2>3. QED
    BY <1>2, <2>1, <2>2
<1>8. OneLife(U, M)
  <2> SUFFICES ASSUME NEW m \in 0..M, NEW n \in 0..M, m <= n, NEW k \in DOMAIN U[m]
               PROVE  IF Has(U, n, k)
                      THEN U[m][k].body = U[n][k].body /\ U[m][k].revision <= U[n][k].revision
                      ELSE \E d \in (m + 1)..n : Has(U, d - 1, k) /\ ~Has(U, d, k)
    BY DEF OneLife
  <2>0. k \in Scope
    BY <1>6
  <2>1. CASE n <= w
    <3>1. m \in 0..w /\ n \in 0..w /\ k \in DOMAIN V[m] /\ w \in Nat
      BY <1>2, <2>1
    <3>2. IF Has(V, n, k)
          THEN V[m][k].body = V[n][k].body /\ V[m][k].revision <= V[n][k].revision
          ELSE \E d \in (m + 1)..n : Has(V, d - 1, k) /\ ~Has(V, d, k)
      BY <1>3, <3>1 DEF History, OneLife
    <3>3. \A d \in (m + 1)..n : d \in 0..w /\ d - 1 \in 0..w
      BY <3>1
    <3>4. QED
      BY <1>2, <3>1, <3>2, <3>3 DEF Has
  <2>2. CASE m > w
    <3>1. k \in L /\ R[k].changeSeq <= m /\ U[m][k] = R[k]
      BY <1>2, <2>2
    <3>2. Has(U, n, k) /\ U[n][k] = R[k]
      BY <1>2, <1>4, <2>0, <2>2, <3>1 DEF Has
    <3>3. QED
      BY <1>4, <2>0, <3>1, <3>2 DEF Record
  <2>3. CASE m <= w /\ n > w
    <3>1. m \in 0..w /\ k \in DOMAIN V[m] /\ U[m] = V[m]
      BY <1>2, <2>3
    <3>2. IF Has(V, w, k)
          THEN V[m][k].body = V[w][k].body /\ V[m][k].revision <= V[w][k].revision
          ELSE \E d \in (m + 1)..w : Has(V, d - 1, k) /\ ~Has(V, d, k)
      BY <1>2, <1>3, <3>1 DEF History, OneLife
    <3>3. ASSUME Has(U, n, k)
          PROVE  U[m][k].body = U[n][k].body /\ U[m][k].revision <= U[n][k].revision
      <4>1. k \in L /\ U[n][k] = R[k]
        BY <1>2, <2>3, <3>3 DEF Has
      <4>2. k \in Live
        BY <1>1, <1>2, <3>1, <4>1 DEF Grows, ViewsOK, Settled
      <4>3. /\ records[k].body = R[k].body /\ records[k].revision <= R[k].revision
        BY <1>1, <4>1, <4>2 DEF Grows
      <4>4. /\ V[m][k].revision \in Nat /\ records[k].revision \in Nat /\ R[k].revision \in Nat
        <5>1. V[m][k] \in Record
          BY <1>3, <3>1 DEF History, Typed, Partial
        <5>2. records[k] \in Record
          BY <4>2 DEF IInv, TypeOK
        <5>3. QED
          BY <1>4, <2>0, <4>1, <5>1, <5>2 DEF Record
      <4>5. QED
        BY <1>4, <2>0, <3>1, <3>2, <4>1, <4>2, <4>3, <4>4
    <3>4. ASSUME ~Has(U, n, k)
          PROVE  \E d \in (m + 1)..n : Has(U, d - 1, k) /\ ~Has(U, d, k)
      <4>1. CASE ~Has(V, w, k)
        <5>1. PICK d \in (m + 1)..w : Has(V, d - 1, k) /\ ~Has(V, d, k)
          BY <3>2, <4>1
        <5>2. d \in (m + 1)..n /\ d \in 0..w /\ d - 1 \in 0..w
          BY <1>2, <2>3, <3>1, <5>1
        <5>3. QED
          BY <1>2, <5>1, <5>2 DEF Has
      <4>2. CASE Has(V, w, k)
        <5>1. k \in Live
          BY <1>1, <1>2, <4>2 DEF ViewsOK, Current, Has
        <5>2. k \notin L
          BY <1>2, <1>4, <2>0, <2>3, <3>4, <5>1 DEF Has
        <5>3. w + 1 \in (m + 1)..n /\ (w + 1) - 1 = w /\ w + 1 > w /\ w + 1 \in 0..M
          BY <1>2, <2>3, <3>1
        <5>4. ~Has(U, w + 1, k)
          BY <1>2, <5>2, <5>3 DEF Has
        <5>5. Has(U, (w + 1) - 1, k)
          BY <1>2, <4>2, <5>3 DEF Has
        <5>6. QED
          BY <5>3, <5>4, <5>5
      <4>3. QED
        BY <4>1, <4>2
    <3>5. QED
      BY <3>3, <3>4
  <2>4. QED
    BY <1>2, <2>1, <2>2, <2>3
<1>9. QED
  BY <1>1, <1>2, <1>5, <1>7, <1>8 DEF History

LEMMA CurrentGrows ==
    ASSUME IInv, ViewsOK, NEW N, Grows(N), ObserveViews
    PROVE  Current'
<1>1. PICK V, U, w, M, R, L : /\ V = viewAt /\ U = viewAt' /\ w = Watermark /\ M = Watermark'
                              /\ R = records' /\ L = Live'
  OBVIOUS
<1>2. /\ w \in Nat /\ M \in Nat /\ w <= M /\ nextSeq = w + 1 /\ nextSeq' = M + 1
      /\ \A n \in 0..w : U[n] = V[n]
      /\ \A n \in 0..M : n > w => /\ DOMAIN U[n] = {j \in L \cap Scope : R[j].changeSeq <= n}
                                  /\ \A k \in DOMAIN U[n] : U[n][k] = R[k]
  BY <1>1, ViewsAfter
<1>3. ASSUME NEW k \in L \cap Scope
      PROVE  R[k].changeSeq <= M
  <2>1. CASE k \in Live /\ R[k] = records[k]
    BY <1>1, <1>2, <1>3, <2>1, RowsAfterGrowth
  <2>2. CASE \E c \in N : c.key = k /\ c.seq = R[k].changeSeq
    BY <1>1, <1>2, <1>3, <2>2 DEF Grows, Change
  <2>3. QED
    BY <1>1, <1>3, <2>1, <2>2 DEF Grows
<1>4. CASE M > w
  BY <1>1, <1>2, <1>3, <1>4 DEF Current
<1>5. CASE M = w
  <2>1. \A c \in N : FALSE
    BY <1>2, <1>5 DEF Grows, Change
  <2>2. L = Live
    BY <1>1, <2>1 DEF Grows
  <2>3. \A k \in L : R[k] = records[k]
    BY <1>1, <2>1 DEF Grows
  <2>4. QED
    BY <1>1, <1>2, <1>5, <2>2, <2>3 DEF Current, ViewsOK
<1>6. QED
  BY <1>2, <1>4, <1>5

LEMMA SettledGrows ==
    ASSUME IInv, ViewsOK, NEW N, Grows(N), ObserveViews
    PROVE  Settled'
<1>1. PICK V, U, w, M, R, L : /\ V = viewAt /\ U = viewAt' /\ w = Watermark /\ M = Watermark'
                              /\ R = records' /\ L = Live'
  OBVIOUS
<1>2. /\ w \in Nat /\ M \in Nat /\ w <= M /\ nextSeq = w + 1
      /\ \A n \in 0..w : U[n] = V[n]
      /\ \A n \in 0..M : n > w => DOMAIN U[n] = {j \in L \cap Scope : R[j].changeSeq <= n}
  BY <1>1, ViewsAfter
<1>3. ASSUME NEW n \in 0..M, NEW k \in DOMAIN U[n]
      PROVE  /\ k \in L \cup tombstones'
             /\ k \in L => \A m \in n..M : Has(U, m, k)
  <2>0. k \in Scope
    <3>1. Typed(U, M)
      BY <1>1, HistoryGrows DEF History
    <3>2. QED
      BY <3>1 DEF Typed, Partial
  <2>1. CASE n > w
    BY <1>2, <2>1, RowsAfterGrowth, <1>1, <2>0 DEF Has
  <2>2. CASE n <= w
    <3>1. n \in 0..w /\ k \in DOMAIN V[n]
      BY <1>2, <2>2
    <3>2. /\ k \in Live \cup tombstones
          /\ k \in Live => \A m \in n..w : Has(V, m, k)
      BY <1>1, <3>1 DEF ViewsOK, Settled
    <3>3. k \in L \cup tombstones'
      BY <1>1, <3>2 DEF Grows
    <3>4. ASSUME k \in L, NEW m \in n..M
          PROVE  Has(U, m, k)
      <4>1. k \in Live
        BY <1>1, <3>2, <3>4 DEF Grows
      <4>2. CASE m <= w
        BY <1>2, <3>1, <3>2, <4>1, <4>2 DEF Has
      <4>3. CASE m > w
        <5>1. R[k].changeSeq \in Nat /\ R[k].changeSeq <= w + 1
          BY <1>1, <1>2, <2>0, <3>4, <4>1, RowsAfterGrowth
        <5>2. QED
          BY <1>2, <2>0, <3>1, <3>4, <4>3, <5>1 DEF Has
      <4>4. QED
        BY <1>2, <3>1, <4>2, <4>3
    <3>5. QED
      BY <3>3, <3>4
  <2>3. QED
    BY <1>2, <2>1, <2>2
<1>4. QED
  BY <1>1, <1>3 DEF Settled

LEMMA ToldKept ==
    ASSUME NEW V, NEW U, NEW c, U[c.seq] = V[c.seq], U[c.seq - 1] = V[c.seq - 1], Told(V, c)
    PROVE  Told(U, c)
BY DEF Told, Has

LEMMA EventsToldGrow ==
    ASSUME IInv, ViewsOK, NEW N, Grows(N), ObserveViews
    PROVE  EventsTold'
<1>1. PICK V, U, w, M, R, L : /\ V = viewAt /\ U = viewAt' /\ w = Watermark /\ M = Watermark'
                              /\ R = records' /\ L = Live'
  OBVIOUS
<1>2. /\ w \in Nat /\ M \in Nat /\ w <= M /\ nextSeq = w + 1 /\ nextSeq' = M + 1
      /\ \A n \in 0..w : U[n] = V[n]
      /\ \A n \in 0..M : n > w => /\ DOMAIN U[n] = {j \in L \cap Scope : R[j].changeSeq <= n}
                                  /\ \A k \in DOMAIN U[n] : U[n][k] = R[k]
  BY <1>1, ViewsAfter
<1>3. ASSUME NEW c \in changes
      PROVE  c.seq \in 1..M /\ Told(U, c)
  <2>1. c.seq \in 1..w /\ Told(V, c)
    BY <1>1 DEF ViewsOK, EventsTold
  <2>2. c.seq \in 0..w /\ c.seq - 1 \in 0..w
    BY <1>2, <2>1
  <2>3. U[c.seq] = V[c.seq] /\ U[c.seq - 1] = V[c.seq - 1]
    BY <1>2, <2>2
  <2>4. QED
    BY <1>2, <2>1, <2>3, ToldKept
<1>4. ASSUME NEW c \in N
      PROVE  c.seq \in 1..M /\ Told(U, c)
  <2>1. /\ c.seq \in 0..M /\ c.seq > w /\ c.seq \in 1..M /\ c.seq - 1 \in 0..M
        /\ c.seq - 1 <= w => c.seq = w + 1 /\ c.seq - 1 = w
    BY <1>2 DEF Grows, Change
  <2>2. /\ DOMAIN U[c.seq] = {j \in L \cap Scope : R[j].changeSeq <= c.seq}
        /\ \A k \in DOMAIN U[c.seq] : U[c.seq][k] = R[k]
    BY <1>2, <2>1
  <2>3. /\ c.kind = "delete" \/ c.key \in Live => c.seq = w + 1
        /\ c.kind = "delete" => c.key \notin L
        /\ c.kind # "delete" => /\ c.key \in L /\ c.state \in DeliveryState
                                /\ R[c.key].changeSeq = c.seq /\ R[c.key].revision = c.version
                                /\ R[c.key].state = c.state
    BY <1>1, <1>2 DEF Grows, Recorded
  <2>4. ASSUME NEW k \in DOMAIN U[c.seq - 1]
        PROVE  Has(U, c.seq, k) \/ (c.kind = "delete" /\ c.key = k)
    <3>0. k \in Scope
      <4>1. Typed(U, M)
        BY <1>1, HistoryGrows DEF History
      <4>2. QED
        BY <2>1, <4>1 DEF Typed, Partial
    <3>1. CASE c.seq - 1 > w
      <4>1. k \in L /\ R[k].changeSeq <= c.seq - 1
        BY <1>2, <2>1, <3>1
      <4>2. R[k].changeSeq \in Nat
        BY <1>1, <3>0, <4>1, RowsAfterGrowth
      <4>3. QED
        BY <2>1, <2>2, <3>0, <4>1, <4>2 DEF Has
    <3>2. CASE c.seq - 1 <= w
      <4>1. c.seq = w + 1 /\ k \in DOMAIN V[w]
        BY <1>2, <2>1, <3>2
      <4>2. k \in Live
        BY <1>1, <4>1 DEF ViewsOK, Current
      <4>3. CASE k \in L
        <5>1. R[k].changeSeq <= c.seq
          BY <1>1, <1>2, <3>0, <4>1, <4>2, <4>3, RowsAfterGrowth
        <5>2. QED
          BY <2>2, <3>0, <4>3, <5>1 DEF Has
      <4>4. CASE k \notin L
        <5>1. PICK d \in N : d.key = k /\ d.kind = "delete"
          BY <1>1, <4>2, <4>4 DEF Grows
        <5>2. d.seq = w + 1
          BY <1>2, <5>1 DEF Grows, Recorded
        <5>3. d = c
          BY <4>1, <5>2 DEF Grows
        <5>4. QED
          BY <5>1, <5>3
      <4>5. QED
        BY <4>3, <4>4
    <3>3. QED
      BY <1>2, <2>1, <3>1, <3>2
  <2>5. ASSUME NEW k \in DOMAIN U[c.seq], U[c.seq][k].changeSeq = c.seq
        PROVE  c.kind # "delete" /\ c.key = k
    <3>1. k \in L /\ k \in Scope /\ R[k].changeSeq = c.seq
      BY <2>2, <2>5
    <3>2. ~(k \in Live /\ R[k] = records[k])
      BY <1>1, <1>2, <2>1, <3>1, RowsAfterGrowth
    <3>3. PICK d \in N : d.key = k /\ d.seq = R[k].changeSeq
      BY <1>1, <3>1, <3>2 DEF Grows
    <3>4. d = c
      BY <3>1, <3>3 DEF Grows
    <3>5. QED
      BY <2>3, <3>1, <3>3, <3>4
  <2>6. c.kind = "delete" => ~Has(U, c.seq, c.key)
    BY <2>2, <2>3 DEF Has
  <2>7. c.kind # "delete" /\ c.key \in Scope =>
          /\ Has(U, c.seq, c.key) /\ U[c.seq][c.key].state = c.state
          /\ U[c.seq][c.key].revision = c.version /\ U[c.seq][c.key].changeSeq = c.seq
    BY <2>1, <2>2, <2>3 DEF Has
  <2>8. QED
    BY <2>1, <2>3, <2>4, <2>5, <2>6, <2>7 DEF Told
<1>5. changes' = changes \cup N
  BY DEF Grows
<1>6. QED
  BY <1>1, <1>3, <1>4, <1>5 DEF EventsTold

LEMMA DeathKnownGrows ==
    ASSUME IInv, ViewsOK, NEW N, Grows(N), ObserveViews
    PROVE  DeathKnown'
<1>1. PICK V, U, w, M, L : /\ V = viewAt /\ U = viewAt' /\ w = Watermark /\ M = Watermark'
                           /\ L = Live'
  OBVIOUS
<1>2. /\ w \in Nat /\ M \in Nat /\ w <= M /\ nextSeq = w + 1
      /\ \A n \in 0..w : U[n] = V[n]
      /\ \A n \in 0..M : n > w => DOMAIN U[n] = {j \in L \cap Scope : records'[j].changeSeq <= n}
  BY <1>1, ViewsAfter
<1>0. changes' = changes \cup N /\ agedThrough' = agedThrough
  BY DEF Grows
<1>3. ASSUME NEW n \in 0..M, NEW k \in DOMAIN U[n], k \notin L, agedThrough <= n
      PROVE  \E c \in changes' : c.key = k /\ c.kind = "delete" /\ c.seq > n
  <2>1. n \in 0..w /\ k \in DOMAIN V[n]
    BY <1>2, <1>3
  <2>2. CASE k \in Live
    <3>1. PICK c \in N : c.key = k /\ c.kind = "delete"
      BY <1>1, <1>3, <2>2 DEF Grows
    <3>2. c.seq = w + 1
      BY <1>2, <3>1 DEF Grows, Recorded
    <3>3. QED
      BY <1>0, <1>2, <2>1, <3>1, <3>2
  <2>3. CASE k \notin Live
    <3>1. \E c \in changes : c.key = k /\ c.kind = "delete" /\ c.seq > n
      BY <1>1, <1>3, <2>1, <2>3 DEF ViewsOK, DeathKnown
    <3>2. QED
      BY <1>0, <3>1
  <2>4. QED
    BY <2>2, <2>3
<1>4. QED
  BY <1>0, <1>1, <1>3 DEF DeathKnown

LEMMA ViewsGrow ==
    ASSUME IInv, ViewsOK, NEW N, Grows(N), ObserveViews
    PROVE  ViewsOK' /\ Kept
BY HistoryGrows, CurrentGrows, SettledGrows, EventsToldGrow, DeathKnownGrows, ViewsAfter
   DEF ViewsOK
-----------------------------------------------------------------------------
(***************************************************************************)
(* The other steps of the server.  Delete-all empties every view; cleanup  *)
(* and the clock leave the rows alone and spare the young deletes.  What   *)
(* is left of an active, unexpired snapshot is all of it, and none of its  *)
(* members has been deleted.                                               *)
(***************************************************************************)
Rotates == /\ epoch' = epoch + 1
           /\ Live' = {} /\ tombstones' = {} /\ changes' = {}
           /\ UNCHANGED <<nextSeq, agedThrough>>
           /\ \A s \in DOMAIN snapshots' : snapshots'[s].status # "active"

Rests == /\ UNCHANGED <<epoch, nextSeq, records, tombstones, viewAt>>
         /\ changes' \subseteq changes
         /\ agedThrough <= agedThrough' /\ agedThrough' \in Nat
         /\ \A c \in changes : c.kind = "delete" /\ c.seq > agedThrough' => c \in changes'

SnapshotsLast ==
    \A s \in DOMAIN snapshots' :
       /\ s \in DOMAIN snapshots /\ snapshots'[s].epoch = snapshots[s].epoch
       /\ snapshots'[s].status = "active" =>
            /\ snapshots[s].status = "active"
            /\ s \notin expiredSnaps' =>
                 /\ s \notin expiredSnaps /\ snapshots'[s].items = snapshots[s].items
                 /\ \A m \in snapshots[s].items : m.key \in Live => m.key \in Live'

SnapsCurrent ==
    \A s \in DOMAIN snapshots : snapshots[s].status = "active" => snapshots[s].epoch = epoch

LEMMA ViewsEmptied ==
    ASSUME IInv, Rotates, ObserveViews
    PROVE  ViewsOK'
<1>1. /\ nextSeq \in Nat \ {0} /\ nextSeq' = nextSeq /\ epoch' # epoch
      /\ DOMAIN records' = {} /\ Live' = {} /\ changes' = {}
  BY DEF IInv, TypeOK, Rotates, Live
<1>2. PICK U, M : U = viewAt' /\ M = Watermark'
  OBVIOUS
<1>3. M \in Nat
  BY <1>1, <1>2 DEF Watermark
<1>4. DOMAIN U = 0..M /\ \A n \in 0..M : DOMAIN U[n] = {} /\ Partial(U[n])
  BY <1>1, <1>2 DEF ObserveViews, Watermark, Partial
<1>5. History(U, M)
  BY <1>3, <1>4 DEF History, Typed, Lasting, OneLife
<1>6. Current' /\ Settled' /\ EventsTold' /\ DeathKnown'
  BY <1>1, <1>2, <1>3, <1>4 DEF Current, Settled, EventsTold, DeathKnown
<1>7. QED
  BY <1>2, <1>5, <1>6 DEF ViewsOK

LEMMA ViewsRest ==
    ASSUME IInv, ViewsOK, Rests
    PROVE  ViewsOK' /\ Kept
<1>1. /\ viewAt' = viewAt /\ Watermark' = Watermark /\ Live' = Live /\ tombstones' = tombstones
      /\ records' = records
  BY DEF Rests, Watermark, Live
<1>2. History(viewAt, Watermark)' /\ Current' /\ Settled'
  BY <1>1 DEF ViewsOK, Current, Settled
<1>3. EventsTold'
  BY <1>1 DEF ViewsOK, EventsTold, Rests
<1>4. ASSUME NEW n \in 0..Watermark, NEW k \in DOMAIN viewAt[n], k \notin Live, agedThrough' <= n
      PROVE  \E c \in changes' : c.key = k /\ c.kind = "delete" /\ c.seq > n
  <2>1. /\ agedThrough \in Nat /\ agedThrough' \in Nat /\ n \in Nat /\ agedThrough <= agedThrough'
    BY DEF IInv, TypeOK, Rests
  <2>2. PICK c \in changes : c.key = k /\ c.kind = "delete" /\ c.seq > n
    BY <1>4, <2>1 DEF ViewsOK, DeathKnown
  <2>3. c.seq > agedThrough'
    BY <1>4, <2>1, <2>2 DEF IInv, TypeOK, Change
  <2>4. QED
    BY <2>2, <2>3 DEF Rests
<1>5. DeathKnown'
  BY <1>1, <1>4 DEF DeathKnown
<1>6. QED
  BY <1>1, <1>2, <1>3, <1>5 DEF ViewsOK, Kept, Seen

(***************************************************************************)
(* A mutation grows the history or starts a new one.                       *)
(***************************************************************************)
LEMMA ArchiveWrites ==
    ASSUME StoreOK, NEW b \in Batch, ArchiveBatch(epoch, b)
    PROVE  IInv' /\ victims' = {} /\ SnapshotsLast /\ \E N : Grows(N)
<1>1. b \in Seq(Item)
  BY BatchType
<1>2. IInv' /\ \E N : Grows(N)
  BY <1>1, ArchiveInv, ArchiveGrows DEF StoreOK
<1>3. UNCHANGED <<victims, snapshots, expiredSnaps>> /\ Live \subseteq Live'
  BY DEF ArchiveBatch, purgeVars, snapVars, Live
<1>4. QED
  BY <1>2, <1>3 DEF SnapshotsLast, StoreOK

LEMMA PatchWrites ==
    ASSUME StoreOK, NEW k \in Live, NEW s \in NewState,
           PatchApplied(k, s, records[k].revision, NoIdem)
    PROVE  IInv' /\ victims' = {} /\ SnapshotsLast /\ \E N : Grows(N)
<1>1. k \in Key /\ s \in DeliveryState /\ records[k].revision \in Nat
  BY NewStateType DEF StoreOK, IInv, TypeOK, Record
<1>2. PICK r \in Nat : r = records[k].revision
  BY <1>1
<1>3. IInv' /\ \E N : Grows(N)
  BY <1>1, <1>2, PatchInv, PatchGrows DEF StoreOK
<1>4. UNCHANGED <<victims, snapshots, expiredSnaps>> /\ Live' = Live
  BY DEF PatchApplied, purgeVars, snapVars, Live
<1>5. QED
  BY <1>3, <1>4 DEF SnapshotsLast, StoreOK

LEMMA DeleteWrites ==
    ASSUME StoreOK, SnapsCurrent, NEW k \in Key, DeleteRecord(k, NoIdem)
    PROVE  IInv' /\ victims' = {} /\ SnapshotsLast /\ \E N : Grows(N)
<1>1. IInv' /\ \E N : Grows(N)
  BY DeleteInv, DeleteGrows DEF StoreOK
<1>2. /\ snapshots' = Invalidated(HoldingSnapshots(k))
      /\ expiredSnaps' = expiredSnaps /\ victims' = victims /\ Live' = Live \ {k}
  BY DEF DeleteRecord, purgeVars, Without, Live
<1>3. snapshots \in [DOMAIN snapshots -> Snapshot]
  BY DEF StoreOK, IInv, TypeOK
<1>4. ASSUME NEW s \in DOMAIN snapshots'
      PROVE  /\ s \in DOMAIN snapshots /\ snapshots'[s].epoch = snapshots[s].epoch
             /\ snapshots'[s].items = snapshots[s].items
             /\ snapshots'[s].status = "active" =>
                  snapshots[s].status = "active" /\ s \notin HoldingSnapshots(k)
  BY <1>2, <1>3 DEF Invalidated, Snapshot
<1>5. ASSUME NEW s \in DOMAIN snapshots, snapshots[s].status = "active",
             s \notin HoldingSnapshots(k), NEW m \in snapshots[s].items
      PROVE  m.key # k
  BY <1>5 DEF HoldingSnapshots, ActiveSnapshots, SnapsCurrent
<1>6. SnapshotsLast
  BY <1>2, <1>4, <1>5 DEF SnapshotsLast
<1>7. QED
  BY <1>1, <1>2, <1>6 DEF StoreOK

LEMMA DeleteAllWrites ==
    ASSUME StoreOK, SnapsCurrent, DeleteAll(0, NoIdem)
    PROVE  IInv' /\ victims' = {} /\ Rotates
<1>1. IInv'
  BY DeleteAllInv, LimitsNatural DEF StoreOK
<1>2. /\ epoch' = epoch + 1 /\ Live' = {} /\ tombstones' = {} /\ changes' = {}
      /\ UNCHANGED <<nextSeq, agedThrough, victims>>
      /\ snapshots' = Invalidated(ActiveSnapshots)
  BY DEF DeleteAll, Wipe, Empty, Live, purgeVars
<1>3. snapshots \in [DOMAIN snapshots -> Snapshot]
  BY DEF StoreOK, IInv, TypeOK
<1>4. \A s \in DOMAIN snapshots' : snapshots'[s].status # "active"
  BY <1>2, <1>3 DEF Invalidated, ActiveSnapshots, SnapsCurrent, Snapshot
<1>5. QED
  BY <1>1, <1>2, <1>4 DEF Rotates, StoreOK

(***************************************************************************)
(* Cleanup and the clock let the rows rest.                                *)
(***************************************************************************)
LEMMA PurgeChangesRests ==
    ASSUME StoreOK, PurgeChanges, UNCHANGED viewAt
    PROVE  IInv' /\ victims' = {} /\ Rests /\ SnapshotsLast
<1>1. /\ changes' \subseteq changes
      /\ \A c \in changes : c \notin Due => c \in changes'
      /\ UNCHANGED <<epoch, nextSeq, recordCount, records, tombstones,
                     idem, expiredIdem, snapshots, expiredSnaps, agedThrough, victims, epochBase>>
      /\ Live' = Live
  BY DEF PurgeChanges, idemVars, snapVars, purgeVars, Live
<1>2. TypeOK'
  BY <1>1 DEF StoreOK, IInv, TypeOK
<1>3. \A c \in changes : c.kind = "upsert" /\ c.key \in Live => c \in changes'
  BY <1>1 DEF Due
<1>4. LogInv'
  <2>1. DeletionFence' /\ LogBelowNext' /\ LogUnique' /\ LogAccounted' /\ VictimsStale'
    BY <1>1 DEF StoreOK, IInv, LogInv, DeletionFence, LogBelowNext, LogUnique, LogAccounted,
                VictimsStale
  <2>2. UpsertRetained'
    BY <1>1, <1>3 DEF StoreOK, IInv, LogInv, UpsertRetained, ChangesOf
  <2>3. VictimsSpareLive'
    BY <1>1 DEF StoreOK, VictimsSpareLive
  <2>4. QED
    BY <2>1, <2>2, <2>3 DEF LogInv
<1>5. \A c \in changes : c.seq > agedThrough => c \notin Due
  BY DEF Due, StoreOK, IInv, TypeOK, Change
<1>6. Rests
  BY <1>1, <1>5 DEF Rests, StoreOK, IInv, TypeOK
<1>7. SnapshotsLast
  BY <1>1 DEF SnapshotsLast
<1>8. QED
  BY <1>1, <1>2, <1>4, <1>6, <1>7 DEF IInv, StoreOK

LEMMA AgeChangesRests ==
    ASSUME StoreOK, NEW n, AgeChanges(n), UNCHANGED viewAt
    PROVE  IInv' /\ victims' = {} /\ Rests /\ SnapshotsLast /\ agedThrough' = n
<1>1. /\ UNCHANGED <<epoch, nextSeq, recordCount, records, tombstones, changes,
                     idem, expiredIdem, snapshots, expiredSnaps, victims, epochBase>>
      /\ agedThrough' = n /\ n \in (agedThrough + 1)..(nextSeq - 1) /\ Live' = Live
  BY DEF AgeChanges, ownerVars, idemVars, snapVars, Live
<1>2. agedThrough' \in Nat /\ agedThrough <= agedThrough'
  BY <1>1 DEF StoreOK, IInv, TypeOK
<1>3. TypeOK' /\ LogInv'
  BY <1>1, <1>2 DEF StoreOK, IInv, TypeOK, LogInv, DeletionFence, UpsertRetained, LogBelowNext,
     LogUnique, LogAccounted, VictimsStale, VictimsSpareLive, ChangesOf
<1>4. Rests /\ SnapshotsLast
  BY <1>1, <1>2 DEF Rests, SnapshotsLast
<1>5. QED
  BY <1>1, <1>3, <1>4 DEF IInv, StoreOK

LEMMA PurgeSnapshotRests ==
    ASSUME StoreOK, NEW id \in SnapId, PurgeSnapshotItems(id) \/ PurgeSnapshotRow(id),
           UNCHANGED viewAt
    PROVE  IInv' /\ victims' = {} /\ Rests /\ SnapshotsLast /\ agedThrough' = agedThrough
<1>1. IInv'
  BY PurgeSnapshotInv DEF StoreOK
<1>2. /\ UNCHANGED <<epoch, nextSeq, records, tombstones, changes,
                     agedThrough, victims>>
      /\ Live' = Live
  BY DEF PurgeSnapshotItems, PurgeSnapshotRow, ownerVars, purgeVars, Live
<1>3. Rests
  BY <1>2 DEF Rests, StoreOK, IInv, TypeOK
<1>4. SnapshotsLast
  <2>1. snapshots \in [DOMAIN snapshots -> Snapshot]
    BY DEF StoreOK, IInv, TypeOK
  <2>2. CASE PurgeSnapshotItems(id)
    <3>1. PICK chunk \in SUBSET snapshots[id].items :
            snapshots' = [snapshots EXCEPT ![id].items = @ \ chunk]
      BY <2>2 DEF PurgeSnapshotItems
    <3>2. /\ id \in DOMAIN snapshots /\ expiredSnaps' = expiredSnaps
          /\ id \in expiredSnaps \/ snapshots[id].status = "invalidated"
      BY <2>2 DEF PurgeSnapshotItems
    <3>3. \A s \in DOMAIN snapshots' :
             /\ s \in DOMAIN snapshots /\ snapshots'[s].epoch = snapshots[s].epoch
             /\ snapshots'[s].status = snapshots[s].status
             /\ s # id => snapshots'[s] = snapshots[s]
      BY <2>1, <3>1, <3>2 DEF Snapshot
    <3>4. QED
      BY <1>2, <3>2, <3>3 DEF SnapshotsLast
  <2>3. CASE PurgeSnapshotRow(id)
    BY <1>2, <2>3 DEF PurgeSnapshotRow, Without, SnapshotsLast
  <2>4. QED
    BY <2>2, <2>3
<1>5. QED
  BY <1>1, <1>2, <1>3, <1>4 DEF StoreOK

LEMMA AgeSnapshotRests ==
    ASSUME StoreOK, NEW id, AgeSnapshot(id), UNCHANGED viewAt
    PROVE  IInv' /\ victims' = {} /\ Rests /\ SnapshotsLast /\ agedThrough' = agedThrough
<1>1. /\ UNCHANGED <<epoch, nextSeq, recordCount, records, tombstones, changes,
                     idem, expiredIdem, snapshots, agedThrough, victims, epochBase>>
      /\ expiredSnaps' = expiredSnaps \cup {id} /\ id \in DOMAIN snapshots /\ Live' = Live
  BY DEF AgeSnapshot, ownerVars, idemVars, purgeVars, Live
<1>2. TypeOK' /\ LogInv'
  BY <1>1 DEF StoreOK, IInv, TypeOK, LogInv, DeletionFence, UpsertRetained, LogBelowNext,
     LogUnique, LogAccounted, VictimsStale, VictimsSpareLive, ChangesOf
<1>3. Rests
  BY <1>1 DEF Rests, StoreOK, IInv, TypeOK
<1>4. SnapshotsLast
  BY <1>1 DEF SnapshotsLast
<1>5. QED
  BY <1>1, <1>2, <1>3, <1>4 DEF IInv, StoreOK
-----------------------------------------------------------------------------
(***************************************************************************)
(* Rows are faithful to the views at cp when they are that view, but for   *)
(* keys a pass to W need not show because they are gone by W; and even of  *)
(* these a row is one the history has had.                                 *)
(***************************************************************************)
Faithful(V, rows, cp, W) ==
    /\ DOMAIN rows \subseteq DOMAIN V[cp]
    /\ \A k \in DOMAIN V[cp] : \/ k \in DOMAIN rows /\ rows[k] = V[cp][k]
                               \/ cp < W /\ ~Has(V, W, k)
    /\ \A k \in DOMAIN rows : \E m \in 0..cp : Has(V, m, k) /\ rows[k] = V[m][k]

\* The event is what became of its row at its sequence.
Exact(V, e) ==
    /\ e.seq = e.origin
    /\ IF e.row = {} THEN ~Has(V, e.seq, e.key)
       ELSE /\ Has(V, e.seq, e.key)
            /\ V[e.seq][e.key].changeSeq = e.seq
            /\ e.row = {V[e.seq][e.key]}

\* The events E tell what happened at n to the rows that are there at W.
Shown(V, E, n, W) ==
    /\ \A k \in DOMAIN V[n] :
          V[n][k].changeSeq = n =>
             (\E e \in E : e.key = k /\ e.origin = n) \/ ~Has(V, W, k)
    /\ \A k \in DOMAIN V[n - 1] : ~Has(V, n, k) => \E e \in E : e.key = k /\ e.origin = n

LEMMA Highest ==
    ASSUME NEW S, S # {}, NEW f \in [S -> Nat], NEW b \in Nat, \A x \in S : f[x] <= b
    PROVE  \E m \in S : \A x \in S : f[x] <= f[m]
<1>1. PICK T : T = {f[x] : x \in S}
  OBVIOUS
<1>2. T \subseteq 0..b /\ T # {}
  BY <1>1
<1>3. IsFiniteSet(T)
  <2>1. IsFiniteSet(0..b)
    BY FS_Interval
  <2>2. QED
    BY <1>2, <2>1, FS_Subset
<1>4. PICK g : g = [t \in T |-> b - t]
  OBVIOUS
<1>5. g \in [T -> Nat]
  BY <1>2, <1>4
<1>6. PICK t \in T : \A u \in T : g[t] <= g[u]
  BY <1>2, <1>3, <1>5, Lowest
<1>7. \A u \in T : u <= t
  BY <1>2, <1>4, <1>6
<1>8. PICK m \in S : t = f[m]
  BY <1>1
<1>9. QED
  BY <1>1, <1>7, <1>8

LEMMA LastEventIs ==
    ASSUME NEW p, NEW k, NEW b \in Nat, \A e \in p.events : e.seq \in Nat /\ e.seq <= b,
           \E e \in p.events : e.key = k
    PROVE  /\ LastEvent(p, k) \in p.events /\ LastEvent(p, k).key = k
           /\ \A d \in p.events : d.key = k => d.seq <= LastEvent(p, k).seq
<1>1. PICK S : S = {e \in p.events : e.key = k}
  OBVIOUS
<1>2. PICK f : f = [e \in S |-> e.seq]
  OBVIOUS
<1>3. S # {} /\ f \in [S -> Nat] /\ \A e \in S : f[e] <= b
  BY <1>1, <1>2
<1>4. \E e \in S : \A d \in S : f[d] <= f[e]
  BY <1>3, Highest
<1>5. \E e \in p.events : e.key = k /\ \A d \in p.events : d.key = k => d.seq <= e.seq
  BY <1>1, <1>2, <1>4
<1>6. QED
  BY <1>5 DEF LastEvent

(***************************************************************************)
(* The heart of the matter.  A page takes rows that are faithful at C to   *)
(* rows faithful at its end, if its events are exact and tell all that     *)
(* happened in between to what is there at the watermark: a row changed    *)
(* there is its last event, a row not changed there is untouched, and a    *)
(* row that is gone was removed by an event later than all its others.     *)
(***************************************************************************)
LEMMA PageFaithful ==
    ASSUME NEW V, NEW N, History(V, N),
           NEW C \in Nat, NEW P, Faithful(V, replica.rows, C, P),
           NEW p, NEW end \in Nat, NEW W \in 0..N, C <= end, end <= W, P \in {C, W},
           \A e \in p.events : e.seq \in (C + 1)..end /\ Exact(V, e),
           \A n \in (C + 1)..end : Shown(V, p.events, n, W)
    PROVE  Faithful(V, RowsAfter(p), end, W)
<1>1. N \in Nat /\ W \in Nat /\ C \in 0..N /\ end \in 0..N
  BY DEF History
<1>2. PICK touched : touched = {e.key : e \in p.events}
  OBVIOUS
<1>3. PICK old, new : old = replica.rows /\ new = RowsAfter(p)
  OBVIOUS
<1>4. /\ DOMAIN new = (DOMAIN old \ touched)
                         \cup {k \in touched : LastEvent(p, k).row # {}}
      /\ \A k \in DOMAIN new \ touched : new[k] = old[k]
      /\ \A k \in DOMAIN new \cap touched : new[k] = CHOOSE r \in LastEvent(p, k).row : TRUE
  BY <1>2, <1>3 DEF RowsAfter
<1>5. ASSUME NEW k \in touched
      PROVE  /\ LastEvent(p, k) \in p.events /\ LastEvent(p, k).key = k
             /\ \A d \in p.events : d.key = k => d.seq <= LastEvent(p, k).seq
             /\ LastEvent(p, k).seq \in (C + 1)..end
             /\ Exact(V, LastEvent(p, k))
  <2>1. \E e \in p.events : e.key = k
    BY <1>2, <1>5
  <2>2. \A e \in p.events : e.seq \in Nat /\ e.seq <= end
    OBVIOUS
  <2>3. /\ LastEvent(p, k) \in p.events /\ LastEvent(p, k).key = k
        /\ \A d \in p.events : d.key = k => d.seq <= LastEvent(p, k).seq
    BY <2>1, <2>2, LastEventIs
  <2>4. QED
    BY <2>3
\* A touched row is the one its last event carries.
<1>6. ASSUME NEW k \in DOMAIN new \cap touched
      PROVE  \E s \in (C + 1)..end :
                /\ Has(V, s, k) /\ new[k] = V[s][k]
                /\ \A d \in p.events : d.key = k => d.seq <= s
  <2>1. PICK e : e = LastEvent(p, k)
    OBVIOUS
  <2>2. e.row # {} /\ new[k] = CHOOSE r \in e.row : TRUE
    BY <1>4, <1>6, <2>1
  <2>3. Has(V, e.seq, k) /\ e.row = {V[e.seq][k]}
    BY <1>5, <1>6, <2>1, <2>2 DEF Exact
  <2>4. new[k] = V[e.seq][k]
    BY <2>2, <2>3
  <2>5. QED
    BY <1>5, <1>6, <2>1, <2>3, <2>4
\* An end of life within the page is one of its events.
<1>7. ASSUME NEW s \in C..end, NEW k \in DOMAIN V[s], ~Has(V, end, k)
      PROVE  \E e \in p.events : e.key = k /\ e.seq > s
  <2>1. s \in 0..N /\ s <= end
    BY <1>1
  <2>2. PICK d \in (s + 1)..end : Has(V, d - 1, k) /\ ~Has(V, d, k)
    BY <1>1, <1>7, <2>1 DEF History, OneLife
  <2>3. d \in (C + 1)..end /\ d > s
    BY <2>2
  <2>4. PICK e \in p.events : e.key = k /\ e.origin = d
    BY <2>2, <2>3 DEF Shown, Has
  <2>5. QED
    BY <2>3, <2>4 DEF Exact
<1>8. DOMAIN new \subseteq DOMAIN V[end]
  <2>1. ASSUME NEW k \in DOMAIN new, ~Has(V, end, k)
        PROVE  FALSE
    <3>1. CASE k \in touched
      <4>1. PICK s \in (C + 1)..end : /\ Has(V, s, k)
                                      /\ \A d \in p.events : d.key = k => d.seq <= s
        BY <1>6, <2>1, <3>1
      <4>2. PICK e \in p.events : e.key = k /\ e.seq > s
        BY <1>7, <2>1, <4>1 DEF Has
      <4>3. QED
        BY <4>1, <4>2
    <3>2. CASE k \notin touched
      <4>1. k \in DOMAIN V[C]
        BY <1>3, <1>4, <2>1, <3>2 DEF Faithful
      <4>2. \E e \in p.events : e.key = k
        BY <1>7, <2>1, <4>1
      <4>3. QED
        BY <1>2, <3>2, <4>2
    <3>3. QED
      BY <3>1, <3>2
  <2>2. QED
    BY <2>1 DEF Has
<1>9. ASSUME NEW k \in DOMAIN V[end]
      PROVE  \/ k \in DOMAIN new /\ new[k] = V[end][k]
             \/ end < W /\ ~Has(V, W, k)
  <2>1. PICK s : s = V[end][k].changeSeq
    OBVIOUS
  <2>2. s \in 1..end /\ \A m \in s..end : Has(V, m, k) /\ V[m][k] = V[end][k]
    BY <1>1, <1>9, <2>1 DEF History, Lasting
  <2>3. ~Has(V, W, k) => end < W
    BY <1>1, <1>9 DEF Has
  <2>4. CASE s > C
    <3>1. s \in (C + 1)..end /\ Has(V, s, k) /\ V[s][k].changeSeq = s
      BY <2>1, <2>2, <2>4
    <3>2. CASE ~Has(V, W, k)
      BY <2>3, <3>2
    <3>3. CASE \E e \in p.events : e.key = k /\ e.origin = s
      <4>1. PICK f \in p.events : f.key = k /\ f.origin = s
        BY <3>3
      <4>2. k \in touched /\ f.seq = s
        BY <1>2, <4>1 DEF Exact
      <4>3. PICK e : e = LastEvent(p, k)
        OBVIOUS
      <4>4. /\ e.key = k /\ e.seq \in s..end /\ Exact(V, e)
        BY <1>5, <3>1, <4>1, <4>2, <4>3
      <4>5. Has(V, e.seq, k) /\ V[e.seq][k] = V[end][k]
        BY <2>2, <4>4
      <4>6. e.row = {V[end][k]}
        BY <4>4, <4>5 DEF Exact
      <4>7. QED
        BY <1>4, <4>2, <4>3, <4>6
    <3>4. QED
      BY <3>1, <3>2, <3>3 DEF Shown, Has
  <2>5. CASE s <= C
    <3>1. Has(V, C, k) /\ V[C][k] = V[end][k]
      BY <2>2, <2>5
    <3>2. k \notin touched
      <4>1. ASSUME k \in touched
            PROVE  FALSE
        <5>1. PICK e : e = LastEvent(p, k)
          OBVIOUS
        <5>2. e.key = k /\ e.seq \in (C + 1)..end /\ Exact(V, e)
          BY <1>5, <4>1, <5>1
        <5>3. e.seq \in s..end
          BY <2>2, <2>5, <5>2
        <5>4. Has(V, e.seq, k) /\ V[e.seq][k].changeSeq = s
          BY <2>1, <2>2, <5>3
        <5>5. e.seq = s
          BY <5>2, <5>4 DEF Exact
        <5>6. QED
          BY <2>2, <2>5, <5>2, <5>5
      <4>2. QED
        BY <4>1
    <3>3. CASE k \in DOMAIN old /\ old[k] = V[C][k]
      BY <1>4, <3>1, <3>2, <3>3
    <3>4. CASE C < P /\ ~Has(V, P, k)
      BY <2>3, <3>4
    <3>5. QED
      BY <1>3, <3>1, <3>3, <3>4 DEF Faithful, Has
  <2>6. QED
    BY <2>2, <2>4, <2>5
<1>10. ASSUME NEW k \in DOMAIN new
       PROVE  \E m \in 0..end : Has(V, m, k) /\ new[k] = V[m][k]
  <2>1. CASE k \in touched
    <3>1. PICK s \in (C + 1)..end : Has(V, s, k) /\ new[k] = V[s][k]
      BY <1>6, <1>10, <2>1
    <3>2. QED
      BY <3>1
  <2>2. CASE k \notin touched
    <3>1. k \in DOMAIN old /\ new[k] = old[k]
      BY <1>4, <1>10, <2>2
    <3>2. PICK m \in 0..C : Has(V, m, k) /\ old[k] = V[m][k]
      BY <1>3, <3>1 DEF Faithful
    <3>3. QED
      BY <3>1, <3>2
  <2>3. QED
    BY <2>1, <2>2
<1>11. QED
  BY <1>3, <1>8, <1>9, <1>10 DEF Faithful
-----------------------------------------------------------------------------
(***************************************************************************)
(* The device.  What it holds of the current epoch is true of the views;   *)
(* of an epoch that has ended meanwhile it is still ahead of the replica.  *)
(***************************************************************************)
Event == [origin : Nat, seq : Nat, key : Key, row : SUBSET Record]
Scan  == [watermark : 0..MaxSeq, last : Nat, rows : SUBSET Change, candidates : SUBSET Event]
Page  == [checkpoint : Nat, watermark : 0..MaxSeq, events : SUBSET Event]

ReplicaTyped ==
    /\ replica = [epoch |-> replica.epoch, checkpoint |-> replica.checkpoint,
                  pass |-> replica.pass, expired |-> replica.expired, rows |-> replica.rows]
    /\ replica.epoch \in 0..epoch /\ replica.checkpoint \in 0..MaxSeq
    /\ replica.pass \in Nat /\ (replica.pass = 0 \/ replica.pass > replica.checkpoint)
    /\ replica.expired \in BOOLEAN
    /\ Partial(replica.rows)

StagingTyped ==
    /\ staging = [id |-> staging.id, epoch |-> staging.epoch, watermark |-> staging.watermark,
                  rows |-> staging.rows]
    /\ staging.epoch \in Nat /\ staging.watermark \in 0..MaxSeq
    /\ Partial(staging.rows)

Turn ==
    /\ pc \in {"idle", "changes", "resolve", "apply", "capture", "stage", "commit"}
    /\ pages \in 0..MaxPages
    /\ pc \in {"idle", "capture"} => pages = 0
    /\ pc \notin {"idle", "capture", "commit"} => pages < MaxPages
    /\ resynced \in BOOLEAN /\ mishaps \in 0..MaxMishaps
    /\ pc # "resolve" => scan = NoScan
    /\ pc # "apply" => page = NoPage
    /\ pc \notin {"stage", "commit"} => staging = NoStaging

Shape == ReplicaTyped /\ scan \in Scan /\ page \in Page /\ StagingTyped /\ Turn

(***************************************************************************)
(* No change beyond the watermark of a request or a pass under way is old. *)
(***************************************************************************)
PassYoung == replica.pass # 0 /\ ~replica.expired => agedThrough <= replica.pass

Young ==
    /\ PassYoung
    /\ scan # NoScan => agedThrough <= scan.watermark
    /\ page.checkpoint < page.watermark => agedThrough <= page.watermark
    /\ replica.pass # 0 => /\ pc = "resolve" => scan.watermark = replica.pass
                           /\ pc = "apply" => page.watermark = replica.pass

Horizon == IF replica.pass = 0 THEN replica.checkpoint ELSE replica.pass

ReplicaOK ==
    replica.epoch = epoch =>
       /\ replica.checkpoint <= Watermark /\ replica.pass <= Watermark
       /\ Faithful(viewAt, replica.rows, replica.checkpoint, Horizon)

Newer(r, k) ==
    /\ k \in DOMAIN replica.rows => replica.rows[k].revision <= r.revision
    /\ k \notin DOMAIN replica.rows => replica.checkpoint < r.changeSeq

RowAhead(c) ==
    /\ c.seq \in (replica.checkpoint + 1)..scan.last
    /\ c.kind # "delete" =>
          /\ c.state \in DeliveryState
          /\ c.key \in DOMAIN replica.rows => replica.rows[c.key].revision <= c.version

EventAhead(e) ==
    e.row = {} \/ (e.key \in Scope /\ \E r \in Record : e.row = {r} /\ Newer(r, e.key))

ScanAhead == pc = "resolve" =>
    /\ replica.checkpoint <= scan.last /\ scan.last <= scan.watermark
    /\ \A c \in scan.rows : RowAhead(c)
    /\ \A e \in scan.candidates :
          EventAhead(e) /\ e.origin \in (replica.checkpoint + 1)..scan.last

Done(n) ==
    \/ \E c \in scan.rows : c.seq = n
    \/ \E e \in scan.candidates : e.origin = n /\ e.seq > scan.watermark
    \/ Shown(viewAt, scan.candidates, n, scan.watermark)

ScanTrue == pc = "resolve" /\ replica.epoch = epoch =>
    /\ scan.watermark <= Watermark
    /\ \A c \in scan.rows : Told(viewAt, c)
    /\ \A n \in (replica.checkpoint + 1)..scan.last : Done(n)
    /\ \A e \in scan.candidates : e.seq > scan.watermark \/ Exact(viewAt, e)

PageAhead == pc = "apply" =>
    /\ replica.checkpoint <= page.checkpoint /\ page.checkpoint <= page.watermark
    /\ \A e \in page.events : EventAhead(e) /\ e.seq <= page.checkpoint

PageTrue == pc = "apply" /\ replica.epoch = epoch =>
    /\ page.watermark <= Watermark
    /\ Faithful(viewAt, RowsAfter(page), page.checkpoint, page.watermark)

StagingAhead == pc \in {"stage", "commit"} =>
    /\ replica.epoch <= staging.epoch /\ staging.epoch <= epoch
    /\ staging.epoch = replica.epoch =>
         /\ replica.checkpoint <= staging.watermark
         /\ \A k \in DOMAIN staging.rows : Newer(staging.rows[k], k)

\* The rows staged are those of the view at the snapshot's watermark.
StagingTrue == pc \in {"stage", "commit"} /\ staging.epoch = epoch =>
    /\ staging.watermark <= Watermark
    /\ DOMAIN staging.rows \subseteq DOMAIN viewAt[staging.watermark]
    /\ \A k \in DOMAIN staging.rows : staging.rows[k] = viewAt[staging.watermark][k]
    /\ pc = "commit" => DOMAIN viewAt[staging.watermark] \subseteq DOMAIN staging.rows

MembersAt(v) == {[key |-> k, revision |-> v[k].revision, state |-> v[k].state,
                  changeSeq |-> v[k].changeSeq] : k \in DOMAIN v}

SnapshotKept == pc = "stage" /\ SnapshotReadable =>
    /\ staging.epoch = epoch
    /\ snapshots[staging.id].items = MembersAt(viewAt[staging.watermark])
    /\ DOMAIN viewAt[staging.watermark] \subseteq Live

ServerInv == StoreOK /\ ViewsOK /\ SnapsCurrent

ClientInv == /\ Shape /\ Young /\ ReplicaOK
             /\ ScanAhead /\ ScanTrue /\ PageAhead /\ PageTrue
             /\ StagingAhead /\ StagingTrue /\ SnapshotKept

SyncInv == ServerInv /\ ClientInv
-----------------------------------------------------------------------------
(***************************************************************************)
(* Between two requests nothing but the replica is at stake.               *)
(***************************************************************************)
LEMMA BetweenRequests ==
    ASSUME ReplicaTyped', PassYoung', ReplicaOK', Turn',
           pc' \in {"idle", "changes", "capture"}
    PROVE  ClientInv'
<1>1. scan' = NoScan /\ page' = NoPage /\ staging' = NoStaging
  BY DEF Turn
<1>2. scan' \in Scan /\ page' \in Page /\ StagingTyped'
  <2>1. 0 \in 0..MaxSeq
    BY LimitsNatural
  <2>2. Partial(Empty)
    BY DEF Partial, Empty
  <2>3. QED
    BY <1>1, <2>1, <2>2 DEF Scan, Page, StagingTyped, NoScan, NoPage, NoStaging
<1>3. Young'
  BY <1>1 DEF Young, NoPage
<1>4. QED
  BY <1>2, <1>3 DEF ClientInv, Shape, ScanAhead, ScanTrue, PageAhead, PageTrue, StagingAhead,
     StagingTrue, SnapshotKept

(***************************************************************************)
(* What is true of the views stays true as they grow.                      *)
(***************************************************************************)
LEMMA FaithfulKept ==
    ASSUME NEW V, NEW U, NEW N \in Nat, \A n \in 0..N : U[n] = V[n],
           NEW rows, NEW cp \in 0..N, NEW W \in 0..N, Faithful(V, rows, cp, W)
    PROVE  Faithful(U, rows, cp, W)
<1>1. \A m \in 0..cp : m \in 0..N
  OBVIOUS
<1>2. QED
  BY <1>1 DEF Faithful, Has

LEMMA ShownKept ==
    ASSUME NEW V, NEW U, NEW N \in Nat, \A n \in 0..N : U[n] = V[n],
           NEW E, NEW n \in 1..N, NEW W \in 0..N, Shown(V, E, n, W)
    PROVE  Shown(U, E, n, W)
<1>1. n \in 0..N /\ n - 1 \in 0..N
  OBVIOUS
<1>2. QED
  BY <1>1 DEF Shown, Has

LEMMA ExactKept ==
    ASSUME NEW V, NEW U, NEW e, U[e.seq] = V[e.seq], Exact(V, e)
    PROVE  Exact(U, e)
BY DEF Exact, Has
-----------------------------------------------------------------------------
(***************************************************************************)
(* A step of the server within the epoch, which leaves the device alone.   *)
(***************************************************************************)
LEMMA ServerGoesOn ==
    ASSUME SyncInv, ViewsOK', Kept, SnapshotsLast, epoch' = epoch,
           UNCHANGED <<replica, cycleVars>>, mishaps' \in 0..MaxMishaps, Young'
    PROVE  ClientInv' /\ SnapsCurrent'
<1>1. PICK V, U, N, M : V = viewAt /\ U = viewAt' /\ N = Watermark /\ M = Watermark'
  OBVIOUS
<1>2. History(V, N)
  BY <1>1 DEF SyncInv, ServerInv, ViewsOK
<1>3. History(U, M)
  BY <1>1 DEF ViewsOK
<1>4. Seen = 0..N /\ Seen' = 0..M
  BY <1>1 DEF Seen
<1>5. N \in Nat /\ M \in Nat /\ 0..N \subseteq 0..M /\ \A n \in 0..N : U[n] = V[n]
  BY <1>1, <1>2, <1>3, <1>4 DEF Kept, History
<1>6. N <= M
  BY <1>5
<1>7. UNCHANGED <<replica, pc, pages, scan, resynced, page, staging>>
  BY DEF cycleVars
<1>8. /\ ReplicaTyped /\ scan \in Scan /\ page \in Page /\ StagingTyped /\ Turn
      /\ ReplicaOK /\ ScanAhead /\ ScanTrue /\ PageAhead /\ PageTrue
      /\ StagingAhead /\ StagingTrue /\ SnapshotKept /\ SnapsCurrent
  BY DEF SyncInv, ServerInv, ClientInv, Shape
<1>9. Shape'
  BY <1>7, <1>8 DEF Shape, ReplicaTyped, StagingTyped, Turn
<1>10. ReplicaOK'
  <2>1. Horizon' = Horizon /\ Horizon \in {replica.checkpoint, replica.pass}
    BY <1>7 DEF Horizon
  <2>2. ASSUME replica.epoch = epoch
        PROVE  /\ replica.checkpoint <= M /\ replica.pass <= M
               /\ Faithful(U, replica.rows, replica.checkpoint, Horizon)
    <3>1. /\ replica.checkpoint \in 0..N /\ replica.pass \in 0..N
          /\ Faithful(V, replica.rows, replica.checkpoint, Horizon)
      BY <1>1, <1>5, <1>8, <2>2 DEF ReplicaOK, ReplicaTyped
    <3>2. QED
      BY <1>5, <1>6, <2>1, <3>1, FaithfulKept
  <2>3. QED
    BY <1>1, <1>7, <2>1, <2>2 DEF ReplicaOK
<1>11. ScanAhead' /\ PageAhead' /\ StagingAhead'
  BY <1>7, <1>8 DEF ScanAhead, PageAhead, StagingAhead, RowAhead, EventAhead, Newer
<1>12. ScanTrue'
  <2> SUFFICES ASSUME pc = "resolve", replica.epoch = epoch
               PROVE  /\ scan.watermark <= M
                      /\ \A c \in scan.rows : Told(U, c)
                      /\ \A n \in (replica.checkpoint + 1)..scan.last : Done(n)'
                      /\ \A e \in scan.candidates : e.seq > scan.watermark \/ Exact(U, e)
    BY <1>1, <1>7 DEF ScanTrue
  <2>1. /\ scan.watermark \in 0..N /\ replica.checkpoint \in Nat
        /\ scan.last \in Nat /\ scan.last <= scan.watermark
    BY <1>1, <1>8 DEF ScanTrue, ScanAhead, Scan, ReplicaTyped
  <2>2. \A n \in (replica.checkpoint + 1)..scan.last : n \in 1..N
    BY <1>5, <2>1
  <2>3. ASSUME NEW c \in scan.rows
        PROVE  Told(U, c)
    <3>1. c.seq \in 1..N /\ Told(V, c)
      BY <1>1, <1>8, <2>2 DEF ScanTrue, ScanAhead, RowAhead
    <3>2. U[c.seq] = V[c.seq] /\ U[c.seq - 1] = V[c.seq - 1]
      BY <1>5, <3>1
    <3>3. QED
      BY <3>1, <3>2, ToldKept
  <2>4. ASSUME NEW n \in (replica.checkpoint + 1)..scan.last
        PROVE  Done(n)'
    <3>1. n \in 1..N
      BY <2>2
    <3>2. CASE \/ \E c \in scan.rows : c.seq = n
               \/ \E e \in scan.candidates : e.origin = n /\ e.seq > scan.watermark
      BY <1>7, <3>2 DEF Done
    <3>3. CASE Shown(viewAt, scan.candidates, n, scan.watermark)
      <4>1. Shown(U, scan.candidates, n, scan.watermark)
        BY <1>1, <1>5, <2>1, <3>1, <3>3, ShownKept
      <4>2. QED
        BY <1>1, <1>7, <4>1 DEF Done
    <3>4. QED
      BY <1>8, <3>2, <3>3 DEF ScanTrue, Done
  <2>5. ASSUME NEW e \in scan.candidates
        PROVE  e.seq > scan.watermark \/ Exact(U, e)
    <3>1. CASE e.seq > scan.watermark
      BY <3>1
    <3>2. CASE Exact(V, e)
      <4>1. e.seq \in 0..N
        BY <1>8, <2>2, <3>2 DEF Exact, ScanAhead
      <4>2. QED
        BY <1>5, <3>2, <4>1, ExactKept
    <3>3. QED
      BY <1>1, <1>8, <3>1, <3>2 DEF ScanTrue
  <2>6. QED
    BY <1>6, <1>5, <2>1, <2>3, <2>4, <2>5
<1>13. PageTrue'
  <2>1. RowsAfter(page)' = RowsAfter(page)
    BY <1>7 DEF RowsAfter, LastEvent
  <2>2. ASSUME pc = "apply", replica.epoch = epoch
        PROVE  /\ page.watermark <= M
               /\ Faithful(U, RowsAfter(page), page.checkpoint, page.watermark)
    <3>1. /\ page.watermark \in 0..N /\ page.checkpoint \in 0..N
          /\ Faithful(V, RowsAfter(page), page.checkpoint, page.watermark)
      BY <1>1, <1>5, <1>8, <2>2 DEF PageTrue, PageAhead, Page
    <3>2. QED
      BY <1>5, <1>6, <3>1, FaithfulKept
  <2>3. QED
    BY <1>1, <1>7, <2>1, <2>2 DEF PageTrue
<1>14. StagingTrue'
  <2>1. pc \in {"stage", "commit"} /\ staging.epoch = epoch =>
           staging.watermark \in 0..N /\ U[staging.watermark] = V[staging.watermark]
    BY <1>1, <1>5, <1>8 DEF StagingTrue, StagingTyped
  <2>2. QED
    BY <1>1, <1>5, <1>6, <1>7, <1>8, <2>1 DEF StagingTrue
<1>15. SnapshotKept'
  <2> SUFFICES ASSUME pc = "stage", SnapshotReadable'
               PROVE  /\ staging.epoch = epoch
                      /\ snapshots'[staging.id].items = MembersAt(U[staging.watermark])
                      /\ DOMAIN U[staging.watermark] \subseteq Live'
    BY <1>1, <1>7 DEF SnapshotKept
  <2>1. /\ staging.id \in DOMAIN snapshots' /\ staging.id \notin expiredSnaps'
        /\ snapshots'[staging.id].status = "active"
    BY <1>7 DEF SnapshotReadable
  <2>2. /\ SnapshotReadable /\ snapshots'[staging.id].items = snapshots[staging.id].items
        /\ \A m \in snapshots[staging.id].items : m.key \in Live => m.key \in Live'
    BY <2>1 DEF SnapshotsLast, SnapshotReadable
  <2>3. /\ staging.epoch = epoch
        /\ snapshots[staging.id].items = MembersAt(V[staging.watermark])
        /\ DOMAIN V[staging.watermark] \subseteq Live
    BY <1>1, <1>8, <2>2 DEF SnapshotKept
  <2>4. U[staging.watermark] = V[staging.watermark]
    BY <1>1, <1>5, <1>8, <2>3 DEF StagingTrue, StagingTyped
  <2>5. ASSUME NEW k \in DOMAIN V[staging.watermark]
        PROVE  \E m \in MembersAt(V[staging.watermark]) : m.key = k
    <3>1. PICK v : v = V[staging.watermark]
      OBVIOUS
    <3>2. PICK m : m = [key |-> k, revision |-> v[k].revision, state |-> v[k].state,
                        changeSeq |-> v[k].changeSeq]
      OBVIOUS
    <3>3. m \in MembersAt(v) /\ m.key = k
      BY <3>1, <3>2 DEF MembersAt
    <3>4. QED
      BY <3>1, <3>3
  <2>6. QED
    BY <2>2, <2>3, <2>4, <2>5
<1>16. SnapsCurrent'
  BY <1>8 DEF SnapsCurrent, SnapshotsLast
<1>17. QED
  BY <1>9, <1>10, <1>11, <1>12, <1>13, <1>14, <1>15, <1>16 DEF ClientInv

(***************************************************************************)
(* A rotation: what the device holds is now of an ended epoch.             *)
(***************************************************************************)
LEMMA ServerRotates ==
    ASSUME SyncInv, Rotates, UNCHANGED clientVars
    PROVE  ClientInv' /\ SnapsCurrent'
<1>1. UNCHANGED <<replica, pc, pages, scan, resynced, page, staging, mishaps, agedThrough>>
  BY DEF clientVars, cycleVars, Rotates
<1>2. /\ ReplicaTyped /\ scan \in Scan /\ page \in Page /\ StagingTyped /\ Turn
      /\ Young /\ ScanAhead /\ PageAhead /\ StagingAhead
  BY DEF SyncInv, ClientInv, Shape
<1>3. epoch \in Nat \ {0} /\ epoch' = epoch + 1
  BY DEF SyncInv, ServerInv, StoreOK, IInv, TypeOK, Rotates
<1>4. replica.epoch # epoch'
  BY <1>2, <1>3 DEF ReplicaTyped
<1>5. Shape'
  BY <1>1, <1>2, <1>3 DEF Shape, ReplicaTyped, StagingTyped, Turn
<1>6. Young'
  BY <1>1, <1>2 DEF Young, PassYoung
<1>7. ReplicaOK' /\ ScanTrue' /\ PageTrue'
  BY <1>1, <1>4 DEF ReplicaOK, ScanTrue, PageTrue
<1>8. ScanAhead' /\ PageAhead'
  BY <1>1, <1>2 DEF ScanAhead, PageAhead, RowAhead, EventAhead, Newer
<1>9. pc \in {"stage", "commit"} => staging.epoch \in Nat /\ staging.epoch <= epoch
  BY <1>2 DEF StagingAhead, StagingTyped
<1>10. StagingAhead'
  <2>1. pc \in {"stage", "commit"} => staging.epoch <= epoch'
    BY <1>3, <1>9
  <2>2. QED
    BY <1>1, <1>2, <2>1 DEF StagingAhead, Newer
<1>11. StagingTrue'
  <2>1. pc \in {"stage", "commit"} => staging.epoch # epoch'
    BY <1>3, <1>9
  <2>2. QED
    BY <1>1, <2>1 DEF StagingTrue
<1>12. SnapshotKept' /\ SnapsCurrent'
  BY DEF SnapshotKept, SnapshotReadable, SnapsCurrent, Rotates
<1>13. QED
  BY <1>5, <1>6, <1>7, <1>8, <1>10, <1>11, <1>12 DEF ClientInv

LEMMA GrowthInv ==
    ASSUME SyncInv, IInv', victims' = {}, SnapshotsLast, NEW N, Grows(N), ObserveViews,
           UNCHANGED clientVars
    PROVE  SyncInv'
<1>1. IInv /\ ViewsOK /\ StoreOK
  BY DEF SyncInv, ServerInv, StoreOK
<1>2. ViewsOK' /\ Kept
  BY <1>1, ViewsGrow
<1>3. UNCHANGED <<epoch, agedThrough>> /\ nextSeq' <= MaxSeq
  BY DEF Grows
<1>4. StoreOK'
  <2>1. /\ Watermark \in Nat /\ Watermark' \in Nat /\ Watermark <= Watermark'
        /\ nextSeq' = Watermark' + 1 /\ nextSeq' \in Nat
    BY <1>1, ViewsAfter DEF Grows
  <2>2. agedThrough \in Nat /\ agedThrough <= Watermark /\ MaxSeq \in Nat
    BY <1>1, LimitsNatural DEF StoreOK, IInv, TypeOK
  <2>3. PICK w \in Nat, u \in Nat, n \in Nat : w = Watermark /\ u = Watermark' /\ n = nextSeq'
    BY <2>1
  <2>4. w <= u /\ n = u + 1 /\ n <= MaxSeq /\ agedThrough <= w
    BY <1>3, <2>1, <2>2, <2>3
  <2>5. u <= MaxSeq /\ agedThrough <= u
    BY <2>2, <2>4
  <2>6. QED
    BY <1>3, <2>3, <2>5 DEF StoreOK
<1>5. UNCHANGED <<replica, cycleVars, mishaps>> /\ mishaps \in 0..MaxMishaps
  BY DEF clientVars, SyncInv, ClientInv, Shape, Turn
<1>6. Young'
  BY <1>3, <1>5 DEF Young, PassYoung, cycleVars, SyncInv, ClientInv
<1>7. ClientInv' /\ SnapsCurrent'
  BY <1>2, <1>3, <1>5, <1>6, ServerGoesOn
<1>8. QED
  BY <1>2, <1>4, <1>7 DEF SyncInv, ServerInv

LEMMA RestInv ==
    ASSUME SyncInv, IInv', victims' = {}, Rests, SnapshotsLast, agedThrough' <= Watermark,
           UNCHANGED <<replica, cycleVars>>, mishaps' \in 0..MaxMishaps, Young'
    PROVE  SyncInv'
<1>1. IInv /\ ViewsOK /\ StoreOK
  BY DEF SyncInv, ServerInv, StoreOK
<1>2. ViewsOK' /\ Kept
  BY <1>1, ViewsRest
<1>3. Watermark' = Watermark /\ epoch' = epoch
  BY DEF Rests, Watermark
<1>4. StoreOK'
  BY <1>1, <1>3 DEF StoreOK
<1>5. ClientInv' /\ SnapsCurrent'
  BY <1>2, <1>3, ServerGoesOn
<1>6. QED
  BY <1>2, <1>4, <1>5 DEF SyncInv, ServerInv

LEMMA WriteInv ==
    ASSUME SyncInv, Write
    PROVE  SyncInv'
<1>1. StoreOK /\ SnapsCurrent /\ IInv
  BY DEF SyncInv, ServerInv, StoreOK
<1>2. ObserveViews /\ UNCHANGED clientVars
  BY DEF Write
<1>3. ASSUME NEW b \in Batch, ArchiveBatch(epoch, b)
      PROVE  SyncInv'
  BY <1>1, <1>2, <1>3, ArchiveWrites, GrowthInv
<1>4. ASSUME NEW k \in Live, NEW s \in NewState,
             PatchApplied(k, s, records[k].revision, NoIdem)
      PROVE  SyncInv'
  BY <1>1, <1>2, <1>4, PatchWrites, GrowthInv
<1>5. ASSUME NEW k \in Key, DeleteRecord(k, NoIdem)
      PROVE  SyncInv'
  BY <1>1, <1>2, <1>5, DeleteWrites, GrowthInv
<1>6. ASSUME DeleteAll(0, NoIdem)
      PROVE  SyncInv'
  <2>1. IInv' /\ victims' = {} /\ Rotates
    BY <1>1, <1>6, DeleteAllWrites
  <2>2. ViewsOK'
    BY <1>1, <1>2, <2>1, ViewsEmptied
  <2>3. Watermark' = Watermark /\ agedThrough' = agedThrough
    BY <2>1 DEF Rotates, Watermark
  <2>4. StoreOK'
    BY <1>1, <2>1, <2>3 DEF StoreOK
  <2>5. QED
    BY <1>2, <2>1, <2>2, <2>4, ServerRotates DEF SyncInv, ServerInv
<1>7. QED
  BY <1>3, <1>4, <1>5, <1>6 DEF Write

(***************************************************************************)
(* Cleanup and the passing of time.  The clock makes no change old that a  *)
(* request or a pass under way may still need.                             *)
(***************************************************************************)
LEMMA YoungKept ==
    ASSUME SyncInv, NEW n \in 1..Oldest, agedThrough' = n, UNCHANGED <<replica, cycleVars>>
    PROVE  Young'
<1>1. UNCHANGED <<replica, pc, pages, scan, page>>
  BY DEF cycleVars
<1>2. /\ Young /\ Turn /\ scan \in Scan /\ page \in Page /\ replica.pass \in Nat
      /\ Watermark \in Nat
  BY DEF SyncInv, ServerInv, ViewsOK, History, ClientInv, Shape, ReplicaTyped
<1>3. scan.watermark \in Nat /\ page.watermark \in Nat
  BY <1>2 DEF Scan, Page
<1>4. n \in Nat /\ n <= Oldest
  BY <1>2, <1>3 DEF Oldest
<1>5. CASE scan # NoScan
  <2>1. pc = "resolve" /\ page = NoPage /\ n <= scan.watermark
    BY <1>2, <1>4, <1>5 DEF Turn, Oldest
  <2>2. replica.pass # 0 => n <= replica.pass
    BY <1>2, <2>1 DEF Young
  <2>3. QED
    BY <1>1, <1>2, <2>1, <2>2 DEF Young, PassYoung, NoPage
<1>6. CASE scan = NoScan /\ pc = "apply"
  <2>1. n <= page.watermark
    BY <1>4, <1>6 DEF Oldest
  <2>2. replica.pass # 0 => n <= replica.pass
    BY <1>2, <1>6, <2>1 DEF Young
  <2>3. QED
    BY <1>1, <1>2, <1>6, <2>1, <2>2 DEF Young, PassYoung
<1>7. CASE scan = NoScan /\ pc # "apply"
  <2>1. page = NoPage
    BY <1>2, <1>7 DEF Turn
  <2>2. replica.pass # 0 /\ ~replica.expired => n <= replica.pass
    BY <1>4, <1>7 DEF Oldest
  <2>3. QED
    BY <1>1, <1>2, <1>7, <2>1, <2>2 DEF Young, PassYoung, NoPage
<1>8. QED
  BY <1>5, <1>6, <1>7

LEMMA YoungUnlessAged ==
    ASSUME SyncInv, agedThrough' = agedThrough, UNCHANGED <<replica, cycleVars>>
    PROVE  Young'
BY DEF Young, PassYoung, cycleVars, SyncInv, ClientInv

LEMMA HousekeepingInv ==
    ASSUME SyncInv, Housekeeping
    PROVE  SyncInv'
<1>1. StoreOK
  BY DEF SyncInv, ServerInv
<1>2. UNCHANGED <<replica, cycleVars, mishaps, viewAt>>
  BY DEF Housekeeping, clientVars
<1>3. mishaps' \in 0..MaxMishaps
  BY <1>2 DEF SyncInv, ClientInv, Shape, Turn
<1>4. agedThrough <= Watermark
  BY <1>1 DEF StoreOK
<1>5. CASE PurgeChanges
  <2>1. IInv' /\ victims' = {} /\ Rests /\ SnapshotsLast
    BY <1>1, <1>2, <1>5, PurgeChangesRests
  <2>2. agedThrough' = agedThrough
    BY <1>5 DEF PurgeChanges, purgeVars
  <2>3. QED
    BY <1>2, <1>3, <1>4, <2>1, <2>2, YoungUnlessAged, RestInv
<1>6. ASSUME NEW n \in 1..Oldest, AgeChanges(n)
      PROVE  SyncInv'
  <2>1. IInv' /\ victims' = {} /\ Rests /\ SnapshotsLast /\ agedThrough' = n
    BY <1>1, <1>2, <1>6, AgeChangesRests
  <2>2. n <= Watermark
    BY <1>1, <1>6 DEF AgeChanges, Watermark, StoreOK, IInv, TypeOK
  <2>3. QED
    BY <1>2, <1>3, <2>1, <2>2, YoungKept, RestInv
<1>7. ASSUME NEW id \in SnapId, PurgeSnapshotItems(id) \/ PurgeSnapshotRow(id)
      PROVE  SyncInv'
  <2>1. IInv' /\ victims' = {} /\ Rests /\ SnapshotsLast /\ agedThrough' = agedThrough
    BY <1>1, <1>2, <1>7, PurgeSnapshotRests
  <2>2. QED
    BY <1>2, <1>3, <1>4, <2>1, YoungUnlessAged, RestInv
<1>8. QED
  BY <1>5, <1>6, <1>7 DEF Housekeeping

LEMMA SnapshotExpiresInv ==
    ASSUME SyncInv, SnapshotExpires
    PROVE  SyncInv'
<1>1. StoreOK /\ agedThrough <= Watermark /\ mishaps \in 0..MaxMishaps /\ MaxMishaps \in Nat
  BY SyncLimits DEF SyncInv, ServerInv, StoreOK, ClientInv, Shape, Turn
<1>2. PICK id \in SnapId : /\ AgeSnapshot(id)
                           /\ \/ mishaps < MaxMishaps /\ mishaps' = mishaps + 1
                              \/ mishaps' = mishaps
  BY DEF SnapshotExpires
<1>3. UNCHANGED <<replica, cycleVars, viewAt>>
  BY DEF SnapshotExpires
<1>4. mishaps' \in 0..MaxMishaps
  BY <1>1, <1>2
<1>5. IInv' /\ victims' = {} /\ Rests /\ SnapshotsLast /\ agedThrough' = agedThrough
  BY <1>1, <1>2, <1>3, AgeSnapshotRests
<1>6. QED
  BY <1>1, <1>3, <1>4, <1>5, YoungUnlessAged, RestInv
-----------------------------------------------------------------------------
(***************************************************************************)
(* The steps of the device leave the server alone.  These are the ones     *)
(* that only turn the cycle: nothing is fetched and nothing is stored.     *)
(***************************************************************************)
LEMMA ServerRests ==
    ASSUME ServerInv, UNCHANGED <<serverVars, viewAt>>
    PROVE  /\ ServerInv' /\ Watermark' = Watermark /\ Live' = Live
           /\ UNCHANGED <<epoch, nextSeq, records, changes, snapshots, expiredSnaps, agedThrough>>
<1>1. /\ UNCHANGED <<epoch, nextSeq, records, tombstones, changes, snapshots, expiredSnaps,
                     agedThrough, victims>>
      /\ UNCHANGED vars
  BY DEF serverVars, vars, ownerVars, snapVars, purgeVars
<1>2. IInv' /\ Watermark' = Watermark /\ Live' = Live
  BY <1>1, StutterInv DEF ServerInv, StoreOK, Watermark, Live
<1>3. StoreOK'
  BY <1>1, <1>2 DEF ServerInv, StoreOK
<1>4. Rests
  BY <1>1 DEF Rests, ServerInv, StoreOK, IInv, TypeOK
<1>5. ViewsOK'
  BY <1>4, ViewsRest DEF ServerInv, StoreOK
<1>6. SnapsCurrent'
  BY <1>1 DEF ServerInv, SnapsCurrent
<1>7. QED
  BY <1>1, <1>2, <1>3, <1>5, <1>6 DEF ServerInv

LEMMA CycleTurns ==
    ASSUME SyncInv, UNCHANGED <<serverVars, viewAt, replica>>, Turn',
           pc' \in {"idle", "changes", "capture"}
    PROVE  SyncInv'
<1>1. ServerInv' /\ Watermark' = Watermark /\ UNCHANGED <<epoch, agedThrough, viewAt, replica>>
  BY ServerRests DEF SyncInv
<1>2. ReplicaTyped' /\ PassYoung' /\ ReplicaOK'
  BY <1>1 DEF SyncInv, ClientInv, Shape, Young, ReplicaTyped, PassYoung, ReplicaOK, Horizon
<1>3. QED
  BY <1>1, <1>2, BetweenRequests DEF SyncInv

LEMMA CycleEnds ==
    ASSUME SyncInv, EndCycle, UNCHANGED <<serverVars, viewAt, replica>>,
           mishaps' \in 0..MaxMishaps
    PROVE  SyncInv'
<1>1. Turn' /\ pc' = "idle"
  <2>1. 0 \in 0..MaxPages
    BY SyncLimits
  <2>2. /\ pc' = "idle" /\ pages' = 0 /\ scan' = NoScan /\ resynced' = FALSE
        /\ page' = NoPage /\ staging' = NoStaging
    BY DEF EndCycle
  <2>3. QED
    BY <2>1, <2>2 DEF Turn
<1>2. QED
  BY <1>1, CycleTurns

LEMMA StartCycleInv ==
    ASSUME SyncInv, StartCycle
    PROVE  SyncInv'
<1>1. Turn' /\ pc' \in {"changes", "capture"}
  BY SyncLimits DEF SyncInv, ClientInv, Shape, Turn, StartCycle
<1>2. QED
  BY <1>1, CycleTurns DEF StartCycle

LEMMA ChangesUnavailableInv ==
    ASSUME SyncInv, ChangesUnavailable
    PROVE  SyncInv'
<1>1. mishaps' \in 0..MaxMishaps /\ UNCHANGED <<serverVars, viewAt, replica>>
  BY DEF SyncInv, ClientInv, Shape, Turn, ChangesUnavailable
<1>2. CASE EndCycle
  BY <1>1, <1>2, CycleEnds
<1>3. CASE /\ pc' = "capture" /\ pages' = 0
           /\ UNCHANGED <<scan, resynced, page, staging>>
  <2>1. pc = "changes" /\ Turn
    BY DEF SyncInv, ClientInv, Shape, ChangesUnavailable
  <2>2. 0 \in 0..MaxPages
    BY SyncLimits
  <2>3. scan' = NoScan /\ page' = NoPage /\ staging' = NoStaging /\ resynced' \in BOOLEAN
    BY <1>3, <2>1 DEF Turn
  <2>4. Turn' /\ pc' = "capture"
    BY <1>1, <1>3, <2>2, <2>3 DEF Turn
  <2>5. QED
    BY <1>1, <2>4, CycleTurns
<1>4. QED
  BY <1>2, <1>3 DEF ChangesUnavailable

LEMMA CancelInv ==
    ASSUME SyncInv, Cancel
    PROVE  SyncInv'
<1>1. mishaps \in 0..MaxMishaps /\ MaxMishaps \in Nat /\ mishaps < MaxMishaps
      /\ mishaps' = mishaps + 1
  BY SyncLimits DEF SyncInv, ClientInv, Shape, Turn, Cancel
<1>2. mishaps' \in 0..MaxMishaps
  BY <1>1
<1>3. QED
  BY <1>2, CycleEnds DEF Cancel

LEMMA RefusedInv ==
    ASSUME SyncInv, RefuseChanges \/ CaptureRefused \/ StageRefused
    PROVE  SyncInv'
<1>1. mishaps' \in 0..MaxMishaps
  BY DEF SyncInv, ClientInv, Shape, Turn, RefuseChanges, CaptureRefused, StageRefused
<1>2. QED
  BY <1>1, CycleEnds DEF RefuseChanges, CaptureRefused, StageRefused

(***************************************************************************)
(* A cursor expires: the replica's rows and checkpoint stay as they are.   *)
(***************************************************************************)
LEMMA CursorExpiresInv ==
    ASSUME SyncInv, CursorExpires
    PROVE  SyncInv'
<1>1. /\ ServerInv' /\ Watermark' = Watermark /\ Live' = Live
      /\ UNCHANGED <<epoch, agedThrough, snapshots, expiredSnaps, viewAt>>
  BY ServerRests DEF SyncInv, CursorExpires
<1>2. /\ Shape /\ Young /\ ReplicaOK /\ ScanAhead /\ ScanTrue /\ PageAhead /\ PageTrue
      /\ StagingAhead /\ StagingTrue /\ SnapshotKept
  BY DEF SyncInv, ClientInv
<1>3. /\ UNCHANGED <<pc, pages, scan, resynced, page, staging, mishaps>>
      /\ replica' = [replica EXCEPT !.expired = TRUE]
  BY DEF CursorExpires, cycleVars
<1>4. PICK e, c, p, x, r :
        replica = [epoch |-> e, checkpoint |-> c, pass |-> p, expired |-> x, rows |-> r]
  BY <1>2 DEF Shape, ReplicaTyped
<1>5. /\ replica'.epoch = replica.epoch /\ replica'.checkpoint = replica.checkpoint
      /\ replica'.pass = replica.pass /\ replica'.rows = replica.rows /\ replica'.expired = TRUE
      /\ replica' = [epoch |-> replica.epoch, checkpoint |-> replica.checkpoint,
                     pass |-> replica.pass, expired |-> TRUE, rows |-> replica.rows]
  BY <1>3, <1>4
<1>6. Shape'
  BY <1>1, <1>2, <1>3, <1>5 DEF Shape, ReplicaTyped, StagingTyped, Turn
<1>7. Young' /\ ReplicaOK'
  BY <1>1, <1>2, <1>3, <1>5 DEF Young, PassYoung, ReplicaOK, Horizon
<1>8. ScanAhead' /\ PageAhead' /\ StagingAhead'
  BY <1>1, <1>2, <1>3, <1>5 DEF ScanAhead, PageAhead, StagingAhead, RowAhead, EventAhead, Newer
<1>9. ScanTrue'
  BY <1>1, <1>2, <1>3, <1>5 DEF ScanTrue, Done
<1>10. PageTrue'
  <2>1. RowsAfter(page)' = RowsAfter(page)
    BY <1>3, <1>5 DEF RowsAfter, LastEvent
  <2>2. QED
    BY <1>1, <1>2, <1>3, <1>5, <2>1 DEF PageTrue
<1>11. StagingTrue' /\ SnapshotKept'
  BY <1>1, <1>2, <1>3, <1>5 DEF StagingTrue, SnapshotKept, SnapshotReadable
<1>12. QED
  BY <1>1, <1>6, <1>7, <1>8, <1>9, <1>10, <1>11 DEF SyncInv, ClientInv
-----------------------------------------------------------------------------
(***************************************************************************)
(* A page applied leaves a row alone or brings a newer one.                *)
(***************************************************************************)
LEMMA RowsAfterAhead ==
    ASSUME SyncInv, pc = "apply"
    PROVE  /\ Partial(RowsAfter(page))
           /\ \A k \in DOMAIN RowsAfter(page) :
                 \/ k \in DOMAIN replica.rows /\ RowsAfter(page)[k] = replica.rows[k]
                 \/ Newer(RowsAfter(page)[k], k)
<1>1. /\ Partial(replica.rows) /\ page \in Page
      /\ \A e \in page.events : EventAhead(e) /\ e.seq <= page.checkpoint
  BY DEF SyncInv, ClientInv, Shape, ReplicaTyped, PageAhead
<1>2. PICK old, new, touched : /\ old = replica.rows /\ new = RowsAfter(page)
                               /\ touched = {e.key : e \in page.events}
  OBVIOUS
<1>3. /\ DOMAIN new = (DOMAIN old \ touched)
                         \cup {k \in touched : LastEvent(page, k).row # {}}
      /\ \A k \in DOMAIN new \ touched : new[k] = old[k]
      /\ \A k \in DOMAIN new \cap touched : new[k] = CHOOSE r \in LastEvent(page, k).row : TRUE
      /\ new = [k \in DOMAIN new |-> new[k]]
  BY <1>2 DEF RowsAfter
<1>4. ASSUME NEW k \in DOMAIN new \cap touched
      PROVE  k \in Scope /\ new[k] \in Record /\ Newer(new[k], k)
  <2>1. PICK e : e = LastEvent(page, k)
    OBVIOUS
  <2>2. \E d \in page.events : d.key = k
    BY <1>2, <1>4
  <2>3. /\ page.checkpoint \in Nat
        /\ \A d \in page.events : d.seq \in Nat /\ d.seq <= page.checkpoint
    BY <1>1 DEF Page, Event
  <2>4. e \in page.events /\ e.key = k
    BY <2>1, <2>2, <2>3, LastEventIs
  <2>5. e.row # {} /\ new[k] = CHOOSE r \in e.row : TRUE
    BY <1>3, <1>4, <2>1
  <2>6. k \in Scope /\ \E r \in Record : e.row = {r} /\ Newer(r, k)
    BY <1>1, <2>4, <2>5 DEF EventAhead
  <2>7. PICK r \in Record : e.row = {r} /\ Newer(r, k)
    BY <2>6
  <2>8. new[k] = r
    BY <2>5, <2>7
  <2>9. QED
    BY <2>6, <2>7, <2>8
<1>5. \A k \in DOMAIN new \ touched : k \in DOMAIN old /\ new[k] = old[k]
  BY <1>3
<1>6. Partial(old)
  BY <1>1, <1>2
<1>7. \A k \in DOMAIN new : k \in Scope /\ new[k] \in Record
  BY <1>4, <1>5, <1>6 DEF Partial
<1>8. Partial(new)
  BY <1>3, <1>7 DEF Partial
<1>9. QED
  BY <1>2, <1>4, <1>5, <1>8

LEMMA ApplyChangesInv ==
    ASSUME SyncInv, ApplyChanges
    PROVE  SyncInv'
<1>1. pc = "apply" /\ UNCHANGED <<serverVars, mishaps, viewAt>>
  BY DEF ApplyChanges
<1>2. ServerInv' /\ Watermark' = Watermark /\ UNCHANGED <<epoch, agedThrough, viewAt>>
  BY <1>1, ServerRests DEF SyncInv
<1>3. /\ ReplicaTyped /\ page \in Page /\ Turn /\ Young /\ PageAhead /\ PageTrue
      /\ epoch \in Nat
  BY DEF SyncInv, ClientInv, Shape, ServerInv, StoreOK, IInv, TypeOK
<1>4. PICK rows : rows = RowsAfter(page) /\ Partial(rows)
  BY <1>1, RowsAfterAhead
<1>5. PICK p : p = IF page.checkpoint < page.watermark THEN page.watermark ELSE 0
  OBVIOUS
<1>6. replica' = [epoch |-> replica.epoch, checkpoint |-> page.checkpoint, pass |-> p,
                  expired |-> FALSE, rows |-> rows]
  BY <1>4, <1>5 DEF ApplyChanges
<1>7. /\ replica'.epoch = replica.epoch /\ replica'.checkpoint = page.checkpoint
      /\ replica'.pass = p /\ replica'.expired = FALSE /\ replica'.rows = rows
  BY <1>6
<1>8. /\ page.checkpoint \in Nat /\ page.watermark \in 0..MaxSeq
      /\ page.checkpoint <= page.watermark /\ MaxSeq \in Nat
  BY <1>1, <1>3, LimitsNatural DEF Page, PageAhead
<1>9. ReplicaTyped'
  <2>1. page.checkpoint \in 0..MaxSeq /\ p \in Nat /\ (p = 0 \/ p > page.checkpoint)
    BY <1>5, <1>8
  <2>2. QED
    BY <1>2, <1>3, <1>4, <1>6, <1>7, <2>1 DEF ReplicaTyped
<1>10. PassYoung'
  BY <1>2, <1>3, <1>5, <1>7 DEF PassYoung, Young
<1>11. ReplicaOK'
  <2>1. Horizon' = page.watermark
    BY <1>5, <1>7, <1>8 DEF Horizon
  <2>2. replica.epoch = epoch =>
          /\ page.watermark <= Watermark
          /\ Faithful(viewAt, rows, page.checkpoint, page.watermark)
    BY <1>1, <1>3, <1>4 DEF PageTrue
  <2>3. Watermark \in Nat
    BY DEF SyncInv, ServerInv, ViewsOK, History
  <2>4. page.watermark <= Watermark => page.checkpoint <= Watermark /\ p <= Watermark
    BY <1>5, <1>8, <2>3
  <2>5. QED
    BY <1>2, <1>7, <2>1, <2>2, <2>4 DEF ReplicaOK
<1>12. mishaps' \in 0..MaxMishaps
  BY <1>1, <1>3 DEF Turn
<1>13. CASE EndCycle
  <2>1. Turn' /\ pc' = "idle"
    <3>1. 0 \in 0..MaxPages
      BY SyncLimits
    <3>2. /\ pc' = "idle" /\ pages' = 0 /\ scan' = NoScan /\ resynced' = FALSE
          /\ page' = NoPage /\ staging' = NoStaging
      BY <1>13 DEF EndCycle
    <3>3. QED
      BY <1>12, <3>1, <3>2 DEF Turn
  <2>2. QED
    BY <1>2, <1>9, <1>10, <1>11, <2>1, BetweenRequests DEF SyncInv
<1>14. CASE /\ pages + 1 < MaxPages
            /\ pc' = "changes" /\ pages' = pages + 1 /\ page' = NoPage
            /\ UNCHANGED <<scan, resynced, staging>>
  <2>1. pages \in 0..MaxPages /\ scan = NoScan /\ staging = NoStaging /\ resynced \in BOOLEAN
    BY <1>1, <1>3 DEF Turn
  <2>2. pages' \in 0..MaxPages /\ pages' < MaxPages
    BY <1>14, <2>1, SyncLimits
  <2>3. Turn'
    BY <1>12, <1>14, <2>1, <2>2 DEF Turn
  <2>4. QED
    BY <1>2, <1>9, <1>10, <1>11, <1>14, <2>3, BetweenRequests DEF SyncInv
<1>15. QED
  BY <1>13, <1>14 DEF ApplyChanges
-----------------------------------------------------------------------------
(***************************************************************************)
(* The request for changes.  The scan has a row for every sequence, and    *)
(* what the log tells of a row comes after what the replica has of it.     *)
(***************************************************************************)
LEMMA ScanChangesInv ==
    ASSUME SyncInv, ScanChanges
    PROVE  SyncInv'
<1>1. PICK V, N, C, W : /\ V = viewAt /\ N = Watermark
                        /\ C = replica.checkpoint /\ W = PassWatermark
  OBVIOUS
<1>2. /\ pc = "changes" /\ ~NeedsSnapshot /\ pc' = "resolve"
      /\ UNCHANGED <<serverVars, replica, pages, resynced, page, staging, mishaps, viewAt>>
      /\ scan' = [watermark |-> W, last |-> C + Smaller(PageSize, W - C),
                  rows |-> {c \in changes : c.seq \in Scanned(C, W)}, candidates |-> {}]
  BY <1>1 DEF ScanChanges
<1>3. /\ ServerInv' /\ Watermark' = N
      /\ UNCHANGED <<epoch, nextSeq, records, changes,
                     snapshots, expiredSnaps, agedThrough, viewAt>>
  BY <1>1, <1>2, ServerRests DEF SyncInv
<1>4. /\ ReplicaTyped /\ page \in Page /\ StagingTyped /\ Turn /\ Young /\ ReplicaOK
      /\ History(V, N) /\ EventsTold /\ StoreOK /\ changes \subseteq Change
  BY <1>1 DEF SyncInv, ClientInv, Shape, ServerInv, ViewsOK, StoreOK, IInv, TypeOK
<1>5. replica.epoch = epoch /\ GapFree(C, W) /\ (replica.pass # 0 => ~replica.expired)
  BY <1>1, <1>2, <1>4 DEF NeedsSnapshot, ReplicaTyped
<1>6. /\ N \in Nat /\ MaxSeq \in Nat /\ N <= MaxSeq /\ C \in Nat /\ W \in Nat
      /\ C <= W /\ W <= N /\ (replica.pass # 0 => W = replica.pass) /\ agedThrough <= W
  <2>1. /\ N \in Nat /\ MaxSeq \in Nat /\ N <= MaxSeq /\ C \in Nat /\ replica.pass \in Nat
        /\ agedThrough <= N /\ C <= N /\ replica.pass <= N
        /\ replica.pass # 0 => C < replica.pass /\ agedThrough <= replica.pass
    BY <1>1, <1>4, <1>5, LimitsNatural
       DEF ReplicaTyped, ReplicaOK, StoreOK, History, Young, PassYoung
  <2>2. W = IF replica.pass = 0 THEN N ELSE replica.pass
    BY <1>1 DEF PassWatermark
  <2>3. QED
    BY <2>1, <2>2
<1>7. PICK last : last = C + Smaller(PageSize, W - C)
  OBVIOUS
<1>8. last \in Nat /\ C <= last /\ last <= W /\ Scanned(C, W) = (C + 1)..last
  BY <1>6, <1>7, SyncLimits DEF Smaller, Scanned
<1>9. PICK rows : rows = {c \in changes : c.seq \in (C + 1)..last}
  OBVIOUS
<1>10. /\ scan' = [watermark |-> W, last |-> last, rows |-> rows, candidates |-> {}]
       /\ scan'.watermark = W /\ scan'.last = last /\ scan'.rows = rows /\ scan'.candidates = {}
  BY <1>2, <1>7, <1>8, <1>9
<1>11. UNCHANGED <<replica, page, staging>> /\ page = NoPage /\ staging = NoStaging
  BY <1>2, <1>4 DEF Turn
<1>12. Shape'
  <2>1. scan' \in Scan
    BY <1>4, <1>6, <1>8, <1>9, <1>10 DEF Scan
  <2>2. Turn'
    BY <1>2, <1>4, <1>11 DEF Turn
  <2>3. QED
    BY <1>3, <1>4, <1>11, <2>1, <2>2 DEF Shape, ReplicaTyped, StagingTyped
<1>13. Young'
  BY <1>2, <1>3, <1>4, <1>6, <1>10, <1>11 DEF Young, PassYoung, NoPage
<1>14. ReplicaOK'
  BY <1>1, <1>3, <1>4, <1>11 DEF ReplicaOK, Horizon
<1>15. \A c \in rows : c.seq \in 1..N /\ Told(V, c) /\ c.seq \in (C + 1)..last
  BY <1>1, <1>4, <1>9 DEF EventsTold
<1>16. ASSUME NEW c \in rows
       PROVE  RowAhead(c)'
  <2>1. c \in Change /\ Told(V, c) /\ c.seq \in 1..N /\ c.seq \in (C + 1)..last
    BY <1>4, <1>9, <1>15
  <2>2. ASSUME c.kind # "delete", c.key \in DOMAIN replica.rows
        PROVE  replica.rows[c.key].revision <= c.version
    <3>1. c.key \in Scope
      BY <1>4, <2>2 DEF ReplicaTyped, Partial
    <3>2. PICK m \in 0..C : Has(V, m, c.key) /\ replica.rows[c.key] = V[m][c.key]
      BY <1>1, <1>4, <1>5, <2>2 DEF ReplicaOK, Faithful
    <3>3. Has(V, c.seq, c.key) /\ V[c.seq][c.key].revision = c.version
      BY <2>1, <2>2, <3>1 DEF Told
    <3>4. m \in 0..N /\ c.seq \in 0..N /\ m <= c.seq
      BY <1>6, <2>1
    <3>5. V[m][c.key].revision <= V[c.seq][c.key].revision
      BY <1>4, <3>2, <3>3, <3>4 DEF History, OneLife, Has
    <3>6. QED
      BY <3>2, <3>3, <3>5
  <2>3. c.kind # "delete" => c.state \in DeliveryState
    BY <2>1 DEF Told
  <2>4. QED
    BY <1>1, <1>10, <1>11, <2>1, <2>2, <2>3 DEF RowAhead
<1>17. ScanAhead'
  BY <1>1, <1>8, <1>10, <1>11, <1>16 DEF ScanAhead
<1>18. ASSUME NEW n \in (C + 1)..last
       PROVE  Done(n)'
  <2>1. PICK c \in changes : c.seq = n
    BY <1>5, <1>8 DEF GapFree
  <2>2. c \in rows
    BY <1>9, <2>1
  <2>3. QED
    BY <1>10, <2>1, <2>2 DEF Done
<1>19. ScanTrue'
  BY <1>1, <1>3, <1>6, <1>10, <1>11, <1>15, <1>18 DEF ScanTrue
<1>20. PageAhead' /\ PageTrue' /\ StagingAhead' /\ StagingTrue' /\ SnapshotKept'
  BY <1>2 DEF PageAhead, PageTrue, StagingAhead, StagingTrue, SnapshotKept
<1>21. QED
  BY <1>3, <1>12, <1>13, <1>14, <1>17, <1>19, <1>20 DEF SyncInv, ClientInv

(***************************************************************************)
(* What a change is served as: an event from where the scan stood, newer   *)
(* than what the replica has.                                              *)
(***************************************************************************)
LEMMA ServedAhead ==
    ASSUME SyncInv, pc = "resolve", NEW c \in scan.rows, NEW e \in Served(c, scan.watermark)
    PROVE  e \in Event /\ e.origin = c.seq /\ EventAhead(e)
<1>1. /\ c \in Change /\ RowAhead(c) /\ replica.checkpoint \in Nat
      /\ records \in [Live -> Record] /\ changes \subseteq Change
  BY DEF SyncInv, ServerInv, StoreOK, IInv, TypeOK, ClientInv, Shape, ReplicaTyped,
         Scan, ScanAhead
<1>2. c.seq \in Nat /\ c.key \in Key /\ c.version \in Nat
  BY <1>1 DEF Change
<1>3. CASE c.kind = "delete"
  <2>1. e = [origin |-> c.seq, seq |-> c.seq, key |-> c.key, row |-> {}]
    BY <1>3 DEF Served
  <2>2. QED
    BY <1>2, <2>1 DEF Event, EventAhead
<1>4. CASE c.kind # "delete" /\ c.key \in Live
  <2>1. PICK r : r = [body |-> records[c.key].body, state |-> c.state,
                      revision |-> c.version, changeSeq |-> c.seq]
    OBVIOUS
  <2>2. /\ c.key \in Scope
        /\ e = [origin |-> c.seq, seq |-> c.seq, key |-> c.key, row |-> {r}]
    BY <1>4, <2>1 DEF Served
  <2>3. c.state \in DeliveryState /\ records[c.key].body \in Body
    BY <1>1, <1>4 DEF RowAhead, Record
  <2>4. r \in Record /\ r.revision = c.version /\ r.changeSeq = c.seq
    BY <1>2, <2>1, <2>3 DEF Record
  <2>5. Newer(r, c.key)
    BY <1>1, <1>2, <1>4, <2>4 DEF RowAhead, Newer
  <2>6. QED
    BY <1>2, <2>2, <2>4, <2>5 DEF Event, EventAhead
<1>5. CASE c.kind # "delete" /\ c.key \notin Live
  <2>1. PICK d \in DeletesAfter(c.key, scan.watermark) :
           e = [origin |-> c.seq, seq |-> d.seq, key |-> c.key, row |-> {}]
    BY <1>5 DEF Served
  <2>2. d.seq \in Nat
    BY <1>1, <2>1 DEF DeletesAfter, ChangesOf, Change
  <2>3. QED
    BY <1>2, <2>1, <2>2 DEF Event, EventAhead
<1>6. QED
  BY <1>3, <1>4, <1>5

(***************************************************************************)
(* It is what became of the row at the change's sequence, or a later       *)
(* delete from beyond the watermark; and no event is served only if there  *)
(* is nothing to show, for then the row is gone by the watermark: a delete *)
(* after it would be young, and still in the log.                          *)
(***************************************************************************)
LEMMA ServedTrue ==
    ASSUME SyncInv, pc = "resolve", replica.epoch = epoch, NEW c \in scan.rows
    PROVE  /\ \A e \in Served(c, scan.watermark) : e.seq > scan.watermark \/ Exact(viewAt, e)
           /\ \/ \E e \in Served(c, scan.watermark) : e.seq > scan.watermark
              \/ Shown(viewAt, Served(c, scan.watermark), c.seq, scan.watermark)
<1>1. PICK V, N, W, E, n, k : /\ V = viewAt /\ N = Watermark /\ W = scan.watermark
                              /\ E = Served(c, W) /\ n = c.seq /\ k = c.key
  OBVIOUS
<1>2. /\ History(V, N) /\ Current /\ DeathKnown /\ c \in Change /\ Told(V, c) /\ RowAhead(c)
      /\ W <= N /\ scan.last <= W /\ scan \in Scan
      /\ records \in [Live -> Record] /\ changes \subseteq Change /\ agedThrough \in Nat
      /\ replica.checkpoint \in Nat /\ (scan # NoScan => agedThrough <= W)
  BY <1>1 DEF SyncInv, ServerInv, ViewsOK, StoreOK, IInv, TypeOK, ClientInv, Shape,
              ReplicaTyped, Scan, ScanAhead, ScanTrue, Young
<1>3. scan # NoScan
  BY DEF NoScan
<1>4. N \in Nat /\ W \in Nat /\ W \in 0..N /\ n \in 1..W /\ n \in 0..N /\ n - 1 \in 0..N
  BY <1>1, <1>2 DEF History, Scan, RowAhead
<1>5. ASSUME NEW j \in DOMAIN V[n], V[n][j].changeSeq = n
      PROVE  c.kind # "delete" /\ j = k
  BY <1>1, <1>2, <1>5 DEF Told
<1>6. ASSUME NEW j \in DOMAIN V[n - 1], ~Has(V, n, j)
      PROVE  c.kind = "delete" /\ j = k
  BY <1>1, <1>2, <1>6 DEF Told
<1>7. CASE c.kind = "delete"
  <2>1. PICK e : e = [origin |-> n, seq |-> n, key |-> k, row |-> {}]
    OBVIOUS
  <2>2. E = {e} /\ e.origin = n /\ e.seq = n /\ e.key = k /\ e.row = {}
    BY <1>1, <1>7, <2>1 DEF Served
  <2>3. Exact(V, e)
    BY <1>1, <1>2, <1>7, <2>2 DEF Exact, Told
  <2>4. Shown(V, E, n, W)
    BY <1>5, <1>6, <1>7, <2>2 DEF Shown
  <2>5. QED
    BY <1>1, <2>2, <2>3, <2>4
<1>8. CASE c.kind # "delete" /\ k \in Live
  <2>1. PICK r : r = [body |-> records[k].body, state |-> c.state,
                      revision |-> c.version, changeSeq |-> n]
    OBVIOUS
  <2>2. PICK e : e = [origin |-> n, seq |-> n, key |-> k, row |-> {r}]
    OBVIOUS
  <2>3. E = {e : j \in {k} \cap Scope}
    BY <1>1, <1>8, <2>1, <2>2 DEF Served
  <2>4. e.origin = n /\ e.seq = n /\ e.key = k /\ e.row = {r}
    BY <2>2
  <2>5. ASSUME k \in Scope
        PROVE  Exact(V, e)
    <3>1. /\ Has(V, n, k) /\ V[n][k].state = c.state /\ V[n][k].revision = c.version
          /\ V[n][k].changeSeq = n
      BY <1>1, <1>2, <1>8, <2>5 DEF Told
    <3>2. Has(V, N, k) /\ V[N][k] = records[k]
      BY <1>1, <1>2, <1>8, <2>5 DEF Current, Has
    <3>3. V[n][k].body = records[k].body
      BY <1>2, <1>4, <3>1, <3>2 DEF History, OneLife, Has
    <3>4. V[n][k] \in Record
      BY <1>2, <1>4, <3>1 DEF History, Typed, Partial, Has
    <3>5. V[n][k] = r
      BY <2>1, <3>1, <3>3, <3>4 DEF Record
    <3>6. QED
      BY <2>4, <3>1, <3>5 DEF Exact
  <2>6. \A j \in DOMAIN V[n] : j \in Scope
    BY <1>2, <1>4 DEF History, Typed, Partial
  <2>7. Shown(V, E, n, W)
    BY <1>5, <1>6, <1>8, <2>3, <2>4, <2>6 DEF Shown
  <2>8. QED
    BY <1>1, <2>3, <2>5, <2>7
<1>9. CASE c.kind # "delete" /\ k \notin Live
  <2>1. PICK D : D = DeletesAfter(k, W)
    OBVIOUS
  <2>2. /\ \A d \in D : d \in Change /\ d.seq \in Nat /\ d.seq > W
        /\ E = {[origin |-> n, seq |-> d.seq, key |-> k, row |-> {}]
                  : d \in {x \in D : \A y \in D : y.seq <= x.seq}}
    BY <1>1, <1>2, <1>9, <2>1 DEF Served, DeletesAfter, ChangesOf, Change
  <2>3. \A e \in E : e.seq > W
    BY <2>2
  <2>4. CASE E # {}
    BY <1>1, <2>3, <2>4
  <2>5. CASE D = {}
    <3>1. ~Has(V, W, k)
      <4>1. \A d \in changes : d.key = k /\ d.kind = "delete" => ~(d.seq > W)
        BY <2>1, <2>5 DEF DeletesAfter, ChangesOf
      <4>2. QED
        BY <1>1, <1>2, <1>3, <1>4, <1>9, <4>1 DEF DeathKnown, Has
    <3>2. Shown(V, E, n, W)
      BY <1>5, <1>6, <1>9, <3>1 DEF Shown
    <3>3. QED
      BY <1>1, <2>3, <3>2
  <2>6. CASE D # {}
    <3>1. PICK f : f = [d \in D |-> d.seq]
      OBVIOUS
    <3>2. f \in [D -> Nat] /\ \A d \in D : f[d] <= N
      BY <1>1, <2>1, <2>2, <3>1
         DEF DeletesAfter, ChangesOf, SyncInv, ServerInv, ViewsOK, EventsTold
    <3>3. PICK m \in D : \A d \in D : f[d] <= f[m]
      BY <1>4, <2>6, <3>2, Highest
    <3>4. \A d \in D : d.seq <= m.seq
      BY <3>1, <3>3
    <3>5. [origin |-> n, seq |-> m.seq, key |-> k, row |-> {}] \in E
      BY <2>2, <3>4
    <3>6. QED
      BY <2>4, <3>5
  <2>7. QED
    BY <2>5, <2>6
<1>10. QED
  BY <1>7, <1>8, <1>9

LEMMA ResolveRowInv ==
    ASSUME SyncInv, ResolveRow
    PROVE  SyncInv'
<1>1. PICK c \in scan.rows :
         scan' = [scan EXCEPT !.rows = @ \ {c},
                              !.candidates = @ \cup Served(c, scan.watermark)]
  BY DEF ResolveRow
<1>2. /\ pc = "resolve"
      /\ UNCHANGED <<serverVars, replica, pc, pages, resynced, page, staging, mishaps, viewAt>>
  BY DEF ResolveRow
<1>3. /\ ServerInv' /\ Watermark' = Watermark
      /\ UNCHANGED <<epoch, nextSeq, records, changes,
                     snapshots, expiredSnaps, agedThrough, viewAt>>
  BY <1>2, ServerRests DEF SyncInv
<1>4. /\ ReplicaTyped /\ scan \in Scan /\ page \in Page /\ StagingTyped /\ Turn /\ Young
      /\ ReplicaOK /\ ScanAhead /\ ScanTrue
  BY DEF SyncInv, ClientInv, Shape
<1>5. PICK W, S : W = scan.watermark /\ S = Served(c, scan.watermark)
  OBVIOUS
<1>6. /\ scan' = [watermark |-> W, last |-> scan.last, rows |-> scan.rows \ {c},
                  candidates |-> scan.candidates \cup S]
      /\ scan'.watermark = W /\ scan'.last = scan.last /\ scan'.rows = scan.rows \ {c}
      /\ scan'.candidates = scan.candidates \cup S
  BY <1>1, <1>4, <1>5 DEF Scan
<1>7. \A e \in S : e \in Event /\ e.origin = c.seq /\ EventAhead(e)
  BY <1>2, <1>5, ServedAhead
<1>8. Shape'
  <2>1. scan' \in Scan
    BY <1>4, <1>5, <1>6, <1>7 DEF Scan
  <2>2. Turn'
    BY <1>2, <1>4 DEF Turn
  <2>3. QED
    BY <1>2, <1>3, <1>4, <2>1, <2>2 DEF Shape, ReplicaTyped, StagingTyped
<1>9. Young'
  <2>1. scan # NoScan
    BY DEF NoScan
  <2>2. QED
    BY <1>2, <1>3, <1>4, <1>5, <1>6, <2>1 DEF Young, PassYoung
<1>10. ReplicaOK'
  BY <1>2, <1>3, <1>4 DEF ReplicaOK, Horizon
<1>11. ScanAhead'
  <2>1. \A e \in S : EventAhead(e)' /\ e.origin \in (replica.checkpoint + 1)..scan.last
    BY <1>2, <1>4, <1>7 DEF ScanAhead, RowAhead, EventAhead, Newer
  <2>2. \A d \in scan.rows : RowAhead(d)'
    BY <1>2, <1>4, <1>6 DEF ScanAhead, RowAhead
  <2>3. \A e \in scan.candidates : EventAhead(e)'
    BY <1>2, <1>4 DEF ScanAhead, EventAhead, Newer
  <2>4. QED
    BY <1>2, <1>4, <1>5, <1>6, <2>1, <2>2, <2>3 DEF ScanAhead
<1>12. ScanTrue'
  <2> SUFFICES ASSUME replica.epoch = epoch
               PROVE  /\ W <= Watermark
                      /\ \A d \in scan.rows \ {c} : Told(viewAt, d)
                      /\ \A n \in (replica.checkpoint + 1)..scan.last : Done(n)'
                      /\ \A e \in scan.candidates \cup S : e.seq > W \/ Exact(viewAt, e)
    BY <1>2, <1>3, <1>6 DEF ScanTrue
  <2>1. /\ \A e \in S : e.seq > W \/ Exact(viewAt, e)
        /\ (\E e \in S : e.seq > W) \/ Shown(viewAt, S, c.seq, W)
    BY <1>2, <1>5, ServedTrue
  <2>2. ASSUME NEW n, Done(n)
        PROVE  Done(n)'
    <3>1. CASE \E d \in scan.rows \ {c} : d.seq = n
      BY <1>6, <3>1 DEF Done
    <3>2. CASE \E e \in scan.candidates : e.origin = n /\ e.seq > W
      BY <1>6, <3>2 DEF Done
    <3>3. CASE Shown(viewAt, scan.candidates, n, W)
      <4>1. Shown(viewAt, scan.candidates \cup S, n, W)
        BY <3>3 DEF Shown
      <4>2. QED
        BY <1>3, <1>6, <4>1 DEF Done
    <3>4. CASE c.seq = n
      <4>1. CASE \E e \in S : e.seq > W
        BY <1>6, <1>7, <3>4, <4>1 DEF Done
      <4>2. CASE Shown(viewAt, S, n, W)
        <5>1. Shown(viewAt, scan.candidates \cup S, n, W)
          BY <4>2 DEF Shown
        <5>2. QED
          BY <1>3, <1>6, <5>1 DEF Done
      <4>3. QED
        BY <2>1, <3>4, <4>1, <4>2
    <3>5. QED
      BY <1>5, <2>2, <3>1, <3>2, <3>3, <3>4 DEF Done
  <2>3. QED
    BY <1>2, <1>4, <1>5, <2>1, <2>2 DEF ScanTrue
<1>13. PageAhead' /\ PageTrue' /\ StagingAhead' /\ StagingTrue' /\ SnapshotKept'
  BY <1>2 DEF PageAhead, PageTrue, StagingAhead, StagingTrue, SnapshotKept
<1>14. QED
  BY <1>3, <1>8, <1>9, <1>10, <1>11, <1>12, <1>13 DEF SyncInv, ClientInv

(***************************************************************************)
(* The page the device accepts takes its rows to the page's checkpoint.    *)
(* A substituted delete lies beyond the watermark, so no page with one is  *)
(* accepted, and what is left tells all that happened up to its end.       *)
(***************************************************************************)
LEMMA ReceiveChangesInv ==
    ASSUME SyncInv, ReceiveChanges
    PROVE  SyncInv'
<1>1. /\ pc = "resolve" /\ scan.rows = {} /\ pc' = "apply" /\ scan' = NoScan
      /\ UNCHANGED <<serverVars, replica, pages, resynced, staging, mishaps, viewAt>>
  BY DEF ReceiveChanges, Assembled
<1>2. PICK end \in PageEnds : Consistent(PageUpto(end)) /\ page' = PageUpto(end)
  BY DEF ReceiveChanges
<1>3. PICK p, V, N, C, W : /\ p = PageUpto(end) /\ V = viewAt /\ N = Watermark
                           /\ C = replica.checkpoint /\ W = scan.watermark
  OBVIOUS
<1>4. /\ ServerInv' /\ Watermark' = Watermark
      /\ UNCHANGED <<epoch, nextSeq, records, changes,
                     snapshots, expiredSnaps, agedThrough, viewAt>>
  BY <1>1, ServerRests DEF SyncInv
<1>5. /\ ReplicaTyped /\ scan \in Scan /\ page \in Page /\ StagingTyped /\ Turn /\ Young
      /\ ReplicaOK /\ ScanAhead /\ ScanTrue /\ History(V, N)
  BY <1>3 DEF SyncInv, ServerInv, ViewsOK, ClientInv, Shape
<1>6. /\ C \in Nat /\ W \in 0..MaxSeq /\ W \in Nat /\ scan.last \in Nat /\ C <= scan.last
      /\ scan.last <= W /\ \A e \in scan.candidates : e.origin \in (C + 1)..scan.last
  BY <1>1, <1>3, <1>5, LimitsNatural DEF ReplicaTyped, Scan, ScanAhead
<1>7. end \in Nat /\ C <= end /\ end <= scan.last /\ end <= W
  <2>1. end = scan.last \/ \E e \in scan.candidates : end = e.origin
    BY <1>2 DEF PageEnds
  <2>2. QED
    BY <1>6, <2>1
<1>8. /\ p = [checkpoint |-> end, watermark |-> W,
              events |-> {e \in scan.candidates : e.origin <= end}]
      /\ p.checkpoint = end /\ p.watermark = W
      /\ p.events = {e \in scan.candidates : e.origin <= end}
      /\ page' = p
  BY <1>2, <1>3 DEF PageUpto
<1>9. \A e \in p.events : e.seq <= end
  BY <1>2, <1>3, <1>8 DEF Consistent
<1>10. staging' = staging /\ staging = NoStaging
  BY <1>1, <1>5 DEF Turn
<1>11. Shape'
  <2>1. page' \in Page
    BY <1>5, <1>6, <1>7, <1>8 DEF Page, Scan
  <2>2. scan' \in Scan
    BY <1>1, LimitsNatural DEF NoScan, Scan
  <2>3. Turn'
    BY <1>1, <1>5, <1>10 DEF Turn
  <2>4. QED
    BY <1>1, <1>4, <1>5, <2>1, <2>2, <2>3 DEF Shape, ReplicaTyped, StagingTyped
<1>12. Young'
  <2>1. scan = NoScan => W = 0
    BY <1>3 DEF NoScan
  <2>2. end < W => agedThrough <= W
    BY <1>3, <1>5, <1>7, <2>1 DEF Young
  <2>3. QED
    BY <1>1, <1>3, <1>4, <1>5, <1>8, <2>2 DEF Young, PassYoung
<1>13. ReplicaOK'
  BY <1>1, <1>4, <1>5 DEF ReplicaOK, Horizon
<1>14. PageAhead'
  <2>1. \A e \in p.events : EventAhead(e)'
    BY <1>1, <1>5, <1>8 DEF ScanAhead, EventAhead, Newer
  <2>2. QED
    BY <1>1, <1>3, <1>7, <1>8, <1>9, <2>1 DEF PageAhead
<1>15. PageTrue'
  <2> SUFFICES ASSUME replica.epoch = epoch
               PROVE  W <= N /\ Faithful(V, RowsAfter(p), end, W)
    <3>1. RowsAfter(page)' = RowsAfter(p)
      BY <1>1, <1>8 DEF RowsAfter, LastEvent
    <3>2. QED
      BY <1>1, <1>3, <1>4, <1>8, <3>1 DEF PageTrue
  <2>1. /\ W <= N /\ \A n \in (C + 1)..scan.last : Done(n)
        /\ \A e \in scan.candidates : e.seq > W \/ Exact(V, e)
    BY <1>1, <1>3, <1>5 DEF ScanTrue
  <2>2. PICK P : P = Horizon
    OBVIOUS
  <2>3. P \in {C, W} /\ Faithful(V, replica.rows, C, P)
    BY <1>1, <1>3, <1>5, <2>2 DEF Horizon, Young, ReplicaOK
  <2>4. ASSUME NEW e \in p.events
        PROVE  e.seq \in (C + 1)..end /\ Exact(V, e)
    <3>1. e \in scan.candidates /\ e.origin \in (C + 1)..end /\ e.seq <= end /\ e.seq \in Nat
      BY <1>5, <1>6, <1>7, <1>8, <1>9 DEF Scan, Event
    <3>2. Exact(V, e)
      BY <1>6, <1>7, <2>1, <3>1
    <3>3. QED
      BY <3>1, <3>2 DEF Exact
  <2>5. ASSUME NEW n \in (C + 1)..end
        PROVE  Shown(V, p.events, n, W)
    <3>1. n \in (C + 1)..scan.last /\ n <= end
      BY <1>6, <1>7
    <3>2. ASSUME NEW e \in scan.candidates, e.origin = n
          PROVE  e \in p.events /\ ~(e.seq > W)
      <4>1. e \in p.events
        BY <1>8, <3>1, <3>2
      <4>2. e.seq \in (C + 1)..end
        BY <2>4, <4>1
      <4>3. QED
        BY <1>6, <1>7, <4>1, <4>2
    <3>3. Shown(V, scan.candidates, n, W)
      BY <1>1, <1>3, <2>1, <3>1, <3>2 DEF Done
    <3>4. QED
      BY <3>2, <3>3 DEF Shown
  <2>6. W \in 0..N
    BY <1>5, <1>6, <2>1 DEF History
  <2>7. QED
    BY <1>5, <1>6, <1>7, <2>1, <2>3, <2>4, <2>5, <2>6, PageFaithful
<1>16. ScanAhead' /\ ScanTrue' /\ StagingAhead' /\ StagingTrue' /\ SnapshotKept'
  BY <1>1 DEF ScanAhead, ScanTrue, StagingAhead, StagingTrue, SnapshotKept
<1>17. QED
  BY <1>4, <1>11, <1>12, <1>13, <1>14, <1>15, <1>16 DEF SyncInv, ClientInv
-----------------------------------------------------------------------------
(***************************************************************************)
(* The snapshot.  Its members are the view at its watermark.               *)
(***************************************************************************)
LEMMA CaptureSnapshotInv ==
    ASSUME SyncInv, CaptureSnapshot
    PROVE  SyncInv'
<1>1. PICK id \in SnapId :
         /\ CreateSnapshot(id, Scope)
         /\ staging' = [id |-> id, epoch |-> epoch, watermark |-> Watermark, rows |-> Empty]
  BY DEF CaptureSnapshot
<1>2. /\ pc = "capture" /\ pc' = "stage"
      /\ UNCHANGED <<replica, pages, scan, resynced, page, mishaps, viewAt>>
  BY DEF CaptureSnapshot
<1>3. PICK V, N : V = viewAt /\ N = Watermark
  OBVIOUS
<1>4. PICK snap : snap = [status |-> "active", epoch |-> epoch, filter |-> Scope,
                          watermark |-> Watermark,
                          items |-> {MemberOf(c.key) : c \in JoinedUpserts(Scope)}]
  OBVIOUS
<1>5. /\ snapshots' = With(snapshots, id, snap)
      /\ UNCHANGED <<epoch, nextSeq, records, tombstones, changes,
                     expiredSnaps, agedThrough, victims>>
  BY <1>1, <1>4 DEF CreateSnapshot, ownerVars, purgeVars
<1>6. /\ StoreOK /\ IInv /\ ViewsOK /\ SnapsCurrent /\ ReplicaTyped /\ Turn /\ Young /\ ReplicaOK
      /\ scan \in Scan /\ page \in Page
  BY DEF SyncInv, ServerInv, StoreOK, ClientInv, Shape
<1>7. IInv'
  BY <1>1, <1>6, ScopeType, CreateSnapshotInv
<1>8. Watermark' = N /\ Live' = Live
  BY <1>3, <1>5 DEF Watermark, Live
<1>9. StoreOK'
  BY <1>3, <1>5, <1>6, <1>7, <1>8 DEF StoreOK
<1>10. ViewsOK'
  <2>1. Rests
    BY <1>2, <1>5, <1>6 DEF Rests, IInv, TypeOK
  <2>2. QED
    BY <1>6, <2>1, ViewsRest
<1>11. SnapsCurrent'
  BY <1>4, <1>5, <1>6 DEF SnapsCurrent, With
<1>12. /\ staging'.id = id /\ staging'.epoch = epoch /\ staging'.watermark = N
       /\ staging'.rows = Empty /\ DOMAIN Empty = {} /\ scan = NoScan /\ page = NoPage
  BY <1>1, <1>2, <1>3, <1>6 DEF Turn, Empty
<1>13. /\ N \in Nat /\ N <= MaxSeq /\ MaxSeq \in Nat /\ epoch \in Nat
  BY <1>3, <1>6, LimitsNatural DEF StoreOK, IInv, TypeOK, ViewsOK, History
<1>14. Shape'
  <2>1. Partial(Empty)
    BY DEF Partial, Empty
  <2>2. StagingTyped'
    BY <1>1, <1>3, <1>12, <1>13, <2>1 DEF StagingTyped
  <2>3. Turn'
    <3>1. pages = 0 /\ pages < MaxPages
      BY <1>2, <1>6, SyncLimits DEF Turn
    <3>2. QED
      BY <1>2, <1>6, <1>12, <3>1 DEF Turn
  <2>4. QED
    BY <1>2, <1>5, <1>6, <2>2, <2>3 DEF Shape, ReplicaTyped
<1>15. Young'
  BY <1>2, <1>5, <1>6, <1>12 DEF Young, PassYoung
<1>16. ReplicaOK'
  BY <1>2, <1>3, <1>5, <1>6, <1>8 DEF ReplicaOK, Horizon
<1>17. StagingAhead'
  <2>1. replica.epoch \in Nat /\ replica.epoch <= epoch
    BY <1>6, <1>13 DEF ReplicaTyped
  <2>2. replica.epoch = epoch => replica.checkpoint <= N
    BY <1>3, <1>6 DEF ReplicaOK
  <2>3. QED
    BY <1>2, <1>5, <1>12, <1>13, <2>1, <2>2 DEF StagingAhead
<1>18. StagingTrue'
  BY <1>2, <1>8, <1>12, <1>13 DEF StagingTrue
<1>19. SnapshotKept'
  <2>1. DOMAIN V[N] = Live \cap Scope /\ \A k \in Live \cap Scope : V[N][k] = records[k]
    BY <1>3, <1>6 DEF ViewsOK, Current
  <2>2. \A c \in JoinedUpserts(Scope) : c.key \in Live \cap Scope
    BY DEF JoinedUpserts
  <2>3. ASSUME NEW k \in Live \cap Scope
        PROVE  \E c \in JoinedUpserts(Scope) : c.key = k
    <3>1. PICK c \in ChangesOf(k) : c.kind = "upsert"
      BY <1>6 DEF IInv, LogInv, UpsertRetained
    <3>2. c \in changes /\ c.key = k /\ c.seq < nextSeq /\ c.seq \in Nat /\ nextSeq \in Nat
      BY <1>6, <3>1 DEF IInv, TypeOK, LogInv, LogBelowNext, ChangesOf, Change
    <3>3. c.seq <= Watermark
      BY <3>2 DEF Watermark
    <3>4. QED
      BY <3>1, <3>2, <3>3 DEF JoinedUpserts
  <2>4. snap.items = {MemberOf(k) : k \in Live \cap Scope}
    BY <1>4, <2>2, <2>3
  <2>5. snap.items = MembersAt(V[N])
    BY <2>1, <2>4 DEF MembersAt, MemberOf
  <2>6. snapshots'[id] = snap
    BY <1>5 DEF With
  <2>7. QED
    BY <1>2, <1>3, <1>5, <1>8, <1>12, <2>1, <2>5, <2>6 DEF SnapshotKept
<1>20. ScanAhead' /\ ScanTrue' /\ PageAhead' /\ PageTrue'
  BY <1>2 DEF ScanAhead, ScanTrue, PageAhead, PageTrue
<1>21. QED
  BY <1>9, <1>10, <1>11, <1>14, <1>15, <1>16, <1>17, <1>18, <1>19, <1>20
     DEF SyncInv, ServerInv, ClientInv

(***************************************************************************)
(* A staged page has the rows of that view: no member has been deleted, a  *)
(* row keeps its body, and the version is the member's.  None of them is   *)
(* behind the replica: what the replica lacks of its checkpoint is gone.   *)
(***************************************************************************)
LEMMA StagedRows ==
    ASSUME SyncInv, pc = "stage", SnapshotReadable, NEW chunk \in SUBSET Unstaged
    PROVE  LET v == viewAt[staging.watermark] IN
           /\ DOMAIN RowsOf(chunk) \subseteq DOMAIN v
           /\ \A k \in DOMAIN RowsOf(chunk) : RowsOf(chunk)[k] = v[k]
           /\ chunk = Unstaged => DOMAIN v \subseteq DOMAIN staging.rows \cup DOMAIN RowsOf(chunk)
           /\ DOMAIN v \subseteq Scope /\ \A k \in DOMAIN v : v[k] \in Record
<1>1. PICK V, N, W, v : V = viewAt /\ N = Watermark /\ W = staging.watermark /\ v = V[W]
  OBVIOUS
<1>2. /\ History(V, N) /\ Current /\ staging.epoch = epoch
      /\ snapshots[staging.id].items = MembersAt(v) /\ DOMAIN v \subseteq Live
      /\ W <= N /\ W \in Nat /\ N \in Nat
  BY <1>1 DEF SyncInv, ServerInv, ViewsOK, History, ClientInv, Shape, StagingTyped, StagingTrue,
              SnapshotKept
<1>3. W \in 0..N /\ N \in 0..N
  BY <1>2
<1>4. DOMAIN v \subseteq Scope /\ \A k \in DOMAIN v : v[k] \in Record
  BY <1>1, <1>2, <1>3 DEF History, Typed, Partial
<1>5. ASSUME NEW k \in DOMAIN v
      PROVE  v[k].body = records[k].body
  <2>1. k \in Live \cap Scope
    BY <1>2, <1>4
  <2>2. Has(V, N, k) /\ V[N][k] = records[k]
    BY <1>1, <1>2, <2>1 DEF Current, Has
  <2>3. QED
    BY <1>1, <1>2, <1>3, <2>2 DEF History, OneLife, Has
<1>6. \A m \in chunk : m \in MembersAt(v) /\ m.key \notin DOMAIN staging.rows
  BY <1>2 DEF Unstaged
<1>7. ASSUME NEW m \in MembersAt(v)
      PROVE  /\ m.key \in DOMAIN v /\ m.revision = v[m.key].revision
             /\ m.state = v[m.key].state /\ m.changeSeq = v[m.key].changeSeq
  BY DEF MembersAt
<1>8. PICK R : R = RowsOf(chunk)
  OBVIOUS
<1>9. DOMAIN R = {m.key : m \in chunk}
  BY <1>8 DEF RowsOf
<1>10. ASSUME NEW k \in DOMAIN R
       PROVE  k \in DOMAIN v /\ R[k] = v[k]
  <2>1. PICK m : m = CHOOSE x \in chunk : x.key = k
    OBVIOUS
  <2>2. m \in chunk /\ m.key = k
    BY <1>9, <1>10, <2>1
  <2>3. R[k] = [body |-> records[k].body, state |-> m.state,
                revision |-> m.revision, changeSeq |-> m.changeSeq]
    BY <1>8, <1>9, <1>10, <2>1 DEF RowsOf
  <2>4. k \in DOMAIN v /\ R[k] = [body |-> v[k].body, state |-> v[k].state,
                                  revision |-> v[k].revision, changeSeq |-> v[k].changeSeq]
    BY <1>5, <1>6, <1>7, <2>2, <2>3
  <2>5. v[k] \in Record
    BY <1>4, <2>4
  <2>6. QED
    BY <2>4, <2>5 DEF Record
<1>11. ASSUME chunk = Unstaged, NEW k \in DOMAIN v, k \notin DOMAIN staging.rows
       PROVE  k \in DOMAIN R
  <2>1. PICK m : m = [key |-> k, revision |-> v[k].revision, state |-> v[k].state,
                      changeSeq |-> v[k].changeSeq]
    OBVIOUS
  <2>2. m \in MembersAt(v) /\ m.key = k
    BY <2>1 DEF MembersAt
  <2>3. m \in chunk
    BY <1>2, <1>11, <2>2 DEF Unstaged
  <2>4. QED
    BY <1>9, <2>2, <2>3
<1>12. QED
  BY <1>1, <1>4, <1>8, <1>10, <1>11

LEMMA StagedAhead ==
    ASSUME SyncInv, pc = "stage", SnapshotReadable, replica.epoch = staging.epoch,
           NEW k \in DOMAIN viewAt[staging.watermark]
    PROVE  Newer(viewAt[staging.watermark][k], k)
<1>1. PICK V, N, C, W, P : /\ V = viewAt /\ N = Watermark /\ C = replica.checkpoint
                           /\ W = staging.watermark /\ P = Horizon
  OBVIOUS
<1>2. /\ History(V, N) /\ Settled /\ replica.epoch = epoch
      /\ DOMAIN V[W] \subseteq Live /\ W <= N /\ W \in Nat /\ N \in Nat /\ C \in Nat /\ C <= W
      /\ replica.pass <= N /\ replica.pass \in Nat /\ C <= N
      /\ (replica.pass = 0 \/ replica.pass > C)
      /\ Faithful(V, replica.rows, C, P)
  BY <1>1 DEF SyncInv, ServerInv, ViewsOK, History, ClientInv, Shape, ReplicaTyped, StagingTyped,
              StagingAhead, StagingTrue, SnapshotKept, ReplicaOK
<1>3. P \in C..N /\ W \in 0..N /\ C \in 0..N
  BY <1>1, <1>2 DEF Horizon
<1>4. CASE k \in DOMAIN replica.rows
  <2>1. PICK m \in 0..C : Has(V, m, k) /\ replica.rows[k] = V[m][k]
    BY <1>2, <1>4 DEF Faithful
  <2>2. m \in 0..N /\ m <= W
    BY <1>2
  <2>3. V[m][k].revision <= V[W][k].revision
    BY <1>1, <1>2, <1>3, <2>1, <2>2 DEF History, OneLife, Has
  <2>4. QED
    BY <1>1, <1>4, <2>1, <2>3 DEF Newer
<1>5. CASE k \notin DOMAIN replica.rows
  <2>1. V[W][k].changeSeq \in 1..W
    BY <1>1, <1>2, <1>3 DEF History, Lasting
  <2>2. ASSUME V[W][k].changeSeq <= C
        PROVE  FALSE
    <3>1. C \in V[W][k].changeSeq..W
      BY <1>2, <2>1, <2>2
    <3>2. Has(V, C, k)
      BY <1>1, <1>2, <1>3, <3>1 DEF History, Lasting
    <3>3. Has(V, P, k)
      BY <1>1, <1>2, <1>3, <3>2 DEF Settled, Has
    <3>4. QED
      BY <1>2, <1>5, <3>2, <3>3 DEF Faithful, Has
  <2>3. C < V[W][k].changeSeq
    BY <1>2, <2>1, <2>2
  <2>4. QED
    BY <1>1, <1>5, <2>3 DEF Newer
<1>6. QED
  BY <1>4, <1>5

LEMMA StagePageInv ==
    ASSUME SyncInv, StagePage
    PROVE  SyncInv'
<1>1. /\ pc = "stage" /\ SnapshotReadable
      /\ UNCHANGED <<serverVars, replica, mishaps, viewAt>>
  BY DEF StagePage
<1>2. /\ ReplicaTyped /\ StagingTyped /\ Turn /\ Young /\ ReplicaOK /\ StagingAhead /\ StagingTrue
      /\ SnapshotKept /\ scan \in Scan /\ page \in Page
  BY DEF SyncInv, ClientInv, Shape
<1>3. CASE EndCycle
  <2>1. mishaps' \in 0..MaxMishaps
    BY <1>1, <1>2 DEF Turn
  <2>2. QED
    BY <1>1, <1>3, <2>1, CycleEnds
<1>4. ASSUME NEW chunk \in SUBSET Unstaged,
             chunk = Unstaged \/ pages + 1 < MaxPages,
             staging' = [staging EXCEPT !.rows = Merge(@, RowsOf(chunk))],
             pages' = pages + 1,
             pc' = IF chunk = Unstaged THEN "commit" ELSE "stage",
             UNCHANGED <<scan, resynced, page>>
      PROVE  SyncInv'
  <2>1. PICK W, v, R : W = staging.watermark /\ v = viewAt[W] /\ R = RowsOf(chunk)
    OBVIOUS
  <2>2. /\ DOMAIN R \subseteq DOMAIN v /\ \A k \in DOMAIN R : R[k] = v[k]
        /\ chunk = Unstaged => DOMAIN v \subseteq DOMAIN staging.rows \cup DOMAIN R
        /\ DOMAIN v \subseteq Scope /\ \A k \in DOMAIN v : v[k] \in Record
    BY <1>1, <2>1, StagedRows
  <2>3. /\ staging.epoch = epoch /\ W <= Watermark
        /\ DOMAIN staging.rows \subseteq DOMAIN v
        /\ \A k \in DOMAIN staging.rows : staging.rows[k] = v[k]
    BY <1>1, <1>2, <2>1 DEF SnapshotKept, StagingTrue
  <2>4. PICK rows : rows = Merge(staging.rows, R)
    OBVIOUS
  <2>5. /\ DOMAIN rows = DOMAIN staging.rows \cup DOMAIN R
        /\ \A k \in DOMAIN rows : rows[k] = v[k]
        /\ rows = [k \in DOMAIN rows |-> rows[k]]
    BY <2>2, <2>3, <2>4 DEF Merge
  <2>6. /\ staging' = [id |-> staging.id, epoch |-> staging.epoch, watermark |-> W, rows |-> rows]
        /\ staging'.id = staging.id /\ staging'.epoch = staging.epoch
        /\ staging'.watermark = W /\ staging'.rows = rows
    BY <1>2, <1>4, <2>1, <2>4 DEF StagingTyped
  <2>7. /\ ServerInv' /\ Watermark' = Watermark /\ Live' = Live
        /\ UNCHANGED <<epoch, nextSeq, records, changes,
                       snapshots, expiredSnaps, agedThrough, viewAt>>
    BY <1>1, ServerRests DEF SyncInv
  <2>8. Shape'
    <3>1. Partial(rows)
      BY <2>2, <2>3, <2>5 DEF Partial
    <3>2. StagingTyped'
      BY <1>2, <2>1, <2>6, <3>1 DEF StagingTyped
    <3>3. pages \in 0..MaxPages /\ pages < MaxPages /\ scan = NoScan /\ page = NoPage
      BY <1>1, <1>2 DEF Turn
    <3>4. pages' \in 0..MaxPages /\ (chunk # Unstaged => pages' < MaxPages)
      BY <1>4, <3>3, SyncLimits
    <3>5. CASE chunk = Unstaged
      <4>1. pc' = "commit"
        BY <1>4, <3>5
      <4>2. Turn'
        BY <1>1, <1>2, <1>4, <3>3, <3>4, <4>1 DEF Turn
      <4>3. QED
        BY <1>1, <1>2, <1>4, <2>7, <3>2, <4>2 DEF Shape, ReplicaTyped
    <3>6. CASE chunk # Unstaged
      <4>1. pc' = "stage" /\ pages' < MaxPages
        BY <1>4, <3>4, <3>6
      <4>2. Turn'
        BY <1>1, <1>2, <1>4, <3>3, <3>4, <4>1 DEF Turn
      <4>3. QED
        BY <1>1, <1>2, <1>4, <2>7, <3>2, <4>2 DEF Shape, ReplicaTyped
    <3>7. QED
      BY <3>5, <3>6
  <2>9. scan = NoScan /\ page = NoPage /\ pc' \in {"stage", "commit"}
    BY <1>1, <1>2, <1>4 DEF Turn
  <2>10. Young' /\ ReplicaOK'
    BY <1>1, <1>2, <1>4, <2>7, <2>9 DEF Young, PassYoung, ReplicaOK, Horizon
  <2>11. StagingAhead'
    <3>1. staging.epoch = replica.epoch =>
             \A k \in DOMAIN rows : Newer(rows[k], k)
      BY <1>1, <2>1, <2>2, <2>3, <2>5, StagedAhead
    <3>2. /\ replica.epoch <= staging.epoch /\ staging.epoch <= epoch
          /\ staging.epoch = replica.epoch => replica.checkpoint <= W
      BY <1>1, <1>2, <2>1 DEF StagingAhead
    <3>3. QED
      BY <1>1, <2>6, <2>7, <3>1, <3>2 DEF StagingAhead, Newer
  <2>12. StagingTrue'
    <3>1. DOMAIN rows \subseteq DOMAIN v /\ (pc' = "commit" => DOMAIN v \subseteq DOMAIN rows)
      BY <1>4, <2>2, <2>3, <2>5
    <3>2. QED
      BY <2>1, <2>3, <2>5, <2>6, <2>7, <3>1 DEF StagingTrue
  <2>13. SnapshotKept'
    BY <1>1, <1>2, <2>1, <2>6, <2>7 DEF SnapshotKept, SnapshotReadable
  <2>14. ScanAhead' /\ ScanTrue' /\ PageAhead' /\ PageTrue'
    BY <2>9 DEF ScanAhead, ScanTrue, PageAhead, PageTrue
  <2>15. QED
    BY <2>7, <2>8, <2>10, <2>11, <2>12, <2>13, <2>14 DEF SyncInv, ClientInv
<1>5. pages \in Nat /\ MaxPages \in Nat
  BY <1>2, SyncLimits DEF Turn
<1>6. QED
  BY <1>3, <1>4, <1>5 DEF StagePage

LEMMA CommitSnapshotInv ==
    ASSUME SyncInv, CommitSnapshot
    PROVE  SyncInv'
<1>1. /\ pc = "commit" /\ UNCHANGED <<serverVars, mishaps, viewAt>>
      /\ replica' = [epoch |-> staging.epoch, checkpoint |-> staging.watermark,
                     pass |-> 0, expired |-> FALSE, rows |-> staging.rows]
  BY DEF CommitSnapshot
<1>2. /\ replica'.epoch = staging.epoch /\ replica'.checkpoint = staging.watermark
      /\ replica'.pass = 0 /\ replica'.expired = FALSE /\ replica'.rows = staging.rows
  BY <1>1
<1>3. ServerInv' /\ Watermark' = Watermark /\ UNCHANGED <<epoch, agedThrough, viewAt>>
  BY <1>1, ServerRests DEF SyncInv
<1>4. StagingTyped /\ Turn /\ StagingAhead /\ StagingTrue /\ epoch \in Nat /\ Watermark \in Nat
  BY DEF SyncInv, ServerInv, ViewsOK, History, StoreOK, IInv, TypeOK, ClientInv, Shape
<1>5. ReplicaTyped'
  <2>1. staging.epoch \in 0..epoch
    BY <1>1, <1>4 DEF StagingAhead, StagingTyped
  <2>2. QED
    BY <1>1, <1>2, <1>3, <1>4, <2>1 DEF ReplicaTyped, StagingTyped
<1>6. PassYoung'
  BY <1>2 DEF PassYoung
<1>7. ReplicaOK'
  <2>1. PICK V, W, rows : V = viewAt /\ W = staging.watermark /\ rows = staging.rows
    OBVIOUS
  <2>2. staging.epoch = epoch =>
          /\ W \in Nat /\ W <= Watermark /\ DOMAIN rows = DOMAIN V[W]
          /\ \A k \in DOMAIN rows : rows[k] = V[W][k]
    BY <1>1, <1>4, <2>1 DEF StagingTrue, StagingTyped
  <2>3. staging.epoch = epoch => Faithful(V, rows, W, W)
    BY <2>2 DEF Faithful, Has
  <2>4. Horizon' = W
    BY <1>2, <2>1 DEF Horizon
  <2>5. QED
    BY <1>2, <1>3, <1>4, <2>1, <2>2, <2>3, <2>4 DEF ReplicaOK
<1>8. mishaps' \in 0..MaxMishaps
  BY <1>1, <1>4 DEF Turn
<1>9. CASE EndCycle
  <2>1. 0 \in 0..MaxPages
    BY SyncLimits
  <2>2. /\ pc' = "idle" /\ pages' = 0 /\ scan' = NoScan /\ resynced' = FALSE
        /\ page' = NoPage /\ staging' = NoStaging
    BY <1>9 DEF EndCycle
  <2>3. Turn'
    BY <1>8, <2>1, <2>2 DEF Turn
  <2>4. QED
    BY <1>3, <1>5, <1>6, <1>7, <2>2, <2>3, BetweenRequests DEF SyncInv
<1>10. CASE /\ pages < MaxPages
            /\ pc' = "changes" /\ resynced' = TRUE /\ staging' = NoStaging
            /\ UNCHANGED <<pages, scan, page>>
  <2>1. pages \in 0..MaxPages /\ scan = NoScan /\ page = NoPage
    BY <1>1, <1>4 DEF Turn
  <2>2. Turn'
    BY <1>8, <1>10, <2>1 DEF Turn
  <2>3. QED
    BY <1>3, <1>5, <1>6, <1>7, <1>10, <2>2, BetweenRequests DEF SyncInv
<1>11. QED
  BY <1>9, <1>10 DEF CommitSnapshot
-----------------------------------------------------------------------------
(***************************************************************************)
(* The first state, and every step.                                        *)
(***************************************************************************)
LEMMA SyncInitInv == SyncInit => SyncInv
<1> SUFFICES ASSUME SyncInit PROVE SyncInv
  OBVIOUS
<1>1. Init /\ IInv
  BY InitInv DEF SyncInit
<1>2. /\ epoch = 1 /\ nextSeq = 1 /\ changes = {} /\ Live = {} /\ tombstones = {}
      /\ DOMAIN snapshots = {} /\ agedThrough = 0 /\ victims = {}
  BY <1>1 DEF Init, Empty, Live
<1>3. Watermark = 0
  BY <1>2 DEF Watermark
<1>4. 0..0 = {0} /\ 0 \in 0..MaxSeq /\ 0 \in 0..MaxPages /\ 0 \in 0..MaxMishaps /\ MaxSeq \in Nat
  BY LimitsNatural, SyncLimits
<1>5. StoreOK /\ SnapsCurrent
  BY <1>1, <1>2, <1>3, <1>4 DEF StoreOK, SnapsCurrent
<1>6. DOMAIN Empty = {} /\ Partial(Empty)
  BY DEF Empty, Partial
<1>7. PICK V : V = viewAt
  OBVIOUS
<1>8. DOMAIN V = {0} /\ V[0] = Empty
  BY <1>7 DEF SyncInit
<1>9. ViewsOK
  <2>1. Typed(V, 0) /\ Lasting(V, 0) /\ OneLife(V, 0)
    BY <1>4, <1>6, <1>8 DEF Typed, Lasting, OneLife
  <2>2. Current /\ Settled /\ EventsTold /\ DeathKnown
    BY <1>2, <1>3, <1>4, <1>6, <1>7, <1>8 DEF Current, Settled, EventsTold, DeathKnown
  <2>3. QED
    BY <1>3, <1>7, <2>1, <2>2 DEF ViewsOK, History
<1>10. /\ replica = NoReplica /\ pc = "idle" /\ pages = 0 /\ scan = NoScan /\ resynced = FALSE
       /\ page = NoPage /\ staging = NoStaging /\ mishaps = 0
  BY DEF SyncInit
<1>11. /\ replica.epoch = 0 /\ replica.checkpoint = 0 /\ replica.pass = 0
       /\ replica.expired = FALSE /\ replica.rows = Empty
  BY <1>10 DEF NoReplica
<1>12. Shape
  <2>1. ReplicaTyped
    BY <1>2, <1>4, <1>6, <1>10, <1>11 DEF ReplicaTyped, NoReplica
  <2>2. scan \in Scan /\ page \in Page
    BY <1>4, <1>10 DEF Scan, Page, NoScan, NoPage
  <2>3. StagingTyped
    BY <1>4, <1>6, <1>10 DEF StagingTyped, NoStaging
  <2>4. Turn
    BY <1>4, <1>10 DEF Turn
  <2>5. QED
    BY <2>1, <2>2, <2>3, <2>4 DEF Shape
<1>13. Young
  BY <1>10, <1>11 DEF Young, PassYoung, NoPage
<1>14. ReplicaOK
  BY <1>2, <1>11 DEF ReplicaOK
<1>15. /\ ScanAhead /\ ScanTrue /\ PageAhead /\ PageTrue
       /\ StagingAhead /\ StagingTrue /\ SnapshotKept
  BY <1>10 DEF ScanAhead, ScanTrue, PageAhead, PageTrue, StagingAhead, StagingTrue, SnapshotKept
<1>16. QED
  BY <1>5, <1>9, <1>12, <1>13, <1>14, <1>15 DEF SyncInv, ServerInv, ClientInv

LEMMA SyncStepInv == SyncInv /\ [SyncNext]_allVars => SyncInv'
<1> SUFFICES ASSUME SyncInv, [SyncNext]_allVars PROVE SyncInv'
  OBVIOUS
<1>1. CASE Cycle
  BY <1>1, StartCycleInv, ScanChangesInv, ResolveRowInv, ReceiveChangesInv, RefusedInv,
     ChangesUnavailableInv, ApplyChangesInv, CaptureSnapshotInv, StagePageInv, CommitSnapshotInv
     DEF Cycle
<1>2. CASE Cancel
  BY <1>2, CancelInv
<1>3. CASE Write
  BY <1>3, WriteInv
<1>4. CASE Housekeeping
  BY <1>4, HousekeepingInv
<1>5. CASE SnapshotExpires
  BY <1>5, SnapshotExpiresInv
<1>6. CASE CursorExpires
  BY <1>6, CursorExpiresInv
<1>7. CASE UNCHANGED allVars
  <2>1. /\ UNCHANGED <<serverVars, viewAt, replica, cycleVars, mishaps>>
        /\ UNCHANGED <<pc, pages, scan, resynced, page, staging>>
    BY <1>7 DEF allVars, clientVars, cycleVars
  <2>2. ServerInv' /\ epoch' = epoch /\ agedThrough' = agedThrough
    BY <2>1, ServerRests DEF SyncInv
  <2>3. ViewsOK' /\ Kept /\ SnapshotsLast
    <3>1. Watermark' = Watermark /\ Live' = Live
          /\ UNCHANGED <<snapshots, expiredSnaps, viewAt>>
      BY <2>1, ServerRests DEF SyncInv
    <3>2. QED
      BY <2>2, <3>1 DEF ServerInv, Kept, Seen, SnapshotsLast
  <2>4. Young' /\ mishaps' \in 0..MaxMishaps
    BY <2>1, <2>2, YoungUnlessAged DEF SyncInv, ClientInv, Shape, Turn
  <2>5. QED
    BY <2>1, <2>2, <2>3, <2>4, ServerGoesOn DEF SyncInv
<1>8. QED
  BY <1>1, <1>2, <1>3, <1>4, <1>5, <1>6, <1>7 DEF SyncNext

(***************************************************************************)
(* In every state, whatever requests, mutations, expiries and cancelled    *)
(* cycles came before it, server and device agree in the sense above.      *)
(***************************************************************************)
THEOREM SyncInvariant == SyncSpec => []SyncInv
BY SyncInitInv, SyncStepInv, PTL DEF SyncSpec

(***************************************************************************)
(* The variables of the device have their types, and a cycle never reads   *)
(* more pages than it may.                                                 *)
(***************************************************************************)
THEOREM SyncTypeCorrect == SyncSpec => []SyncTypeOK
<1>1. SyncInv => SyncTypeOK
  <2> SUFFICES ASSUME SyncInv PROVE SyncTypeOK
    OBVIOUS
  <2>1. /\ ReplicaTyped /\ scan \in Scan /\ StagingTyped /\ Turn /\ ScanAhead
        /\ History(viewAt, Watermark)
    BY DEF SyncInv, ServerInv, ViewsOK, ClientInv, Shape
  <2>2. scan.rows \subseteq Change
    BY <2>1 DEF Scan
  <2>3. \A e \in scan.candidates : e.origin \in 1..scan.last
    <3>1. CASE pc = "resolve"
      BY <2>1, <3>1 DEF ScanAhead, ReplicaTyped, Scan
    <3>2. CASE pc # "resolve"
      BY <2>1, <3>2 DEF Turn, NoScan
    <3>3. QED
      BY <3>1, <3>2
  <2>4. DOMAIN viewAt = 0..(nextSeq - 1)
    BY <2>1 DEF History, Typed, Watermark
  <2>5. /\ replica.epoch \in 0..epoch /\ replica.checkpoint \in 0..MaxSeq
        /\ replica.pass = 0 \/ replica.pass > replica.checkpoint
        /\ replica.expired \in BOOLEAN
        /\ DOMAIN replica.rows \subseteq Scope /\ replica.rows \in [DOMAIN replica.rows -> Record]
        /\ DOMAIN staging.rows \subseteq Scope /\ staging.rows \in [DOMAIN staging.rows -> Record]
    BY <2>1 DEF ReplicaTyped, StagingTyped, Partial
  <2>6. QED
    BY <2>1, <2>2, <2>3, <2>4, <2>5 DEF SyncTypeOK, Turn
<1>2. QED
  BY <1>1, SyncInvariant, PTL

(***************************************************************************)
(* A replica of the current epoch is what the history said at its          *)
(* checkpoint; only within an unfinished pass may it lack, or have an      *)
(* earlier version of, a row that has been deleted meanwhile.              *)
(***************************************************************************)
THEOREM ReplicaFaithful == SyncSpec => []ReplicaAtCheckpoint
<1>1. SyncInv => ReplicaAtCheckpoint
  <2> SUFFICES ASSUME SyncInv, replica.epoch = epoch
               PROVE  /\ DOMAIN replica.rows \subseteq DOMAIN viewAt[replica.checkpoint]
                      /\ \A k \in DOMAIN viewAt[replica.checkpoint] :
                           \/ /\ k \in DOMAIN replica.rows
                              /\ replica.rows[k] = viewAt[replica.checkpoint][k]
                           \/ replica.pass # 0 /\ k \notin Live
    BY DEF ReplicaAtCheckpoint
  <2>1. PICK V, N, C, P : V = viewAt /\ N = Watermark /\ C = replica.checkpoint /\ P = Horizon
    OBVIOUS
  <2>2. /\ Faithful(V, replica.rows, C, P) /\ Settled /\ N \in Nat
        /\ C \in Nat /\ C <= N /\ replica.pass \in Nat /\ replica.pass <= N
        /\ (replica.pass = 0 \/ replica.pass > C)
    BY <2>1 DEF SyncInv, ServerInv, ViewsOK, History, ClientInv, Shape, ReplicaTyped, ReplicaOK
  <2>3. P \in C..N /\ C \in 0..N /\ (C < P => replica.pass # 0)
    BY <2>1, <2>2 DEF Horizon
  <2>4. ASSUME NEW k \in DOMAIN V[C], C < P, ~Has(V, P, k)
        PROVE  replica.pass # 0 /\ k \notin Live
    BY <2>1, <2>2, <2>3, <2>4 DEF Settled, Has
  <2>5. QED
    BY <2>1, <2>2, <2>4 DEF Faithful
<1>2. QED
  BY <1>1, SyncInvariant, PTL

(***************************************************************************)
(* The replica only moves forward.  Both of its writers bring rows that    *)
(* are newer than its own; and what they bring of the current epoch is of  *)
(* the same history as what it has, in which a key keeps its body.         *)
(***************************************************************************)
LEMMA SameBody ==
    ASSUME NEW V, NEW N, History(V, N), NEW m \in 0..N, NEW n \in 0..N, NEW k,
           Has(V, m, k), Has(V, n, k)
    PROVE  V[m][k].body = V[n][k].body
<1>1. m <= n \/ n <= m
  BY DEF History
<1>2. QED
  BY <1>1 DEF History, OneLife, Has

LEMMA StaysForward ==
    ASSUME SyncInv, replica'.epoch = replica.epoch, replica'.checkpoint = replica.checkpoint,
           replica'.rows = replica.rows
    PROVE  MovesForward
<1>1. /\ replica.checkpoint \in Nat
      /\ \A k \in DOMAIN replica.rows : replica.rows[k].revision \in Nat
  BY DEF SyncInv, ClientInv, Shape, ReplicaTyped, Partial, Record
<1>2. QED
  BY <1>1 DEF MovesForward

LEMMA NewerForward ==
    ASSUME SyncInv, NEW rows, NEW cp \in Nat, replica.checkpoint <= cp, Partial(rows),
           \A k \in DOMAIN rows : \/ k \in DOMAIN replica.rows /\ rows[k] = replica.rows[k]
                                  \/ Newer(rows[k], k),
           replica.epoch = epoch =>
              \A k \in DOMAIN rows :
                 \E m \in 0..Watermark : Has(viewAt, m, k) /\ rows[k] = viewAt[m][k],
           replica'.epoch = replica.epoch, replica'.checkpoint = cp, replica'.rows = rows
    PROVE  MovesForward
<1>1. PICK V, N, C, old : /\ V = viewAt /\ N = Watermark
                          /\ C = replica.checkpoint /\ old = replica.rows
  OBVIOUS
<1>2. History(V, N) /\ N \in Nat /\ C \in Nat /\ Partial(old)
  BY <1>1 DEF SyncInv, ServerInv, ViewsOK, History, ClientInv, Shape, ReplicaTyped
<1>3. ASSUME NEW k \in DOMAIN old \cap DOMAIN rows
      PROVE  rows[k].revision >= old[k].revision
  <2>1. rows[k].revision \in Nat /\ old[k].revision \in Nat
    BY <1>2, <1>3 DEF Partial, Record
  <2>2. old[k].revision <= rows[k].revision
    BY <1>1, <1>3, <2>1 DEF Newer
  <2>3. QED
    BY <2>1, <2>2
<1>4. ASSUME NEW k \in DOMAIN old \cap DOMAIN rows, replica.epoch = epoch
      PROVE  rows[k].body = old[k].body
  <2>1. PICK m \in 0..N : Has(V, m, k) /\ rows[k] = V[m][k]
    BY <1>1, <1>4
  <2>2. C <= N /\ \E n \in 0..C : Has(V, n, k) /\ old[k] = V[n][k]
    BY <1>1, <1>4 DEF SyncInv, ClientInv, ReplicaOK, Faithful
  <2>3. PICK n \in 0..N : Has(V, n, k) /\ old[k] = V[n][k]
    BY <1>2, <2>2
  <2>4. QED
    BY <1>2, <2>1, <2>3, SameBody
<1>5. ASSUME NEW k \in DOMAIN rows \ DOMAIN old
      PROVE  rows[k].changeSeq > C
  <2>1. C < rows[k].changeSeq
    BY <1>1, <1>5 DEF Newer
  <2>2. rows[k].changeSeq \in Nat
    BY <1>5 DEF Partial, Record
  <2>3. QED
    BY <1>2, <2>1, <2>2
<1>6. cp >= C
  BY <1>1, <1>2
<1>7. QED
  BY <1>1, <1>3, <1>4, <1>5, <1>6 DEF MovesForward

LEMMA ApplyMovesForward ==
    ASSUME SyncInv, ApplyChanges
    PROVE  MovesForward
<1>1. pc = "apply" /\ page \in Page /\ PageAhead /\ PageTrue /\ Watermark \in Nat
  BY DEF SyncInv, ServerInv, ViewsOK, History, ClientInv, Shape, ApplyChanges
<1>2. PICK rows, cp : rows = RowsAfter(page) /\ cp = page.checkpoint
  OBVIOUS
<1>3. /\ Partial(rows)
      /\ \A k \in DOMAIN rows : \/ k \in DOMAIN replica.rows /\ rows[k] = replica.rows[k]
                                \/ Newer(rows[k], k)
  BY <1>1, <1>2, RowsAfterAhead
<1>4. cp \in Nat /\ replica.checkpoint <= cp /\ cp <= page.watermark /\ page.watermark \in Nat
  BY <1>1, <1>2, LimitsNatural DEF Page, PageAhead
<1>5. /\ replica'.epoch = replica.epoch /\ replica'.checkpoint = cp /\ replica'.rows = rows
  BY <1>2 DEF ApplyChanges
<1>6. ASSUME replica.epoch = epoch, NEW k \in DOMAIN rows
      PROVE  \E m \in 0..Watermark : Has(viewAt, m, k) /\ rows[k] = viewAt[m][k]
  <2>1. page.watermark <= Watermark /\ Faithful(viewAt, rows, cp, page.watermark)
    BY <1>1, <1>2, <1>6 DEF PageTrue
  <2>2. PICK m \in 0..cp : Has(viewAt, m, k) /\ rows[k] = viewAt[m][k]
    BY <1>6, <2>1 DEF Faithful
  <2>3. m \in 0..Watermark
    BY <1>1, <1>4, <2>1
  <2>4. QED
    BY <2>2, <2>3
<1>7. QED
  BY <1>3, <1>4, <1>5, <1>6, NewerForward

LEMMA CommitMovesForward ==
    ASSUME SyncInv, CommitSnapshot
    PROVE  MovesForward
<1>1. /\ pc = "commit" /\ StagingTyped /\ StagingAhead /\ StagingTrue /\ Watermark \in Nat
      /\ replica.epoch \in Nat
  BY DEF SyncInv, ServerInv, ViewsOK, History, StoreOK, IInv, TypeOK, ClientInv, Shape,
         ReplicaTyped, CommitSnapshot
<1>2. PICK rows, W : rows = staging.rows /\ W = staging.watermark
  OBVIOUS
<1>3. replica'.epoch = staging.epoch /\ replica'.checkpoint = W /\ replica'.rows = rows
  BY <1>2 DEF CommitSnapshot
<1>4. staging.epoch \in Nat /\ replica.epoch <= staging.epoch /\ W \in Nat /\ Partial(rows)
  BY <1>1, <1>2, LimitsNatural DEF StagingTyped, StagingAhead
<1>5. CASE staging.epoch = replica.epoch
  <2>1. replica.checkpoint <= W /\ \A k \in DOMAIN rows : Newer(rows[k], k)
    BY <1>1, <1>2, <1>5 DEF StagingAhead
  <2>2. ASSUME replica.epoch = epoch, NEW k \in DOMAIN rows
        PROVE  \E m \in 0..Watermark : Has(viewAt, m, k) /\ rows[k] = viewAt[m][k]
    <3>1. W <= Watermark /\ k \in DOMAIN viewAt[W] /\ rows[k] = viewAt[W][k]
      BY <1>1, <1>2, <1>5, <2>2 DEF StagingTrue
    <3>2. W \in 0..Watermark
      BY <1>1, <1>4, <3>1
    <3>3. QED
      BY <3>1, <3>2 DEF Has
  <2>3. QED
    BY <1>3, <1>4, <1>5, <2>1, <2>2, NewerForward
<1>6. CASE staging.epoch # replica.epoch
  <2>1. staging.epoch > replica.epoch
    BY <1>1, <1>4, <1>6
  <2>2. QED
    BY <1>3, <2>1 DEF MovesForward
<1>7. QED
  BY <1>5, <1>6

(***************************************************************************)
(* No page, snapshot or retry takes the replica back: to an earlier epoch  *)
(* or checkpoint, or a row of it to an earlier version.                    *)
(***************************************************************************)
THEOREM NeverBackwards == SyncSpec => ReplicaMovesForward
<1>1. SyncInv /\ [SyncNext]_allVars => [MovesForward]_allVars
  <2> SUFFICES ASSUME SyncInv, SyncNext PROVE MovesForward
    OBVIOUS
  <2>1. CASE ApplyChanges
    BY <2>1, ApplyMovesForward
  <2>2. CASE CommitSnapshot
    BY <2>2, CommitMovesForward
  <2>3. CASE CursorExpires
    <3>1. /\ replica'.epoch = replica.epoch /\ replica'.checkpoint = replica.checkpoint
          /\ replica'.rows = replica.rows
      BY <2>3 DEF CursorExpires, SyncInv, ClientInv, Shape, ReplicaTyped
    <3>2. QED
      BY <3>1, StaysForward
  <2>4. CASE replica' = replica
    BY <2>4, StaysForward
  <2>5. QED
    BY <2>1, <2>2, <2>3, <2>4
       DEF SyncNext, Cycle, StartCycle, ScanChanges, ResolveRow, ReceiveChanges, RefuseChanges,
           ChangesUnavailable, CaptureSnapshot, CaptureRefused, StagePage, StageRefused, Cancel,
           Write, Housekeeping, SnapshotExpires, clientVars
<1>2. QED
  BY <1>1, SyncInvariant, PTL DEF SyncSpec, ReplicaMovesForward
=============================================================================
