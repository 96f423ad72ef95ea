------------------------- MODULE HistoryStoreProofs -------------------------
(***************************************************************************)
(* Proofs about HistoryStore, for every set of keys, bodies, batches,      *)
(* filters and every value of the limits.                                  *)
(***************************************************************************)
EXTENDS HistoryStore, FiniteSetTheorems, TLAPS
-----------------------------------------------------------------------------
(***************************************************************************)
(* The admission of a batch.                                               *)
(***************************************************************************)

(***************************************************************************)
(* The admissible items are finitely many positions of the batch, each of  *)
(* them a well-formed item.                                                *)
(***************************************************************************)
LEMMA AdmissibleItems ==
    ASSUME NEW b \in Seq(Item)
    PROVE  /\ Admissible(b) \subseteq DOMAIN b
           /\ DOMAIN b \subseteq Nat \ {0}
           /\ \A i \in DOMAIN b : b[i] \in Item
           /\ IsFiniteSet(Admissible(b))
<1>2. /\ Len(b) \in Nat
      /\ DOMAIN b = 1..Len(b)
      /\ \A i \in DOMAIN b : b[i] \in Item
  OBVIOUS
<1>3. Admissible(b) \subseteq DOMAIN b
  BY DEF Admissible
<1>4. IsFiniteSet(1..Len(b))
  BY <1>2, FS_Interval
<1>5. IsFiniteSet(Admissible(b))
  BY <1>2, <1>3, <1>4, FS_Subset
<1>6. QED
  BY <1>2, <1>3, <1>5

(***************************************************************************)
(* Ranks are positive and strictly increasing along the batch, so distinct *)
(* items get distinct sequences.                                           *)
(***************************************************************************)
LEMMA RankIncreases ==
    ASSUME NEW b \in Seq(Item), NEW i \in Admissible(b)
    PROVE  /\ Rank(b, i) \in Nat \ {0}
           /\ \A j \in Admissible(b) : j < i => Rank(b, j) < Rank(b, i)
<1> DEFINE Upto(n) == {j \in Admissible(b) : j <= n}
<1>1. \A n \in Admissible(b) : /\ IsFiniteSet(Upto(n))
                               /\ Cardinality(Upto(n)) \in Nat
                               /\ n \in Upto(n)
  BY AdmissibleItems, FS_Subset, FS_CardinalityType
<1>2. Cardinality(Upto(i)) # 0
  BY <1>1, FS_EmptySet
<1>3. ASSUME NEW j \in Admissible(b), j < i
      PROVE  Cardinality(Upto(j)) < Cardinality(Upto(i))
  <2>1. Upto(j) \subseteq Upto(i)
    BY <1>3, AdmissibleItems
  <2>2. i \notin Upto(j)
    BY <1>3, AdmissibleItems
  <2>3. /\ Cardinality(Upto(j)) <= Cardinality(Upto(i))
        /\ Cardinality(Upto(i)) = Cardinality(Upto(j)) => Upto(i) = Upto(j)
    BY <1>1, <2>1, FS_Subset
  <2>4. Upto(i) # Upto(j)
    BY <1>1, <2>2
  <2>5. Cardinality(Upto(i)) \in Nat /\ Cardinality(Upto(j)) \in Nat
    BY <1>1, <1>3
  <2>6. QED
    BY <2>3, <2>4, <2>5
<1>4. QED
  BY <1>1, <1>2, <1>3 DEF Rank

(***************************************************************************)
(* The stored items are the first admissible ones: finitely many, and none *)
(* ranks above their number.                                               *)
(***************************************************************************)
\* The room left is a number: the keys, and so the fences, are finitely many.
LEMMA RoomInteger ==
    ASSUME recordCount \in Int, tombstones \subseteq Key
    PROVE  Room \in Int
<1>1. MaxRecords \in Nat /\ MaxReserved \in Nat
  BY LimitsNatural
<1>2. Cardinality(tombstones) \in Nat
  BY KeysFinite, FS_Subset, FS_CardinalityType
<1>3. /\ RoomForRows \in Int
      /\ MaxReserved - (recordCount + Cardinality(tombstones)) \in Int
  BY <1>1, <1>2 DEF RoomForRows
<1>4. QED
  BY <1>3 DEF Room, Smaller

LEMMA StoredItems ==
    ASSUME NEW b \in Seq(Item), Room \in Int
    PROVE  /\ Stored(b) \subseteq Admissible(b)
           /\ IsFiniteSet(Stored(b))
           /\ Cardinality(Stored(b)) \in Nat
           /\ \A i \in Stored(b) : Rank(b, i) <= Cardinality(Stored(b))
<1>1. Stored(b) \subseteq Admissible(b)
  BY DEF Stored
<1>2. IsFiniteSet(Stored(b)) /\ Cardinality(Stored(b)) \in Nat
  BY <1>1, AdmissibleItems, FS_Subset, FS_CardinalityType
<1>3. ASSUME NEW i \in Stored(b)
      PROVE  Rank(b, i) <= Cardinality(Stored(b))
  <2>1. ASSUME NEW j \in Admissible(b), j <= i
        PROVE  j \in Stored(b)
    <3>1. Rank(b, j) <= Rank(b, i)
      BY <1>1, <2>1, RankIncreases, AdmissibleItems
    <3>2. QED
      BY <1>1, <2>1, <3>1, RankIncreases DEF Stored
  <2>2. {j \in Admissible(b) : j <= i} \subseteq Stored(b)
    BY <2>1
  <2>3. QED
    BY <1>2, <2>2, FS_Subset DEF Rank
<1>4. QED
  BY <1>1, <1>2, <1>3

(***************************************************************************)
(* One stored item per stored key: the row archiveBatch inserts under a    *)
(* key is the row of that item.                                            *)
(***************************************************************************)
LEMMA StoredKeyItem ==
    ASSUME NEW b \in Seq(Item)
    PROVE  /\ StoredKeys(b) \subseteq Key
           /\ StoredKeys(b) \cap Live = {}
           /\ \A k \in StoredKeys(b) : ~Deleted(k)
           /\ \A i, j \in Stored(b) : b[i].key = b[j].key => i = j
           /\ \A k \in StoredKeys(b) :
                /\ (CHOOSE i \in Stored(b) : b[i].key = k) \in Stored(b)
                /\ b[CHOOSE i \in Stored(b) : b[i].key = k].key = k
<1>1. Stored(b) \subseteq Admissible(b)
  BY DEF Stored
<1>2. \A i \in Stored(b) : b[i].key \in Key
  BY <1>1, AdmissibleItems DEF Item
<1>3. \A i \in Stored(b) : b[i].key \notin Live /\ ~Deleted(b[i].key)
  BY <1>1 DEF Admissible
<1>4. ASSUME NEW i \in Stored(b), NEW j \in Stored(b), b[i].key = b[j].key
      PROVE  i = j
  <2>1. i \in Nat \ {0} /\ j \in Nat \ {0}
    BY <1>1, AdmissibleItems
  <2>2. i < j => i \in 1..(j - 1)
    BY <2>1
  <2>3. j < i => j \in 1..(i - 1)
    BY <2>1
  <2>4. QED
    BY <1>1, <1>4, <2>1, <2>2, <2>3 DEF Admissible
<1>5. \A k \in StoredKeys(b) : \E i \in Stored(b) : b[i].key = k
  BY DEF StoredKeys
<1>6. QED
  BY <1>2, <1>3, <1>4, <1>5 DEF StoredKeys
-----------------------------------------------------------------------------
(***************************************************************************)
(* Something of finitely many that are numbered comes first.               *)
(***************************************************************************)
LEMMA Lowest ==
    ASSUME NEW S, IsFiniteSet(S), S # {}, NEW f \in [S -> Nat]
    PROVE  \E m \in S : \A n \in S : f[m] <= f[n]
<1>1. PICK below : below = [m \in S |-> {n \in S : f[n] <= f[m]}]
  OBVIOUS
<1>2. PICK T : T = {below[m] : m \in S}
  OBVIOUS
<1>3. T # {} /\ T \subseteq FiniteSubsetsOf(S)
  <2>1. ASSUME NEW m \in S
        PROVE  below[m] \in SUBSET S /\ IsFiniteSet(below[m])
    <3>1. below[m] \in SUBSET S
      BY <1>1
    <3>2. QED
      BY <3>1, FS_Subset
  <2>2. QED
    BY <1>2, <2>1 DEF FiniteSubsetsOf
<1>4. PICK U \in T : \A V \in T : ~(<<V, U>> \in StrictSubsetOrdering(S))
  BY <1>3, WFMin, FS_StrictSubsetOrderingWellFounded, Zenon
<1>5. PICK m \in S : U = below[m]
  BY <1>2
<1>6. ASSUME NEW n \in S, f[n] < f[m]
      PROVE  FALSE
  <2>1. below[n] \subseteq below[m] /\ m \in below[m] /\ m \notin below[n]
    BY <1>1, <1>6
  <2>2. <<below[n], below[m]>> \in StrictSubsetOrdering(S)
    BY <1>1, <2>1 DEF StrictSubsetOrdering
  <2>3. QED
    BY <1>2, <1>4, <1>5, <2>2
<1>7. QED
  BY <1>6
-----------------------------------------------------------------------------
(***************************************************************************)
(* The inductive invariant.  DeletionFence and UpsertRetained are not      *)
(* inductive alone: archiving a key is harmless only if no upsert of a     *)
(* former life of the key is left in the log (LogAccounted), a new event   *)
(* must be new (LogBelowNext), and what a retention pass selected before   *)
(* other transactions ran must still spare the live rows when its own      *)
(* transaction deletes it (VictimsStale, VictimsSpareLive).                *)
(***************************************************************************)
LogBelowNext == \A c \in changes : c.seq < nextSeq
LogUnique == \A c, d \in changes : c.seq = d.seq => c = d
LogAccounted == \A c \in changes : c.key \in Live \cup tombstones
VictimsStale == \A n \in victims : n < nextSeq
VictimsSpareLive ==
    \A c \in changes : c.seq \in victims /\ c.kind = "upsert" => c.key \notin Live

LogInv == /\ DeletionFence
          /\ UpsertRetained
          /\ LogBelowNext
          /\ LogUnique
          /\ LogAccounted
          /\ VictimsStale
          /\ VictimsSpareLive

IInv == TypeOK /\ LogInv

(***************************************************************************)
(* The part of TypeOK an action disturbs when it touches the owner's rows, *)
(* the idempotency rows, or the snapshots.                                 *)
(***************************************************************************)
OwnerType == /\ epoch \in Nat \ {0}
             /\ nextSeq \in Nat \ {0}
             /\ recordCount \in Int
             /\ Live \subseteq Key
             /\ records \in [Live -> Record]
             /\ tombstones \subseteq Key
             /\ changes \subseteq Change
IdemType == /\ DOMAIN idem \subseteq IdemKey
            /\ idem \in [DOMAIN idem -> [request : Request, result : Result]]
            /\ expiredIdem \subseteq DOMAIN idem
SnapType == /\ DOMAIN snapshots \subseteq SnapId
            /\ snapshots \in [DOMAIN snapshots -> Snapshot]
            /\ expiredSnaps \subseteq DOMAIN snapshots
PurgeType == agedThrough \in Nat /\ victims \subseteq Nat

LEMMA InitInv == Init => IInv
<1> SUFFICES ASSUME Init PROVE IInv
  OBVIOUS
<1>1. TypeOK
  BY DEF Init, TypeOK, Live, Empty
<1>2. LogInv
  BY DEF Init, LogInv, DeletionFence, UpsertRetained, LogBelowNext, LogUnique, LogAccounted,
         VictimsStale, VictimsSpareLive, ChangesOf, Live, Empty
<1>3. QED
  BY <1>1, <1>2 DEF IInv

(***************************************************************************)
(* Remembering a well-formed result keeps the idempotency rows well-formed.*)
(***************************************************************************)
LEMMA RememberType ==
    ASSUME IdemType, NEW ik \in IdemKey \cup {NoIdem},
           NEW q \in Request, NEW r \in Result, Remember(ik, q, r)
    PROVE  IdemType'
<1>1. CASE ik = NoIdem
  BY <1>1 DEF Remember, idemVars, IdemType
<1>2. CASE ik # NoIdem
  <2>1. /\ ik \in IdemKey
        /\ idem' = With(Without(idem, expiredIdem), ik, [request |-> q, result |-> r])
        /\ expiredIdem' = {}
    BY <1>2 DEF Remember
  <2>2. QED
    BY <2>1 DEF IdemType, With, Without
<1>3. QED
  BY <1>1, <1>2

LEMMA InvalidatedType ==
    ASSUME SnapType, NEW S, snapshots' = Invalidated(S), UNCHANGED expiredSnaps
    PROVE  SnapType'
BY DEF SnapType, Invalidated, Snapshot
-----------------------------------------------------------------------------
(***************************************************************************)
(* archiveBatch preserves the invariant: the stored keys are neither live  *)
(* nor fenced, so no change of theirs is in the log, and each gets one     *)
(* upsert with a sequence of its own.                                      *)
(***************************************************************************)
LEMMA ArchiveInv ==
    ASSUME IInv, NEW e, NEW b \in Seq(Item), ArchiveBatch(e, b)
    PROVE  IInv'
<1> USE DEF IInv
<1>1. Room \in Int
  BY RoomInteger DEF TypeOK
<1>2. \A i \in Stored(b) :
         /\ b[i] \in Item
         /\ ItemSeq(b, i) \in Nat
         /\ nextSeq <= ItemSeq(b, i)
         /\ ItemSeq(b, i) < nextSeq + Cardinality(Stored(b))
  <2> SUFFICES ASSUME NEW i \in Stored(b)
               PROVE  /\ b[i] \in Item
                      /\ ItemSeq(b, i) \in Nat
                      /\ nextSeq <= ItemSeq(b, i)
                      /\ ItemSeq(b, i) < nextSeq + Cardinality(Stored(b))
    OBVIOUS
  <2>1. i \in Admissible(b) /\ b[i] \in Item
    BY <1>1, StoredItems, AdmissibleItems
  <2>2. Rank(b, i) \in Nat \ {0} /\ Rank(b, i) <= Cardinality(Stored(b))
    BY <1>1, <2>1, StoredItems, RankIncreases
  <2>3. QED
    BY <1>1, <2>1, <2>2, StoredItems DEF ItemSeq, TypeOK
<1>3. Cardinality(Stored(b)) \in Nat
  BY <1>1, StoredItems
<1>4. \A i \in Stored(b) : RowOf(b, i) \in Record /\ UpsertOf(b, i) \in Change
  BY <1>2 DEF RowOf, UpsertOf, Record, Change, Item, InitialState, DeliveryState
<1>5. /\ Live' = Live \cup StoredKeys(b)
      /\ \A k \in Live : records'[k] = records[k]
      /\ \A k \in StoredKeys(b) : \E i \in Stored(b) : records'[k] = RowOf(b, i)
  BY StoredKeyItem DEF ArchiveBatch, Live
<1>6. OwnerType'
  <2>1. records' \in [Live' -> Record]
    BY <1>4, <1>5 DEF ArchiveBatch, Live, TypeOK
  <2>2. changes' \subseteq Change
    BY <1>4 DEF ArchiveBatch, TypeOK
  <2>3. Live' \subseteq Key
    BY <1>5, StoredKeyItem DEF TypeOK
  <2>4. QED
    BY <1>3, <2>1, <2>2, <2>3 DEF ArchiveBatch, TypeOK, OwnerType
<1>7. TypeOK'
  BY <1>6 DEF ArchiveBatch, OwnerType, TypeOK, idemVars, snapVars, purgeVars
<1>8. \A k \in StoredKeys(b) : k \notin Live /\ k \notin tombstones
  BY StoredKeyItem DEF Deleted
<1>9. \A k \in StoredKeys(b) : \A c \in changes : c.key # k
  BY <1>8 DEF LogInv, LogAccounted
<1>10. \A c \in changes' : c \in changes \/ \E i \in Stored(b) : c = UpsertOf(b, i)
  BY DEF ArchiveBatch
<1>11. \A i \in Stored(b) : /\ UpsertOf(b, i).key = b[i].key
                             /\ UpsertOf(b, i).kind = "upsert"
                             /\ UpsertOf(b, i).seq = ItemSeq(b, i)
                             /\ b[i].key \in StoredKeys(b)
  BY DEF UpsertOf, StoredKeys
<1>12. DeletionFence'
  BY <1>5, <1>8, <1>10, <1>11 DEF DeletionFence, LogInv, ArchiveBatch
<1>13. UpsertRetained'
  <2> SUFFICES ASSUME NEW k \in Live'
               PROVE  \E c \in changes' :
                        /\ c.key = k /\ c.kind = "upsert"
                        /\ \A d \in changes' : d.key = k /\ d.kind = "upsert" => d = c
    BY DEF UpsertRetained, ChangesOf
  <2>1. CASE k \in Live
    <3>1. PICK c \in changes :
            /\ c.key = k /\ c.kind = "upsert"
            /\ \A d \in changes : d.key = k /\ d.kind = "upsert" => d = c
      BY <2>1 DEF LogInv, UpsertRetained, ChangesOf
    <3>2. \A d \in changes' : d.key = k => d \in changes
      BY <1>8, <1>10, <1>11, <2>1
    <3>3. c \in changes'
      BY DEF ArchiveBatch
    <3>4. QED
      BY <3>1, <3>2, <3>3
  <2>2. CASE k \in StoredKeys(b)
    <3>1. PICK i \in Stored(b) : b[i].key = k
      BY <2>2 DEF StoredKeys
    <3>2. UpsertOf(b, i) \in changes'
      BY DEF ArchiveBatch
    <3>3. ASSUME NEW d \in changes', d.key = k
          PROVE  d = UpsertOf(b, i)
      <4>1. PICK j \in Stored(b) : d = UpsertOf(b, j)
        BY <1>9, <1>10, <2>2, <3>3
      <4>2. j = i
        BY <1>11, <3>1, <3>3, <4>1, StoredKeyItem
      <4>3. QED
        BY <4>1, <4>2
    <3>4. QED
      BY <1>11, <3>1, <3>2, <3>3
  <2>3. QED
    BY <1>5, <2>1, <2>2
<1>14. LogBelowNext'
  <2>1. nextSeq' = nextSeq + Cardinality(Stored(b))
    BY DEF ArchiveBatch
  <2>2. \A c \in changes : c.seq \in Nat /\ c.seq < nextSeq
    BY DEF LogInv, LogBelowNext, TypeOK, Change
  <2>3. QED
    BY <1>2, <1>3, <1>10, <1>11, <2>1, <2>2 DEF LogBelowNext, TypeOK
<1>15. LogUnique'
  <2> SUFFICES ASSUME NEW c \in changes', NEW d \in changes', c.seq = d.seq
               PROVE  c = d
    BY DEF LogUnique
  <2>1. \A x \in changes : x.seq \in Nat /\ x.seq < nextSeq
    BY DEF LogInv, LogBelowNext, TypeOK, Change
  <2>2. CASE c \in changes \/ d \in changes
    BY <1>2, <1>10, <1>11, <2>1, <2>2 DEF LogInv, LogUnique, TypeOK
  <2>3. CASE c \notin changes /\ d \notin changes
    <3>1. PICK i \in Stored(b), j \in Stored(b) :
            c = UpsertOf(b, i) /\ d = UpsertOf(b, j)
      BY <1>10, <2>3
    <3>2. ItemSeq(b, i) = ItemSeq(b, j)
      BY <1>11, <3>1
    <3>3. /\ i \in Admissible(b) /\ j \in Admissible(b)
          /\ i \in Nat /\ j \in Nat
      BY <1>1, StoredItems, AdmissibleItems
    <3>4. Rank(b, i) = Rank(b, j)
      BY <3>2, <3>3, RankIncreases DEF ItemSeq, TypeOK
    <3>5. i = j
      BY <3>3, <3>4, RankIncreases
    <3>6. QED
      BY <3>1, <3>5
  <2>4. QED
    BY <2>2, <2>3
<1>16. LogAccounted'
  BY <1>5, <1>10, <1>11 DEF LogAccounted, LogInv, ArchiveBatch
<1>17. VictimsStale' /\ VictimsSpareLive'
  <2>1. victims' = victims /\ nextSeq' = nextSeq + Cardinality(Stored(b))
    BY DEF ArchiveBatch, purgeVars
  <2>2. VictimsStale'
    BY <1>3, <2>1 DEF VictimsStale, LogInv, TypeOK
  <2>3. \A i \in Stored(b) : UpsertOf(b, i).seq \notin victims
    BY <1>2, <1>11 DEF VictimsStale, LogInv, TypeOK
  <2>4. QED
    BY <1>5, <1>9, <1>10, <2>1, <2>2, <2>3 DEF VictimsSpareLive, LogInv
<1>18. QED
  BY <1>7, <1>12, <1>13, <1>14, <1>15, <1>16, <1>17 DEF LogInv

(***************************************************************************)
(* patchState adds one state event to a live key and moves nothing else    *)
(* the invariant speaks of.                                                *)
(***************************************************************************)
LEMMA PatchInv ==
    ASSUME IInv, NEW k \in Key, NEW st \in DeliveryState, NEW r \in Nat,
           NEW ik \in IdemKey \cup {NoIdem}, PatchApplied(k, st, r, ik)
    PROVE  IInv'
<1> USE DEF IInv
<1>1. k \in Live /\ records[k] \in Record /\ r \in Nat /\ st \in DeliveryState
  BY DEF PatchApplied, PatchAllowed, TypeOK
<1>2. Live' = Live
  BY DEF PatchApplied, Live
<1>3. StateEvent(k, st) \in Change
  BY <1>1 DEF StateEvent, Change, Record, TypeOK
<1>4. OwnerType'
  <2>1. records' \in [Live' -> Record]
    BY <1>1, <1>2 DEF PatchApplied, Record, TypeOK
  <2>2. QED
    BY <1>2, <1>3, <2>1 DEF PatchApplied, OwnerType, TypeOK
<1>5. IdemType'
  <2>1. PatchRequest(k, st, r) \in Request
    BY <1>1 DEF PatchRequest, Request
  <2>2. [revision |-> records[k].revision + 1, sequence |-> nextSeq] \in Result
    <3>1. records[k].revision + 1 \in Nat /\ nextSeq \in Nat
      BY <1>1 DEF Record, TypeOK
    <3>2. QED
      BY <3>1 DEF Result
  <2>3. QED
    BY <2>1, <2>2, RememberType DEF PatchApplied, IdemType, TypeOK
<1>6. TypeOK'
  BY <1>4, <1>5 DEF PatchApplied, OwnerType, IdemType, TypeOK, snapVars, purgeVars
<1>7. /\ changes' = changes \cup {StateEvent(k, st)}
      /\ StateEvent(k, st).kind = "state"
      /\ StateEvent(k, st).key = k
      /\ StateEvent(k, st).seq = nextSeq
      /\ nextSeq' = nextSeq + 1
      /\ tombstones' = tombstones
      /\ victims' = victims
  BY DEF PatchApplied, StateEvent, purgeVars
<1>8. DeletionFence'
  BY <1>2, <1>7 DEF DeletionFence, LogInv
<1>9. UpsertRetained'
  BY <1>2, <1>7 DEF UpsertRetained, ChangesOf, LogInv
<1>10. LogBelowNext'
  BY <1>7 DEF LogBelowNext, LogInv, TypeOK, Change
<1>11. LogUnique'
  BY <1>7 DEF LogUnique, LogBelowNext, LogInv, TypeOK, Change
<1>12. LogAccounted'
  BY <1>1, <1>2, <1>7 DEF LogAccounted, LogInv
<1>13. VictimsStale' /\ VictimsSpareLive'
  BY <1>2, <1>7 DEF VictimsStale, VictimsSpareLive, LogInv, TypeOK
<1>14. QED
  BY <1>6, <1>8, <1>9, <1>10, <1>11, <1>12, <1>13 DEF LogInv

(***************************************************************************)
(* The mutations that change idempotency rows only.                        *)
(***************************************************************************)
LEMMA IdemOnlyInv ==
    ASSUME IInv, IdemType', UNCHANGED <<ownerVars, snapVars, purgeVars, epochBase>>
    PROVE  IInv'
<1>1. TypeOK'
  BY DEF IInv, TypeOK, IdemType, ownerVars, snapVars, purgeVars, Live
<1>2. LogInv'
  BY DEF IInv, LogInv, DeletionFence, UpsertRetained, LogBelowNext, LogUnique, LogAccounted,
         VictimsStale, VictimsSpareLive, ChangesOf, Live, ownerVars, purgeVars
<1>3. QED
  BY <1>1, <1>2 DEF IInv

LEMMA DedupedInv ==
    ASSUME IInv, NEW k \in Key, NEW st \in DeliveryState, NEW r \in Nat,
           NEW ik \in IdemKey, PatchDeduped(k, st, r, ik)
    PROVE  IInv'
<1>1. k \in Live /\ records[k] \in Record /\ r \in Nat /\ st \in DeliveryState
  BY DEF PatchDeduped, PatchAllowed, IInv, TypeOK
<1>2. PatchRequest(k, st, r) \in Request
  BY <1>1 DEF PatchRequest, Request
<1>3. [revision |-> records[k].revision, sequence |-> records[k].changeSeq] \in Result
  BY <1>1 DEF Result, Record
<1>4. IdemType'
  BY <1>2, <1>3, RememberType DEF PatchDeduped, IdemType, IInv, TypeOK
<1>5. QED
  BY <1>4, IdemOnlyInv DEF PatchDeduped

LEMMA DeleteNothingInv ==
    ASSUME IInv, NEW k \in Key, NEW ik \in IdemKey \cup {NoIdem}, DeleteNothing(k, ik)
    PROVE  IInv'
<1>1. DeleteRequest(k) \in Request /\ [deleted |-> FALSE, epoch |-> epoch] \in Result
  BY DEF DeleteRequest, Request, Result, IInv, TypeOK
<1>2. IdemType'
  BY <1>1, RememberType DEF DeleteNothing, IdemType, IInv, TypeOK
<1>3. QED
  BY <1>2, IdemOnlyInv DEF DeleteNothing

LEMMA ReplayInv ==
    ASSUME IInv, NEW ik \in IdemKey, NEW q, Replay(ik, q)
    PROVE  IInv'
<1>1. IdemType'
  BY DEF Replay, Without, IdemType, IInv, TypeOK
<1>2. QED
  BY <1>1, IdemOnlyInv DEF Replay

(***************************************************************************)
(* deleteRecord moves the key from the live rows to the fences.            *)
(***************************************************************************)
LEMMA DeleteInv ==
    ASSUME IInv, NEW k \in Key, NEW ik \in IdemKey \cup {NoIdem}, DeleteRecord(k, ik)
    PROVE  IInv'
<1> USE DEF IInv
<1> DEFINE gone == [seq |-> nextSeq, key |-> k, kind |-> "delete",
                    version |-> 1, state |-> "none"]
<1>1. /\ Live' = Live \ {k}
      /\ \A j \in Live' : records'[j] = records[j]
      /\ changes' = changes \cup {gone}
      /\ tombstones' = tombstones \cup {k}
      /\ nextSeq' = nextSeq + 1
      /\ victims' = victims
  BY DEF DeleteRecord, Without, Live, purgeVars
<1>2. gone \in Change
  BY DEF Change, TypeOK
<1>3. OwnerType'
  <2>1. records' \in [Live' -> Record]
    <3>1. records' = [j \in Live' |-> records[j]]
      BY <1>1 DEF DeleteRecord, Without, Live
    <3>2. \A j \in Live' : records[j] \in Record
      BY <1>1 DEF TypeOK
    <3>3. QED
      BY <3>1, <3>2
  <2>2. epoch' = epoch /\ recordCount' \in Int
    BY DEF DeleteRecord, TypeOK
  <2>3. Live' \subseteq Key /\ tombstones' \subseteq Key
    BY <1>1 DEF TypeOK
  <2>4. changes' \subseteq Change
    BY <1>1, <1>2 DEF TypeOK
  <2>5. nextSeq' \in Nat \ {0} /\ epoch' \in Nat \ {0}
    BY <1>1, <2>2 DEF TypeOK
  <2>6. QED
    BY <2>1, <2>2, <2>3, <2>4, <2>5 DEF OwnerType
<1>4. IdemType'
  <2>1. /\ DeleteRequest(k) \in Request
        /\ [deleted |-> TRUE, sequence |-> nextSeq, epoch |-> epoch] \in Result
    BY DEF DeleteRequest, Request, Result, TypeOK
  <2>2. QED
    BY <2>1, RememberType DEF DeleteRecord, IdemType, TypeOK
<1>5. SnapType'
  BY InvalidatedType DEF DeleteRecord, SnapType, TypeOK
<1>6. TypeOK'
  BY <1>3, <1>4, <1>5
     DEF DeleteRecord, OwnerType, IdemType, SnapType, TypeOK, purgeVars
<1>7. DeletionFence'
  BY <1>1 DEF DeletionFence, LogInv
<1>8. UpsertRetained'
  BY <1>1 DEF UpsertRetained, ChangesOf, LogInv
<1>9. LogBelowNext'
  BY <1>1 DEF LogBelowNext, LogInv, TypeOK, Change
<1>10. LogUnique'
  BY <1>1 DEF LogUnique, LogBelowNext, LogInv, TypeOK, Change
<1>11. LogAccounted'
  BY <1>1 DEF LogAccounted, LogInv
<1>12. VictimsStale' /\ VictimsSpareLive'
  BY <1>1 DEF VictimsStale, VictimsSpareLive, LogInv, TypeOK
<1>13. QED
  BY <1>6, <1>7, <1>8, <1>9, <1>10, <1>11, <1>12 DEF LogInv

(***************************************************************************)
(* deleteAll empties what the invariant speaks of; the sequence stays, so  *)
(* a selection made in the old epoch cannot meet an event of the new one.  *)
(***************************************************************************)
LEMMA DeleteAllInv ==
    ASSUME IInv, NEW x \in 0..MaxEpoch, NEW ik \in IdemKey \cup {NoIdem},
           DeleteAll(x, ik)
    PROVE  IInv'
<1> USE DEF IInv
<1>1. /\ Live' = {} /\ records' \in [{} -> Record]
      /\ changes' = {} /\ tombstones' = {}
      /\ nextSeq' = nextSeq /\ victims' = victims
  BY DEF DeleteAll, Wipe, Empty, Live, purgeVars
<1>2. OwnerType'
  BY <1>1 DEF DeleteAll, Wipe, OwnerType, TypeOK
<1>3. IdemType'
  <2>1. x \in Nat /\ epoch + 1 \in Nat
    BY LimitsNatural DEF TypeOK
  <2>2. [op |-> "deleteAll", expected |-> x] \in Request
    BY <2>1 DEF Request
  <2>3. [epoch |-> epoch + 1] \in Result
    BY <2>1 DEF Result
  <2>4. QED
    BY <2>2, <2>3, RememberType DEF DeleteAll, IdemType, TypeOK
<1>4. SnapType'
  BY InvalidatedType DEF DeleteAll, SnapType, TypeOK
<1>5. TypeOK'
  BY <1>1, <1>2, <1>3, <1>4
     DEF DeleteAll, OwnerType, IdemType, SnapType, TypeOK, purgeVars
<1>6. LogInv'
  BY <1>1 DEF LogInv, DeletionFence, UpsertRetained, LogBelowNext, LogUnique, LogAccounted,
              VictimsStale, VictimsSpareLive
<1>7. QED
  BY <1>5, <1>6

(***************************************************************************)
(* Snapshots are captured and purged beside the rows and the log.          *)
(***************************************************************************)
LEMMA SnapOnlyInv ==
    ASSUME IInv, SnapType', UNCHANGED <<ownerVars, idemVars, purgeVars, epochBase>>
    PROVE  IInv'
<1>1. TypeOK'
  BY DEF IInv, TypeOK, SnapType, ownerVars, idemVars, purgeVars, Live
<1>2. LogInv'
  BY DEF IInv, LogInv, DeletionFence, UpsertRetained, LogBelowNext, LogUnique, LogAccounted,
         VictimsStale, VictimsSpareLive, ChangesOf, Live, ownerVars, purgeVars
<1>3. QED
  BY <1>1, <1>2 DEF IInv

LEMMA CreateSnapshotInv ==
    ASSUME IInv, NEW id \in SnapId, NEW f \in Filter, CreateSnapshot(id, f)
    PROVE  IInv'
<1> DEFINE items == {MemberOf(c.key) : c \in JoinedUpserts(f)}
           snap  == [status |-> "active", epoch |-> epoch, filter |-> f,
                     watermark |-> Watermark, items |-> items]
<1>1. \A c \in JoinedUpserts(f) : MemberOf(c.key) \in Member
  BY DEF JoinedUpserts, MemberOf, Member, Record, IInv, TypeOK
<1>2. items \subseteq Member
  BY <1>1
<1>3. Watermark \in Nat /\ epoch \in Nat
  BY DEF Watermark, IInv, TypeOK
<1>4. snap \in Snapshot
  BY <1>2, <1>3 DEF Snapshot
<1>5. snapshots' = With(snapshots, id, snap) /\ UNCHANGED expiredSnaps
  BY DEF CreateSnapshot
<1>6. SnapType'
  BY <1>4, <1>5 DEF With, SnapType, IInv, TypeOK
<1>7. QED
  BY <1>6, SnapOnlyInv DEF CreateSnapshot

LEMMA PurgeSnapshotInv ==
    ASSUME IInv, NEW id \in SnapId, PurgeSnapshotItems(id) \/ PurgeSnapshotRow(id)
    PROVE  IInv'
<1>1. CASE PurgeSnapshotItems(id)
  <2>1. PICK chunk \in SUBSET snapshots[id].items :
          snapshots' = [snapshots EXCEPT ![id].items = @ \ chunk]
    BY <1>1 DEF PurgeSnapshotItems
  <2>2. id \in DOMAIN snapshots /\ UNCHANGED expiredSnaps
    BY <1>1 DEF PurgeSnapshotItems
  <2>3. [snapshots[id] EXCEPT !.items = @ \ chunk] \in Snapshot
    BY <2>2 DEF Snapshot, IInv, TypeOK
  <2>4. SnapType'
    BY <2>1, <2>2, <2>3 DEF SnapType, IInv, TypeOK
  <2>5. QED
    BY <1>1, <2>4, SnapOnlyInv DEF PurgeSnapshotItems
<1>2. CASE PurgeSnapshotRow(id)
  <2>1. SnapType'
    BY <1>2 DEF PurgeSnapshotRow, Without, SnapType, IInv, TypeOK
  <2>2. QED
    BY <1>2, <2>1, SnapOnlyInv DEF PurgeSnapshotRow
<1>3. QED
  BY <1>1, <1>2

(***************************************************************************)
(* Retention.  The selection is of due changes, so no upsert of a live row *)
(* is in it, and none can come into it afterwards.                         *)
(***************************************************************************)
LEMMA SelectVictimsInv ==
    ASSUME IInv, SelectVictims
    PROVE  IInv'
<1>1. \A n \in victims' : \E c \in Due : n = c.seq
  BY DEF SelectVictims
<1>2. UNCHANGED <<ownerVars, idemVars, snapVars, agedThrough, epochBase>>
  BY DEF SelectVictims
<1>3. \A n \in victims' : n \in Nat /\ n < nextSeq
  BY <1>1 DEF Due, Change, IInv, TypeOK, LogInv, LogBelowNext
<1>4. TypeOK'
  BY <1>2, <1>3 DEF IInv, TypeOK, ownerVars, idemVars, snapVars, Live
<1>5. /\ DeletionFence' /\ UpsertRetained'
      /\ LogBelowNext' /\ LogUnique' /\ LogAccounted'
  BY <1>2 DEF IInv, LogInv, DeletionFence, UpsertRetained, LogBelowNext,
              LogUnique, LogAccounted, ChangesOf, Live, ownerVars
<1>6. VictimsStale'
  BY <1>2, <1>3 DEF VictimsStale, ownerVars
<1>7. VictimsSpareLive'
  <2> SUFFICES ASSUME NEW c \in changes, c.seq \in victims', c.kind = "upsert"
               PROVE  c.key \notin Live
    BY <1>2 DEF VictimsSpareLive, ownerVars, Live
  <2>1. PICK d \in Due : c.seq = d.seq
    BY <1>1
  <2>2. d \in changes /\ (d.kind = "upsert" => d.key \notin Live)
    BY DEF Due
  <2>3. c = d
    BY <2>1, <2>2 DEF IInv, LogInv, LogUnique
  <2>4. QED
    BY <2>2, <2>3
<1>8. QED
  BY <1>4, <1>5, <1>6, <1>7 DEF IInv, LogInv

LEMMA PurgeVictimsInv ==
    ASSUME IInv, PurgeVictims
    PROVE  IInv'
<1>1. /\ changes' \subseteq changes
      /\ \A c \in changes : c.seq \notin victims => c \in changes'
      /\ victims' = {}
      /\ Live' = Live
      /\ UNCHANGED <<epoch, nextSeq, recordCount, records, tombstones,
                     idemVars, snapVars, agedThrough, epochBase>>
  BY DEF PurgeVictims, Live
<1>2. TypeOK'
  BY <1>1 DEF IInv, TypeOK, idemVars, snapVars
<1>3. DeletionFence' /\ LogBelowNext' /\ LogUnique' /\ LogAccounted'
  BY <1>1 DEF IInv, LogInv, DeletionFence, LogBelowNext, LogUnique, LogAccounted
<1>4. UpsertRetained'
  BY <1>1 DEF IInv, LogInv, UpsertRetained, VictimsSpareLive, ChangesOf
<1>5. VictimsStale' /\ VictimsSpareLive'
  BY <1>1 DEF VictimsStale, VictimsSpareLive
<1>6. QED
  BY <1>2, <1>3, <1>4, <1>5 DEF IInv, LogInv

LEMMA ClockInv ==
    ASSUME IInv, Clock
    PROVE  IInv'
<1>1. /\ UNCHANGED <<ownerVars, idem, snapshots, victims, epochBase>>
      /\ agedThrough' \in Nat
      /\ expiredSnaps' \subseteq DOMAIN snapshots
      /\ expiredIdem' \subseteq DOMAIN idem
  BY DEF Clock, AgeChanges, AgeSnapshot, AgeIdempotency, Unexpired, IInv, TypeOK,
         ownerVars, idemVars, snapVars, purgeVars
<1>2. TypeOK'
  BY <1>1 DEF IInv, TypeOK, ownerVars, Live
<1>3. LogInv'
  BY <1>1 DEF IInv, LogInv, DeletionFence, UpsertRetained, LogBelowNext, LogUnique, LogAccounted,
              VictimsStale, VictimsSpareLive, ChangesOf, Live, ownerVars
<1>4. QED
  BY <1>2, <1>3 DEF IInv

LEMMA StutterInv ==
    ASSUME IInv, UNCHANGED vars
    PROVE  IInv'
<1>1. IdemType' /\ UNCHANGED <<ownerVars, snapVars, purgeVars, epochBase>>
  BY DEF vars, idemVars, IdemType, IInv, TypeOK
<1>2. QED
  BY <1>1, IdemOnlyInv

(***************************************************************************)
(* Every step preserves the invariant.                                     *)
(***************************************************************************)
LEMMA StepInv == IInv /\ [Next]_vars => IInv'
<1> SUFFICES ASSUME IInv, [Next]_vars PROVE IInv'
  OBVIOUS
<1>1. CASE Mutate
  BY <1>1, ArchiveInv, DedupedInv, PatchInv, DeleteNothingInv, DeleteInv,
     DeleteAllInv, ReplayInv, BatchType, NewStateType, LimitsNatural DEF Mutate
<1>2. CASE Capture
  BY <1>2, CreateSnapshotInv DEF Capture
<1>3. CASE Cleanup
  BY <1>3, PurgeSnapshotInv, SelectVictimsInv, PurgeVictimsInv DEF Cleanup
<1>4. CASE Clock
  BY <1>4, ClockInv
<1>5. CASE UNCHANGED vars
  BY <1>5, StutterInv
<1>6. QED
  BY <1>1, <1>2, <1>3, <1>4, <1>5 DEF Next

THEOREM InductiveInvariant == Spec => []IInv
BY InitInv, StepInv, PTL DEF Spec

(***************************************************************************)
(* The store is well typed in every reachable state.                       *)
(***************************************************************************)
THEOREM TypeCorrect == Spec => []TypeOK
<1>1. IInv => TypeOK
  BY DEF IInv
<1>2. QED
  BY <1>1, InductiveInvariant, PTL

(***************************************************************************)
(* Deletion wins, whatever retention, retries and rotation do: a fenced    *)
(* key is never live, and no delete event is without its fence.            *)
(***************************************************************************)
THEOREM DeletionWins == Spec => []DeletionFence
<1>1. IInv => DeletionFence
  BY DEF IInv, LogInv
<1>2. QED
  BY <1>1, InductiveInvariant, PTL

(***************************************************************************)
(* Retention never takes the upsert of a live row, although it chooses its *)
(* victims outside the transaction that deletes them.                      *)
(***************************************************************************)
THEOREM LiveUpsertsKept == Spec => []UpsertRetained
<1>1. IInv => UpsertRetained
  BY DEF IInv, LogInv
<1>2. QED
  BY <1>1, InductiveInvariant, PTL
-----------------------------------------------------------------------------
(***************************************************************************)
(* What a mutation leaves of the rows.  Within an epoch fences stay, and a *)
(* row keeps its body or is fenced; only delete-all ends the epoch.  The   *)
(* clients that rely on the store (sending, inbound passes) cite these.    *)
(***************************************************************************)
HistoryGoesOn ==
    /\ epoch' = epoch
    /\ tombstones \subseteq tombstones'
    /\ \A k \in Live : \/ k \in tombstones'
                       \/ k \in Live' /\ records'[k].body = records[k].body
HistoryEnds == epoch' = epoch + 1

(***************************************************************************)
(* A batch of one item that is stored found neither row nor fence of its   *)
(* key and leaves the row with the item's body and state.                  *)
(***************************************************************************)
LEMMA OneItemStored ==
    ASSUME IInv, NEW e, NEW it \in Item, Stored(<<it>>) # {}, ArchiveBatch(e, <<it>>)
    PROVE  /\ IInv' /\ HistoryGoesOn /\ UNCHANGED idem
           /\ e = epoch
           /\ it.key \notin Live /\ it.key \notin tombstones
           /\ Live' = Live \cup {it.key}
           /\ \A k \in Live : records'[k] = records[k]
           /\ records'[it.key].body = it.body
           /\ records'[it.key].state = it.state
<1>1. <<it>> \in Seq(Item)
  OBVIOUS
<1>2. PICK b \in Seq(Item) : b = <<it>>
  BY <1>1
<1>3. DOMAIN b = {1} /\ b[1] = it
  BY <1>2
<1>4. Stored(b) = {1}
  BY <1>2, <1>3 DEF Stored, Admissible
<1>5. StoredKeys(b) = {it.key}
  BY <1>3, <1>4 DEF StoredKeys
<1>6. it.key \notin Live /\ ~Deleted(it.key)
  BY <1>5, StoredKeyItem
<1>7. (CHOOSE i \in Stored(b) : b[i].key = it.key) = 1
  BY <1>4, <1>5, StoredKeyItem
<1>8. ArchiveBatch(e, b)
  BY <1>2
<1>9. /\ Live' = Live \cup {it.key}
      /\ \A k \in Live : records'[k] = records[k]
      /\ records'[it.key] = RowOf(b, 1)
  BY <1>5, <1>6, <1>7, <1>8 DEF ArchiveBatch, Live
<1>10. records'[it.key].body = it.body /\ records'[it.key].state = it.state
  BY <1>3, <1>9 DEF RowOf
<1>11. IInv' /\ e = epoch /\ UNCHANGED <<epoch, tombstones, idem>>
  BY <1>8, ArchiveInv DEF ArchiveBatch, idemVars
<1>12. QED
  BY <1>6, <1>9, <1>10, <1>11 DEF HistoryGoesOn, Deleted

LEMMA PatchGoesOn ==
    ASSUME NEW k \in Key, NEW st \in DeliveryState, NEW r \in Nat,
           NEW ik \in IdemKey \cup {NoIdem}, IInv, PatchApplied(k, st, r, ik)
    PROVE  /\ IInv' /\ HistoryGoesOn
           /\ k \in Live /\ Live' = Live
           /\ records'[k].state = st
           /\ \A j \in Live : j # k => records'[j] = records[j]
<1>1. k \in Live /\ records[k] \in Record
  BY DEF PatchApplied, PatchAllowed, IInv, TypeOK
<1>2. Live' = Live /\ UNCHANGED <<epoch, tombstones>>
  BY DEF PatchApplied, Live
<1>3. /\ records'[k].state = st /\ records'[k].body = records[k].body
      /\ \A j \in Live : j # k => records'[j] = records[j]
  BY <1>1 DEF PatchApplied, Record, IInv, TypeOK
<1>4. QED
  BY <1>1, <1>2, <1>3, PatchInv DEF HistoryGoesOn

LEMMA DeleteGoesOn ==
    ASSUME IInv, NEW k \in Key, DeleteRecord(k, NoIdem)
    PROVE  /\ IInv' /\ HistoryGoesOn /\ UNCHANGED idem
           /\ \A j \in Live' : j \in Live /\ records'[j] = records[j]
<1>1. IInv'
  BY DeleteInv
<1>2. /\ UNCHANGED <<epoch, idem>> /\ tombstones' = tombstones \cup {k}
      /\ Live' = Live \ {k} /\ \A j \in Live' : records'[j] = records[j]
  BY DEF DeleteRecord, Without, Live, Remember, idemVars
<1>3. QED
  BY <1>1, <1>2 DEF HistoryGoesOn

LEMMA DeleteAllEnds ==
    ASSUME IInv, DeleteAll(0, NoIdem)
    PROVE  IInv' /\ HistoryEnds /\ UNCHANGED idem /\ Live' = {}
<1>1. IInv'
  BY DeleteAllInv, LimitsNatural
<1>2. QED
  BY <1>1 DEF DeleteAll, Wipe, Empty, Live, HistoryEnds, Remember, idemVars
-----------------------------------------------------------------------------
(***************************************************************************)
(* What a mutation adds to the log lies between the old and the new        *)
(* next_sequence; everything else adds nothing and moves no sequence.      *)
(***************************************************************************)
LEMMA MutateAppends ==
    ASSUME IInv, Mutate
    PROVE  AppendsOnly
<1> USE DEF IInv
<1>1. ASSUME NEW e, NEW b \in Seq(Item), ArchiveBatch(e, b)
      PROVE  AppendsOnly
  <2>1. Cardinality(tombstones) \in Nat
    BY KeysFinite, FS_Subset, FS_CardinalityType DEF TypeOK
  <2>2. Room \in Int
    BY RoomInteger DEF TypeOK
  <2>3. Cardinality(Stored(b)) \in Nat
    BY <2>2, StoredItems
  <2>4. ASSUME NEW i \in Stored(b)
        PROVE  /\ nextSeq <= ItemSeq(b, i)
               /\ ItemSeq(b, i) < nextSeq + Cardinality(Stored(b))
    <3>1. i \in Admissible(b)
      BY <2>2, StoredItems
    <3>2. Rank(b, i) \in Nat \ {0} /\ Rank(b, i) <= Cardinality(Stored(b))
      BY <2>2, <3>1, StoredItems, RankIncreases
    <3>3. QED
      BY <2>3, <3>2 DEF ItemSeq, TypeOK
  <2>5. \A c \in changes' \ changes : \E i \in Stored(b) : c.seq = ItemSeq(b, i)
    BY <1>1 DEF ArchiveBatch, UpsertOf
  <2>6. nextSeq' = nextSeq + Cardinality(Stored(b))
    BY <1>1 DEF ArchiveBatch
  <2>7. QED
    BY <2>3, <2>4, <2>5, <2>6 DEF AppendsOnly, TypeOK
<1>2. ASSUME NEW k, NEW st, NEW r, NEW ik,
             PatchDeduped(k, st, r, ik) \/ DeleteNothing(k, ik) \/ Replay(ik, r)
      PROVE  AppendsOnly
  BY <1>2 DEF PatchDeduped, DeleteNothing, Replay, ownerVars, AppendsOnly, TypeOK
<1>3. ASSUME NEW k, NEW st, NEW r, NEW ik, PatchApplied(k, st, r, ik)
      PROVE  AppendsOnly
  BY <1>3 DEF PatchApplied, StateEvent, AppendsOnly, TypeOK
<1>4. ASSUME NEW k, NEW ik, DeleteRecord(k, ik)
      PROVE  AppendsOnly
  BY <1>4 DEF DeleteRecord, AppendsOnly, TypeOK
<1>5. ASSUME NEW x, NEW ik, DeleteAll(x, ik)
      PROVE  AppendsOnly
  BY <1>5 DEF DeleteAll, Wipe, AppendsOnly, TypeOK
<1>6. QED
  BY <1>1, <1>2, <1>3, <1>4, <1>5, BatchType DEF Mutate

(***************************************************************************)
(* Sequences are never reused, across epochs and retention passes alike.   *)
(***************************************************************************)
THEOREM SequencesNeverReused == Spec => LogAppendOnly
<1>1. IInv /\ [Next]_vars => [AppendsOnly]_vars
  <2> SUFFICES ASSUME IInv, Next PROVE AppendsOnly
    OBVIOUS
  <2>1. CASE Mutate
    BY <2>1, MutateAppends
  <2>2. CASE Capture \/ Cleanup \/ Clock
    <3>1. nextSeq' = nextSeq /\ changes' \subseteq changes
      BY <2>2 DEF Capture, CreateSnapshot, Cleanup, PurgeSnapshotItems,
         PurgeSnapshotRow, SelectVictims, PurgeVictims, Clock, AgeChanges,
         AgeSnapshot, AgeIdempotency, ownerVars
    <3>2. QED
      BY <3>1 DEF AppendsOnly, IInv, TypeOK
  <2>3. QED
    BY <2>1, <2>2 DEF Next
<1>2. QED
  BY <1>1, InductiveInvariant, PTL DEF Spec, LogAppendOnly
-----------------------------------------------------------------------------
(***************************************************************************)
(* The quotas.  Ranks number the stored items from 1, so there are at most *)
(* Room of them, and there is one key for each.                            *)
(***************************************************************************)
LEMMA StoredCount ==
    ASSUME NEW b \in Seq(Item), Room \in Int
    PROVE  /\ Stored(b) # {} => Cardinality(Stored(b)) <= Room
           /\ IsFiniteSet(StoredKeys(b))
           /\ Cardinality(StoredKeys(b)) = Cardinality(Stored(b))
<1>1. ASSUME Stored(b) # {}
      PROVE  Cardinality(Stored(b)) <= Room
  <2> DEFINE number == [i \in Stored(b) |-> Rank(b, i)]
  <2>1. \A i \in Stored(b) : /\ i \in Admissible(b) /\ i \in Nat
                             /\ Rank(b, i) \in 1..Room
    BY StoredItems, AdmissibleItems, RankIncreases DEF Stored
  <2>2. number \in [Stored(b) -> 1..Room]
    BY <2>1
  <2>3. \A i, j \in Stored(b) : number[i] = number[j] => i = j
    BY <2>1, RankIncreases
  <2>4. number \in Injection(Stored(b), 1..Room)
    BY <2>2, <2>3 DEF Injection, IsInjective
  <2>5. 1 \in 1..Room
    BY <1>1, <2>1
  <2>6. IsFiniteSet(1..Room) /\ Cardinality(1..Room) = Room
    BY <2>5, FS_Interval
  <2>7. QED
    BY <2>4, <2>6, FS_Injection
<1>2. IsFiniteSet(StoredKeys(b)) /\ Cardinality(StoredKeys(b)) = Cardinality(Stored(b))
  <2> DEFINE keyOf == [i \in Stored(b) |-> b[i].key]
  <2>1. keyOf \in Bijection(Stored(b), StoredKeys(b))
    BY StoredKeyItem DEF StoredKeys, Bijection, Injection, Surjection, IsInjective
  <2>2. ExistsBijection(Stored(b), StoredKeys(b))
    BY <2>1 DEF ExistsBijection
  <2>3. QED
    BY <2>2, StoredItems, FS_Bijection
<1>3. QED
  BY <1>1, <1>2

LEMMA QuotaStep ==
    ASSUME IInv, QuotaRespected, [Next]_vars
    PROVE  QuotaRespected'
<1> USE DEF IInv
<1>0. /\ IsFiniteSet(Live) /\ IsFiniteSet(tombstones)
      /\ Cardinality(Live) \in Nat /\ Cardinality(tombstones) \in Nat
  BY KeysFinite, FS_Subset, FS_CardinalityType DEF TypeOK
<1>1. ASSUME NEW e, NEW b \in Seq(Item), ArchiveBatch(e, b)
      PROVE  QuotaRespected'
  <2>1. Room \in Int
    BY RoomInteger DEF TypeOK
  <2>2. Cardinality(Stored(b)) \in Nat
    BY <2>1, StoredItems
  <2>3. Live' = Live \cup StoredKeys(b) /\ Live \cap StoredKeys(b) = {}
    BY <1>1, StoredKeyItem DEF ArchiveBatch, Live
  <2>4. Cardinality(Live') = Cardinality(Live) + Cardinality(Stored(b))
    <3>1. /\ IsFiniteSet(StoredKeys(b))
          /\ Cardinality(StoredKeys(b)) = Cardinality(Stored(b))
      BY <2>1, StoredCount
    <3>2. Cardinality(Live \cap StoredKeys(b)) = 0
      BY <2>3, FS_EmptySet
    <3>3. Cardinality(Live \cup StoredKeys(b)) =
            Cardinality(Live) + Cardinality(StoredKeys(b))
              - Cardinality(Live \cap StoredKeys(b))
      BY <1>0, <3>1, FS_Union
    <3>4. QED
      BY <1>0, <2>2, <2>3, <3>1, <3>2, <3>3
  <2>5. recordCount' = recordCount + Cardinality(Stored(b)) /\ tombstones' = tombstones
    BY <1>1 DEF ArchiveBatch
  <2>6. CASE Stored(b) = {}
    BY <1>0, <2>4, <2>5, <2>6, FS_EmptySet DEF QuotaRespected
  <2>7. CASE Stored(b) # {}
    <3>1. Cardinality(Stored(b)) <= Room
      BY <2>1, <2>7, StoredCount
    <3>2. /\ MaxRecords \in Int /\ MaxReserved \in Int /\ recordCount \in Int
          /\ Cardinality(tombstones) \in Int /\ Cardinality(Stored(b)) \in Int
      BY <1>0, <2>2, LimitsNatural DEF TypeOK
    <3>3. /\ Room <= MaxRecords - recordCount
          /\ Room <= MaxReserved - (recordCount + Cardinality(tombstones))
      BY <3>2 DEF Room, RoomForRows, Smaller
    <3>4. /\ recordCount + Cardinality(Stored(b)) <= MaxRecords
          /\ recordCount + Cardinality(Stored(b)) + Cardinality(tombstones) <= MaxReserved
      BY <2>1, <3>1, <3>2, <3>3
    <3>5. recordCount' = Cardinality(Live')
      BY <2>4, <2>5 DEF QuotaRespected
    <3>6. QED
      BY <2>5, <3>4, <3>5 DEF QuotaRespected
  <2>8. QED
    BY <2>6, <2>7
<1>2. ASSUME NEW k \in Key, NEW ik, DeleteRecord(k, ik)
      PROVE  QuotaRespected'
  <2>1. Live' = Live \ {k} /\ tombstones' = tombstones \cup {k}
    BY <1>2 DEF DeleteRecord, Without, Live
  <2>2. recordCount' = IF k \in Live THEN recordCount - 1 ELSE recordCount
    BY <1>2 DEF DeleteRecord
  <2>3. Cardinality(Live') = IF k \in Live THEN Cardinality(Live) - 1
                                           ELSE Cardinality(Live)
    BY <1>0, <2>1, FS_RemoveElement
  <2>4. Cardinality(tombstones') = IF k \in tombstones THEN Cardinality(tombstones)
                                   ELSE Cardinality(tombstones) + 1
    BY <1>0, <2>1, FS_AddElement
  <2>5. CASE k \in Live
    <3>1. k \notin tombstones
      BY <2>5 DEF LogInv, DeletionFence
    <3>2. QED
      BY <1>0, <2>2, <2>3, <2>4, <2>5, <3>1, LimitsNatural DEF QuotaRespected, TypeOK
  <2>6. CASE k \notin Live
    <3>1. k \in tombstones
      BY <1>2, <2>6 DEF DeleteRecord, Existed, ChangesOf, LogInv, LogAccounted
    <3>2. QED
      BY <1>0, <2>2, <2>3, <2>4, <2>6, <3>1 DEF QuotaRespected
  <2>7. QED
    BY <2>5, <2>6
<1>3. ASSUME NEW x, NEW ik, DeleteAll(x, ik)
      PROVE  QuotaRespected'
  <2>1. Live' = {} /\ tombstones' = {} /\ recordCount' = 0
    BY <1>3 DEF DeleteAll, Wipe, Empty, Live
  <2>2. QED
    BY <2>1, FS_EmptySet, LimitsNatural DEF QuotaRespected
<1>4. ASSUME NEW k, NEW st, NEW r, NEW ik, PatchApplied(k, st, r, ik)
      PROVE  QuotaRespected'
  BY <1>4 DEF PatchApplied, Live, QuotaRespected
<1>5. ASSUME UNCHANGED <<records, recordCount, tombstones>>
      PROVE  QuotaRespected'
  BY <1>5 DEF Live, QuotaRespected
<1>6. CASE Mutate
  <2>1. ASSUME NEW k, NEW st, NEW r, NEW ik,
               PatchDeduped(k, st, r, ik) \/ DeleteNothing(k, ik) \/ Replay(ik, r)
        PROVE  QuotaRespected'
    BY <1>5, <2>1 DEF PatchDeduped, DeleteNothing, Replay, ownerVars
  <2>2. QED
    BY <1>1, <1>2, <1>3, <1>4, <1>6, <2>1, BatchType DEF Mutate
<1>7. CASE Capture \/ Cleanup \/ Clock \/ UNCHANGED vars
  BY <1>5, <1>7 DEF Capture, CreateSnapshot, Cleanup, PurgeSnapshotItems,
     PurgeSnapshotRow, SelectVictims, PurgeVictims, Clock, AgeChanges,
     AgeSnapshot, AgeIdempotency, ownerVars, vars
<1>8. QED
  BY <1>6, <1>7 DEF Next

(***************************************************************************)
(* The counter is exact and both quotas hold, for every limit and batch.   *)
(***************************************************************************)
THEOREM QuotasHold == Spec => []QuotaRespected
<1>1. Init => QuotaRespected
  BY FS_EmptySet, LimitsNatural DEF Init, Empty, Live, QuotaRespected
<1>2. QED
  BY <1>1, InductiveInvariant, QuotaStep, PTL DEF Spec
-----------------------------------------------------------------------------
(***************************************************************************)
(* The repository implements OwnerHistory: every step maps to one abstract *)
(* step or to a stutter.                                                   *)
(***************************************************************************)
LEMMA PromiseInit == Init => Promise!Init
BY DEF Init, Promise!Init, Empty, Live

LEMMA ArchiveImplements ==
    ASSUME IInv, NEW e, NEW b \in Seq(Item), ArchiveBatch(e, b),
           NEW K, K = StoredKeys(b)
    PROVE  Promise!Store(K)
<1>1. /\ Live' = Live \cup StoredKeys(b)
      /\ \A k \in Live : records'[k] = records[k]
      /\ \A k \in StoredKeys(b) : \E i \in Stored(b) : records'[k] = RowOf(b, i)
  BY StoredKeyItem DEF ArchiveBatch, Live
<1>2. \A i \in Stored(b) : /\ RowOf(b, i).body \in Body
                            /\ RowOf(b, i).state \in InitialState
  <2> SUFFICES ASSUME NEW i \in Stored(b)
               PROVE  /\ RowOf(b, i).body \in Body
                      /\ RowOf(b, i).state \in InitialState
    OBVIOUS
  <2>1. b[i] \in Item
    BY AdmissibleItems DEF Stored
  <2>2. QED
    BY <2>1 DEF RowOf, Item
<1>3. \A k \in StoredKeys(b) :
        records'[k].body \in Body /\ records'[k].state \in InitialState
  BY <1>1, <1>2
<1>4. StoredKeys(b) \cap (Live \cup tombstones) = {}
  BY StoredKeyItem DEF Deleted
<1>5. UNCHANGED <<epoch, tombstones>>
  BY DEF ArchiveBatch
<1>6. QED
  BY <1>1, <1>3, <1>4, <1>5
     DEF Promise!Store, Promise!InitialState, InitialState

LEMMA PatchImplements ==
    ASSUME IInv, NEW k \in Key, NEW st \in DeliveryState, NEW r, NEW ik,
           PatchApplied(k, st, r, ik)
    PROVE  Promise!SetState(k, st)
<1>1. k \in Live /\ records \in [Live -> Record] /\ Live' = Live
  BY DEF PatchApplied, PatchAllowed, IInv, TypeOK, Live
<1>2. /\ records'[k].body = records[k].body /\ records'[k].state = st
      /\ \A j \in Live \ {k} : records'[j] = records[j]
  BY <1>1 DEF PatchApplied, Record
<1>3. records[k].state = "accepted" => st = "accepted"
  BY DEF PatchApplied, PatchAllowed
<1>4. UNCHANGED <<epoch, tombstones>>
  BY DEF PatchApplied
<1>5. QED
  BY <1>1, <1>2, <1>3, <1>4 DEF Promise!SetState

LEMMA DeleteImplements ==
    ASSUME IInv, NEW k \in Key, NEW ik, DeleteRecord(k, ik)
    PROVE  Promise!Remove(k)
<1>1. k \in Live \cup tombstones
  BY DEF DeleteRecord, Existed, ChangesOf, IInv, LogInv, LogAccounted
<1>2. /\ Live' = Live \ {k}
      /\ \A j \in Live' : records'[j] = records[j]
      /\ tombstones' = tombstones \cup {k} /\ epoch' = epoch
  BY DEF DeleteRecord, Without, Live
<1>3. QED
  BY <1>1, <1>2 DEF Promise!Remove

LEMMA DeleteAllImplements ==
    ASSUME NEW x, NEW ik, DeleteAll(x, ik)
    PROVE  Promise!Clear
BY DEF DeleteAll, Wipe, Empty, Live, Promise!Clear

LEMMA OthersStutter ==
    ASSUME UNCHANGED <<epoch, records, tombstones>>
    PROVE  UNCHANGED Promise!vars
BY DEF Promise!vars, Live

(***************************************************************************)
(* Bodies are written once, accepted is final and deletion wins until the  *)
(* epoch rotates: the detailed store implements its abstract promise.      *)
(***************************************************************************)
THEOREM StoreKeepsPromise == Spec => KeepsPromise
<1>1. IInv /\ [Next]_vars => [Promise!Next]_(Promise!vars)
  <2> SUFFICES ASSUME IInv, [Next]_vars
               PROVE  Promise!Next \/ UNCHANGED Promise!vars
    OBVIOUS
  <2>1. ASSUME NEW e, NEW b \in Seq(Item), ArchiveBatch(e, b)
        PROVE  Promise!Next
    <3>1. PICK K \in SUBSET Key : K = StoredKeys(b)
      BY StoredKeyItem
    <3>2. Promise!Store(K)
      BY <2>1, <3>1, ArchiveImplements
    <3>3. QED
      BY <3>2 DEF Promise!Next
  <2>2. ASSUME NEW k \in Key, NEW st \in DeliveryState, NEW r, NEW ik,
               PatchApplied(k, st, r, ik)
        PROVE  Promise!Next
    BY <2>2, PatchImplements
       DEF Promise!Next, Promise!DeliveryState, DeliveryState
  <2>3. ASSUME NEW k \in Key, NEW ik, DeleteRecord(k, ik)
        PROVE  Promise!Next
    BY <2>3, DeleteImplements DEF Promise!Next
  <2>4. ASSUME NEW x, NEW ik, DeleteAll(x, ik)
        PROVE  Promise!Next
    BY <2>4, DeleteAllImplements DEF Promise!Next
  <2>5. ASSUME NEW k, NEW st, NEW r, NEW ik,
               PatchDeduped(k, st, r, ik) \/ DeleteNothing(k, ik) \/ Replay(ik, r)
        PROVE  UNCHANGED Promise!vars
    BY <2>5, OthersStutter DEF PatchDeduped, DeleteNothing, Replay, ownerVars
  <2>6. CASE Mutate
    BY <2>1, <2>2, <2>3, <2>4, <2>5, <2>6, BatchType, NewStateType DEF Mutate
  <2>7. CASE Capture \/ Cleanup \/ Clock \/ UNCHANGED vars
    BY <2>7, OthersStutter DEF Capture, CreateSnapshot, Cleanup,
       PurgeSnapshotItems, PurgeSnapshotRow, SelectVictims, PurgeVictims, Clock,
       AgeChanges, AgeSnapshot, AgeIdempotency, ownerVars, vars
  <2>8. QED
    BY <2>6, <2>7 DEF Next
<1>2. QED
  BY <1>1, PromiseInit, InductiveInvariant, PTL DEF Spec, KeepsPromise, Promise!Spec
-----------------------------------------------------------------------------
(***************************************************************************)
(* What HistoryStore tells its clients, for every set of keys, bodies,     *)
(* batches and every value of the limits: the change log has no unnoticed  *)
(* hole and its last word on a key is the row, versions move with the log, *)
(* replayed results are true, and snapshots are exact.                     *)
(*                                                                         *)
(* On top of IInv this takes what a row says of its own events             *)
(* (RowsAtLog), what the events of a deleted key end in (GoneEndInDelete), *)
(* and that a retention pass which takes a delete event also takes all     *)
(* that came before it (VictimsDownward).                                  *)
(***************************************************************************)
VictimsAged == \A n \in victims : n <= agedThrough

VictimsDownward ==
    \A c, d \in changes :
        (c.seq \in victims /\ c.kind = "delete" /\ d.key = c.key /\ d.seq <= c.seq)
            => d.seq \in victims

RowsAtLog ==
    \A k \in Live :
        /\ records[k].changeSeq < nextSeq
        /\ \A c \in ChangesOf(k) :
              /\ c.seq <= records[k].changeSeq
              /\ c.seq = records[k].changeSeq =>
                    c.version = records[k].revision /\ c.state = records[k].state
        /\ records[k].changeSeq > agedThrough =>
              \E c \in ChangesOf(k) : c.seq = records[k].changeSeq

GoneEndInDelete ==
    \A c \in changes : c.key \notin Live =>
        \E d \in ChangesOf(c.key) :
            d.kind = "delete" /\ \A x \in ChangesOf(c.key) : x.seq <= d.seq

RowLogInv ==
    /\ VictimsAged /\ VictimsDownward
    /\ RowsAtLog /\ GoneEndInDelete
    /\ RetainedSuffix
-----------------------------------------------------------------------------
(***************************************************************************)
(* The sequences a batch is given are consecutive: ranks number the stored *)
(* items from 1 to their number and leave none out.                        *)
(***************************************************************************)
LEMMA RanksExhaust ==
    ASSUME NEW b \in Seq(Item), Room \in Int,
           NEW r \in 1..Cardinality(Stored(b))
    PROVE  \E i \in Stored(b) : Rank(b, i) = r
<1> DEFINE N == Cardinality(Stored(b))
           number == [i \in Stored(b) |-> Rank(b, i)]
<1>1. N \in Nat /\ IsFiniteSet(Stored(b))
  BY StoredItems
<1>2. \A i \in Stored(b) : i \in Admissible(b) /\ i \in Nat /\ Rank(b, i) \in 1..N
  BY <1>1, StoredItems, AdmissibleItems, RankIncreases
<1>3. number \in [Stored(b) -> 1..N]
  BY <1>2
<1>4. \A i, j \in Stored(b) : number[i] = number[j] => i = j
  BY <1>2, RankIncreases
<1>5. number \in Injection(Stored(b), 1..N)
  BY <1>3, <1>4 DEF Injection, IsInjective
<1>6. IsFiniteSet(1..N) /\ Cardinality(1..N) = N
  BY <1>1, FS_Interval
<1>7. number \in Surjection(Stored(b), 1..N)
  BY <1>5, <1>6, FS_Injection
<1>8. QED
  BY <1>7 DEF Surjection

LEMMA RoomIsInt == IInv => Room \in Int
BY RoomInteger DEF IInv, TypeOK

(***************************************************************************)
(* What archiveBatch adds, as the invariants of the log see it.            *)
(***************************************************************************)
LEMMA ArchiveRows ==
    ASSUME IInv, NEW e, NEW b \in Seq(Item), ArchiveBatch(e, b)
    PROVE  /\ Live \subseteq Live'
           /\ \A k \in Live : records'[k] = records[k]
           /\ \A k \in Live' \ Live :
                 /\ k \notin tombstones
                 /\ \A c \in changes : c.key # k
                 /\ \E i \in Stored(b) : UpsertOf(b, i).key = k /\ records'[k] = RowOf(b, i)
<1>1. /\ Live' = Live \cup StoredKeys(b)
      /\ \A k \in Live : records'[k] = records[k]
      /\ \A k \in StoredKeys(b) :
            records'[k] = IF k \in Live THEN records[k]
                          ELSE RowOf(b, CHOOSE i \in Stored(b) : b[i].key = k)
  BY DEF ArchiveBatch, Live
<1>2. ASSUME NEW k \in StoredKeys(b)
      PROVE  /\ k \notin tombstones
             /\ \A c \in changes : c.key # k
             /\ \E i \in Stored(b) : UpsertOf(b, i).key = k /\ records'[k] = RowOf(b, i)
  <2>1. k \notin Live /\ k \notin tombstones
    BY <1>2, StoredKeyItem DEF Deleted
  <2>2. \A c \in changes : c.key # k
    BY <2>1 DEF IInv, LogInv, LogAccounted
  <2>3. PICK i \in Stored(b) : b[i].key = k /\ records'[k] = RowOf(b, i)
    BY <1>1, <2>1, StoredKeyItem
  <2>4. QED
    BY <2>1, <2>2, <2>3 DEF UpsertOf
<1>3. QED
  BY <1>1, <1>2

LEMMA ArchiveLog ==
    ASSUME IInv, NEW e, NEW b \in Seq(Item), ArchiveBatch(e, b)
    PROVE  /\ nextSeq' \in Nat /\ nextSeq <= nextSeq'
           /\ changes' = changes \cup {UpsertOf(b, i) : i \in Stored(b)}
           /\ \A i \in Stored(b) :
                 /\ ItemSeq(b, i) \in Nat
                 /\ nextSeq <= ItemSeq(b, i) /\ ItemSeq(b, i) < nextSeq'
                 /\ b[i].key \in Live' \ Live
                 /\ \A j \in Stored(b) : b[i].key = b[j].key => i = j
           /\ \A n \in nextSeq..(nextSeq' - 1) : \E c \in changes' : c.seq = n
<1>0. /\ changes' = changes \cup {UpsertOf(b, i) : i \in Stored(b)}
      /\ nextSeq' = nextSeq + Cardinality(Stored(b))
  BY DEF ArchiveBatch
<1>1. Room \in Int /\ Cardinality(Stored(b)) \in Nat /\ nextSeq \in Nat
  BY RoomIsInt, StoredItems DEF IInv, TypeOK
<1>2. ASSUME NEW i \in Stored(b)
      PROVE  /\ ItemSeq(b, i) \in Nat
             /\ nextSeq <= ItemSeq(b, i) /\ ItemSeq(b, i) < nextSeq'
             /\ b[i].key \in Live' \ Live
             /\ \A j \in Stored(b) : b[i].key = b[j].key => i = j
  <2>1. Rank(b, i) \in Nat \ {0} /\ Rank(b, i) <= Cardinality(Stored(b))
    BY <1>1, StoredItems, RankIncreases
  <2>2. /\ ItemSeq(b, i) \in Nat
        /\ nextSeq <= ItemSeq(b, i) /\ ItemSeq(b, i) < nextSeq'
    BY <1>0, <1>1, <2>1 DEF ItemSeq
  <2>3. b[i].key \in Live' \ Live
    BY StoredKeyItem DEF ArchiveBatch, Live, StoredKeys
  <2>4. \A j \in Stored(b) : b[i].key = b[j].key => i = j
    BY StoredKeyItem
  <2>5. QED
    BY <2>2, <2>3, <2>4
<1>3. ASSUME NEW n \in nextSeq..(nextSeq' - 1)
      PROVE  \E c \in changes' : c.seq = n
  <2>1. n - nextSeq + 1 \in 1..Cardinality(Stored(b)) /\ n \in Nat
    BY <1>0, <1>1
  <2>2. PICK i \in Stored(b) : Rank(b, i) = n - nextSeq + 1
    BY <1>1, <2>1, RanksExhaust
  <2>3. UpsertOf(b, i).seq = n
    BY <1>1, <2>1, <2>2 DEF UpsertOf, ItemSeq
  <2>4. QED
    BY <1>0, <2>3
<1>4. QED
  BY <1>0, <1>1, <1>2, <1>3
-----------------------------------------------------------------------------
(***************************************************************************)
(* The actions, one by one.                                                *)
(***************************************************************************)
LEMMA RowTypes ==
    IInv => /\ nextSeq \in Nat /\ agedThrough \in Nat /\ victims \subseteq Nat
            /\ \A k \in Live : records[k] \in Record
            /\ \A k \in Live : records[k].changeSeq \in Nat /\ records[k].revision \in Nat
            /\ \A c \in changes : c.seq \in Nat /\ c.seq < nextSeq
BY DEF IInv, TypeOK, Record, Change, LogInv, LogBelowNext

LEMMA InitRowLog == Init => RowLogInv
BY DEF Init, RowLogInv, VictimsAged, VictimsDownward, RowsAtLog, GoneEndInDelete,
       RetainedSuffix, Live, Empty

LEMMA ArchiveRowLog ==
    ASSUME IInv, IInv', RowLogInv, NEW e, NEW b \in Seq(Item), ArchiveBatch(e, b)
    PROVE  RowLogInv'
<1>1. /\ victims' = victims /\ agedThrough' = agedThrough /\ epochBase' = epochBase
      /\ nextSeq <= nextSeq' /\ nextSeq' \in Nat
  BY ArchiveLog DEF ArchiveBatch, purgeVars
<1>2. \A c \in changes' : \/ c \in changes
                          \/ \E i \in Stored(b) : c = UpsertOf(b, i)
  BY ArchiveLog
<1>3. \A i \in Stored(b) :
         LET c == UpsertOf(b, i) IN
         /\ c.seq = ItemSeq(b, i) /\ c.key = b[i].key /\ c.kind = "upsert"
         /\ c.seq \in Nat /\ nextSeq <= c.seq /\ c.seq < nextSeq'
         /\ c.key \in Live' \ Live
  BY ArchiveLog DEF UpsertOf
<1>4. VictimsAged'
  BY <1>1 DEF VictimsAged, RowLogInv
<1>5. VictimsDownward'
  <2> SUFFICES ASSUME NEW c \in changes', NEW d \in changes',
                      c.seq \in victims', c.kind = "delete", d.key = c.key, d.seq <= c.seq
               PROVE  d.seq \in victims'
    BY DEF VictimsDownward
  <2>1. c \in changes
    BY <1>2, <1>3
  <2>2. d \in changes
    BY <1>2, <1>3, <2>1, RowTypes
  <2>3. QED
    BY <1>1, <2>1, <2>2 DEF VictimsDownward, RowLogInv
<1>6. RowsAtLog'
  <2> SUFFICES ASSUME NEW k \in Live'
               PROVE  /\ records'[k].changeSeq < nextSeq'
                      /\ \A c \in changes' : c.key = k =>
                            /\ c.seq <= records'[k].changeSeq
                            /\ c.seq = records'[k].changeSeq =>
                                  /\ c.version = records'[k].revision
                                  /\ c.state = records'[k].state
                      /\ records'[k].changeSeq > agedThrough' =>
                            \E c \in changes' : c.key = k /\ c.seq = records'[k].changeSeq
    BY DEF RowsAtLog, ChangesOf
  <2>1. CASE k \in Live
    <3>1. records'[k] = records[k]
      BY <2>1, ArchiveRows
    <3>2. \A c \in changes' : c.key = k => c \in changes
      BY <1>2, <1>3, <2>1
    <3>3. changes \subseteq changes'
      BY ArchiveLog
    <3>4. records[k].changeSeq \in Nat /\ nextSeq \in Nat
      BY <2>1, RowTypes
    <3>5. QED
      BY <1>1, <2>1, <3>1, <3>2, <3>3, <3>4 DEF RowsAtLog, ChangesOf, RowLogInv
  <2>2. CASE k \notin Live
    <3>1. PICK i \in Stored(b) : UpsertOf(b, i).key = k /\ records'[k] = RowOf(b, i)
      BY <2>2, ArchiveRows
    <3>2. \A c \in changes : c.key # k
      BY <2>2, ArchiveRows
    <3>3. \A c \in changes' : c.key = k => c = UpsertOf(b, i)
      BY <1>2, <1>3, <3>1, <3>2, ArchiveLog
    <3>4. UpsertOf(b, i) \in changes'
      BY ArchiveLog
    <3>5. /\ UpsertOf(b, i).seq = records'[k].changeSeq
          /\ UpsertOf(b, i).version = records'[k].revision
          /\ UpsertOf(b, i).state = records'[k].state
      BY <3>1 DEF UpsertOf, RowOf
    <3>6. UpsertOf(b, i).seq \in Nat /\ UpsertOf(b, i).seq < nextSeq'
      BY <1>3
    <3>7. QED
      BY <3>1, <3>3, <3>4, <3>5, <3>6
  <2>3. QED
    BY <2>1, <2>2
<1>7. GoneEndInDelete'
  <2> SUFFICES ASSUME NEW c \in changes', c.key \notin Live'
               PROVE  \E d \in changes' :
                         /\ d.key = c.key /\ d.kind = "delete"
                         /\ \A x \in changes' : x.key = c.key => x.seq <= d.seq
    BY DEF GoneEndInDelete, ChangesOf
  <2>1. \A x \in changes' : x.key = c.key => x \in changes
    BY <1>2, <1>3
  <2>2. c \in changes /\ c.key \notin Live
    BY <2>1, ArchiveRows
  <2>3. changes \subseteq changes'
    BY ArchiveLog
  <2>4. QED
    BY <2>1, <2>2, <2>3 DEF GoneEndInDelete, ChangesOf, RowLogInv
<1>8. RetainedSuffix'
  <2>1. \A c, d \in changes' : c.seq = d.seq => c = d
    BY DEF IInv, LogInv, LogUnique
  <2>2. ASSUME NEW n \in epochBase..(nextSeq' - 1), n > agedThrough
        PROVE  \E c \in changes' : c.seq = n
    <3>1. CASE n \in epochBase..(nextSeq - 1)
      BY <2>2, <3>1, ArchiveLog DEF RetainedSuffix, RowLogInv
    <3>2. CASE n \notin epochBase..(nextSeq - 1)
      <4>1. epochBase \in Nat
        BY DEF IInv, TypeOK
      <4>2. n \in nextSeq..(nextSeq' - 1)
        BY <1>1, <3>2, <4>1, RowTypes
      <4>3. QED
        BY <4>2, ArchiveLog
    <3>3. QED
      BY <3>1, <3>2
  <2>3. QED
    BY <1>1, <2>1, <2>2 DEF RetainedSuffix
<1>9. QED
  BY <1>4, <1>5, <1>6, <1>7, <1>8 DEF RowLogInv

(***************************************************************************)
(* A patch and a delete append one event that is newer than all others.    *)
(***************************************************************************)
LEMMA OneEventKeeps ==
    ASSUME IInv, IInv', RowLogInv, NEW ev \in Change,
           ev.seq = nextSeq, nextSeq' = nextSeq + 1, changes' = changes \cup {ev},
           UNCHANGED <<victims, agedThrough, epochBase>>
    PROVE  VictimsAged' /\ VictimsDownward' /\ RetainedSuffix'
<1>1. VictimsAged'
  BY DEF VictimsAged, RowLogInv
<1>2. VictimsDownward'
  <2> SUFFICES ASSUME NEW c \in changes', NEW d \in changes',
                      c.seq \in victims, c.kind = "delete", d.key = c.key, d.seq <= c.seq
               PROVE  d.seq \in victims
    BY DEF VictimsDownward
  <2>1. c.seq < nextSeq /\ c.seq \in Nat /\ nextSeq \in Nat
    BY RowTypes DEF IInv, LogInv, VictimsStale
  <2>2. c \in changes /\ d \in changes
    BY <2>1, RowTypes
  <2>3. QED
    BY <2>2 DEF VictimsDownward, RowLogInv
<1>3. RetainedSuffix'
  <2>1. \A c, d \in changes' : c.seq = d.seq => c = d
    BY DEF IInv, LogInv, LogUnique
  <2>2. \A n \in epochBase..(nextSeq' - 1) : n = nextSeq \/ n \in epochBase..(nextSeq - 1)
    BY RowTypes DEF IInv, TypeOK
  <2>3. \A n \in epochBase..(nextSeq' - 1) :
           n > agedThrough => \E c \in changes' : c.seq = n
    BY <2>2 DEF RetainedSuffix, RowLogInv
  <2>4. QED
    BY <2>1, <2>3 DEF RetainedSuffix
<1>4. QED
  BY <1>1, <1>2, <1>3

LEMMA PatchRowLog ==
    ASSUME IInv, IInv', RowLogInv, NEW k \in Key, NEW st \in DeliveryState, NEW r, NEW ik,
           PatchApplied(k, st, r, ik)
    PROVE  RowLogInv'
<1> DEFINE ev == StateEvent(k, st)
<1>1. k \in Live /\ records[k] \in Record /\ st \in DeliveryState /\ nextSeq \in Nat
  BY RowTypes DEF PatchApplied, PatchAllowed
<1>2. /\ ev.seq = nextSeq /\ ev.key = k /\ ev.kind = "state" /\ ev.state = st
      /\ ev.version = records[k].revision + 1
      /\ ev \in Change
  BY <1>1 DEF StateEvent, Change, Record
<1>3. /\ changes' = changes \cup {ev} /\ nextSeq' = nextSeq + 1
      /\ UNCHANGED <<victims, agedThrough, epochBase>> /\ Live' = Live
  BY DEF PatchApplied, purgeVars, Live
<1>4. /\ \A j \in Live : j # k => records'[j] = records[j]
      /\ records'[k].changeSeq = nextSeq /\ records'[k].state = st
      /\ records'[k].revision = records[k].revision + 1
  BY <1>1 DEF PatchApplied, Record, IInv, TypeOK
<1> HIDE DEF ev
<1>5. VictimsAged' /\ VictimsDownward' /\ RetainedSuffix'
  BY <1>2, <1>3, OneEventKeeps
<1>6. RowsAtLog'
  <2> SUFFICES ASSUME NEW j \in Live
               PROVE  /\ records'[j].changeSeq < nextSeq'
                      /\ \A c \in changes' : c.key = j =>
                            /\ c.seq <= records'[j].changeSeq
                            /\ c.seq = records'[j].changeSeq =>
                                  /\ c.version = records'[j].revision
                                  /\ c.state = records'[j].state
                      /\ records'[j].changeSeq > agedThrough' =>
                            \E c \in changes' : c.key = j /\ c.seq = records'[j].changeSeq
    BY <1>3 DEF RowsAtLog, ChangesOf
  <2>1. CASE j = k
    BY <1>1, <1>2, <1>3, <1>4, <2>1, RowTypes
  <2>2. CASE j # k
    <3>1. \A c \in changes' : c.key = j => c \in changes
      BY <1>2, <1>3, <2>2
    <3>2. records[j].changeSeq \in Nat
      BY RowTypes
    <3>3. QED
      BY <1>1, <1>3, <1>4, <2>2, <3>1, <3>2 DEF RowsAtLog, ChangesOf, RowLogInv
  <2>3. QED
    BY <2>1, <2>2
<1>7. GoneEndInDelete'
  BY <1>1, <1>2, <1>3 DEF GoneEndInDelete, ChangesOf, RowLogInv
<1>8. QED
  BY <1>5, <1>6, <1>7 DEF RowLogInv

LEMMA DeleteRowLog ==
    ASSUME IInv, IInv', RowLogInv, NEW k \in Key, NEW ik, DeleteRecord(k, ik)
    PROVE  RowLogInv'
<1> DEFINE ev == [seq |-> nextSeq, key |-> k, kind |-> "delete",
                  version |-> 1, state |-> "none"]
<1>1. /\ ev.seq = nextSeq /\ ev.key = k /\ ev.kind = "delete"
      /\ ev \in Change /\ nextSeq \in Nat
  BY RowTypes DEF Change
<1>2. /\ changes' = changes \cup {ev} /\ nextSeq' = nextSeq + 1
      /\ UNCHANGED <<victims, agedThrough, epochBase>>
      /\ Live' = Live \ {k} /\ \A j \in Live' : records'[j] = records[j]
  BY DEF DeleteRecord, Without, purgeVars, Live
<1> HIDE DEF ev
<1>3. VictimsAged' /\ VictimsDownward' /\ RetainedSuffix'
  BY <1>1, <1>2, OneEventKeeps
<1>4. RowsAtLog'
  <2> SUFFICES ASSUME NEW j \in Live'
               PROVE  /\ records[j].changeSeq < nextSeq'
                      /\ \A c \in changes' : c.key = j =>
                            /\ c.seq <= records[j].changeSeq
                            /\ c.seq = records[j].changeSeq =>
                                  /\ c.version = records[j].revision
                                  /\ c.state = records[j].state
                      /\ records[j].changeSeq > agedThrough =>
                            \E c \in changes' : c.key = j /\ c.seq = records[j].changeSeq
    BY <1>2 DEF RowsAtLog, ChangesOf
  <2>1. j \in Live /\ j # k /\ \A c \in changes' : c.key = j => c \in changes
    BY <1>1, <1>2
  <2>2. records[j].changeSeq \in Nat
    BY <2>1, RowTypes
  <2>3. QED
    BY <1>1, <1>2, <2>1, <2>2 DEF RowsAtLog, ChangesOf, RowLogInv
<1>5. GoneEndInDelete'
  <2> SUFFICES ASSUME NEW c \in changes', c.key \notin Live'
               PROVE  \E d \in changes' :
                         /\ d.key = c.key /\ d.kind = "delete"
                         /\ \A x \in changes' : x.key = c.key => x.seq <= d.seq
    BY DEF GoneEndInDelete, ChangesOf
  <2>1. CASE c.key = k
    BY <1>1, <1>2, <2>1, RowTypes
  <2>2. CASE c.key # k
    <3>1. c \in changes /\ c.key \notin Live
      BY <1>1, <1>2, <2>2
    <3>2. \A x \in changes' : x.key = c.key => x \in changes
      BY <1>1, <1>2, <2>2
    <3>3. QED
      BY <1>2, <3>1, <3>2 DEF GoneEndInDelete, ChangesOf, RowLogInv
  <2>3. QED
    BY <2>1, <2>2
<1>6. QED
  BY <1>3, <1>4, <1>5 DEF RowLogInv

LEMMA DeleteAllRowLog ==
    ASSUME IInv, RowLogInv, NEW x, NEW ik, DeleteAll(x, ik)
    PROVE  RowLogInv'
<1>1. /\ changes' = {} /\ Live' = {} /\ UNCHANGED <<victims, agedThrough>>
      /\ epochBase' = nextSeq' /\ nextSeq' = nextSeq
  BY DEF DeleteAll, Wipe, Empty, Live, purgeVars
<1>2. epochBase'..(nextSeq' - 1) = {}
  BY <1>1, RowTypes
<1>3. QED
  BY <1>1, <1>2 DEF RowLogInv, VictimsAged, VictimsDownward, RowsAtLog,
     GoneEndInDelete, RetainedSuffix

(***************************************************************************)
(* A pass selects by age, and a delete event only with all its key's       *)
(* earlier events: they are due as well and come before it.                *)
(***************************************************************************)
LEMMA DueRanked ==
    ASSUME IInv, NEW c \in Due, NEW d \in Due, d.seq <= c.seq
    PROVE  DueRank(d) \in Nat /\ DueRank(c) \in Nat /\ DueRank(d) <= DueRank(c)
<1> DEFINE S == {x \in Due : x.seq <= c.seq}
           T == {x \in Due : x.seq <= d.seq}
<1>1. \A x \in Due : x \in changes /\ x.seq \in Nat
  BY RowTypes DEF Due
<1>2. T \subseteq S
  BY <1>1
<1>3. IsFiniteSet(S)
  <2> DEFINE seqs == {x.seq : x \in S}
             seqOf == [x \in S |-> x.seq]
  <2>1. seqs \in SUBSET Nat /\ c.seq \in Nat /\ \A n \in seqs : n <= c.seq
    BY <1>1
  <2>2. IsFiniteSet(seqs)
    BY <2>1, FS_BoundedSetOfNaturals
  <2>3. \A x, y \in S : x.seq = y.seq => x = y
    BY <1>1 DEF IInv, LogInv, LogUnique
  <2>4. seqOf \in Injection(S, seqs)
    BY <2>3 DEF Injection, IsInjective
  <2>5. QED
    BY <2>2, <2>4, FS_Injection
<1>4. QED
  BY <1>2, <1>3, FS_Subset, FS_CardinalityType DEF DueRank

LEMMA SelectRowLog ==
    ASSUME IInv, RowLogInv, SelectVictims
    PROVE  RowLogInv'
<1>1. /\ victims' = {c.seq : c \in {d \in Due : DueRank(d) <= PurgeBudget}}
      /\ UNCHANGED <<nextSeq, records, tombstones, changes, agedThrough, epochBase>>
  BY DEF SelectVictims, ownerVars
<1>2. Live' = Live
  BY <1>1 DEF Live
<1>3. VictimsAged'
  BY <1>1 DEF VictimsAged, Due
<1>4. VictimsDownward'
  <2> SUFFICES ASSUME NEW c \in changes, NEW d \in changes, c.seq \in victims',
                      c.kind = "delete", d.key = c.key, d.seq <= c.seq
               PROVE  d.seq \in victims'
    BY <1>1 DEF VictimsDownward
  <2>1. PICK x \in Due : DueRank(x) <= PurgeBudget /\ c.seq = x.seq
    BY <1>1
  <2>2. c = x
    BY <2>1 DEF Due, IInv, LogInv, LogUnique
  <2>3. d.key \notin Live
    BY DEF IInv, LogInv, DeletionFence
  <2>4. d.seq <= agedThrough
    BY <2>1, <2>2, RowTypes DEF Due
  <2>5. d \in Due
    BY <2>3, <2>4 DEF Due
  <2>6. DueRank(d) \in Nat /\ DueRank(c) \in Nat /\ DueRank(d) <= DueRank(c)
    BY <2>1, <2>2, <2>5, DueRanked
  <2>7. DueRank(d) <= PurgeBudget
    BY <2>1, <2>2, <2>6, LimitsNatural
  <2>8. QED
    BY <1>1, <2>5, <2>7
<1>5. RowsAtLog' /\ GoneEndInDelete' /\ RetainedSuffix'
  BY <1>1, <1>2 DEF RowLogInv, RowsAtLog, GoneEndInDelete, RetainedSuffix, ChangesOf
<1>6. QED
  BY <1>3, <1>4, <1>5 DEF RowLogInv

LEMMA PurgeRowLog ==
    ASSUME IInv, RowLogInv, PurgeVictims
    PROVE  RowLogInv'
<1>1. /\ changes' = {c \in changes : c.seq \notin victims} /\ victims' = {}
      /\ UNCHANGED <<nextSeq, records, tombstones, agedThrough, epochBase>>
  BY DEF PurgeVictims
<1>2. Live' = Live
  BY <1>1 DEF Live
<1>3. VictimsAged' /\ VictimsDownward'
  BY <1>1 DEF VictimsAged, VictimsDownward
<1>4. \A n \in Nat : n > agedThrough => n \notin victims
  BY RowTypes DEF VictimsAged, RowLogInv
<1>5. RowsAtLog'
  BY <1>1, <1>2, <1>4, RowTypes DEF RowsAtLog, ChangesOf, RowLogInv
<1>6. GoneEndInDelete'
  <2> SUFFICES ASSUME NEW c \in changes', c.key \notin Live
               PROVE  \E d \in changes' :
                         /\ d.key = c.key /\ d.kind = "delete"
                         /\ \A x \in changes' : x.key = c.key => x.seq <= d.seq
    BY <1>2 DEF GoneEndInDelete, ChangesOf
  <2>1. c \in changes /\ c.seq \notin victims
    BY <1>1
  <2>2. PICK d \in changes :
           /\ d.key = c.key /\ d.kind = "delete"
           /\ \A x \in changes : x.key = c.key => x.seq <= d.seq
    BY <2>1 DEF GoneEndInDelete, ChangesOf, RowLogInv
  <2>3. d.seq \notin victims
    BY <2>1, <2>2 DEF VictimsDownward, RowLogInv
  <2>4. QED
    BY <1>1, <2>2, <2>3
<1>7. RetainedSuffix'
  <2>1. \A c, d \in changes' : c.seq = d.seq => c = d
    BY <1>1 DEF IInv, LogInv, LogUnique
  <2>2. ASSUME NEW n \in epochBase..(nextSeq - 1), n > agedThrough
        PROVE  \E c \in changes' : c.seq = n
    <3>1. PICK c \in changes : c.seq = n
      BY <2>2 DEF RetainedSuffix, RowLogInv
    <3>2. n \notin victims
      BY <1>4, <2>2, <3>1, RowTypes
    <3>3. QED
      BY <1>1, <3>1, <3>2
  <2>3. QED
    BY <1>1, <2>1, <2>2 DEF RetainedSuffix
<1>8. QED
  BY <1>3, <1>5, <1>6, <1>7 DEF RowLogInv

\* Everything else leaves rows, log and selection alone and may let time pass.
LEMMA QuietRowLog ==
    ASSUME IInv, RowLogInv, agedThrough' \in Nat, agedThrough <= agedThrough',
           UNCHANGED <<nextSeq, records, changes, victims, epochBase>>
    PROVE  RowLogInv'
<1>1. Live' = Live
  BY DEF Live
<1>2. VictimsAged' /\ VictimsDownward' /\ GoneEndInDelete'
  BY <1>1, RowTypes DEF RowLogInv, VictimsAged, VictimsDownward, GoneEndInDelete, ChangesOf
<1>3. RowsAtLog'
  BY <1>1, RowTypes DEF RowLogInv, RowsAtLog, ChangesOf
<1>4. RetainedSuffix'
  BY RowTypes DEF RowLogInv, RetainedSuffix, IInv, TypeOK
<1>5. QED
  BY <1>2, <1>3, <1>4 DEF RowLogInv

LEMMA RowLogStep == IInv /\ IInv' /\ RowLogInv /\ [Next]_vars => RowLogInv'
<1> SUFFICES ASSUME IInv, IInv', RowLogInv, [Next]_vars PROVE RowLogInv'
  OBVIOUS
<1>1. CASE UNCHANGED <<nextSeq, records, changes, victims, epochBase, agedThrough>>
  BY <1>1, QuietRowLog, RowTypes
<1>2. CASE Mutate
  <2>1. ASSUME NEW k, NEW st, NEW r, NEW ik,
               PatchDeduped(k, st, r, ik) \/ DeleteNothing(k, ik) \/ Replay(ik, r)
        PROVE  RowLogInv'
    BY <1>1, <2>1 DEF PatchDeduped, DeleteNothing, Replay, ownerVars, purgeVars
  <2>2. QED
    BY <1>2, <2>1, ArchiveRowLog, PatchRowLog, DeleteRowLog, DeleteAllRowLog,
       BatchType, NewStateType DEF Mutate
<1>3. CASE Capture
  BY <1>1, <1>3 DEF Capture, CreateSnapshot, ownerVars, purgeVars
<1>4. CASE Cleanup
  <2>1. ASSUME NEW id, PurgeSnapshotItems(id) \/ PurgeSnapshotRow(id)
        PROVE  RowLogInv'
    BY <1>1, <2>1 DEF PurgeSnapshotItems, PurgeSnapshotRow, ownerVars, purgeVars
  <2>2. QED
    BY <1>4, <2>1, SelectRowLog, PurgeRowLog DEF Cleanup
<1>5. CASE Clock
  <2>1. ASSUME NEW n \in 1..MaxSeq, AgeChanges(n)
        PROVE  RowLogInv'
    BY <2>1, QuietRowLog, RowTypes DEF AgeChanges, ownerVars
  <2>2. ASSUME NEW id, AgeSnapshot(id) \/ AgeIdempotency(id)
        PROVE  RowLogInv'
    BY <1>1, <2>2 DEF AgeSnapshot, AgeIdempotency, ownerVars, purgeVars
  <2>3. QED
    BY <1>5, <2>1, <2>2 DEF Clock
<1>6. CASE UNCHANGED vars
  BY <1>1, <1>6 DEF vars, ownerVars, purgeVars
<1>7. QED
  BY <1>2, <1>3, <1>4, <1>5, <1>6 DEF Next

LEMMA RowLogAlways == Spec => [](IInv /\ RowLogInv)
BY InitInv, InitRowLog, StepInv, RowLogStep, PTL DEF Spec
-----------------------------------------------------------------------------
(***************************************************************************)
(* A client that reads the feed in time misses nothing: every sequence of  *)
(* the epoch that is within retention is in the log, exactly once.         *)
(***************************************************************************)
THEOREM NoUnnoticedHole == Spec => []RetainedSuffix
<1>1. IInv /\ RowLogInv => RetainedSuffix
  BY DEF RowLogInv
<1>2. QED
  BY <1>1, RowLogAlways, PTL

(***************************************************************************)
(* What the feed last says of a key is the row, unless that event has aged *)
(* out, or a delete if the key is gone.                                    *)
(***************************************************************************)
THEOREM LogNeverLies == Spec => []LogTellsStore
<1>1. IInv /\ RowLogInv => LogTellsStore
  <2> SUFFICES ASSUME IInv, RowLogInv, NEW c \in changes,
                      \A d \in ChangesOf(c.key) : d.seq <= c.seq
               PROVE  IF c.key \in Live
                      THEN \/ /\ records[c.key].changeSeq = c.seq
                              /\ records[c.key].revision = c.version
                              /\ records[c.key].state = c.state
                           \/ /\ c.seq < records[c.key].changeSeq
                              /\ records[c.key].changeSeq <= agedThrough
                      ELSE c.kind = "delete"
    BY DEF LogTellsStore
  <2>1. c \in ChangesOf(c.key) /\ c.seq \in Nat /\ agedThrough \in Nat
    BY RowTypes DEF ChangesOf
  <2>2. CASE c.key \in Live
    <3>1. records[c.key].changeSeq \in Nat
      BY <2>2, RowTypes
    <3>2. /\ c.seq <= records[c.key].changeSeq
          /\ c.seq = records[c.key].changeSeq =>
                c.version = records[c.key].revision /\ c.state = records[c.key].state
          /\ records[c.key].changeSeq > agedThrough =>
                \E d \in ChangesOf(c.key) : d.seq = records[c.key].changeSeq
      BY <2>1, <2>2 DEF RowLogInv, RowsAtLog
    <3>3. QED
      BY <2>1, <2>2, <3>1, <3>2
  <2>3. CASE c.key \notin Live
    <3>1. PICK d \in ChangesOf(c.key) :
             d.kind = "delete" /\ \A x \in ChangesOf(c.key) : x.seq <= d.seq
      BY <2>3 DEF RowLogInv, GoneEndInDelete
    <3>2. d \in changes /\ d.seq \in Nat
      BY RowTypes DEF ChangesOf
    <3>3. c.seq = d.seq
      BY <2>1, <3>1, <3>2
    <3>4. c = d
      BY <3>2, <3>3 DEF IInv, LogInv, LogUnique
    <3>5. QED
      BY <2>3, <3>1, <3>4
  <2>4. QED
    BY <2>2, <2>3
<1>2. QED
  BY <1>1, RowLogAlways, PTL

(***************************************************************************)
(* A row never changes its body, and its revision and its change sequence  *)
(* advance only together, by one event of the log.                         *)
(***************************************************************************)
THEOREM VersionsMoveTogether == Spec => VersionsAdvance
<1>1. IInv /\ RowLogInv /\ [Next]_vars => [VersionsMove]_vars
  <2> SUFFICES ASSUME IInv, RowLogInv, Next PROVE VersionsMove
    OBVIOUS
  <2>1. CASE Live \cap DOMAIN records' = {} \/ \A k \in Live \cap DOMAIN records' :
                records'[k] = records[k]
    BY <2>1 DEF VersionsMove
  <2>2. ASSUME NEW e, NEW b \in Seq(Item), ArchiveBatch(e, b)
        PROVE  VersionsMove
    BY <2>1, <2>2, ArchiveRows
  <2>3. ASSUME NEW k \in Key, NEW st \in DeliveryState, NEW r, NEW ik,
               PatchApplied(k, st, r, ik)
        PROVE  VersionsMove
    <3>1. k \in Live /\ records[k] \in Record /\ nextSeq \in Nat
      BY <2>3, RowTypes DEF PatchApplied, PatchAllowed
    <3>2. /\ \A j \in Live : j # k => records'[j] = records[j]
          /\ records'[k].body = records[k].body
          /\ records'[k].revision = records[k].revision + 1
          /\ records'[k].changeSeq = nextSeq
      BY <2>3, <3>1 DEF PatchApplied, Record, IInv, TypeOK
    <3>3. records[k].changeSeq < nextSeq
      BY <3>1 DEF RowLogInv, RowsAtLog
    <3>4. StateEvent(k, st) \in changes'
      BY <2>3 DEF PatchApplied
    <3>5. /\ StateEvent(k, st).seq = nextSeq /\ StateEvent(k, st).key = k
          /\ StateEvent(k, st).version = records[k].revision + 1
      BY DEF StateEvent
    <3>6. \E c \in changes' : /\ c.seq = records'[k].changeSeq
                              /\ c.key = k
                              /\ c.version = records'[k].revision
      BY <3>2, <3>4, <3>5
    <3>7. records'[k].changeSeq > records[k].changeSeq
      BY <3>1, <3>2, <3>3, RowTypes
    <3>8. QED
      BY <3>2, <3>6, <3>7 DEF VersionsMove
  <2>4. ASSUME NEW k, NEW ik, DeleteRecord(k, ik)
        PROVE  VersionsMove
    BY <2>1, <2>4 DEF DeleteRecord, Without, Live
  <2>5. ASSUME NEW x, NEW ik, DeleteAll(x, ik)
        PROVE  VersionsMove
    BY <2>1, <2>5 DEF DeleteAll, Wipe, Empty
  <2>6. CASE UNCHANGED records
    BY <2>1, <2>6
  <2>7. ASSUME NEW k, NEW st, NEW r, NEW ik,
               PatchDeduped(k, st, r, ik) \/ DeleteNothing(k, ik) \/ Replay(ik, r)
        PROVE  VersionsMove
    BY <2>6, <2>7 DEF PatchDeduped, DeleteNothing, Replay, ownerVars
  <2>8. CASE Mutate
    BY <2>2, <2>3, <2>4, <2>5, <2>7, <2>8, BatchType, NewStateType DEF Mutate
  <2>9. CASE Capture \/ Cleanup \/ Clock
    BY <2>6, <2>9 DEF Capture, CreateSnapshot, Cleanup, PurgeSnapshotItems,
       PurgeSnapshotRow, SelectVictims, PurgeVictims, Clock, AgeChanges,
       AgeSnapshot, AgeIdempotency, ownerVars
  <2>10. QED
    BY <2>8, <2>9 DEF Next
<1>2. QED
  BY <1>1, RowLogAlways, PTL DEF Spec, VersionsAdvance
-----------------------------------------------------------------------------
(***************************************************************************)
(* Retries.  Truth says of one idempotency row what ReplayTruthful asks,   *)
(* and that its result is not from the future: a rotation then leaves      *)
(* every remembered result behind.                                         *)
(***************************************************************************)
Truth(q, r) ==
    /\ q.op = "deleteRecord" =>
          /\ r.epoch \in Nat /\ r.epoch <= epoch
          /\ r.deleted /\ r.epoch = epoch => q.key \in tombstones
    /\ q.op = "patchState" =>
          /\ r.sequence \in Nat /\ r.sequence < nextSeq /\ r.revision \in Nat
          /\ r.sequence >= epochBase =>
                \/ q.key \in tombstones
                \/ /\ q.key \in Live
                   /\ records[q.key].revision >= r.revision
                   /\ q.state = "accepted" => records[q.key].state = "accepted"

IdemTruthful == \A ik \in DOMAIN idem : Truth(idem[ik].request, idem[ik].result)

\* A row goes on, ends behind its fence, or goes with its whole epoch.
StoreGoesOn ==
    /\ epoch' = epoch /\ epochBase' = epochBase
    /\ nextSeq \in Nat /\ nextSeq' \in Nat /\ nextSeq <= nextSeq'
    /\ tombstones \subseteq tombstones'
    /\ \A k \in Live : \/ k \in tombstones'
                       \/ /\ k \in Live'
                          /\ records'[k].revision \in Nat
                          /\ records[k].revision \in Nat
                          /\ records'[k].revision >= records[k].revision
                          /\ records[k].state = "accepted" =>
                                records'[k].state = "accepted"

StoreRotates ==
    /\ epoch' = epoch + 1 /\ epoch \in Nat
    /\ nextSeq \in Nat /\ nextSeq' = nextSeq /\ epochBase' = nextSeq

LEMMA TruthSurvives ==
    ASSUME NEW q, NEW r, Truth(q, r), StoreGoesOn \/ StoreRotates
    PROVE  Truth(q, r)'
<1>1. CASE StoreGoesOn
  <2>1. q.op = "patchState" /\ r.sequence >= epochBase' =>
            \/ q.key \in tombstones'
            \/ /\ q.key \in Live'
               /\ records'[q.key].revision >= r.revision
               /\ q.state = "accepted" => records'[q.key].state = "accepted"
    BY <1>1 DEF StoreGoesOn, Truth
  <2>2. q.op = "patchState" => r.sequence < nextSeq'
    BY <1>1 DEF StoreGoesOn, Truth
  <2>3. QED
    BY <1>1, <2>1, <2>2 DEF StoreGoesOn, Truth
<1>2. CASE StoreRotates
  BY <1>2 DEF StoreRotates, Truth
<1>3. QED
  BY <1>1, <1>2

\* The rows after Remember are old ones and the new one.
LEMMA RememberedRows ==
    ASSUME NEW ik, NEW q, NEW r, Remember(ik, q, r), IdemTruthful,
           Truth(q, r)', StoreGoesOn \/ StoreRotates
    PROVE  IdemTruthful'
<1>1. \A k \in DOMAIN idem' :
          \/ idem'[k].request = q /\ idem'[k].result = r
          \/ k \in DOMAIN idem /\ idem'[k] = idem[k]
  <2>1. CASE ik = NoIdem
    BY <2>1 DEF Remember, idemVars
  <2>2. CASE ik # NoIdem
    <3>1. idem' = With(Without(idem, expiredIdem), ik, [request |-> q, result |-> r])
      BY <2>2 DEF Remember
    <3>2. QED
      BY <3>1 DEF With, Without
  <2>3. QED
    BY <2>1, <2>2
<1>2. QED
  BY <1>1, TruthSurvives DEF IdemTruthful

LEMMA IdemTruthfulStep == IInv /\ IInv' /\ RowLogInv /\ IdemTruthful /\ [Next]_vars => IdemTruthful'
<1> SUFFICES ASSUME IInv, IInv', RowLogInv, IdemTruthful, [Next]_vars
             PROVE  IdemTruthful'
  OBVIOUS
<1>0. epoch \in Nat /\ nextSeq \in Nat
  BY DEF IInv, TypeOK
<1>1. UNCHANGED <<epoch, epochBase, nextSeq, records, tombstones>> => StoreGoesOn
  BY RowTypes DEF StoreGoesOn, Live
<1>2. (StoreGoesOn \/ StoreRotates) /\ (\A k \in DOMAIN idem' :
          k \in DOMAIN idem /\ idem'[k] = idem[k]) => IdemTruthful'
  BY TruthSurvives DEF IdemTruthful
<1>3. ASSUME NEW e, NEW b \in Seq(Item), ArchiveBatch(e, b)
      PROVE  IdemTruthful'
  <2>1. /\ UNCHANGED <<epoch, epochBase, tombstones, idem>>
    BY <1>3 DEF ArchiveBatch, idemVars
  <2>2. /\ nextSeq' \in Nat /\ nextSeq <= nextSeq'
        /\ Live \subseteq Live' /\ \A k \in Live : records'[k] = records[k]
    BY <1>3, ArchiveLog, ArchiveRows
  <2>3. StoreGoesOn
    BY <1>0, <2>1, <2>2, RowTypes DEF StoreGoesOn
  <2>4. QED
    BY <1>2, <2>1, <2>3
<1>4. ASSUME NEW k \in Key, NEW st \in DeliveryState, NEW r, NEW ik, PatchApplied(k, st, r, ik)
      PROVE  IdemTruthful'
  <2>1. k \in Live /\ records[k] \in Record
    BY <1>4, RowTypes DEF PatchApplied, PatchAllowed
  <2>2. /\ UNCHANGED <<epoch, epochBase, tombstones>> /\ nextSeq' = nextSeq + 1
        /\ Live' = Live
    BY <1>4 DEF PatchApplied, Live
  <2>3. /\ \A j \in Live : j # k => records'[j] = records[j]
        /\ records'[k].revision = records[k].revision + 1 /\ records'[k].state = st
        /\ records[k].state = "accepted" => st = "accepted"
    BY <1>4, <2>1 DEF PatchApplied, PatchAllowed, Record, IInv, TypeOK
  <2>4. StoreGoesOn
    BY <1>0, <2>1, <2>2, <2>3, RowTypes DEF StoreGoesOn
  <2>0. PICK q, a : /\ q = PatchRequest(k, st, r)
                    /\ a = [revision |-> records[k].revision + 1, sequence |-> nextSeq]
    OBVIOUS
  <2>5. /\ q.op = "patchState" /\ q.key = k /\ q.state = st
        /\ a.revision = records[k].revision + 1 /\ a.sequence = nextSeq
    BY <2>0 DEF PatchRequest
  <2>6. Remember(ik, q, a)
    BY <1>4, <2>0 DEF PatchApplied
  <2>7. Truth(q, a)'
    BY <1>0, <2>1, <2>2, <2>3, <2>5, RowTypes DEF Truth
  <2>8. QED
    BY <2>4, <2>6, <2>7, RememberedRows
<1>5. ASSUME NEW k, NEW st, NEW r, NEW ik, PatchDeduped(k, st, r, ik)
      PROVE  IdemTruthful'
  <2>1. /\ k \in Live /\ records[k].state = st
        /\ UNCHANGED <<epoch, epochBase, nextSeq, records, tombstones>>
    BY <1>5 DEF PatchDeduped, PatchAllowed, ownerVars
  <2>2. Live' = Live /\ records[k].changeSeq < nextSeq
        /\ records[k].changeSeq \in Nat /\ records[k].revision \in Nat
    BY <2>1, RowTypes DEF Live, RowLogInv, RowsAtLog
  <2>0. PICK q, a : /\ q = PatchRequest(k, st, r)
                    /\ a = [revision |-> records[k].revision,
                            sequence |-> records[k].changeSeq]
    OBVIOUS
  <2>3. /\ q.op = "patchState" /\ q.key = k /\ q.state = st
        /\ a.revision = records[k].revision /\ a.sequence = records[k].changeSeq
    BY <2>0 DEF PatchRequest
  <2>4. Remember(ik, q, a)
    BY <1>5, <2>0 DEF PatchDeduped
  <2>5. Truth(q, a)'
    BY <2>1, <2>2, <2>3 DEF Truth
  <2>6. QED
    BY <1>1, <2>1, <2>4, <2>5, RememberedRows
<1>6. ASSUME NEW k, NEW ik, DeleteNothing(k, ik)
      PROVE  IdemTruthful'
  <2>1. UNCHANGED <<epoch, epochBase, nextSeq, records, tombstones>>
    BY <1>6 DEF DeleteNothing, ownerVars
  <2>0. PICK q, a : q = DeleteRequest(k) /\ a = [deleted |-> FALSE, epoch |-> epoch]
    OBVIOUS
  <2>2. q.op = "deleteRecord" /\ ~a.deleted /\ a.epoch = epoch
    BY <2>0 DEF DeleteRequest
  <2>3. Remember(ik, q, a)
    BY <1>6, <2>0 DEF DeleteNothing
  <2>4. Truth(q, a)'
    BY <1>0, <2>1, <2>2 DEF Truth
  <2>5. QED
    BY <1>1, <2>1, <2>3, <2>4, RememberedRows
<1>7. ASSUME NEW k, NEW ik, DeleteRecord(k, ik)
      PROVE  IdemTruthful'
  <2>1. /\ UNCHANGED <<epoch, epochBase>> /\ nextSeq' = nextSeq + 1
        /\ tombstones' = tombstones \cup {k}
        /\ Live' = Live \ {k} /\ \A j \in Live' : records'[j] = records[j]
    BY <1>7 DEF DeleteRecord, Without, Live
  <2>2. StoreGoesOn
    BY <1>0, <2>1, RowTypes DEF StoreGoesOn
  <2>0. PICK q, a : /\ q = DeleteRequest(k)
                    /\ a = [deleted |-> TRUE, sequence |-> nextSeq, epoch |-> epoch]
    OBVIOUS
  <2>3. q.op = "deleteRecord" /\ q.key = k /\ a.epoch = epoch
    BY <2>0 DEF DeleteRequest
  <2>4. Remember(ik, q, a)
    BY <1>7, <2>0 DEF DeleteRecord
  <2>5. Truth(q, a)'
    BY <1>0, <2>1, <2>3 DEF Truth
  <2>6. QED
    BY <2>2, <2>4, <2>5, RememberedRows
<1>8. ASSUME NEW x, NEW ik, DeleteAll(x, ik)
      PROVE  IdemTruthful'
  <2>1. StoreRotates
    BY <1>0, <1>8 DEF DeleteAll, Wipe, StoreRotates
  <2>0. PICK q, a : q = [op |-> "deleteAll", expected |-> x] /\ a = [epoch |-> epoch + 1]
    OBVIOUS
  <2>2. q.op = "deleteAll"
    BY <2>0
  <2>3. Remember(ik, q, a)
    BY <1>8, <2>0 DEF DeleteAll
  <2>4. Truth(q, a)'
    BY <2>2 DEF Truth
  <2>5. QED
    BY <2>1, <2>3, <2>4, RememberedRows
<1>9. ASSUME NEW ik, NEW q, Replay(ik, q)
      PROVE  IdemTruthful'
  BY <1>1, <1>2, <1>9 DEF Replay, Without, ownerVars
<1>10. CASE Mutate
  BY <1>3, <1>4, <1>5, <1>6, <1>7, <1>8, <1>9, <1>10, BatchType, NewStateType DEF Mutate
<1>11. CASE Capture \/ Cleanup \/ Clock \/ UNCHANGED vars
  <2>1. UNCHANGED <<epoch, epochBase, nextSeq, records, tombstones, idem>>
    BY <1>11 DEF Capture, CreateSnapshot, Cleanup, PurgeSnapshotItems,
       PurgeSnapshotRow, SelectVictims, PurgeVictims, Clock, AgeChanges,
       AgeSnapshot, AgeIdempotency, ownerVars, idemVars, vars
  <2>2. QED
    BY <1>1, <1>2, <2>1
<1>12. QED
  BY <1>10, <1>11 DEF Next

(***************************************************************************)
(* A retry is never told a lie: the deletion it is told of still fences    *)
(* the key, and the patch still stands or was overtaken, for as long as    *)
(* the epoch of the answer lasts.                                          *)
(***************************************************************************)
THEOREM ReplaysAreTrue == Spec => []ReplayTruthful
<1>1. Init => IdemTruthful
  BY DEF Init, IdemTruthful, Empty
<1>2. IdemTruthful => ReplayTruthful
  BY DEF IdemTruthful, Truth, ReplayTruthful
<1>3. QED
  BY <1>1, <1>2, InitInv, InitRowLog, StepInv, RowLogStep, IdemTruthfulStep, PTL DEF Spec
-----------------------------------------------------------------------------
(***************************************************************************)
(* Snapshots.  ExactAt says of one snapshot what SnapshotExact asks.  It     *)
(* lasts because a watermark lies below next_sequence (SnapshotsBehind):   *)
(* what is appended later is beyond it.                                    *)
(***************************************************************************)
ExactAt(s) ==
    /\ s.epoch = epoch
    /\ {m.key : m \in s.items} =
         {k \in Live \cap s.filter :
             \E c \in ChangesOf(k) : c.kind = "upsert" /\ c.seq <= s.watermark}
    /\ \A m \in s.items :
         /\ m.changeSeq <= s.watermark
         /\ \A c \in ChangesOf(m.key) :
              /\ ~(m.changeSeq < c.seq /\ c.seq <= s.watermark)
              /\ c.seq = m.changeSeq => c.version = m.revision /\ c.state = m.state

Readable == {id \in DOMAIN snapshots \ expiredSnaps : snapshots[id].status = "active"}

SnapInv == \A id \in Readable :
              snapshots[id].watermark < nextSeq /\ ExactAt(snapshots[id])

(***************************************************************************)
(* A snapshot stays exact while the epoch lasts, none of its members is    *)
(* deleted, retention spares the upserts of live keys, and what becomes    *)
(* live had nothing in the log.                                            *)
(***************************************************************************)
LEMMA ExactSurvives ==
    ASSUME NEW s \in Snapshot, ExactAt(s), s.watermark < nextSeq,
           IInv, IInv', epoch' = epoch, nextSeq <= nextSeq',
           \A c \in changes' \ changes : nextSeq <= c.seq,
           \A c \in changes \ changes' : c.kind = "upsert" => c.key \notin Live,
           \A m \in s.items : m.key \in Live',
           \A k \in Live' \ Live : \A c \in changes : c.key # k
    PROVE  ExactAt(s)' /\ s.watermark < nextSeq'
<1>1. /\ s.watermark \in Nat /\ nextSeq \in Nat /\ nextSeq' \in Nat
      /\ \A m \in s.items : m.changeSeq \in Nat
      /\ \A c \in changes' : c.seq \in Nat
  BY DEF Snapshot, Member, IInv, TypeOK, Change
<1>2. \A c \in changes' : c.seq <= s.watermark => c \in changes
  BY <1>1
<1>3. \A m \in s.items : m.changeSeq <= s.watermark
  BY DEF ExactAt
<1>4. ASSUME NEW k \in Live' \cap s.filter, NEW c \in changes', c.key = k,
             c.kind = "upsert", c.seq <= s.watermark
      PROVE  k \in {m.key : m \in s.items}
  <2>1. c \in changes /\ k \in Live
    BY <1>2, <1>4
  <2>2. QED
    BY <1>4, <2>1 DEF ExactAt, ChangesOf
<1>5. ASSUME NEW m \in s.items
      PROVE  /\ m.key \in Live' \cap s.filter
             /\ \E c \in changes' : c.key = m.key /\ c.kind = "upsert" /\ c.seq <= s.watermark
  <2>1. /\ m.key \in Live \cap s.filter
        /\ \E c \in changes : c.key = m.key /\ c.kind = "upsert" /\ c.seq <= s.watermark
    BY DEF ExactAt, ChangesOf
  <2>2. PICK c \in changes : c.key = m.key /\ c.kind = "upsert" /\ c.seq <= s.watermark
    BY <2>1
  <2>3. c \in changes'
    BY <2>1, <2>2
  <2>4. QED
    BY <2>1, <2>2, <2>3
<1>6. {m.key : m \in s.items} =
        {k \in Live' \cap s.filter :
            \E c \in changes' : c.key = k /\ c.kind = "upsert" /\ c.seq <= s.watermark}
  BY <1>4, <1>5
<1>7. ASSUME NEW m \in s.items, NEW c \in changes', c.key = m.key
      PROVE  /\ ~(m.changeSeq < c.seq /\ c.seq <= s.watermark)
             /\ c.seq = m.changeSeq => c.version = m.revision /\ c.state = m.state
  <2>1. CASE c \in changes
    BY <1>7, <2>1 DEF ExactAt, ChangesOf
  <2>2. CASE c \notin changes
    <3>1. nextSeq <= c.seq
      BY <2>2
    <3>2. QED
      BY <1>1, <1>3, <3>1
  <2>3. QED
    BY <2>1, <2>2
<1>8. ExactAt(s)'
  BY <1>3, <1>6, <1>7 DEF ExactAt, ChangesOf
<1>9. s.watermark < nextSeq'
  BY <1>1
<1>10. QED
  BY <1>8, <1>9

\* A new snapshot is the rows as they are.
LEMMA CreateExact ==
    ASSUME IInv, RowLogInv, SnapInv, NEW id, NEW f \in Filter, CreateSnapshot(id, f)
    PROVE  SnapInv'
<1>1. PICK s : s = [status |-> "active", epoch |-> epoch, filter |-> f,
                    watermark |-> Watermark,
                    items |-> {MemberOf(c.key) : c \in JoinedUpserts(f)}]
  OBVIOUS
<1>2. /\ s.epoch = epoch /\ s.filter = f /\ s.watermark = nextSeq - 1
      /\ s.items = {MemberOf(c.key) : c \in JoinedUpserts(f)}
  BY <1>1 DEF Watermark
<1>3. /\ UNCHANGED <<epoch, nextSeq, records, changes, expiredSnaps>>
      /\ snapshots' = With(snapshots, id, s)
  BY <1>1 DEF CreateSnapshot, ownerVars
<1>4. \A m \in s.items : \E c \in JoinedUpserts(f) :
         /\ m.key = c.key /\ m.revision = records[c.key].revision
         /\ m.state = records[c.key].state /\ m.changeSeq = records[c.key].changeSeq
  BY <1>2 DEF MemberOf
<1>5. {m.key : m \in s.items} = {c.key : c \in JoinedUpserts(f)}
  <2>1. \A c \in JoinedUpserts(f) : MemberOf(c.key) \in s.items /\ MemberOf(c.key).key = c.key
    BY <1>2 DEF MemberOf
  <2>2. QED
    BY <1>4, <2>1
<1>6. {c.key : c \in JoinedUpserts(f)} =
        {k \in Live \cap f : \E c \in ChangesOf(k) : c.kind = "upsert" /\ c.seq <= nextSeq - 1}
  BY DEF JoinedUpserts, Watermark, ChangesOf
<1>7. ASSUME NEW m \in s.items
      PROVE  /\ m.changeSeq <= nextSeq - 1
             /\ \A c \in ChangesOf(m.key) :
                  /\ ~(m.changeSeq < c.seq /\ c.seq <= nextSeq - 1)
                  /\ c.seq = m.changeSeq => c.version = m.revision /\ c.state = m.state
  <2>1. /\ m.key \in Live /\ m.changeSeq = records[m.key].changeSeq
        /\ m.revision = records[m.key].revision /\ m.state = records[m.key].state
    BY <1>4 DEF JoinedUpserts
  <2>2. /\ m.changeSeq < nextSeq /\ m.changeSeq \in Nat /\ nextSeq \in Nat
        /\ \A c \in ChangesOf(m.key) : c.seq \in Nat /\ c.seq <= m.changeSeq
    BY <2>1, RowTypes DEF RowLogInv, RowsAtLog, ChangesOf
  <2>3. \A c \in ChangesOf(m.key) :
           c.seq = m.changeSeq => c.version = m.revision /\ c.state = m.state
    BY <2>1 DEF RowLogInv, RowsAtLog
  <2>4. QED
    BY <2>2, <2>3
<1>8. ExactAt(s) /\ s.watermark < nextSeq
  <2>1. {m.key : m \in s.items} =
          {k \in Live \cap s.filter :
              \E c \in ChangesOf(k) : c.kind = "upsert" /\ c.seq <= s.watermark}
    BY <1>2, <1>5, <1>6
  <2>2. \A m \in s.items :
           /\ m.changeSeq <= s.watermark
           /\ \A c \in ChangesOf(m.key) :
                /\ ~(m.changeSeq < c.seq /\ c.seq <= s.watermark)
                /\ c.seq = m.changeSeq => c.version = m.revision /\ c.state = m.state
    BY <1>2, <1>7
  <2>3. s.watermark < nextSeq
    BY <1>2, RowTypes
  <2>4. QED
    BY <1>2, <2>1, <2>2, <2>3 DEF ExactAt
<1>9. \A j \in Readable' : snapshots'[j] = s \/ (j \in Readable /\ snapshots'[j] = snapshots[j])
  BY <1>3 DEF Readable, With
<1>10. ASSUME NEW x, ExactAt(x)
       PROVE  ExactAt(x)'
  <2>1. Live' = Live /\ \A k : ChangesOf(k)' = ChangesOf(k)
    BY <1>3 DEF ChangesOf, Live
  <2>2. QED
    BY <1>3, <1>10, <2>1 DEF ExactAt
<1>11. QED
  BY <1>3, <1>8, <1>9, <1>10 DEF SnapInv

LEMMA SnapStep ==
    IInv /\ IInv' /\ RowLogInv /\ SnapInv /\ [Next]_vars => SnapInv'
<1> SUFFICES ASSUME IInv, IInv', RowLogInv, SnapInv, [Next]_vars
             PROVE  SnapInv'
  OBVIOUS
<1>0. nextSeq \in Nat /\ epoch \in Nat /\ \A id \in Readable : snapshots[id] \in Snapshot
  BY DEF IInv, TypeOK, Readable
<1>1. ASSUME epoch' = epoch, nextSeq <= nextSeq',
             \A id \in Readable' : /\ id \in Readable /\ snapshots'[id] = snapshots[id]
                                   /\ \A m \in snapshots[id].items : m.key \in Live',
             \A c \in changes' \ changes : nextSeq <= c.seq,
             \A c \in changes \ changes' : c.kind = "upsert" => c.key \notin Live,
             \A k \in Live' \ Live : \A c \in changes : c.key # k
      PROVE  SnapInv'
  BY <1>0, <1>1, ExactSurvives DEF SnapInv
<1>2. UNCHANGED <<snapshots, expiredSnaps>> => Readable' = Readable
  BY DEF Readable
<1>3. \A id \in Readable : \A m \in snapshots[id].items : m.key \in Live
  BY DEF SnapInv, ExactAt
<1>4. ASSUME UNCHANGED <<epoch, nextSeq, records, changes>>,
             \A id \in Readable' : id \in Readable /\ snapshots'[id] = snapshots[id]
      PROVE  SnapInv'
  <2>1. Live' = Live
    BY <1>4 DEF Live
  <2>2. QED
    BY <1>0, <1>1, <1>3, <1>4, <2>1
<1>5. ASSUME NEW e, NEW b \in Seq(Item), ArchiveBatch(e, b)
      PROVE  SnapInv'
  <2>1. epoch' = epoch /\ UNCHANGED <<snapshots, expiredSnaps>>
    BY <1>5 DEF ArchiveBatch, snapVars
  <2>2. /\ nextSeq <= nextSeq' /\ Live \subseteq Live'
        /\ \A k \in Live' \ Live : \A c \in changes : c.key # k
    BY <1>5, ArchiveLog, ArchiveRows
  <2>3. /\ changes \subseteq changes'
        /\ \A c \in changes' \ changes : nextSeq <= c.seq
    BY <1>5, ArchiveLog DEF UpsertOf
  <2>4. QED
    BY <1>1, <1>2, <1>3, <2>1, <2>2, <2>3
<1>6. ASSUME NEW k \in Key, NEW st \in DeliveryState, NEW r, NEW ik, PatchApplied(k, st, r, ik)
      PROVE  SnapInv'
  <2>1. /\ UNCHANGED <<epoch, snapshots, expiredSnaps>> /\ nextSeq' = nextSeq + 1
        /\ Live' = Live /\ changes' = changes \cup {StateEvent(k, st)}
        /\ StateEvent(k, st).seq = nextSeq
    BY <1>6 DEF PatchApplied, Live, snapVars, StateEvent
  <2>2. QED
    BY <1>0, <1>1, <1>2, <1>3, <2>1
<1>7. ASSUME NEW k \in Key, NEW ik, DeleteRecord(k, ik)
      PROVE  SnapInv'
  <2>1. PICK ev : ev = [seq |-> nextSeq, key |-> k, kind |-> "delete",
                        version |-> 1, state |-> "none"]
    OBVIOUS
  <2>2. /\ UNCHANGED <<epoch, expiredSnaps>> /\ nextSeq' = nextSeq + 1
        /\ changes' = changes \cup {ev} /\ ev.seq = nextSeq
        /\ Live' = Live \ {k} /\ snapshots' = Invalidated(HoldingSnapshots(k))
    BY <1>7, <2>1 DEF DeleteRecord, Without, Live
  <2>3. \A id \in Readable' : /\ id \in Readable /\ snapshots'[id] = snapshots[id]
                              /\ id \notin HoldingSnapshots(k)
    <3>1. /\ DOMAIN snapshots' = DOMAIN snapshots
          /\ \A id \in DOMAIN snapshots :
                /\ id \notin HoldingSnapshots(k) => snapshots'[id] = snapshots[id]
                /\ id \in HoldingSnapshots(k) => snapshots'[id].status = "invalidated"
      BY <2>2 DEF Invalidated, IInv, TypeOK, Snapshot
    <3>2. QED
      BY <2>2, <3>1 DEF Readable
  <2>4. \A id \in Readable' : \A m \in snapshots[id].items : m.key # k
    <3>1. \A id \in Readable : id \in ActiveSnapshots
      BY DEF SnapInv, ExactAt, Readable, ActiveSnapshots
    <3>2. QED
      BY <2>3, <3>1 DEF HoldingSnapshots
  <2>5. QED
    BY <1>0, <1>1, <1>3, <2>2, <2>3, <2>4
<1>8. ASSUME NEW x, NEW ik, DeleteAll(x, ik)
      PROVE  SnapInv'
  <2>1. snapshots' = Invalidated(ActiveSnapshots) /\ UNCHANGED expiredSnaps
    BY <1>8 DEF DeleteAll
  <2>2. /\ DOMAIN snapshots' = DOMAIN snapshots
        /\ \A id \in DOMAIN snapshots :
              /\ id \notin ActiveSnapshots => snapshots'[id] = snapshots[id]
              /\ id \in ActiveSnapshots => snapshots'[id].status = "invalidated"
    BY <2>1 DEF Invalidated, IInv, TypeOK, Snapshot
  <2>3. \A id \in Readable : id \in ActiveSnapshots
    BY DEF SnapInv, ExactAt, Readable, ActiveSnapshots
  <2>4. Readable' = {}
    BY <2>1, <2>2, <2>3 DEF Readable
  <2>5. QED
    BY <2>4 DEF SnapInv
<1>9. ASSUME NEW k, NEW st, NEW r, NEW ik,
             PatchDeduped(k, st, r, ik) \/ DeleteNothing(k, ik) \/ Replay(ik, r)
      PROVE  SnapInv'
  BY <1>2, <1>4, <1>9 DEF PatchDeduped, DeleteNothing, Replay, ownerVars, snapVars
<1>10. CASE Mutate
  BY <1>5, <1>6, <1>7, <1>8, <1>9, <1>10, BatchType, NewStateType DEF Mutate
<1>11. CASE Capture
  BY <1>11, CreateExact DEF Capture
<1>12. CASE Cleanup
  <2>1. ASSUME NEW id, PurgeSnapshotItems(id)
        PROVE  SnapInv'
    <3>1. UNCHANGED <<epoch, nextSeq, records, changes, expiredSnaps>>
      BY <2>1 DEF PurgeSnapshotItems, ownerVars
    <3>2. id \notin Readable
      BY <2>1 DEF PurgeSnapshotItems, Readable
    <3>3. /\ DOMAIN snapshots' = DOMAIN snapshots
          /\ \A j \in DOMAIN snapshots : j # id => snapshots'[j] = snapshots[j]
          /\ snapshots'[id].status = snapshots[id].status
      <4>1. snapshots[id] \in Snapshot
        BY <2>1 DEF PurgeSnapshotItems, IInv, TypeOK
      <4>2. QED
        BY <2>1, <4>1 DEF PurgeSnapshotItems, Snapshot
    <3>4. QED
      BY <1>4, <3>1, <3>2, <3>3 DEF Readable
  <2>2. ASSUME NEW id, PurgeSnapshotRow(id)
        PROVE  SnapInv'
    BY <1>4, <2>2 DEF PurgeSnapshotRow, Without, Readable, ownerVars
  <2>3. CASE SelectVictims
    BY <1>2, <1>4, <2>3 DEF SelectVictims, ownerVars, snapVars
  <2>4. CASE PurgeVictims
    <3>1. /\ UNCHANGED <<epoch, nextSeq, snapshots, expiredSnaps>> /\ Live' = Live
          /\ changes' = {c \in changes : c.seq \notin victims}
      BY <2>4 DEF PurgeVictims, snapVars, Live
    <3>2. \A c \in changes \ changes' : c.kind = "upsert" => c.key \notin Live
      BY <3>1 DEF IInv, LogInv, VictimsSpareLive
    <3>3. QED
      BY <1>0, <1>1, <1>2, <1>3, <3>1, <3>2
  <2>5. QED
    BY <1>12, <2>1, <2>2, <2>3, <2>4 DEF Cleanup
<1>13. CASE Clock
  BY <1>4, <1>13 DEF Clock, AgeChanges, AgeSnapshot, AgeIdempotency, ownerVars, snapVars,
     Readable
<1>14. CASE UNCHANGED vars
  BY <1>2, <1>4, <1>14 DEF vars, ownerVars, snapVars
<1>15. QED
  BY <1>10, <1>11, <1>12, <1>13, <1>14 DEF Next

(***************************************************************************)
(* Every snapshot a client may still read is the owner's history at its    *)
(* watermark, whatever is archived, patched, deleted or purged meanwhile.  *)
(***************************************************************************)
THEOREM SnapshotsAreExact == Spec => []SnapshotExact
<1>1. Init => SnapInv
  BY DEF Init, SnapInv, Readable, Empty
<1>2. SnapInv => SnapshotExact
  BY DEF SnapInv, Readable, ExactAt, SnapshotExact
<1>3. QED
  BY <1>1, <1>2, InitInv, InitRowLog, StepInv, RowLogStep, SnapStep, PTL DEF Spec
=============================================================================
