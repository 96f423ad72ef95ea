---------------------------- MODULE RequestProofs ---------------------------
(***************************************************************************)
(* What holds of RequestPipeline for every number of requests in progress, *)
(* of addresses, identities and request ids, and for all limits.           *)
(*                                                                         *)
(* The three promises need three different strengthenings.  A request id   *)
(* passes once because the replay window is the end of the sequence of     *)
(* passes, one shorter (Remembers).  A 429 is earned because a bucket      *)
(* never counts more than the passes of its key (CountsAtMost).  That an   *)
(* allowance is kept is the converse, and holds only while all keys of the *)
(* window fit: then each of them has its bucket, the bucket counts every   *)
(* pass, and an eviction takes no bucket of the window (CountsAll).  The   *)
(* size of the Map rests on its order of insertion (InOrder): ranks in a   *)
(* strict order are distinct, so that dropping the lowest makes room.      *)
(***************************************************************************)
EXTENDS RequestPipeline, SequenceTheorems, FiniteSetTheorems, TLAPS

-----------------------------------------------------------------------------
(***************************************************************************)
(* The limiter as a Map in order of insertion.                             *)
(***************************************************************************)
InOrder(b) ==
    /\ IsFiniteSet(DOMAIN b) /\ Cardinality(DOMAIN b) <= MaxBuckets
    /\ \A k \in DOMAIN b :
          b[k] \in [window : Nat, count : Nat \ {0}, older : SUBSET (DOMAIN b \ {k})]
    /\ \A k, l \in DOMAIN b : k # l => k \in b[l].older \/ l \in b[k].older
    /\ \A k, l \in DOMAIN b : k \in b[l].older => b[k].older \subseteq b[l].older

LEMMA LimitsTyped ==
    /\ MaxConcurrent \in Nat \ {0} /\ AddressLimit \in Nat \ {0}
    /\ IdentityLimit \in Nat \ {0} /\ MaxBuckets \in Nat \ {0}
    /\ ReplayLimit \in Nat \ {0}
BY PipelineLimits

\* In a strict order no two keys have equally many before them.
LEMMA RanksApart ==
    ASSUME NEW b, InOrder(b), NEW C \in SUBSET (DOMAIN b), NEW k \in C, NEW l \in C,
           k \in b[l].older
    PROVE  Cardinality(b[k].older \cap C) < Cardinality(b[l].older \cap C)
<1> DEFINE K == b[k].older \cap C
           L == b[l].older \cap C
<1>1. IsFiniteSet(L)
    BY FS_Subset DEF InOrder
<1>2. K \subseteq L /\ k \in L /\ k \notin K
    BY DEF InOrder
<1> HIDE DEF K, L
<1>3. IsFiniteSet(K) /\ Cardinality(K) <= Cardinality(L) /\ Cardinality(K) # Cardinality(L)
    BY <1>1, <1>2, FS_Subset
<1>4. Cardinality(K) \in Nat /\ Cardinality(L) \in Nat
    BY <1>1, <1>3, FS_CardinalityType
<1>5. Cardinality(K) < Cardinality(L)
    BY <1>3, <1>4
<1> QED
    BY <1>5 DEF K, L

LEMMA RanksBelow ==
    ASSUME NEW b, InOrder(b), NEW C \in SUBSET (DOMAIN b), NEW k \in C
    PROVE  Cardinality(b[k].older \cap C) \in 0..(Cardinality(C) - 1)
<1> DEFINE K == b[k].older \cap C
<1>1. IsFiniteSet(C)
    BY FS_Subset DEF InOrder
<1>2. K \subseteq C \ {k}
    BY DEF InOrder
<1> HIDE DEF K
<1>3. IsFiniteSet(C \ {k}) /\ Cardinality(C \ {k}) = Cardinality(C) - 1
    BY <1>1, FS_RemoveElement
<1>4. IsFiniteSet(K) /\ Cardinality(K) <= Cardinality(C) - 1
    BY <1>2, <1>3, FS_Subset
<1>5. Cardinality(K) \in Nat /\ Cardinality(C) \in Nat
    BY <1>1, <1>4, FS_CardinalityType
<1>6. K = b[k].older \cap C
    BY DEF K
<1> QED
    BY <1>4, <1>5, <1>6

\* Overflow makes room for one key: what it keeps is ranked from excess on.
LEMMA RoomMade ==
    ASSUME NEW b, InOrder(b), NEW w
    PROVE  /\ Kept(b, w) \subseteq Current(b, w) /\ IsFiniteSet(Kept(b, w))
           /\ Cardinality(Kept(b, w)) <= MaxBuckets - 1
           /\ Cardinality(Current(b, w)) < MaxBuckets => Kept(b, w) = Current(b, w)
<1>1. PICK C : C = Current(b, w)
    OBVIOUS
<1>2. C \subseteq DOMAIN b
    BY <1>1 DEF Current
<1>3. IsFiniteSet(C) /\ Cardinality(C) \in Nat
    BY <1>2, FS_Subset, FS_CardinalityType DEF InOrder
<1>4. PICK n : n = Cardinality(C)
    OBVIOUS
<1>5. PICK e : e = n - MaxBuckets + 1
    OBVIOUS
<1>6. PICK rank : rank = [k \in C |-> Cardinality(b[k].older \cap C)]
    OBVIOUS
<1>7. \A k \in C : rank[k] \in 0..(n - 1)
    BY <1>2, <1>4, <1>6, RanksBelow
<1>8. PICK K : K = {k \in C : rank[k] >= e}
    OBVIOUS
<1>9. Kept(b, w) = K
    BY <1>1, <1>4, <1>5, <1>6, <1>8 DEF Kept
<1>10. \A k, l \in C : k # l => rank[k] # rank[l]
    <2> SUFFICES ASSUME NEW k \in C, NEW l \in C, k # l PROVE rank[k] # rank[l]
        OBVIOUS
    <2>1. k \in b[l].older \/ l \in b[k].older
        BY <1>2 DEF InOrder
    <2>2. rank[k] < rank[l] \/ rank[l] < rank[k]
        BY <1>2, <1>6, <2>1, RanksApart
    <2> QED
        BY <1>7, <2>2
<1>11. n \in Nat /\ e \in Int /\ MaxBuckets \in Nat \ {0}
    BY <1>3, <1>4, <1>5, LimitsTyped
<1>12. K \subseteq C /\ IsFiniteSet(K)
    BY <1>3, <1>8, FS_Subset
<1>13. CASE n < MaxBuckets
    <2>1. e <= 0
        BY <1>5, <1>11, <1>13
    <2>2. K = C
        BY <1>7, <1>8, <1>11, <2>1
    <2> QED
        BY <1>1, <1>4, <1>9, <1>11, <1>12, <1>13, <2>2
<1>14. CASE n >= MaxBuckets
    <2>1. e \in 1..n
        BY <1>5, <1>11, <1>14
    <2>2. IsFiniteSet(e..(n - 1)) /\ Cardinality(e..(n - 1)) = MaxBuckets - 1
        <3>1. e \in Int /\ (n - 1) \in Int
            BY <1>11
        <3>2. /\ IsFiniteSet(e..(n - 1))
              /\ Cardinality(e..(n - 1)) = IF e > n - 1 THEN 0 ELSE (n - 1) - e + 1
            BY <3>1, FS_Interval
        <3> QED
            BY <1>5, <1>11, <1>14, <3>2
    <2>3. PICK f : f = [k \in K |-> rank[k]]
        OBVIOUS
    <2>4. f \in [K -> e..(n - 1)]
        BY <1>7, <1>8, <1>11, <2>1, <2>3
    <2>5. \A k, l \in K : f[k] = f[l] => k = l
        BY <1>8, <1>10, <2>3
    <2>6. f \in Injection(K, e..(n - 1))
        BY <2>4, <2>5 DEF Injection, IsInjective
    <2>7. Cardinality(K) <= MaxBuckets - 1
        BY <2>2, <2>6, FS_Injection
    <2> QED
        BY <1>1, <1>4, <1>9, <1>12, <1>14, <1>11, <2>7
<1> QED
    BY <1>11, <1>13, <1>14
\* The keys beside the one that is admitted.
OthersKept(b, key, w) ==
    (IF key \notin DOMAIN b /\ Cardinality(DOMAIN b) >= MaxBuckets
     THEN Kept(b, w) ELSE DOMAIN b) \ {key}

\* What the Map holds after a pass.
LEMMA Consuming ==
    ASSUME NEW b, NEW key, NEW w
    PROVE  LET O == OthersKept(b, key, w)
               U == Consume(b, key, w)
           IN  /\ DOMAIN U = O \cup {key} /\ O \subseteq DOMAIN b \ {key}
               /\ U[key].window = w /\ U[key].older = O
               /\ U[key].count = Consumed(b, key, w) + 1
               /\ \A k \in O : U[k] = [b[k] EXCEPT !.older = @ \cap O]
<1>1. PICK O : O = OthersKept(b, key, w)
    OBVIOUS
<1>2. O \subseteq DOMAIN b \ {key}
    BY <1>1 DEF OthersKept, Kept, Current
<1>3. Consume(b, key, w) =
        [k \in O \cup {key} |->
            IF k = key
            THEN [window |-> w, count |-> Consumed(b, key, w) + 1, older |-> O]
            ELSE [b[k] EXCEPT !.older = @ \cap O]]
    BY <1>1, Zenon DEF Consume, OthersKept
<1> QED
    BY <1>1, <1>2, <1>3

\* A Map stays in order: the key that passes comes last.
LEMMA ConsumeInOrder ==
    ASSUME NEW b, InOrder(b), NEW key, NEW w \in Nat
    PROVE  InOrder(Consume(b, key, w))
<1>1. PICK O, U : O = OthersKept(b, key, w) /\ U = Consume(b, key, w)
    OBVIOUS
<1>2. /\ DOMAIN U = O \cup {key} /\ O \subseteq DOMAIN b \ {key}
      /\ U[key].window = w /\ U[key].older = O
      /\ U[key].count = Consumed(b, key, w) + 1
      /\ \A k \in O : U[k] = [b[k] EXCEPT !.older = @ \cap O]
    <2>1. LET P == OthersKept(b, key, w)
              T == Consume(b, key, w)
          IN  /\ DOMAIN T = P \cup {key} /\ P \subseteq DOMAIN b \ {key}
              /\ T[key].window = w /\ T[key].older = P
              /\ T[key].count = Consumed(b, key, w) + 1
              /\ \A k \in P : T[k] = [b[k] EXCEPT !.older = @ \cap P]
        BY Consuming
    <2> QED
        BY <1>1, <2>1, Zenon
<1>3. /\ IsFiniteSet(DOMAIN b) /\ Cardinality(DOMAIN b) <= MaxBuckets
      /\ Cardinality(DOMAIN b) \in Nat
    BY FS_CardinalityType DEF InOrder
<1>4. IsFiniteSet(O) /\ Cardinality(O) \in Nat
    BY <1>2, <1>3, FS_Subset, FS_CardinalityType
<1>5. Cardinality(O) <= MaxBuckets - 1
    <2>1. CASE key \in DOMAIN b
        <3>1. O = DOMAIN b \ {key}
            BY <1>1, <2>1 DEF OthersKept
        <3>2. Cardinality(O) = Cardinality(DOMAIN b) - 1
            BY <1>3, <2>1, <3>1, FS_RemoveElement
        <3> QED
            BY <1>3, <3>2, LimitsTyped
    <2>2. CASE key \notin DOMAIN b /\ Cardinality(DOMAIN b) >= MaxBuckets
        <3>1. O \subseteq Kept(b, w)
            BY <1>1, <2>2 DEF OthersKept
        <3>2. IsFiniteSet(Kept(b, w)) /\ Cardinality(Kept(b, w)) <= MaxBuckets - 1
            BY RoomMade
        <3>3. Cardinality(O) <= Cardinality(Kept(b, w)) /\ Cardinality(Kept(b, w)) \in Nat
            BY <3>1, <3>2, FS_Subset, FS_CardinalityType
        <3> QED
            BY <1>4, <3>2, <3>3, LimitsTyped
    <2>3. CASE key \notin DOMAIN b /\ Cardinality(DOMAIN b) < MaxBuckets
        <3>1. ~(Cardinality(DOMAIN b) >= MaxBuckets)
            BY <1>3, <2>3, LimitsTyped
        <3>2. O = DOMAIN b \ {key}
            BY <1>1, <3>1, Zenon DEF OthersKept
        <3>3. O = DOMAIN b
            BY <2>3, <3>2
        <3> QED
            BY <1>3, <2>3, <3>3, LimitsTyped
    <2> QED
        BY <1>3, <2>1, <2>2, <2>3, LimitsTyped
<1>6. IsFiniteSet(DOMAIN U) /\ Cardinality(DOMAIN U) <= MaxBuckets
    <2>1. key \notin O
        BY <1>2
    <2>2. /\ IsFiniteSet(O \cup {key}) /\ Cardinality(O \cup {key}) = Cardinality(O) + 1
        BY <1>4, <2>1, FS_AddElement
    <2> QED
        BY <1>2, <1>4, <1>5, <2>2, LimitsTyped
<1>7. \A k \in O : /\ U[k].window = b[k].window /\ U[k].count = b[k].count
                  /\ U[k].older = b[k].older \cap O
                  /\ U[k] \in [window : Nat, count : Nat \ {0}, older : SUBSET (O \ {k})]
    BY <1>2 DEF InOrder
<1>8. U[key] \in [window : Nat, count : Nat \ {0}, older : SUBSET O]
    <2>1. Consumed(b, key, w) \in Nat
        BY DEF Consumed, Current, InOrder
    <2>2. U = Consume(b, key, w)
        BY <1>1
    <2>3. U[key] = [window |-> w, count |-> Consumed(b, key, w) + 1, older |-> O]
        BY <1>1, <1>2 DEF Consume, OthersKept
    <2> QED
        BY <2>1, <2>3
<1>9. \A k \in DOMAIN U :
        U[k] \in [window : Nat, count : Nat \ {0}, older : SUBSET (DOMAIN U \ {k})]
    BY <1>2, <1>7, <1>8
<1>10. \A k, l \in DOMAIN U : k # l => k \in U[l].older \/ l \in U[k].older
    BY <1>2, <1>7 DEF InOrder
<1>11. \A k, l \in DOMAIN U : k \in U[l].older => U[k].older \subseteq U[l].older
    BY <1>2, <1>7 DEF InOrder
<1> QED
    BY <1>1, <1>6, <1>9, <1>10, <1>11 DEF InOrder

LEMMA EmptyInOrder == InOrder(<<>>)
<1>1. DOMAIN <<>> = {}
    OBVIOUS
<1> QED
    BY <1>1, FS_EmptySet, LimitsTyped DEF InOrder
-----------------------------------------------------------------------------
(***************************************************************************)
(* What a Map tells of the passes p of its keys in the window w: never     *)
(* more than there were, and all of them while there is room for the keys  *)
(* that passed.                                                            *)
(***************************************************************************)
Passing(keys, p) == {k \in keys : p[k] > 0}

CountsAtMost(b, keys, limit, w, p) ==
    /\ DOMAIN b \subseteq keys
    /\ \A k \in DOMAIN b : /\ b[k].window <= w /\ b[k].count <= limit
                           /\ b[k].window = w => b[k].count <= p[k]

CountsAll(b, keys, w, p) ==
    /\ IsFiniteSet(Passing(keys, p))
    /\ Cardinality(Passing(keys, p)) <= MaxBuckets =>
          \A k \in Passing(keys, p) : k \in Current(b, w) /\ b[k].count = p[k]

Honest(b, keys, limit, w, p) ==
    InOrder(b) /\ CountsAtMost(b, keys, limit, w, p) /\ CountsAll(b, keys, w, p)

\* What consume forgets of the window, if anything, it forgets for want of room.
LEMMA RoomForAll ==
    ASSUME NEW keys, NEW limit, NEW w \in Nat, NEW p \in [keys -> Nat], NEW b,
           Honest(b, keys, limit, w, p), NEW key \in keys,
           Cardinality(Passing(keys, p) \cup {key}) <= MaxBuckets
    PROVE  Passing(keys, p) \ {key} \subseteq OthersKept(b, key, w)
<1>1. PICK P : P = Passing(keys, p)
    OBVIOUS
<1>2. IsFiniteSet(P) /\ Cardinality(P) \in Nat
    BY <1>1, FS_CardinalityType DEF Honest, CountsAll
<1>3. /\ IsFiniteSet(P \cup {key}) /\ Cardinality(P \cup {key}) \in Nat
      /\ Cardinality(P \cup {key}) = IF key \in P THEN Cardinality(P) ELSE Cardinality(P) + 1
    BY <1>2, FS_AddElement, FS_CardinalityType
<1>4. Cardinality(P) <= MaxBuckets
    BY <1>1, <1>2, <1>3, LimitsTyped
<1>5. P \subseteq Current(b, w)
    BY <1>1, <1>4 DEF Honest, CountsAll
<1>6. Current(b, w) \subseteq P
    <2> SUFFICES ASSUME NEW k \in Current(b, w) PROVE k \in P
        OBVIOUS
    <2>1. k \in DOMAIN b /\ b[k].window = w
        BY DEF Current
    <2>2. b[k].count \in Nat \ {0}
        BY <2>1 DEF Honest, InOrder
    <2>3. k \in keys /\ b[k].count <= p[k]
        BY <2>1 DEF Honest, CountsAtMost
    <2>4. p[k] \in Nat
        BY <2>3
    <2> QED
        BY <1>1, <2>2, <2>3, <2>4 DEF Passing
<1>7. CASE key \notin DOMAIN b /\ Cardinality(DOMAIN b) >= MaxBuckets
    <2>1. key \notin P
        BY <1>5, <1>7 DEF Current
    <2>2. Cardinality(Current(b, w)) < MaxBuckets
        <3>1. Current(b, w) = P
            BY <1>5, <1>6
        <3> QED
            BY <1>1, <1>2, <1>3, <2>1, <3>1, LimitsTyped
    <2>3. Kept(b, w) = Current(b, w)
        BY <2>2, RoomMade DEF Honest
    <2> QED
        BY <1>1, <1>5, <1>7, <2>3 DEF OthersKept
<1>8. CASE ~(key \notin DOMAIN b /\ Cardinality(DOMAIN b) >= MaxBuckets)
    <2>1. OthersKept(b, key, w) = DOMAIN b \ {key}
        BY <1>8 DEF OthersKept
    <2> QED
        BY <1>1, <1>5, <2>1 DEF Current
<1> QED
    BY <1>7, <1>8

LEMMA ConsumedTyped ==
    ASSUME NEW b, InOrder(b), NEW key, NEW w
    PROVE  Consumed(b, key, w) \in Nat
BY DEF Consumed, Current, InOrder

\* A pass within the limit is counted, up to the bound of the history variable.
LEMMA ConsumeHonest ==
    ASSUME NEW keys, NEW limit \in Nat \ {0}, NEW w \in Nat, NEW p \in [keys -> Nat], NEW b,
           Honest(b, keys, limit, w, p), NEW key \in keys, NEW q \in [keys -> Nat],
           Consumed(b, key, w) < limit,
           \A k \in keys \ {key} : q[k] = p[k],
           q[key] = IF p[key] < limit + 1 THEN p[key] + 1 ELSE p[key]
    PROVE  Honest(Consume(b, key, w), keys, limit, w, q)
<1>1. PICK O, U, n : O = OthersKept(b, key, w) /\ U = Consume(b, key, w)
                     /\ n = Consumed(b, key, w)
    OBVIOUS
<1>2. /\ DOMAIN U = O \cup {key} /\ O \subseteq DOMAIN b \ {key}
      /\ U[key].window = w /\ U[key].count = n + 1
      /\ \A k \in O : U[k].window = b[k].window /\ U[k].count = b[k].count
    <2>1. LET S == OthersKept(b, key, w)
              T == Consume(b, key, w)
          IN  /\ DOMAIN T = S \cup {key} /\ S \subseteq DOMAIN b \ {key}
              /\ T[key].window = w /\ T[key].older = S
              /\ T[key].count = Consumed(b, key, w) + 1
              /\ \A k \in S : T[k] = [b[k] EXCEPT !.older = @ \cap S]
        BY Consuming
    <2>2. /\ DOMAIN U = O \cup {key} /\ O \subseteq DOMAIN b \ {key}
          /\ U[key].window = w /\ U[key].count = n + 1
          /\ \A k \in O : U[k] = [b[k] EXCEPT !.older = @ \cap O]
        BY <1>1, <2>1, Zenon
    <2>3. \A k \in O : b[k] \in [window : Nat, count : Nat \ {0},
                                 older : SUBSET (DOMAIN b \ {k})]
        BY <2>2 DEF Honest, InOrder
    <2> QED
        BY <2>2, <2>3
<1>3. InOrder(U) /\ n \in Nat /\ n < limit
    BY <1>1, ConsumeInOrder, ConsumedTyped DEF Honest
<1>4. n <= p[key]
    <2>1. CASE key \in Current(b, w)
        <3>1. n = b[key].count
            BY <1>1, <2>1 DEF Consumed
        <3> QED
            BY <2>1, <3>1 DEF Current, Honest, CountsAtMost
    <2>2. CASE key \notin Current(b, w)
        BY <1>1, <2>2 DEF Consumed
    <2> QED
        BY <2>1, <2>2
<1>5. p[key] \in Nat /\ q[key] \in Nat /\ n + 1 <= q[key] /\ n + 1 <= limit
    BY <1>3, <1>4
<1>6. CountsAtMost(U, keys, limit, w, q)
    <2>1. DOMAIN b \subseteq keys
        BY DEF Honest, CountsAtMost
    <2>2. \A k \in O : /\ U[k].window <= w /\ U[k].count <= limit
                       /\ U[k].window = w => U[k].count <= q[k]
        <3> SUFFICES ASSUME NEW k \in O
                     PROVE  /\ U[k].window <= w /\ U[k].count <= limit
                            /\ U[k].window = w => U[k].count <= q[k]
            OBVIOUS
        <3>1. /\ b[k].window <= w /\ b[k].count <= limit
              /\ b[k].window = w => b[k].count <= p[k]
            BY <1>2 DEF Honest, CountsAtMost
        <3>2. q[k] = p[k]
            BY <1>2, <2>1
        <3> QED
            BY <1>2, <3>1, <3>2
    <2>3. /\ U[key].window <= w /\ U[key].count <= limit
          /\ U[key].window = w => U[key].count <= q[key]
        BY <1>2, <1>5
    <2>4. DOMAIN U \subseteq keys
        BY <1>2, <2>1
    <2> QED
        BY <1>2, <2>2, <2>3, <2>4 DEF CountsAtMost
<1>7. PICK P : P = Passing(keys, p)
    OBVIOUS
<1>8. Passing(keys, q) = P \cup {key}
    <2>1. q[key] > 0
        BY <1>3, <1>5
    <2> QED
        BY <1>7, <2>1 DEF Passing
<1>9. IsFiniteSet(P) /\ IsFiniteSet(P \cup {key})
    BY <1>7, FS_AddElement DEF Honest, CountsAll
<1>10. ASSUME Cardinality(P \cup {key}) <= MaxBuckets, NEW k \in P \cup {key}
       PROVE  k \in Current(U, w) /\ U[k].count = q[k]
    <2>1. Cardinality(P) <= MaxBuckets
        <3>1. Cardinality(P) <= Cardinality(P \cup {key})
            BY <1>9, FS_Subset
        <3> QED
            BY <1>9, <1>10, <3>1, FS_CardinalityType, LimitsTyped
    <2>2. \A l \in P : l \in Current(b, w) /\ b[l].count = p[l]
        BY <1>7, <2>1 DEF Honest, CountsAll
    <2>3. CASE k = key
        <3>1. n = p[key]
            <4>1. CASE key \in P
                BY <1>1, <2>2, <4>1 DEF Consumed
            <4>2. CASE key \notin P
                <5>1. p[key] = 0
                    BY <1>5, <1>7, <4>2 DEF Passing
                <5> QED
                    BY <1>3, <1>4, <5>1
            <4> QED
                BY <4>1, <4>2
        <3>2. q[key] = n + 1
            BY <1>3, <3>1
        <3> QED
            BY <1>2, <2>3, <3>2 DEF Current
    <2>4. CASE k # key
        <3>1. k \in P /\ k \in O
            BY <1>1, <1>7, <1>10, <2>4, RoomForAll
        <3>2. U[k].window = b[k].window /\ U[k].count = b[k].count /\ k \in DOMAIN U
            BY <1>2, <3>1
        <3>3. k \in keys /\ q[k] = p[k]
            BY <1>7, <2>4, <3>1 DEF Passing
        <3> QED
            BY <2>2, <3>1, <3>2, <3>3 DEF Current
    <2> QED
        BY <2>3, <2>4
<1>11. CountsAll(U, keys, w, q)
    BY <1>8, <1>9, <1>10 DEF CountsAll
<1> QED
    BY <1>1, <1>3, <1>6, <1>11 DEF Honest

\* Passes of other keys do not matter.
LEMMA HonestElsewhere ==
    ASSUME NEW keys, NEW limit, NEW w, NEW p, NEW q, NEW b,
           Honest(b, keys, limit, w, p), \A k \in keys : q[k] = p[k]
    PROVE  Honest(b, keys, limit, w, q)
<1>1. Passing(keys, q) = Passing(keys, p) /\ Passing(keys, q) \subseteq keys
    BY DEF Passing
<1>2. CountsAtMost(b, keys, limit, w, q)
    BY DEF Honest, CountsAtMost
<1>3. CountsAll(b, keys, w, q)
    BY <1>1 DEF Honest, CountsAll
<1> QED
    BY <1>2, <1>3 DEF Honest

\* In a new window every bucket is of an earlier one, and nothing has passed.
LEMMA HonestAgain ==
    ASSUME NEW keys, NEW limit, NEW w \in Nat, NEW p, NEW q, NEW b,
           Honest(b, keys, limit, w, p), \A k \in keys : q[k] = 0
    PROVE  Honest(b, keys, limit, w + 1, q)
<1>1. Passing(keys, q) = {}
    BY DEF Passing
<1>2. \A k \in DOMAIN b : b[k].window \in Nat /\ b[k].window <= w
    BY DEF Honest, InOrder, CountsAtMost
<1>3. CountsAtMost(b, keys, limit, w + 1, q)
    <2>1. \A k \in DOMAIN b : b[k].window <= w + 1 /\ b[k].window # w + 1
        BY <1>2
    <2> QED
        BY <2>1 DEF Honest, CountsAtMost
<1>4. CountsAll(b, keys, w + 1, q)
    BY <1>1, FS_EmptySet DEF CountsAll
<1> QED
    BY <1>3, <1>4 DEF Honest

LEMMA HonestAtFirst ==
    ASSUME NEW keys, NEW limit, NEW w, NEW p, \A k \in keys : p[k] = 0
    PROVE  Honest(<<>>, keys, limit, w, p)
<1>1. Passing(keys, p) = {} /\ DOMAIN <<>> = {}
    BY DEF Passing
<1> QED
    BY <1>1, EmptyInOrder, FS_EmptySet DEF Honest, CountsAtMost, CountsAll
-----------------------------------------------------------------------------
(***************************************************************************)
(* The admission slots.  Holding are the requests that have one; the count *)
(* follows them through every end a request can come to.                   *)
(***************************************************************************)
Holding == {s \in Slot : Busy(s) /\ req[s].holds}

Waiting == [at : {"reading", "authenticating"}, call : Call, holds : BOOLEAN]
Running == [at : {"probing", "handling"}, holds : BOOLEAN]

ReqOK == req \in [Slot -> {Free} \cup Waiting \cup Running]

SlotsCounted == ReqOK /\ active = Cardinality(Holding)

LEMMA HoldingFinite ==
    /\ IsFiniteSet(Holding) /\ Cardinality(Holding) \in Nat
    /\ Cardinality(Holding) = 0 => Holding = {}
BY SlotsFinite, FS_Subset, FS_CardinalityType, FS_EmptySet DEF Holding

\* What becomes of the slots when one request changes.
LEMMA HoldingAfter ==
    ASSUME ReqOK, NEW s \in Slot, NEW r \in {Free} \cup Waiting \cup Running,
           req' = [req EXCEPT ![s] = r]
    PROVE  /\ ReqOK'
           /\ (r # Free /\ r.holds) => Holding' = Holding \cup {s}
           /\ ~(r # Free /\ r.holds) => Holding' = Holding \ {s}
<1>1. ReqOK'
    BY DEF ReqOK
<1>2. req'[s] = r /\ \A t \in Slot \ {s} : req'[t] = req[t]
    BY DEF ReqOK
<1>3. r # Free <=> r.at # "free"
    BY DEF Free, Waiting, Running
<1>4. \A t \in Slot \ {s} : t \in Holding' <=> t \in Holding
    BY <1>2 DEF Holding, Busy
<1>5. s \in Holding' <=> (r # Free /\ r.holds)
    BY <1>2, <1>3 DEF Holding, Busy
<1>6. Holding \subseteq Slot /\ Holding' \subseteq Slot
    BY DEF Holding
<1> QED
    BY <1>1, <1>4, <1>5, <1>6

\* A slot is given back by the end of its request, or by its client's leaving.
LEMMA SlotReturned ==
    ASSUME SlotsCounted, NEW s \in Slot, Busy(s),
           NEW r \in {Free} \cup Waiting \cup Running, r = Free \/ ~r.holds,
           req' = [req EXCEPT ![s] = r], active' = ActiveAfter(s)
    PROVE  SlotsCounted' /\ Holding' \subseteq Holding
<1>1. ReqOK' /\ Holding' = Holding \ {s}
    BY HoldingAfter DEF SlotsCounted
<1>2. CASE req[s].holds
    <2>1. s \in Holding
        BY <1>2 DEF Holding
    <2>2. Cardinality(Holding \ {s}) = Cardinality(Holding) - 1
        BY <2>1, HoldingFinite, FS_RemoveElement
    <2> QED
        BY <1>1, <1>2, <2>2 DEF SlotsCounted, ActiveAfter
<1>3. CASE ~req[s].holds
    <2>1. Holding \ {s} = Holding
        BY <1>3 DEF Holding
    <2> QED
        BY <1>1, <1>3, <2>1 DEF SlotsCounted, ActiveAfter
<1> QED
    BY <1>2, <1>3

LEMMA AnsweredKeeps ==
    ASSUME SlotsCounted, NEW s \in Slot, Busy(s), NEW who, Answered(s, who)
    PROVE  SlotsCounted' /\ Holding' \subseteq Holding
BY SlotReturned DEF Answered

LEMMA GoesOnKeeps ==
    ASSUME SlotsCounted, NEW s \in Slot, req[s] \in Waiting,
           NEW stage \in {"probing", "authenticating", "handling"}, GoesOn(s, stage)
    PROVE  SlotsCounted' /\ Holding' \subseteq Holding
<1> DEFINE r == IF stage = "authenticating" THEN [req[s] EXCEPT !.at = stage]
                ELSE [at |-> stage, holds |-> req[s].holds]
<1>1. req' = [req EXCEPT ![s] = r] /\ active' = active
    BY DEF GoesOn
<1>2. r \in Waiting \cup Running /\ r # Free /\ r.holds = req[s].holds
    BY DEF Waiting, Running, Free
<1>3. Busy(s)
    BY DEF Busy, Waiting
<1>4. s \in Holding <=> r.holds
    BY <1>2, <1>3 DEF Holding
<1> HIDE DEF r
<1>5. ReqOK' /\ Holding' = Holding
    <2>1. CASE r.holds
        BY <1>1, <1>2, <1>4, <2>1, HoldingAfter DEF SlotsCounted
    <2>2. CASE ~r.holds
        BY <1>1, <1>2, <1>4, <2>2, HoldingAfter DEF SlotsCounted
    <2> QED
        BY <2>1, <2>2
<1> QED
    BY <1>1, <1>5 DEF SlotsCounted

\* While a request is served its slot is kept or given back.
LEMMA ServeKeeps ==
    ASSUME SlotsCounted, NEW s \in Slot, Serve(s) \/ Disconnect(s)
    PROVE  SlotsCounted' /\ Holding' \subseteq Holding
<1>1. req[s] \in {Free} \cup Waiting \cup Running
    BY DEF SlotsCounted, ReqOK
<1>2. /\ req[s].at \in {"reading", "authenticating"} => req[s] \in Waiting
      /\ req[s].at # "free" => Busy(s)
    BY <1>1 DEF Free, Waiting, Running, Busy
<1>3. CASE Disconnect(s)
    <2>1. Disconnected(s) = Free \/ (Disconnected(s) \in Waiting \cup Running
                                    /\ ~Disconnected(s).holds)
        BY <1>1, <1>3 DEF Disconnected, Waiting, Running, Free
    <2> QED
        BY <1>3, <2>1, SlotReturned DEF Disconnect
<1>4. CASE Unreadable(s) \/ Probed(s) \/ Unverified(s) \/ Handled(s)
    BY <1>2, <1>4, AnsweredKeeps DEF Unreadable, Probed, Unverified, Handled, Answer
<1>5. CASE Read(s)
    <2>1. req[s].at = "reading"
        BY <1>5 DEF Read
    <2>2. Answer(s) \/ GoesOn(s, "probing") \/ GoesOn(s, "authenticating")
        BY <1>5 DEF Read
    <2> QED
        BY <1>2, <2>1, <2>2, AnsweredKeeps, GoesOnKeeps DEF Answer
<1>6. CASE Replayed(s) \/ OverAllowance(s)
    BY <1>2, <1>6, AnsweredKeeps DEF Replayed, OverAllowance, PassesReplay, Verifies, Answer
<1>7. CASE Routed(s)
    <2>1. req[s].at = "authenticating"
        BY <1>7 DEF Routed, PassesReplay, Verifies
    <2>2. Answer(s) \/ GoesOn(s, "handling")
        BY <1>7 DEF Routed
    <2> QED
        BY <1>2, <2>1, <2>2, AnsweredKeeps, GoesOnKeeps DEF Answer
<1> QED
    BY <1>3, <1>4, <1>5, <1>6, <1>7 DEF Serve

\* An admitted request takes one slot; any other leaves the slots alone.
LEMMA IncomingKeeps == SlotsCounted /\ Incoming => SlotsCounted'
<1> SUFFICES ASSUME SlotsCounted, Incoming PROVE SlotsCounted'
    OBVIOUS
<1>1. CASE UNCHANGED <<req, active>>
    BY <1>1 DEF SlotsCounted, ReqOK, Holding, Busy
<1>2. ASSUME NEW c \in Call, NEW s \in Slot, Admit(s, c) PROVE SlotsCounted'
    <2> DEFINE r == [at |-> "reading", call |-> c, holds |-> TRUE]
    <2>1. req' = [req EXCEPT ![s] = r] /\ active' = active + 1 /\ ~Busy(s)
        BY <1>2 DEF Admit
    <2>2. r \in Waiting /\ r # Free /\ r.holds
        BY DEF Waiting, Free
    <2> HIDE DEF r
    <2>3. ReqOK' /\ Holding' = Holding \cup {s}
        BY <2>1, <2>2, HoldingAfter DEF SlotsCounted
    <2>4. s \notin Holding
        BY <2>1 DEF Holding
    <2>5. Cardinality(Holding \cup {s}) = Cardinality(Holding) + 1
        BY <2>4, HoldingFinite, FS_AddElement
    <2> QED
        BY <2>1, <2>3, <2>5 DEF SlotsCounted
<1> QED
    BY <1>1, <1>2 DEF Incoming, TurnAway, RejectFull, Throttle, AtOnce
-----------------------------------------------------------------------------
(***************************************************************************)
(* The replay window is the end of the sequence of ids that passed, which  *)
(* the history variable keeps one longer.                                  *)
(***************************************************************************)
Distinct(seq) == \A i, j \in DOMAIN seq : seq[i] = seq[j] => i = j

Remembers ==
    /\ fresh \in Seq(RequestId) /\ Len(fresh) <= ReplayLimit + 1
    /\ Distinct(fresh) /\ seenIds = Last(fresh, ReplayLimit)

\* The end of a sequence that is longer than the window.
LEMMA LastOfLonger ==
    ASSUME NEW S, NEW f \in Seq(S), NEW n \in Nat, Len(f) > n
    PROVE  /\ Last(f, n) \in Seq(S) /\ Len(Last(f, n)) = n
           /\ \A i \in 1..n : Last(f, n)[i] = f[i + Len(f) - n]
<1>1. Last(f, n) = SubSeq(f, Len(f) - n + 1, Len(f))
    BY DEF Last
<1>2. Len(f) - n + 1 \in 1..(Len(f) + 1) /\ Len(f) \in Nat /\ f \in Seq(S)
    OBVIOUS
<1>3. SubSeq(f, Len(f) - n + 1, Len(f)) \in Seq(S)
    BY <1>2
<1>4. Len(SubSeq(f, Len(f) - n + 1, Len(f))) = n
    BY <1>2
<1>5. \A i \in 1..n : SubSeq(f, Len(f) - n + 1, Len(f))[i] = f[i + Len(f) - n]
    BY <1>2
<1> QED
    BY <1>1, <1>3, <1>4, <1>5, Zenon

LEMMA LastOf ==
    ASSUME NEW S, NEW f \in Seq(S), NEW n \in Nat
    PROVE  /\ Last(f, n) \in Seq(S)
           /\ Len(f) <= n => Last(f, n) = f
           /\ Len(f) > n => /\ Len(Last(f, n)) = n
                            /\ \A i \in 1..n : Last(f, n)[i] = f[i + Len(f) - n]
<1>1. CASE Len(f) > n
    <2>1. ~(Len(f) <= n)
        BY <1>1
    <2> QED
        BY <1>1, <2>1, LastOfLonger, Zenon
<1>2. CASE ~(Len(f) > n)
    BY <1>2 DEF Last
<1> QED
    BY <1>1, <1>2

\* The window moves on with an id that it does not hold.
LEMMA WindowMoves ==
    ASSUME NEW S, NEW f \in Seq(S), NEW n \in Nat \ {0}, Len(f) <= n + 1, Distinct(f),
           NEW x \in S, x \notin AsSet(Last(f, n)),
           NEW g, g = Last(Append(f, x), n + 1)
    PROVE  /\ g \in Seq(S) /\ Len(g) <= n + 1 /\ Distinct(g)
           /\ Last(g, n) = Last(Append(Last(f, n), x), n)
<1>1. PICK t : t = Last(f, n)
    OBVIOUS
<1>2. t \in Seq(S)
    BY <1>1, LastOf
<1>3. g = Append(t, x) /\ Len(t) <= n /\ Distinct(t)
    <2>1. CASE Len(f) <= n
        <3>1. t = f
            BY <1>1, <2>1, LastOf
        <3>2. Append(f, x) \in Seq(S) /\ Len(Append(f, x)) <= n + 1 /\ n + 1 \in Nat
            BY <2>1
        <3>3. g = Append(f, x)
            BY <3>2, LastOf
        <3> QED
            BY <2>1, <3>1, <3>3
    <2>2. CASE Len(f) = n + 1
        <3>1. Len(t) = n /\ \A i \in 1..n : t[i] = f[i + 1]
            <4>1. n \in Nat /\ Len(f) > n
                BY <2>2
            <4>2. Len(t) = n /\ \A i \in 1..n : t[i] = f[i + Len(f) - n]
                BY <1>1, <4>1, LastOf, Zenon
            <4>3. \A i \in 1..n : i + Len(f) - n = i + 1
                BY <2>2
            <4> QED
                BY <4>2, <4>3
        <3>2. PICK h : h = Append(f, x)
            OBVIOUS
        <3>3. h \in Seq(S) /\ Len(h) = n + 2 /\ h[n + 2] = x /\ \A i \in 1..(n + 1) : h[i] = f[i]
            BY <2>2, <3>2
        <3>4. g = Last(h, n + 1)
            BY <3>2
        <3>5. /\ g \in Seq(S) /\ Len(g) = n + 1
              /\ \A i \in 1..(n + 1) : g[i] = h[i + 1]
            <4>1. n + 1 \in Nat /\ Len(h) > n + 1
                BY <3>3
            <4>2. /\ g \in Seq(S) /\ Len(g) = n + 1
                  /\ \A i \in 1..(n + 1) : g[i] = h[i + Len(h) - (n + 1)]
                <5>1. PICK m : m = n + 1
                    OBVIOUS
                <5>2. m \in Nat /\ Len(h) > m /\ h \in Seq(S) /\ g = Last(h, m)
                    BY <3>3, <3>4, <4>1, <5>1
                <5>3. /\ Last(h, m) \in Seq(S) /\ Len(Last(h, m)) = m
                      /\ \A i \in 1..m : Last(h, m)[i] = h[i + Len(h) - m]
                    BY <5>2, LastOfLonger, Zenon
                <5> QED
                    BY <5>1, <5>2, <5>3, Zenon
            <4> QED
                BY <3>3, <4>2
        <3>6. \A i \in 1..(n + 1) : g[i] = Append(t, x)[i]
            <4>1. \A i \in 1..n : g[i] = t[i] /\ Append(t, x)[i] = t[i]
                <5>1. \A i \in 1..n : Append(t, x)[i] = t[i]
                    BY <1>2, <3>1
                <5>2. \A i \in 1..n : i \in 1..(n + 1) /\ i + 1 \in 1..(n + 1)
                    OBVIOUS
                <5>3. ASSUME NEW i \in 1..n PROVE g[i] = t[i]
                    <6>1. i \in 1..(n + 1) /\ i + 1 \in 1..(n + 1)
                        BY <5>2, Zenon
                    <6>2. g[i] = h[i + 1]
                        BY <3>5, <6>1, Zenon
                    <6>3. h[i + 1] = f[i + 1]
                        BY <3>3, <6>1, Zenon
                    <6>4. t[i] = f[i + 1]
                        BY <3>1, Zenon
                    <6> QED
                        BY <6>2, <6>3, <6>4
                <5> QED
                    BY <5>1, <5>3
            <4>2. g[n + 1] = x /\ Append(t, x)[n + 1] = x
                BY <1>2, <3>1, <3>3, <3>5
            <4> QED
                <5>1. \A i \in 1..(n + 1) : i \in 1..n \/ i = n + 1
                    OBVIOUS
                <5> QED
                    BY <4>1, <4>2, <5>1, Zenon
        <3>7. Append(t, x) \in Seq(S) /\ Len(Append(t, x)) = n + 1
            BY <1>2, <3>1
        <3>8. g = Append(t, x)
            BY <3>5, <3>6, <3>7, SeqEqual
        <3>9. Distinct(t)
            <4>1. DOMAIN t = 1..n /\ DOMAIN f = 1..(n + 1)
                BY <1>2, <2>2, <3>1
            <4> SUFFICES ASSUME NEW i \in 1..n, NEW j \in 1..n, t[i] = t[j] PROVE i = j
                BY <4>1 DEF Distinct
            <4>2. f[i + 1] = f[j + 1]
                BY <3>1
            <4>3. i + 1 = j + 1
                BY <4>1, <4>2 DEF Distinct
            <4> QED
                BY <4>3
        <3> QED
            BY <3>1, <3>8, <3>9
    <2> QED
        BY <2>1, <2>2
<1>4. \A i \in DOMAIN t : t[i] # x
    BY <1>1 DEF AsSet
<1>5. Distinct(g)
    BY <1>2, <1>3, <1>4 DEF Distinct
<1>6. g \in Seq(S) /\ Len(g) <= n + 1
    BY <1>2, <1>3
<1>7. Last(g, n) = Last(Append(Last(f, n), x), n)
    BY <1>1, <1>3, Zenon
<1> QED
    BY <1>5, <1>6, <1>7
-----------------------------------------------------------------------------
(***************************************************************************)
(* The inductive invariant of the pipeline.                                *)
(***************************************************************************)
Admitted == SlotsCounted /\ active <= MaxConcurrent

Counted ==
    /\ window \in Nat /\ passed \in [Owner \cup Address -> Nat]
    /\ Honest(addresses, Address, AddressLimit, window, passed)
    /\ Honest(identities, Owner, IdentityLimit, window, passed)

Earned == told \in Owner \cup Address \cup {Nobody} /\ DenialEarned

PipelineInv == Admitted /\ Counted /\ Remembers /\ Earned

limiterVars == <<addresses, identities, window, passed>>
replayVars  == <<seenIds, fresh>>

LEMMA CallFields ==
    ASSUME NEW c \in Call
    PROVE  c.signer \in Owner /\ c.id \in RequestId /\ AddressKey(c) \in Address
BY CallsTyped, NobodyNew DEF CallType, AddressKey

LEMMA InitPipeline == PipelineInit => PipelineInv
<1> SUFFICES ASSUME PipelineInit PROVE PipelineInv
    OBVIOUS
<1>1. Admitted
    <2>1. \A s \in Slot : req[s] = Free
        BY DEF PipelineInit
    <2>2. Holding = {}
        BY <2>1 DEF Holding, Busy, Free
    <2>3. ReqOK
        BY DEF PipelineInit, ReqOK
    <2> QED
        BY <2>2, <2>3, FS_EmptySet, LimitsTyped DEF PipelineInit, Admitted, SlotsCounted
<1>2. Counted
    <2>1. /\ window \in Nat /\ passed \in [Owner \cup Address -> Nat]
          /\ \A k \in Owner \cup Address : passed[k] = 0
          /\ addresses = <<>> /\ identities = <<>>
        BY DEF PipelineInit
    <2> QED
        BY <2>1, HonestAtFirst DEF Counted
<1>3. Remembers
    <2>1. /\ fresh = <<>> /\ seenIds = <<>> /\ <<>> \in Seq(RequestId) /\ Len(<<>>) = 0
          /\ DOMAIN <<>> = {}
        BY DEF PipelineInit
    <2>2. Last(<<>>, ReplayLimit) = <<>> /\ 0 <= ReplayLimit + 1
        BY LimitsTyped DEF Last
    <2> QED
        BY <2>1, <2>2 DEF Remembers, Distinct
<1>4. Earned
    BY DEF PipelineInit, Earned, DenialEarned
<1> QED
    BY <1>1, <1>2, <1>3, <1>4 DEF PipelineInv

\* What is left alone stays as it was.
LEMMA CountedStays == Counted /\ UNCHANGED limiterVars => Counted'
BY DEF Counted, limiterVars

LEMMA RemembersStays == Remembers /\ UNCHANGED replayVars => Remembers'
BY DEF Remembers, replayVars

LEMMA AdmittedStays == Admitted /\ UNCHANGED <<req, active>> => Admitted'
BY DEF Admitted, SlotsCounted, ReqOK, Holding, Busy

LEMMA NobodyTold == told' = Nobody => Earned'
BY DEF Earned, DenialEarned

LEMMA EarnedStays == Earned /\ UNCHANGED <<told, passed>> => Earned'
BY DEF Earned, DenialEarned

\* Fewer slots are held: the bound goes on to hold.
LEMMA FewerAdmitted ==
    ASSUME Admitted, SlotsCounted', Holding' \subseteq Holding
    PROVE  Admitted'
<1>1. PICK H, I : H = Holding /\ I = Holding'
    OBVIOUS
<1>2. IsFiniteSet(H) /\ I \subseteq H
    BY <1>1, HoldingFinite
<1>3. Cardinality(I) <= Cardinality(H) /\ Cardinality(I) \in Nat /\ Cardinality(H) \in Nat
    BY <1>2, FS_Subset, FS_CardinalityType
<1>4. active = Cardinality(H) /\ active' = Cardinality(I) /\ active <= MaxConcurrent
    BY <1>1 DEF Admitted, SlotsCounted
<1>5. active' <= MaxConcurrent
    <2>1. PICK a, b : a = Cardinality(H) /\ b = Cardinality(I)
        OBVIOUS
    <2>2. b <= MaxConcurrent
        BY <1>3, <1>4, <2>1, LimitsTyped
    <2> QED
        BY <1>4, <2>1, <2>2
<1> QED
    BY <1>5 DEF Admitted

\* A denial: the bucket is full, and counts no more than have passed.
LEMMA FullBucket ==
    ASSUME NEW keys, NEW limit \in Nat \ {0}, NEW w \in Nat, NEW p, NEW b,
           Honest(b, keys, limit, w, p), NEW key \in keys, p[key] \in Nat,
           ~Allows(b, key, limit, w)
    PROVE  p[key] >= limit
<1>1. Consumed(b, key, w) >= limit /\ Consumed(b, key, w) \in Nat
    BY ConsumedTyped DEF Allows, Honest
<1>2. key \in Current(b, w)
    BY <1>1 DEF Consumed
<1>3. Consumed(b, key, w) <= p[key]
    BY <1>2 DEF Consumed, Current, Honest, CountsAtMost
<1> QED
    BY <1>1, <1>3

LEMMA ThrottleEarned == ASSUME PipelineInv, NEW c \in Call, Throttle(c) PROVE Earned'
<1>1. PICK k : k = AddressKey(c)
    OBVIOUS
<1>2. k \in Address /\ ~Allows(addresses, k, AddressLimit, window)
    BY <1>1, CallFields DEF Throttle
<1>3. passed[k] >= AddressLimit
    <2>1. passed[k] \in Nat /\ window \in Nat
        BY <1>2 DEF PipelineInv, Counted
    <2> QED
        BY <1>2, <2>1, FullBucket, LimitsTyped DEF PipelineInv, Counted
<1>4. told' = k /\ passed' = passed
    BY <1>1 DEF Throttle, AtOnce
<1>5. k \notin Owner
    BY <1>2, KeysApart
<1> QED
    BY <1>2, <1>3, <1>4, <1>5 DEF Earned, DenialEarned

\* One pass of a key that Allows, in either limiter.
LEMMA PassedCounts ==
    ASSUME Counted, NEW n \in Nat, NEW key \in Owner \cup Address,
           passed' = CountedUpTo(n, key)
    PROVE  /\ passed' \in [Owner \cup Address -> Nat]
           /\ passed'[key] = IF passed[key] < n THEN passed[key] + 1 ELSE passed[key]
           /\ \A k \in (Owner \cup Address) \ {key} : passed'[k] = passed[k]
BY DEF Counted, CountedUpTo

LEMMA PassKeeps ==
    ASSUME NEW K, NEW keys \in SUBSET K, NEW limit \in Nat \ {0}, NEW w \in Nat,
           NEW p \in [K -> Nat], NEW q \in [K -> Nat], NEW b,
           Honest(b, keys, limit, w, p), NEW key \in keys, Consumed(b, key, w) < limit,
           q[key] = IF p[key] < limit + 1 THEN p[key] + 1 ELSE p[key],
           \A k \in K \ {key} : q[k] = p[k]
    PROVE  Honest(Consume(b, key, w), keys, limit, w, q)
<1>1. PICK pk, qk : pk = [k \in keys |-> p[k]] /\ qk = [k \in keys |-> q[k]]
    OBVIOUS
<1>2. /\ pk \in [keys -> Nat] /\ qk \in [keys -> Nat]
      /\ \A k \in keys : pk[k] = p[k] /\ qk[k] = q[k]
    BY <1>1
<1>3. Honest(b, keys, limit, w, pk)
    BY <1>2, HonestElsewhere
<1>4. /\ qk[key] = IF pk[key] < limit + 1 THEN pk[key] + 1 ELSE pk[key]
      /\ \A k \in keys \ {key} : qk[k] = pk[k]
    BY <1>2
<1>5. Honest(Consume(b, key, w), keys, limit, w, qk)
    BY <1>2, <1>3, <1>4, ConsumeHonest
<1> QED
    BY <1>2, <1>5, HonestElsewhere

LEMMA AdmitCounts ==
    ASSUME PipelineInv, NEW c \in Call, NEW s \in Slot, Admit(s, c)
    PROVE  Counted'
<1>1. PICK k, p, q, w : k = AddressKey(c) /\ p = passed /\ q = passed' /\ w = window
    OBVIOUS
<1>2. /\ k \in Address /\ Consumed(addresses, k, w) < AddressLimit
      /\ addresses' = Consume(addresses, k, w) /\ identities' = identities /\ window' = w
      /\ passed' = CountedUpTo(AddressLimit + 1, k)
    BY <1>1, CallFields DEF Admit, Allows
<1>3. /\ p \in [Owner \cup Address -> Nat] /\ w \in Nat
      /\ Honest(addresses, Address, AddressLimit, w, p)
      /\ Honest(identities, Owner, IdentityLimit, w, p)
    BY <1>1 DEF PipelineInv, Counted
<1>4. /\ q \in [Owner \cup Address -> Nat]
      /\ q[k] = IF p[k] < AddressLimit + 1 THEN p[k] + 1 ELSE p[k]
      /\ \A l \in (Owner \cup Address) \ {k} : q[l] = p[l]
    <2>1. AddressLimit + 1 \in Nat
        BY LimitsTyped
    <2> QED
        BY <1>1, <1>2, <2>1, PassedCounts DEF PipelineInv
<1>5. Honest(Consume(addresses, k, w), Address, AddressLimit, w, q)
    <2>1. Address \in SUBSET (Owner \cup Address)
        OBVIOUS
    <2> QED
        BY <1>2, <1>3, <1>4, <2>1, PassKeeps, LimitsTyped
<1>6. Honest(identities, Owner, IdentityLimit, w, q)
    <2>1. \A l \in Owner : q[l] = p[l]
        BY <1>2, <1>4, KeysApart
    <2> QED
        BY <1>3, <2>1, HonestElsewhere
<1> QED
    BY <1>1, <1>2, <1>3, <1>4, <1>5, <1>6 DEF Counted

LEMMA RoutedCounts ==
    ASSUME PipelineInv, NEW s \in Slot, req[s].call \in Call, Routed(s)
    PROVE  Counted'
<1>1. PICK k, p, q, w : k = req[s].call.signer /\ p = passed /\ q = passed' /\ w = window
    OBVIOUS
<1>2. /\ k \in Owner /\ Consumed(identities, k, w) < IdentityLimit
      /\ identities' = Consume(identities, k, w) /\ addresses' = addresses /\ window' = w
      /\ passed' = CountedUpTo(IdentityLimit + 1, k)
    BY <1>1, CallFields DEF Routed, Allows, IdentityKey
<1>3. /\ p \in [Owner \cup Address -> Nat] /\ w \in Nat
      /\ Honest(identities, Owner, IdentityLimit, w, p)
      /\ Honest(addresses, Address, AddressLimit, w, p)
    BY <1>1 DEF PipelineInv, Counted
<1>4. /\ q \in [Owner \cup Address -> Nat]
      /\ q[k] = IF p[k] < IdentityLimit + 1 THEN p[k] + 1 ELSE p[k]
      /\ \A l \in (Owner \cup Address) \ {k} : q[l] = p[l]
    <2>1. IdentityLimit + 1 \in Nat
        BY LimitsTyped
    <2> QED
        BY <1>1, <1>2, <2>1, PassedCounts DEF PipelineInv
<1>5. Honest(Consume(identities, k, w), Owner, IdentityLimit, w, q)
    <2>1. Owner \in SUBSET (Owner \cup Address)
        OBVIOUS
    <2> QED
        BY <1>2, <1>3, <1>4, <2>1, PassKeeps, LimitsTyped
<1>6. Honest(addresses, Address, AddressLimit, w, q)
    <2>1. \A l \in Address : q[l] = p[l]
        BY <1>2, <1>4, KeysApart
    <2> QED
        BY <1>3, <2>1, HonestElsewhere
<1> QED
    BY <1>1, <1>2, <1>3, <1>4, <1>5, <1>6 DEF Counted

LEMMA ReplayRemembers ==
    ASSUME PipelineInv, NEW s \in Slot, req[s].call \in Call, PassesReplay(s)
    PROVE  Remembers'
<1>1. PICK x, f, g, n : /\ x = req[s].call.id /\ f = fresh /\ g = fresh' /\ n = ReplayLimit
    OBVIOUS
<1>2. /\ x \in RequestId /\ f \in Seq(RequestId) /\ Len(f) <= n + 1 /\ Distinct(f)
      /\ n \in Nat \ {0} /\ x \notin AsSet(Last(f, n)) /\ g = Last(Append(f, x), n + 1)
    BY <1>1, CallFields, LimitsTyped DEF PassesReplay, PipelineInv, Remembers
<1>3. /\ g \in Seq(RequestId) /\ Len(g) <= n + 1 /\ Distinct(g)
      /\ Last(g, n) = Last(Append(Last(f, n), x), n)
    BY <1>2, WindowMoves
<1>4. seenIds' = Last(Append(Last(f, n), x), n)
    BY <1>1 DEF PassesReplay, Remembered, PipelineInv, Remembers
<1>5. seenIds' = Last(g, n)
    BY <1>3, <1>4
<1> QED
    BY <1>1, <1>3, <1>5 DEF Remembers
-----------------------------------------------------------------------------
(***************************************************************************)
(* Every step of the pipeline, one lemma for each group of handlers.       *)
(***************************************************************************)
LEMMA IncomingStep == PipelineInv /\ Incoming => PipelineInv'
<1> SUFFICES ASSUME PipelineInv, Incoming PROVE PipelineInv'
    OBVIOUS
<1>1. SlotsCounted'
    BY IncomingKeeps DEF PipelineInv, Admitted
<1>2. ASSUME NEW c \in Call, TurnAway(c) \/ RejectFull(c) \/ Throttle(c)
      PROVE  PipelineInv'
    <2>1. UNCHANGED <<req, active>> /\ UNCHANGED limiterVars /\ UNCHANGED replayVars
        BY <1>2 DEF TurnAway, RejectFull, Throttle, AtOnce, limiterVars, replayVars
    <2>2. told' = Nobody \/ Throttle(c)
        BY <1>2 DEF TurnAway, RejectFull, AtOnce
    <2>3. Earned'
        BY <2>2, NobodyTold, ThrottleEarned
    <2> QED
        BY <2>1, <2>3, AdmittedStays, CountedStays, RemembersStays DEF PipelineInv
<1>3. ASSUME NEW c \in Call, NEW s \in Slot, Admit(s, c) PROVE PipelineInv'
    <2>1. Counted'
        BY <1>3, AdmitCounts
    <2>2. Remembers' /\ Earned'
        BY <1>3, RemembersStays, NobodyTold DEF Admit, replayVars, PipelineInv
    <2>3. active' <= MaxConcurrent
        <3>1. active' = active + 1 /\ active < MaxConcurrent
            BY <1>3 DEF Admit, HasRoom
        <3>2. active \in Nat
            BY HoldingFinite DEF PipelineInv, Admitted, SlotsCounted
        <3>3. PICK a, b : a = active /\ b = active'
            OBVIOUS
        <3>4. b <= MaxConcurrent
            BY <3>1, <3>2, <3>3, LimitsTyped
        <3> QED
            BY <3>3, <3>4
    <2> QED
        BY <1>1, <2>1, <2>2, <2>3 DEF PipelineInv, Admitted
<1> QED
    BY <1>2, <1>3 DEF Incoming

LEMMA ServeStep ==
    ASSUME PipelineInv, NEW s \in Slot, Serve(s) \/ Disconnect(s)
    PROVE  PipelineInv'
<1>1. Admitted'
    BY ServeKeeps, FewerAdmitted DEF PipelineInv, Admitted
<1>2. req[s].at = "authenticating" => req[s].call \in Call
    <2>1. req[s] \in {Free} \cup Waiting \cup Running
        BY DEF PipelineInv, Admitted, SlotsCounted, ReqOK
    <2> QED
        BY <2>1 DEF Free, Waiting, Running
<1>3. CASE \/ Unreadable(s) \/ Read(s) \/ Probed(s) \/ Unverified(s) \/ Replayed(s)
           \/ Handled(s) \/ Disconnect(s)
    <2>1. UNCHANGED limiterVars /\ UNCHANGED replayVars
        BY <1>3 DEF Unreadable, Read, Probed, Unverified, Replayed, Handled, Disconnect,
           limiterVars, replayVars
    <2>2. told' = Nobody
        BY <1>3 DEF Unreadable, Read, Probed, Unverified, Replayed, Handled, Disconnect,
           Answer, Answered, GoesOn
    <2> QED
        BY <1>1, <2>1, <2>2, CountedStays, RemembersStays, NobodyTold DEF PipelineInv
<1>4. CASE OverAllowance(s)
    <2>1. PassesReplay(s) /\ req[s].call \in Call
        BY <1>2, <1>4 DEF OverAllowance, PassesReplay, Verifies
    <2>2. UNCHANGED limiterVars
        BY <1>4 DEF OverAllowance, limiterVars
    <2>3. PICK k : k = req[s].call.signer
        OBVIOUS
    <2>4. k \in Owner /\ ~Allows(identities, k, IdentityLimit, window)
        BY <1>4, <2>1, <2>3, CallFields DEF OverAllowance, IdentityKey
    <2>5. passed[k] >= IdentityLimit
        <3>1. passed[k] \in Nat /\ window \in Nat
            BY <2>4 DEF PipelineInv, Counted
        <3> QED
            BY <2>4, <3>1, FullBucket, LimitsTyped DEF PipelineInv, Counted
    <2>6. told' = k /\ passed' = passed
        BY <1>4, <2>3 DEF OverAllowance, Answered
    <2>7. Earned'
        BY <2>4, <2>5, <2>6 DEF Earned, DenialEarned
    <2> QED
        BY <1>1, <2>1, <2>2, <2>7, CountedStays, ReplayRemembers DEF PipelineInv
<1>5. CASE Routed(s)
    <2>1. PassesReplay(s) /\ req[s].call \in Call
        BY <1>2, <1>5 DEF Routed, PassesReplay, Verifies
    <2>2. told' = Nobody
        BY <1>5 DEF Routed, Answer, Answered, GoesOn
    <2> QED
        BY <1>1, <1>5, <2>1, <2>2, NobodyTold, RoutedCounts, ReplayRemembers DEF PipelineInv
<1> QED
    BY <1>3, <1>4, <1>5 DEF Serve

LEMMA WindowStep == PipelineInv /\ NextWindow => PipelineInv'
<1> SUFFICES ASSUME PipelineInv, NextWindow PROVE PipelineInv'
    OBVIOUS
<1>1. PICK w, p, q : w = window /\ p = passed /\ q = passed'
    OBVIOUS
<1>2. /\ w \in Nat /\ window' = w + 1 /\ q \in [Owner \cup Address -> Nat]
      /\ \A k \in Owner \cup Address : q[k] = 0
      /\ UNCHANGED <<addresses, identities>>
    BY <1>1 DEF NextWindow, PipelineInv, Counted
<1>3. /\ Honest(addresses, Address, AddressLimit, w, p)
      /\ Honest(identities, Owner, IdentityLimit, w, p)
    BY <1>1 DEF PipelineInv, Counted
<1>4. /\ Honest(addresses, Address, AddressLimit, w + 1, q)
      /\ Honest(identities, Owner, IdentityLimit, w + 1, q)
    BY <1>2, <1>3, HonestAgain
<1>5. Counted'
    <2>1. w + 1 \in Nat
        BY <1>2
    <2> QED
        BY <1>1, <1>2, <1>4, <2>1 DEF Counted
<1>6. Admitted' /\ Remembers' /\ Earned'
    BY AdmittedStays, RemembersStays, NobodyTold DEF NextWindow, replayVars, PipelineInv
<1> QED
    BY <1>5, <1>6 DEF PipelineInv

LEMMA StepPipeline == PipelineInv /\ [PipelineNext]_pipelineVars => PipelineInv'
<1> SUFFICES ASSUME PipelineInv, [PipelineNext]_pipelineVars PROVE PipelineInv'
    OBVIOUS
<1>1. CASE Surroundings \/ UNCHANGED pipelineVars
    <2>1. UNCHANGED <<req, active>> /\ UNCHANGED limiterVars /\ UNCHANGED replayVars
        BY <1>1 DEF Surroundings, pipelineVars, limiterVars, replayVars
    <2>2. told' = Nobody \/ UNCHANGED <<told, passed>>
        BY <1>1 DEF Surroundings, pipelineVars
    <2>3. Earned'
        BY <2>2, NobodyTold, EarnedStays DEF PipelineInv
    <2> QED
        BY <2>1, <2>3, AdmittedStays, CountedStays, RemembersStays DEF PipelineInv
<1> QED
    BY <1>1, IncomingStep, ServeStep, WindowStep DEF PipelineNext

LEMMA PipelineTypes == PipelineInv => PipelineTypeOK
<1> SUFFICES ASSUME PipelineInv PROVE PipelineTypeOK
    OBVIOUS
<1>1. \A s \in Slot : req[s].at \in {"free", "reading", "probing", "authenticating",
                                     "handling"}
    BY DEF PipelineInv, Admitted, SlotsCounted, ReqOK, Free, Waiting, Running
<1>2. active = Cardinality({s \in Slot : Busy(s) /\ req[s].holds}) /\ active <= MaxConcurrent
    BY DEF PipelineInv, Admitted, SlotsCounted, Holding
<1>3. /\ Cardinality(DOMAIN addresses) <= MaxBuckets
      /\ Cardinality(DOMAIN identities) <= MaxBuckets
    BY DEF PipelineInv, Counted, Honest, InOrder
<1>4. Len(seenIds) <= ReplayLimit
    <2>1. ReplayLimit \in Nat
        BY LimitsTyped
    <2>2. \/ Len(fresh) <= ReplayLimit /\ seenIds = fresh
          \/ Len(fresh) > ReplayLimit /\ Len(seenIds) = ReplayLimit
        <3>1. fresh \in Seq(RequestId) /\ seenIds = Last(fresh, ReplayLimit)
            BY DEF PipelineInv, Remembers
        <3>2. Len(fresh) <= ReplayLimit \/ Len(fresh) > ReplayLimit
            BY <2>1, <3>1
        <3> QED
            BY <2>1, <3>1, <3>2, LastOf
    <2> QED
        BY <2>1, <2>2
<1> QED
    BY <1>1, <1>2, <1>3, <1>4 DEF PipelineTypeOK, PipelineInv, Earned

LEMMA AllowancesHold == PipelineInv => AllowanceKept
<1> SUFFICES ASSUME PipelineInv PROVE AllowanceKept
    OBVIOUS
<1>1. ASSUME NEW keys \in SUBSET (Owner \cup Address), NEW limit \in Nat \ {0}, NEW b,
             Honest(b, keys, limit, window, passed)
      PROVE  WithinAllowance(keys, limit)
    <2> SUFFICES ASSUME Cardinality({k \in keys : passed[k] > 0}) <= MaxBuckets,
                        NEW k \in keys
                 PROVE  passed[k] <= limit
        BY DEF WithinAllowance
    <2>1. passed[k] \in Nat
        BY DEF PipelineInv, Counted
    <2>2. CASE passed[k] > 0
        <3>1. k \in Current(b, window) /\ b[k].count = passed[k]
            BY <1>1, <2>2 DEF Honest, CountsAll, Passing
        <3> QED
            BY <1>1, <3>1 DEF Honest, CountsAtMost, Current
    <2>3. CASE passed[k] = 0
        BY <2>3
    <2> QED
        BY <2>1, <2>2, <2>3
<1> QED
    BY <1>1, LimitsTyped DEF AllowanceKept, PipelineInv, Counted

LEMMA PromisesHold == PipelineInv => DenialEarned /\ AllowanceKept /\ ReplayWindowHolds
BY AllowancesHold DEF PipelineInv, Earned, Remembers, Distinct, ReplayWindowHolds

-----------------------------------------------------------------------------
(***************************************************************************)
(* The invariant holds always, for every number of slots, addresses,       *)
(* identities and ids, all limits, and any number of windows.              *)
(***************************************************************************)
THEOREM PipelineInvariant == PipelineSpec => []PipelineInv
BY InitPipeline, StepPipeline, PTL DEF PipelineSpec

(***************************************************************************)
(* Types and sizes: the admission count is the number of requests that     *)
(* hold a slot and at most the bound, and neither of the rate limiters'    *)
(* Maps nor the replay window outgrows its limit (service.ts:345-354).     *)
(***************************************************************************)
THEOREM PipelineTypeCorrect == PipelineSpec => []PipelineTypeOK
BY PipelineInvariant, PipelineTypes, PTL

(***************************************************************************)
(* A 429 is earned: whoever is told to wait has had the whole allowance of *)
(* the window, whatever others send, and however the Map was evicted.      *)
(***************************************************************************)
THEOREM DenialsAreEarned == PipelineSpec => []DenialEarned
BY PromisesHold, PipelineInvariant, PTL

(***************************************************************************)
(* An allowance is kept: as long as no more keys have passed in the window *)
(* than the Map has room for, none has passed more often than its limit,   *)
(* and what is left of earlier windows takes none of that room.            *)
(***************************************************************************)
THEOREM AllowancesAreKept == PipelineSpec => []AllowanceKept
BY PromisesHold, PipelineInvariant, PTL

(***************************************************************************)
(* A request id passes the replay window again only after ReplayLimit      *)
(* others, for every limit and however many requests are authenticated at  *)
(* the same time.                                                          *)
(***************************************************************************)
THEOREM RequestIdsPassOnce == PipelineSpec => []ReplayWindowHolds
BY PromisesHold, PipelineInvariant, PTL
=============================================================================
