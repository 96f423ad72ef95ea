----------------------------- MODULE FixedWindow ----------------------------
(***************************************************************************)
(* The fixed-window rate limiter, which the service has twice: per address *)
(* before authentication and per identity after it.  Its Map from key to   *)
(* {window, count} is a function.  A Map remembers the order of insertion  *)
(* as well, and a pass moves its key to the end: older is the set of keys  *)
(* that come before the key.                                               *)
(***************************************************************************)
EXTENDS Integers, FiniteSets

CONSTANT MaxBuckets   \* RATE_LIMIT_MAX_KEYS: the keys a Map holds

\* The keys that were admitted in this window, as far as the Map knows.
Current(buckets, window) == {k \in DOMAIN buckets : buckets[k].window = window}

\* What the key has consumed of this window.
Consumed(buckets, key, window) ==
    IF key \in Current(buckets, window) THEN buckets[key].count ELSE 0

\* (mutant) one more than the limit
MutAllows(buckets, key, limit, window) == Consumed(buckets, key, window) <= limit

Allows(buckets, key, limit, window) == Consumed(buckets, key, window) < limit

\* evict: the keys of other windows go, then the oldest, until there is room for
\* one more.
Kept(buckets, window) ==
    LET current == Current(buckets, window)
        excess  == Cardinality(current) - MaxBuckets + 1
    IN  {k \in current : Cardinality(buckets[k].older \cap current) >= excess}

\* consume of a key that Allows: a denial leaves the Map as it is.
Consume(buckets, key, window) ==
    LET full   == key \notin DOMAIN buckets /\ Cardinality(DOMAIN buckets) >= MaxBuckets
        others == (IF full THEN Kept(buckets, window) ELSE DOMAIN buckets) \ {key}
    IN  [k \in others \cup {key} |->
            IF k = key
            THEN [window |-> window, count |-> Consumed(buckets, key, window) + 1,
                  older  |-> others]
            ELSE [buckets[k] EXCEPT !.older = @ \cap others]]
=============================================================================
