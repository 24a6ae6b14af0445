------------------------------ MODULE LfuCache ------------------------------
(***************************************************************************)
(* `LfuCache` (oxistore-cache/src/lfu.rs): a use count per key, one        *)
(* ordered bucket of keys per count, and `min_freq`, the count whose       *)
(* bucket the next victim is taken from.  A bucket that becomes empty is   *)
(* removed from the map of buckets; here it is the empty sequence, which   *)
(* `evict` treats as the code treats a missing one.  Counts are u64 in the *)
(* code and capped at MaxFreq here.                                        *)
(***************************************************************************)
EXTENDS CacheCore

CONSTANT MaxFreq        \* bound on use counts

ASSUME LfuConstants == MaxFreq \in Nat \ {0}

LfuNew(cap) == [policy |-> "lfu", cap |-> cap, min_freq |-> 0,
                freq |-> [k \in Key |-> 0],
                bucket |-> [f \in 1 .. MaxFreq |-> <<>>],
                entry |-> NoEntries]

LfuHas(c, k) == c.freq[k] > 0

LfuLen(c) == Cardinality({k \in Key : LfuHas(c, k)})

increment_freq(c, k) ==
    LET old  == c.freq[k]
        left == Without(c.bucket[old], k)
    IN  [c EXCEPT !.freq[k] = old + 1,
                  !.bucket[old] = left,
                  !.bucket[old + 1] = ToBack(@, k),
                  !.min_freq = IF left = <<>> /\ old = @ THEN old + 1 ELSE @]

\* `remove`, and what `get` does to an expired entry; min_freq is not touched.
LfuRemove(c, k) ==
    IF LfuHas(c, k)
    THEN [c EXCEPT !.bucket[c.freq[k]] = Without(@, k),
                   !.freq[k] = 0, !.entry[k] = None]
    ELSE c

\* `evict`: does nothing when no bucket is kept for min_freq.
LfuEvict(c) ==
    IF c.min_freq = 0 THEN c
    ELSE IF c.bucket[c.min_freq] = <<>> THEN c
    ELSE LfuRemove(c, Head(c.bucket[c.min_freq]))

LfuInsert(c, k, e) ==
    IF c.cap = 0 THEN c
    ELSE IF LfuHas(c, k) THEN increment_freq([c EXCEPT !.entry[k] = e], k)
    ELSE LET room == IF LfuLen(c) >= c.cap THEN LfuEvict(c) ELSE c
         IN  [room EXCEPT !.freq[k] = 1, !.entry[k] = e, !.min_freq = 1,
                          !.bucket[1] = ToBack(@, k)]

LfuPeek(c, k, now) ==
    IF LfuHas(c, k) /\ ~is_expired(c.entry[k], now)
    THEN c.entry[k].val ELSE None

LfuGet(c, k, now) ==
    [cache |-> IF ~LfuHas(c, k) THEN c
               ELSE IF is_expired(c.entry[k], now) THEN LfuRemove(c, k)
               ELSE increment_freq(c, k),
     val |-> LfuPeek(c, k, now)]

\* The loop of `resize`: its condition and its body.
LfuOver(c) == c.cap > 0 /\ LfuLen(c) > c.cap
LfuShrink(c) == LfuEvict(c)
=============================================================================
