---------------------------- MODULE BoundedCache -----------------------------
(***************************************************************************)
(* BoundedCache (oxistore-cache/src/bounded.rs): a byte budget around any  *)
(* cache.  It counts the bytes of what it put in and remembers the order   *)
(* of insertion; the cache inside also evicts, expires and shrinks by      *)
(* itself and tells nobody.                                                *)
(*                                                                         *)
(* Byte strings are abstracted to their lengths; all keys have length 1.   *)
(***************************************************************************)
EXTENDS Cache

CONSTANTS Lengths,      \* the lengths of values
          Budgets,      \* the values of max_bytes to consider
          Wrapped,      \* the policies to wrap
          MaxCount      \* bound on current_bytes

ASSUME BoundedAssumption ==
    /\ Lengths \subseteq Nat /\ Budgets \subseteq Nat /\ MaxCount \in Nat
    /\ Wrapped \subseteq Policy

VARIABLES inner, max_bytes, current_bytes, order, clock

boundedVars == <<inner, max_bytes, current_bytes, order, clock>>

BoundedInit ==
    /\ \E p \in Wrapped : \E cap \in Caps[p] : inner = CacheNew(p, cap)
    /\ max_bytes \in Budgets
    /\ current_bytes = 0
    /\ order = <<>>
    /\ clock = 0

EntrySize(len) == 1 + len

\* saturating_sub
Minus(a, b) == IF a > b THEN a - b ELSE 0

\* The bytes of k as `remove` and `peek` of the cache inside report it: an
\* expired entry is removed all the same, and only peek says None.
SizeIn(c, k) == IF c.entry[k] = None THEN 0 ELSE EntrySize(c.entry[k].val)

\* Mutant: the eviction makes the old entries fit, not the new one with them.
OverBudget(bytes, needed) == bytes > max_bytes

\* The condition of the loop of evict_until_fits.
Exceeds(bytes, needed) == bytes + needed > max_bytes

\* The cache, the count and the order after i rounds of the loop, which ends
\* when the new entry fits or no key is left to pop.
evict_until_fits(needed) ==
    LET round[i \in 0..Len(order)] ==
            IF i = 0 THEN [cache |-> inner, bytes |-> current_bytes, order |-> order]
            ELSE LET s == round[i - 1]
                     oldest == order[i]
                 IN  IF ~Exceeds(s.bytes, needed) THEN s
                     ELSE [cache |-> CacheRemove(s.cache, oldest),
                           bytes |-> Minus(s.bytes, SizeIn(s.cache, oldest)),
                           order |-> Tail(s.order)]
    IN  round[Len(order)]

\* The bytes subtracted for the value a put replaces.
Replaced(c, k, len) ==
    IF CachePeek(c, k, clock) = None THEN 0 ELSE SizeIn(c, k)

bounded_insert(k, len, exp) ==
    /\ MayUse(inner, k)
    /\ current_bytes + EntrySize(len) <= MaxCount
    /\ LET left == evict_until_fits(EntrySize(len))
           there == CachePeek(left.cache, k, clock) # None
       IN  /\ current_bytes' = Minus(left.bytes, Replaced(left.cache, k, len)) + EntrySize(len)
           /\ order' = Append(IF there THEN Remove(left.order, k) ELSE left.order, k)
           /\ inner' \in CacheInsert(left.cache, k, [val |-> len, exp |-> exp])
    /\ UNCHANGED <<max_bytes, clock>>

bounded_put(k, len) == bounded_insert(k, len, None)
bounded_put_with_ttl(k, len, d) == clock + d <= MaxTime /\ bounded_insert(k, len, clock + d)

bounded_get(k) ==
    /\ MayUse(inner, k)
    /\ inner' = CacheGet(inner, k, clock).cache
    /\ UNCHANGED <<max_bytes, current_bytes, order, clock>>

\* Without an entry only the cache inside may change: ARC forgets the ghost.
bounded_remove(k) ==
    /\ inner' = CacheRemove(inner, k)
    /\ current_bytes' = Minus(current_bytes, SizeIn(inner, k))
    /\ order' = IF inner.entry[k] = None THEN order ELSE Remove(order, k)
    /\ UNCHANGED <<max_bytes, clock>>

bounded_clear ==
    /\ inner' = CacheNew(inner.policy, inner.cap)
    /\ current_bytes' = 0
    /\ order' = <<>>
    /\ UNCHANGED <<max_bytes, clock>>

\* The loop of resize inside, which does not touch the counts.  Where LFU's
\* makes no progress the call does not return: there is no state after it.
bounded_resize(cap) ==
    LET shrunk[i \in 0..Cardinality(Key)] ==
            IF i = 0 THEN CacheResized(inner, cap)
            ELSE IF CacheOver(shrunk[i - 1]) THEN CacheShrink(shrunk[i - 1])
            ELSE shrunk[i - 1]
    IN  /\ ~CacheOver(shrunk[Cardinality(Key)])
        /\ inner' = shrunk[Cardinality(Key)]
        /\ UNCHANGED <<max_bytes, current_bytes, order, clock>>

BoundedTick ==
    /\ clock < MaxTime
    /\ clock' = clock + 1
    /\ UNCHANGED <<inner, max_bytes, current_bytes, order>>

BoundedNext ==
    \/ \E k \in Key, len \in Lengths :
        \/ bounded_put(k, len)
        \/ \E d \in 0..MaxTime : bounded_put_with_ttl(k, len, d)
    \/ \E k \in Key : bounded_get(k) \/ bounded_remove(k)
    \/ bounded_clear
    \/ \E cap \in Caps[inner.policy] : bounded_resize(cap)
    \/ BoundedTick

-----------------------------------------------------------------------------
Bytes(c) == FoldSet(LAMBDA k, sum : SizeIn(c, k) + sum, 0, Key)

\* The count never falls below what is held, whatever the cache inside
\* evicted, expired or refused by itself, and every held key can be evicted.
NeverUndercounts ==
    /\ Bytes(inner) <= current_bytes
    /\ Cached(inner) \subseteq ToSet(order)

\* The budget holds for what is held; only a single entry larger than the
\* whole budget exceeds it.
BudgetHeld ==
    Bytes(inner) <= max_bytes \/ Cardinality(Cached(inner)) = 1
=============================================================================
