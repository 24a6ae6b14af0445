------------------------------- MODULE Cache -------------------------------
(***************************************************************************)
(* The `Cache` trait (oxistore-cache/src/lib.rs) over any of the four      *)
(* policies: the operations as operators that dispatch on the policy, and  *)
(* as actions of a cache used directly by one caller.  Every method takes  *)
(* `&mut self`, so operations on one cache never overlap.                  *)
(*                                                                         *)
(* `resize` is a loop in all four policies.  Its iterations are steps here *)
(* because one of the loops may fail to make progress; while it runs,      *)
(* nothing else can.                                                       *)
(***************************************************************************)
EXTENDS LruCache, LfuCache, ArcCache, WTinyLfuCache

CONSTANTS
    Caps,       \* for each policy, the capacities a caller may ask for
    MaxTime     \* bound on the clock

Policy == {"lru", "lfu", "arc", "tinylfu"}

ASSUME CapsAssumption == Caps \in [Policy -> SUBSET Nat]

VARIABLES
    cache,      \* the state of the cache, a record of its policy
    now,        \* Instant::now()
    resizing,   \* TRUE inside the loop of `resize`
    last        \* ghost: the entry last put under each key; None once the
                \*   key was removed or left the cache

cacheVars == <<cache, now, resizing, last>>

----------------------------------------------------------------------------
(* The methods of the trait, dispatched on the policy. *)

CacheNew(policy, cap) ==
    CASE policy = "lru" -> LruNew(cap)
      [] policy = "lfu" -> LfuNew(cap)
      [] policy = "arc" -> ArcNew(cap)
      [] policy = "tinylfu" -> TinyNew(cap)

CacheLen(c) ==
    CASE c.policy = "lru" -> LruLen(c)
      [] c.policy = "lfu" -> LfuLen(c)
      [] c.policy = "arc" -> ArcLen(c)
      [] c.policy = "tinylfu" -> TinyLen(c)

\* What `get` leaves behind and answers.
CacheGet(c, k, t) ==
    CASE c.policy = "lru" -> LruGet(c, k, t)
      [] c.policy = "lfu" -> LfuGet(c, k, t)
      [] c.policy = "arc" -> ArcGet(c, k, t)
      [] c.policy = "tinylfu" -> TinyGet(c, k, t)

CachePeek(c, k, t) ==
    CASE c.policy = "lru" -> LruPeek(c, k, t)
      [] c.policy = "lfu" -> LfuPeek(c, k, t)
      [] c.policy = "arc" -> ArcPeek(c, k, t)
      [] c.policy = "tinylfu" -> TinyPeek(c, k, t)

\* The caches `insert_entry` may leave behind.
CacheInsert(c, k, e) ==
    CASE c.policy = "lru" -> {LruInsert(c, k, e)}
      [] c.policy = "lfu" -> {LfuInsert(c, k, e)}
      [] c.policy = "arc" -> {ArcInsert(c, k, e)}
      [] c.policy = "tinylfu" -> TinyInsert(c, k, e)

CacheRemove(c, k) ==
    CASE c.policy = "lru" -> LruRemove(c, k)
      [] c.policy = "lfu" -> LfuRemove(c, k)
      [] c.policy = "arc" -> ArcRemove(c, k)
      [] c.policy = "tinylfu" -> TinyRemove(c, k)

CacheResized(c, cap) ==
    CASE c.policy \in {"lru", "lfu"} -> [c EXCEPT !.cap = cap]
      [] c.policy = "arc" -> ArcResized(c, cap)
      [] c.policy = "tinylfu" -> [c EXCEPT !.cap = TinyCap(cap)]

CacheOver(c) ==
    CASE c.policy = "lru" -> LruOver(c)
      [] c.policy = "lfu" -> LfuOver(c)
      [] c.policy = "arc" -> ArcOver(c)
      [] c.policy = "tinylfu" -> TinyOver(c)

CacheShrink(c) ==
    CASE c.policy = "lru" -> LruShrink(c)
      [] c.policy = "lfu" -> LfuShrink(c)
      [] c.policy = "arc" -> ArcShrink(c)
      [] c.policy = "tinylfu" -> TinyShrink(c)

\* The keys with an entry, expired ones included.
Cached(c) == {k \in Key : c.entry[k] # None}

\* The bound on use counts: k may be used once more.
MayUse(c, k) == c.policy = "lfu" => c.freq[k] < MaxFreq

----------------------------------------------------------------------------
(* A cache used directly. *)

CacheInit(policies) ==
    /\ \E policy \in policies : \E cap \in Caps[policy] :
           cache = CacheNew(policy, cap)
    /\ now = 0
    /\ resizing = FALSE
    /\ last = [k \in Key |-> None]

\* The ghost after a step: f for the keys still cached.
Remember(f) == last' = [k \in Key |-> IF k \in Cached(cache') THEN f[k]
                                                             ELSE None]

\* put (d = None) and put_with_ttl.
Insert(k, v, d) ==
    LET e == [val |-> v, exp |-> IF d = None THEN None ELSE now + d]
    IN  /\ ~resizing /\ MayUse(cache, k)
        /\ cache' \in CacheInsert(cache, k, e)
        /\ Remember([last EXCEPT ![k] = e])
        /\ UNCHANGED <<now, resizing>>

put(k, v) == Insert(k, v, None)
put_with_ttl(k, v, d) == now + d <= MaxTime /\ Insert(k, v, d)

\* The default is inserted only when the key is absent or expired.
get_or_insert(k, v) ==
    /\ CachePeek(cache, k, now) = None
    /\ put(k, v)

get(k) ==
    /\ ~resizing /\ MayUse(cache, k)
    /\ cache' = CacheGet(cache, k, now).cache
    /\ Remember(last)
    /\ UNCHANGED <<now, resizing>>

remove(k) ==
    /\ ~resizing
    /\ cache' = CacheRemove(cache, k)
    /\ Remember([last EXCEPT ![k] = None])
    /\ UNCHANGED <<now, resizing>>

clear ==
    /\ ~resizing
    /\ cache' = CacheNew(cache.policy, cache.cap)
    /\ last' = [k \in Key |-> None]
    /\ UNCHANGED <<now, resizing>>

resize(cap) ==
    /\ ~resizing
    /\ cache' = CacheResized(cache, cap)
    /\ resizing' = CacheOver(CacheResized(cache, cap))
    /\ UNCHANGED <<now, last>>

\* One iteration of the loop, and the test that ends it.
ResizeLoop ==
    /\ resizing
    /\ cache' = CacheShrink(cache)
    /\ resizing' = CacheOver(CacheShrink(cache))
    /\ Remember(last)
    /\ UNCHANGED now

Tick ==
    /\ now < MaxTime
    /\ now' = now + 1
    /\ UNCHANGED <<cache, resizing, last>>

CacheNext ==
    \/ \E k \in Key : get(k) \/ remove(k)
    \/ \E k \in Key, v \in Val :
           \/ put(k, v)
           \/ get_or_insert(k, v)
           \/ \E d \in 0 .. MaxTime : put_with_ttl(k, v, d)
    \/ clear
    \/ \E cap \in Caps[cache.policy] : resize(cap)
    \/ ResizeLoop
    \/ Tick

----------------------------------------------------------------------------
(* Properties of every policy. *)

\* An LRU, LFU or W-TinyLFU cache never holds more entries than its capacity,
\* except inside the loop of `resize` (`Cache::cap`: "the maximum number of
\* entries the cache can hold"; they evict before or right after an insert).
Bounded ==
    cache.policy # "arc" /\ ~resizing => CacheLen(cache) <= cache.cap

\* The bookkeeping agrees with itself: no key is in two lists of ARC, live or
\* ghost; a key of LFU is in the bucket of its count and in no other; the
\* index of W-TinyLFU names the one segment that holds the key.
Consistent ==
    CASE cache.policy = "lru" -> ToSet(cache.map) = Cached(cache)
      [] cache.policy = "arc" ->
             /\ ToSet(cache.t1 \o cache.t2) = Cached(cache)
             /\ IsInjective(cache.t1 \o cache.t2 \o cache.b1 \o cache.b2)
      [] cache.policy = "lfu" ->
             \A k \in Key : \A f \in 1 .. MaxFreq :
                 Holds(cache.bucket[f], k) <=> cache.freq[k] = f
      [] cache.policy = "tinylfu" ->
             /\ \A k \in Key : \A s \in Segment :
                    Holds(cache.seg[s], k) <=> cache.index[k] = s
             /\ {k \in Key : cache.index[k] # None} = Cached(cache)

\* `get` finds exactly what `peek` and `contains_key` report.
GetAgreesWithPeek ==
    \A k \in Key : MayUse(cache, k) =>
        CacheGet(cache, k, now).val = CachePeek(cache, k, now)

\* Inserting a key drops at most one other entry, only when the cache is full,
\* under LFU one that was used least, and makes room for the new one, except
\* in ARC when t1 is empty and its ghosts fill b1; and the new entry is
\* readable right away, which `get_or_insert` relies on (`expect("key was just
\* inserted")`).
InsertEvictsRightly ==
    ~resizing => \A k \in Key, v \in Val : MayUse(cache, k) =>
        \A c \in CacheInsert(cache, k, [val |-> v, exp |-> None]) :
            LET lost == Cached(cache) \ Cached(c)
            IN  /\ CachePeek(c, k, now) = v
                /\ lost # {} => CacheLen(cache) >= cache.cap
                /\ Cardinality(lost) <= 1
                /\ \/ CacheLen(c) <= cache.cap \/ CacheLen(c) <= CacheLen(cache)
                   \/ cache.policy = "arc" /\ cache.t1 = <<>> /\ Len(cache.b1) >= cache.cap
                /\ cache.policy = "lfu" =>
                       \A x \in lost, y \in Cached(cache) :
                           cache.freq[x] <= cache.freq[y]

\* Every iteration of the loop of `resize` drops an entry, so that `resize`
\* returns, whatever the operations before it; not so for LFU, whose min_freq
\* may name an empty bucket.
ResizeShrinks ==
    resizing /\ cache.policy # "lfu" => CacheLen(CacheShrink(cache)) < CacheLen(cache)
=============================================================================
