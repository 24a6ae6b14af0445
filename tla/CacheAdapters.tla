--------------------------- MODULE CacheAdapters ---------------------------
(***************************************************************************)
(* A cache on its own, or between a caller and a key-value store under one *)
(* of the two write adapters of oxistore-cache/src/write_adapter.rs:       *)
(*                                                                         *)
(*   WriteThroughCache   writes go to the store, then to the cache; a miss *)
(*                       is filled from the store;                         *)
(*   WriteBackCache      writes stay in the cache, marked dirty, until     *)
(*                       `flush`, or until a put finds the cache full.     *)
(*                                                                         *)
(* The store is any KvStore: a map whose operations may fail, with or      *)
(* without effect (SledStore can report an error after it has written).    *)
(* The adapters take `&mut self`, so their operations never overlap.       *)
(***************************************************************************)
EXTENDS Cache

CONSTANT Stacks     \* the pairs <<mode, policy>> to start from

Mode == {"bare", "write_through", "write_back"}

ASSUME StacksAssumption == Stacks \subseteq Mode \X Policy

VARIABLES
    mode,       \* which adapter is around the cache
    store,      \* the contents of the KvStore
    dirty,      \* WriteBackCache.dirty
    unsure      \* ghost: keys whose last write or removal reported an error

adapterVars == <<cacheVars, mode, store, dirty, unsure>>

AdapterInit ==
    /\ \E m \in Mode : /\ mode = m
                       /\ CacheInit({p \in Policy : <<m, p>> \in Stacks})
    /\ store = [k \in Key |-> None]
    /\ dirty = {}
    /\ unsure = {}

BareNext ==
    /\ mode = "bare"
    /\ CacheNext
    /\ UNCHANGED <<mode, store, dirty, unsure>>

Fresh(v) == [val |-> v, exp |-> None]

\* The ghosts after an operation that set k to e, or failed to.
Acknowledged(k, e) == /\ last' = [last EXCEPT ![k] = e]
                      /\ unsure' = unsure \ {k}
Failed(k) == unsure' = unsure \cup {k} /\ UNCHANGED last

----------------------------------------------------------------------------
(* WriteThroughCache *)

\* A miss reads the store and, when it answers with a value, fills the cache;
\* an error of the store leaves only the lookup's own bookkeeping.
through_get(k) ==
    LET r == CacheGet(cache, k, now)
    IN  /\ mode = "write_through" /\ MayUse(cache, k)
        /\ \/ /\ r.val = None /\ store[k] # None
              /\ cache' \in CacheInsert(r.cache, k, Fresh(store[k]))
           \/ cache' = r.cache
        /\ UNCHANGED <<now, resizing, last, mode, store, dirty, unsure>>

through_put(k, v) ==
    /\ mode = "write_through" /\ MayUse(cache, k)
    /\ store' = [store EXCEPT ![k] = v]
    /\ cache' \in CacheInsert(cache, k, Fresh(v))
    /\ Acknowledged(k, Fresh(v))
    /\ UNCHANGED <<now, resizing, mode, dirty>>

\* The early return when the store fails: the cache is left alone.
through_put_error(k, v) ==
    /\ mode = "write_through"
    /\ store' \in {store, [store EXCEPT ![k] = v]}
    /\ Failed(k)
    /\ UNCHANGED <<cache, now, resizing, mode, dirty>>

\* The cache entry goes first, so it is gone even when the store fails.
through_remove(k) ==
    /\ mode = "write_through"
    /\ cache' = CacheRemove(cache, k)
    /\ \/ store' = [store EXCEPT ![k] = None] /\ Acknowledged(k, None)
       \/ store' \in {store, [store EXCEPT ![k] = None]} /\ Failed(k)
    /\ UNCHANGED <<now, resizing, mode, dirty>>

----------------------------------------------------------------------------
(* WriteBackCache *)

\* A miss reads the store and does not fill the cache.
back_get(k) ==
    /\ mode = "write_back" /\ MayUse(cache, k)
    /\ cache' = CacheGet(cache, k, now).cache
    /\ UNCHANGED <<now, resizing, last, mode, store, dirty, unsure>>

\* The dirty keys `flush` and `flush_if_eviction_imminent` find by `peek`,
\* and the store after the keys in ks were written.
Flushable == {k \in dirty : CachePeek(cache, k, now) # None}
Written(ks) == [k \in Key |-> IF k \in ks THEN CachePeek(cache, k, now)
                                          ELSE store[k]]

\* Mutant: only a cache beyond its capacity is flushed.
EvictionImminentLate(k) ==
    /\ CachePeek(cache, k, now) = None
    /\ CacheLen(cache) > cache.cap

EvictionImminent(k) ==
    /\ CachePeek(cache, k, now) = None
    /\ CacheLen(cache) >= cache.cap

back_put(k, v) ==
    /\ mode = "write_back" /\ MayUse(cache, k)
    /\ store' = IF EvictionImminent(k) THEN Written(Flushable) ELSE store
    /\ dirty' = dirty \cup {k}
    /\ cache' \in CacheInsert(cache, k, Fresh(v))
    /\ Acknowledged(k, Fresh(v))
    /\ UNCHANGED <<now, resizing, mode>>

\* A store error during the flush: some keys are written, nothing else done.
back_put_error(k) ==
    /\ mode = "write_back"
    /\ EvictionImminent(k)
    /\ \E ks \in SUBSET Flushable : store' = Written(ks)
    /\ UNCHANGED <<cache, now, resizing, last, mode, dirty, unsure>>

\* Cache entry and dirty mark go first, so they are gone even when the store
\* fails.
back_remove(k) ==
    /\ mode = "write_back"
    /\ cache' = CacheRemove(cache, k)
    /\ dirty' = dirty \ {k}
    /\ \/ store' = [store EXCEPT ![k] = None] /\ Acknowledged(k, None)
       \/ store' \in {store, [store EXCEPT ![k] = None]} /\ Failed(k)
    /\ UNCHANGED <<now, resizing, mode>>

\* `flush` clears the dirty set only after every write succeeded.
flush ==
    /\ mode = "write_back"
    /\ store' = Written(Flushable)
    /\ dirty' = {}
    /\ UNCHANGED <<cache, now, resizing, last, mode, unsure>>

flush_error ==
    /\ mode = "write_back"
    /\ \E ks \in SUBSET Flushable : store' = Written(ks)
    /\ UNCHANGED <<cache, now, resizing, last, mode, dirty, unsure>>

----------------------------------------------------------------------------

AdapterNext ==
    \/ BareNext
    \/ \E k \in Key : through_get(k) \/ through_remove(k)
    \/ \E k \in Key : back_get(k) \/ back_remove(k) \/ back_put_error(k)
    \/ \E k \in Key, v \in Val : through_put(k, v) \/ through_put_error(k, v)
    \/ \E k \in Key, v \in Val : back_put(k, v)
    \/ flush \/ flush_error

\* The types of the variables; the target of ARC stays within the capacity.
TypeOK ==
    /\ mode \in Mode
    /\ cache.policy \in Policy
    /\ cache.cap \in Nat
    /\ cache.entry \in [Key -> Entry \cup {None}]
    /\ cache.policy = "arc" => cache.p \in 0 .. cache.cap
    /\ cache.policy = "lfu" => cache.min_freq \in 0 .. MaxFreq
    /\ now \in 0 .. MaxTime
    /\ resizing \in BOOLEAN
    /\ last \in [Key -> Entry \cup {None}]
    /\ store \in [Key -> Val \cup {None}]
    /\ dirty \subseteq Key /\ unsure \subseteq Key

\* A read of a cache used directly answers the entry last put under the key:
\* never an older one, one that was removed, or one past its deadline.
NeverStale ==
    mode = "bare" => \A k \in Key : MayUse(cache, k) =>
        LET v == CacheGet(cache, k, now).val
        IN  v # None => /\ last[k] # None
                        /\ v = last[k].val
                        /\ ~is_expired(last[k], now)

LastVal(k) == IF last[k] = None THEN None ELSE last[k].val

\* Through an adapter a key reads as its last acknowledged write, whatever was
\* evicted, flushed, or failed for other keys since.  Keys whose own last
\* operation reported an error are not promised anything.
ReadsLastWrite ==
    mode # "bare" => \A k \in Key \ unsure : MayUse(cache, k) =>
        LET v == CacheGet(cache, k, now).val
        IN  (IF v # None THEN v ELSE store[k]) = LastVal(k)

\* An acknowledged write that the store does not have yet is still in the
\* cache and marked dirty, so the next successful flush stores it: nothing is
\* lost to an eviction.
NoSilentLoss ==
    mode = "write_back" => \A k \in Key \ unsure :
        store[k] # LastVal(k) =>
            k \in dirty /\ CachePeek(cache, k, now) = LastVal(k)
=============================================================================
