----------------------------- MODULE ReadThrough -----------------------------
(***************************************************************************)
(* Caches that fill themselves from what they stand in front of, used by   *)
(* several tasks: CacheableKvStore (write_adapter.rs), BlobCache           *)
(* (blob_cache.rs), get_or_insert_async (lib.rs) and, with one owner,      *)
(* ColumnarRowGroupCache (columnar_cache.rs).                              *)
(*                                                                         *)
(* The mutex around the cache is held for a look-up, a fill or an          *)
(* invalidation, never across a call of the store or of the loader, so a   *)
(* call is two or three steps and anything may happen between them.  The   *)
(* store's own calls are atomic and may fail, with or without effect.  The *)
(* cache is an LruCache.                                                   *)
(***************************************************************************)
EXTENDS LruCache

CONSTANTS Task,
          Adapters,    \* the adapters to consider
          FillCap      \* the capacity of the cache

Adapter == {"kv", "blob", "async", "rows"}

ASSUME ReadThroughAssumption ==
    Task # {} /\ Adapters \subseteq Adapter /\ FillCap \in Nat

VARIABLES
    adapter,   \* which of them this is
    held,      \* the cache behind the mutex
    backing,   \* what the store, or the table of row groups, holds
    job,       \* what each task is doing
    file,      \* the row groups of the file that gets updated
    tainted    \* history: cached keys filled by a get that a write of the key
               \*   overlapped, or written without an invalidation

readVars == <<adapter, held, backing, job, file, tainted>>

Idle == [stage |-> "idle", key |-> None, val |-> None, clean |-> TRUE]

ReadInit ==
    /\ adapter \in Adapters
    /\ held = LruNew(FillCap)
    /\ backing \in [Key -> Val \cup {None}]
    /\ job = [t \in Task |-> Idle]
    /\ file \in (IF adapter = "rows" THEN SUBSET Key ELSE {{}})
    /\ tainted = {}

At(t, stage) == job[t].stage = stage
Value(c, k) == IF c.entry[k] = None THEN None ELSE c.entry[k].val
Cacheable(v) == [val |-> v, exp |-> None]

\* Tasks between the two steps of a write of k.
Writing(k) == {t \in Task : job[t].key = k /\ job[t].stage \in {"write", "invalidate"}}

\* A write of the keys in ks: the gets of them under way are no longer clean.
Overlapped(ks) ==
    [t \in Task |-> IF job[t].key \in ks THEN [job[t] EXCEPT !.clean = FALSE] ELSE job[t]]

Hit(k) == IF held.entry[k] = None THEN {} ELSE {k}

\* The history after a step: ks, as far as it is still cached.
Taints(ks) == tainted' = {k \in ks : held'.entry[k] # None}

Go(t, stage, k) ==
    job' = [job EXCEPT ![t] = [Idle EXCEPT !.stage = stage, !.key = k,
                                           !.clean = Writing(k) = {}]]
Return(t) == job' = [job EXCEPT ![t] = Idle]

-----------------------------------------------------------------------------
(***************************************************************************)
(* Reading: look up, and on a miss fetch and fill.                         *)
(***************************************************************************)
\* The first look, under the lock; a hit returns.
LookUp(t, k) ==
    LET r == LruGet(held, k, 0)
    IN  /\ At(t, "idle")
        /\ held' = r.cache
        /\ IF r.val = None THEN Go(t, "fetch", k) ELSE UNCHANGED job
        /\ UNCHANGED <<adapter, backing, file, tainted>>

kv_get(t, k) == adapter = "kv" /\ LookUp(t, k)
blob_get(t, k) == adapter = "blob" /\ LookUp(t, k)
get_or_insert_async(t, k) == adapter = "async" /\ LookUp(t, k)

\* The store's answer: nothing, or an error, ends the call.
Fetch(t) ==
    /\ At(t, "fetch") /\ adapter \in {"kv", "blob"}
    /\ \/ Return(t)
       \/ /\ backing[job[t].key] # None
          /\ job' = [job EXCEPT ![t].stage = "fill", ![t].val = backing[job[t].key]]
    /\ UNCHANGED <<adapter, held, backing, file, tainted>>

\* The loader may answer any value, each time another one.
Load(t) ==
    /\ At(t, "fetch") /\ adapter = "async"
    /\ \E v \in Val : job' = [job EXCEPT ![t].stage = "fill", ![t].val = v]
    /\ UNCHANGED <<adapter, held, backing, file, tainted>>

\* Mutant: the cache is not looked at again before the fill.
FillBlindly(t) ==
    /\ At(t, "fill")
    /\ held' = LruInsert(held, job[t].key, Cacheable(job[t].val))
    /\ Return(t)
    /\ Taints(IF job[t].clean THEN tainted \ {job[t].key} ELSE tainted \cup {job[t].key})
    /\ UNCHANGED <<adapter, backing, file>>

\* The fill, under the lock again; get_or_insert_async first looks whether
\* another task was faster.
Fill(t) ==
    LET k == job[t].key
    IN  /\ At(t, "fill")
        /\ held' = IF adapter = "async" /\ LruPeek(held, k, 0) # None THEN held
                   ELSE LruInsert(held, k, Cacheable(job[t].val))
        /\ Return(t)
        /\ Taints(IF job[t].clean THEN tainted \ {k} ELSE tainted \cup {k})
        /\ UNCHANGED <<adapter, backing, file>>

-----------------------------------------------------------------------------
(***************************************************************************)
(* CacheableKvStore: the store is written, then the entry is invalidated.  *)
(***************************************************************************)
\* put (v a value) and delete (v = None).  An error of the store, here one
\* after the write took effect, is returned at once, without an invalidation.
kv_write(t, k, v) ==
    /\ adapter = "kv" /\ At(t, "idle")
    /\ \/ /\ backing' = [backing EXCEPT ![k] = v]
          /\ job' = [Overlapped({k}) EXCEPT ![t] = [Idle EXCEPT !.stage = "invalidate", !.key = k]]
          /\ UNCHANGED tainted
       \/ /\ backing' = [backing EXCEPT ![k] = v]
          /\ job' = Overlapped({k})
          /\ tainted' = tainted \cup Hit(k)
    /\ UNCHANGED <<adapter, held, file>>

\* Mutant: only a put that replaces a value invalidates.
kv_invalidate_if_present(t) ==
    /\ adapter = "kv" /\ At(t, "invalidate")
    /\ held' = IF backing[job[t].key] = None THEN held ELSE LruRemove(held, job[t].key)
    /\ Return(t)
    /\ Taints(tainted)
    /\ UNCHANGED <<adapter, backing, file>>

kv_invalidate(t) ==
    /\ adapter = "kv" /\ At(t, "invalidate")
    /\ held' = LruRemove(held, job[t].key)
    /\ Return(t)
    /\ Taints(tainted)
    /\ UNCHANGED <<adapter, backing, file>>

\* A transaction of the inner store (also the one of batch_write,
\* batch_delete and compare_and_swap) commits past the cache.
kv_transaction(k, v) ==
    /\ adapter = "kv"
    /\ backing' = [backing EXCEPT ![k] = v]
    /\ job' = Overlapped({k})
    /\ tainted' = tainted \cup Hit(k)
    /\ UNCHANGED <<adapter, held, file>>

-----------------------------------------------------------------------------
(***************************************************************************)
(* BlobCache: the entry is invalidated, then the store is written.         *)
(***************************************************************************)
blob_invalidate(t, k) ==
    /\ adapter = "blob" /\ At(t, "idle")
    /\ held' = LruRemove(held, k)
    /\ job' = [Overlapped({k}) EXCEPT ![t] = [Idle EXCEPT !.stage = "write", !.key = k]]
    /\ Taints(tainted)
    /\ UNCHANGED <<adapter, backing, file>>

\* The inner put or delete, which may fail with or without effect.
blob_write(t, v) ==
    /\ adapter = "blob" /\ At(t, "write")
    /\ backing' \in {backing, [backing EXCEPT ![job[t].key] = v]}
    /\ job' = [Overlapped({job[t].key}) EXCEPT ![t] = Idle]
    /\ UNCHANGED <<adapter, held, file, tainted>>

-----------------------------------------------------------------------------
(***************************************************************************)
(* ColumnarRowGroupCache: `&mut self`, so one owner.  backing is what the  *)
(* table given to load_row_group has at the row group's index, None past   *)
(* its end.                                                                *)
(***************************************************************************)
\* load_row_group, and each round of warm_from_table.
load_row_group(k) ==
    /\ adapter = "rows"
    /\ held' = IF LruPeek(held, k, 0) # None THEN LruGet(held, k, 0).cache
               ELSE IF backing[k] = None THEN held    \* out of range: an error
               ELSE LruInsert(held, k, Cacheable(backing[k]))
    /\ Taints(tainted)
    /\ UNCHANGED <<adapter, backing, job, file>>

evict(k) ==
    /\ adapter = "rows"
    /\ held' = LruRemove(held, k)
    /\ Taints(tainted)
    /\ UNCHANGED <<adapter, backing, job, file>>

\* The owner replaces the file, which it must follow by invalidate_file.
UpdateFile(t, v) ==
    /\ adapter = "rows" /\ \A u \in Task : At(u, "idle")
    /\ backing' = [k \in Key |-> IF k \in file THEN v ELSE backing[k]]
    /\ job' = [job EXCEPT ![t] = [Idle EXCEPT !.stage = "invalidate"]]
    /\ UNCHANGED <<adapter, held, file, tainted>>

\* Every cached key of the file is removed, wherever it is in the order.
invalidate_file(t) ==
    /\ adapter = "rows" /\ At(t, "invalidate")
    /\ held' = [held EXCEPT !.map = SelectSeq(@, LAMBDA k : k \notin file),
                            !.entry = [k \in Key |-> IF k \in file THEN None ELSE @[k]]]
    /\ Return(t)
    /\ Taints(tainted)
    /\ UNCHANGED <<adapter, backing, file>>

ReadNext ==
    \/ \E t \in Task, k \in Key : kv_get(t, k) \/ blob_get(t, k) \/ get_or_insert_async(t, k)
    \/ \E t \in Task : Fetch(t) \/ Load(t) \/ Fill(t)
    \/ \E t \in Task, k \in Key, v \in Val \cup {None} : kv_write(t, k, v)
    \/ \E t \in Task : kv_invalidate(t)
    \/ \E k \in Key, v \in Val \cup {None} : kv_transaction(k, v)
    \/ \E t \in Task, k \in Key : blob_invalidate(t, k)
    \/ \E t \in Task, v \in Val \cup {None} : blob_write(t, v)
    \/ \E k \in Key : load_row_group(k) \/ evict(k)
    \/ \E t \in Task, v \in Val \cup {None} : UpdateFile(t, v)
    \/ \E t \in Task : invalidate_file(t)

-----------------------------------------------------------------------------
\* A cached entry is what the store has, however gets, puts, deletes and
\* invalidations interleave, once no write of the key is between its steps;
\* unless a get that overlapped a write filled it, a write reported an error,
\* or a transaction went past the cache.
FillsAreCurrent ==
    adapter # "async" => \A k \in Key \ tainted :
        \/ Value(held, k) \in {None, backing[k]}
        \/ Writing(k) # {}
        \/ k \in file /\ \E t \in Task : At(t, "invalidate")

\* get_or_insert_async never replaces a value that a faster task has inserted
\* and perhaps already returned: tasks racing for a key agree on its value
\* for as long as it stays cached.
FirstFillWins ==
    [][adapter = "async" => \A k \in Key :
          Value(held, k) # None => Value(held', k) \in {None, Value(held, k)}]_readVars

\* A BlobCache serves no stale data: with no call on the key under way, what
\* is cached under it is what the store holds.
BlobNeverStale ==
    adapter = "blob" => \A k \in Key :
        (\A t \in Task : job[t].key # k) => Value(held, k) \in {None, backing[k]}
=============================================================================
