------------------------------ MODULE SledStore ------------------------------
(***************************************************************************)
(* The sled backend: SledStore, SledTxn and SledSnapshot.                  *)
(*                                                                         *)
(* sled makes each operation on one tree atomic, and nothing more: a call  *)
(* writes the data tree and then, in a step of its own, the TTL tree, with *)
(* no lock around the two.  Between them another thread may run, or the    *)
(* second operation may fail: the call returns the error and the first     *)
(* write stays.  (A crash between the two leaves the same state.)          *)
(*                                                                         *)
(* A call that returns without writing is not a step.  Reads that feed a   *)
(* later write are: pc says what a call has still to do.                   *)
(***************************************************************************)
EXTENDS KvCore

CONSTANTS Thread,      \* the threads sharing the store
          Untouched,   \* a key a transaction has not touched
          Ttl,         \* the durations passed to put_with_ttl and expire
          MaxTime,     \* bound on the clock
          Workloads,   \* what is asked of the store, see workload
          Careless     \* are calls made that overlook an expiry (Overlooks)?

ASSUME SledAssumption ==
    /\ Untouched \notin MaybeValue
    /\ Ttl \subseteq Nat
    /\ MaxTime \in Nat
    /\ Careless \in BOOLEAN

VARIABLES
    workload,  \* fixed: ops, the operations each thread calls, and fails, whether
               \* an operation on a tree may fail
    tree,      \* the data tree
    ttl_tree,  \* the TTL tree
    now,       \* wall clock
    call,      \* what each thread is executing
    txn,       \* the SledTxn each thread has open
    snap,      \* the SledSnapshot each thread holds or is building
    fresh,     \* history: keys last written without a TTL
    seen       \* history: what was visible since each snapshot was begun

vars == <<workload, tree, ttl_tree, now, call, txn, snap, fresh, seen>>

Stored == [data |-> tree, ttl |-> ttl_tree]

OpName == {"put", "batch_write", "put_with_ttl", "delete", "batch_delete",
           "get", "ttl", "purge_expired", "expire", "persist", "compare_and_swap",
           "commit", "snapshot"}

\* A workload names operations of the store.
ASSUME WorkloadAssumption == Workloads \subseteq [ops : [Thread -> SUBSET OpName], fails : BOOLEAN]

\* keys, pairs, exp, old: the arguments, as far as the rest of the call needs
\* them; rest: the keys an iteration has still to visit; since: the clock when
\* the call was made.
Call == [op : OpName \cup {"none"},
         pc : {"idle", "probe", "purge", "data", "ttl", "ttl_each", "snap_ttl", "snap_data"},
         keys : SUBSET Key, pairs : [Key -> MaybeValue], exp : Expiry,
         old : MaybeValue, rest : SUBSET Key, since : Nat]

Idle == [op |-> "none", pc |-> "idle", keys |-> {}, pairs |-> NoPairs,
         exp |-> NoExpiry, old |-> Absent, rest |-> {}, since |-> 0]

NoTouch == [k \in Key |-> Untouched]
NoTxn == [open |-> FALSE, overlay |-> NoTouch]
NoSnap == [held |-> FALSE, data |-> NoPairs]

Init ==
    /\ workload \in Workloads
    /\ tree = NoPairs
    /\ ttl_tree = [k \in Key |-> NoExpiry]
    /\ now = 0
    /\ call = [t \in Thread |-> Idle]
    /\ txn = [t \in Thread |-> NoTxn]
    /\ snap = [t \in Thread |-> NoSnap]
    /\ fresh = {}
    /\ seen = [t \in Thread |-> {}]

-----------------------------------------------------------------------------
(***************************************************************************)
(* Calling an operation: everything up to the first write.                 *)
(***************************************************************************)
\* expire and persist take an elapsed entry for a live one, and so does
\* compare_and_swap, which compares with the data tree alone.
Overlooks(op, k) ==
    op \in {"expire", "persist", "compare_and_swap"} /\ is_expired(ttl_tree[k], now)

Begin(t, c) ==
    /\ c.op \in workload.ops[t]
    /\ call[t] = Idle
    /\ Careless \/ \A k \in c.keys : ~Overlooks(c.op, k)
    /\ call' = [call EXCEPT ![t] = c]
    /\ UNCHANGED <<tree, ttl_tree, now, txn, snap, fresh, seen>>

\* Calls that write the data tree first and will then set exp in the sidecar.
Write(op, keys, pairs, exp) ==
    [op |-> op, pc |-> "data", keys |-> keys, pairs |-> pairs, exp |-> exp,
     old |-> Absent, rest |-> {}, since |-> now]

\* Calls that visit keys one by one, collecting some in call.keys.
Iterate(op, pc, keys) ==
    [op |-> op, pc |-> pc, keys |-> {}, pairs |-> NoPairs, exp |-> NoExpiry,
     old |-> Absent, rest |-> keys, since |-> now]

Pair(k, v) == [NoPairs EXCEPT ![k] = v]

put(t, k, v) == Begin(t, Write("put", {k}, Pair(k, v), NoExpiry))

batch_write(t, pairs) ==
    Begin(t, Write("batch_write", {k \in Key : pairs[k] # Absent}, pairs, NoExpiry))

put_with_ttl(t, k, v, ttl) == Begin(t, Write("put_with_ttl", {k}, Pair(k, v), now + ttl))

delete(t, k) == Begin(t, Write("delete", {k}, NoPairs, NoExpiry))

batch_delete(t, keys) == Begin(t, Write("batch_delete", keys, NoPairs, NoExpiry))

compare_and_swap(t, k, expected, new) ==
    Begin(t, [Write("compare_and_swap", {k}, Pair(k, new), NoExpiry) EXCEPT !.old = expected])

\* An elapsed entry sends get into its eviction.
get(t, k) ==
    /\ is_expired(ttl_tree[k], now)
    /\ Begin(t, Write("get", {k}, NoPairs, NoExpiry))

\* ttl, expire and persist look at the data tree first.
ttl_of(t, k) ==
    /\ tree[k] # Absent
    /\ Begin(t, [Write("ttl", {k}, NoPairs, NoExpiry) EXCEPT !.pc = "probe"])

expire(t, k, ttl) ==
    /\ tree[k] # Absent
    /\ Begin(t, [Write("expire", {k}, NoPairs, now + ttl) EXCEPT !.pc = "ttl"])

persist(t, k) ==
    /\ tree[k] # Absent
    /\ Begin(t, [Write("persist", {k}, NoPairs, NoExpiry) EXCEPT !.pc = "ttl"])

purge_expired(t) == Begin(t, Iterate("purge_expired", "purge", Key))

-----------------------------------------------------------------------------
(***************************************************************************)
(* The rest of a call, one operation on one tree at a time.                *)
(***************************************************************************)
\* History: a capture under way sees what becomes visible.
Observe(tb, time) ==
    seen' = [t \in Thread |-> IF call[t].op = "snapshot"
                              THEN seen[t] \cup {Visible(tb, time)} ELSE seen[t]]

Evicts == {"get", "ttl", "purge_expired"}

\* One atomic operation on the data tree: insert, remove, apply_batch, or
\* sled's compare_and_swap, which compares with the raw entry.  An eviction
\* does not look at the expiry again.
WriteTree(t) ==
    LET c == call[t]
        refused == c.op = "compare_and_swap" /\ \E k \in c.keys : tree[k] # c.old
    IN  /\ c.pc = "data"
        /\ ~refused
        /\ tree' = SetData(Stored, c.keys, c.pairs).data
        /\ call' = [call EXCEPT ![t].pc = "ttl"]
        /\ fresh' = IF c.op \in Evicts THEN fresh
                    ELSE IF c.exp = NoExpiry THEN fresh \cup c.keys ELSE fresh \ c.keys
        /\ Observe([data |-> tree', ttl |-> ttl_tree], now)
        /\ UNCHANGED <<ttl_tree, now, txn, snap>>

CasRefused(t) ==
    LET c == call[t]
    IN  /\ c.pc = "data" /\ c.op = "compare_and_swap"
        /\ \E k \in c.keys : tree[k] # c.old
        /\ call' = [call EXCEPT ![t] = Idle]
        /\ UNCHANGED <<tree, ttl_tree, now, txn, snap, fresh, seen>>

\* Mutant: the sidecar is touched only when there is an expiry to set.
WriteTtlTreeOnlySets(t) ==
    LET c == call[t]
    IN  /\ c.pc = "ttl"
        /\ ttl_tree' = IF c.exp = NoExpiry THEN ttl_tree
                       ELSE SetTtl(Stored, c.keys, c.exp).ttl
        /\ call' = [call EXCEPT ![t] = Idle]
        /\ fresh' = IF c.op = "expire" THEN fresh \ c.keys ELSE fresh
        /\ Observe([data |-> tree, ttl |-> ttl_tree'], now)
        /\ UNCHANGED <<tree, now, txn, snap>>

\* One operation on the TTL tree; then a purge goes on to the next key and
\* other calls return.
WriteTtlTree(t) ==
    LET c == call[t]
    IN  /\ c.pc = "ttl"
        /\ ttl_tree' = SetTtl(Stored, c.keys, c.exp).ttl
        /\ call' = [call EXCEPT ![t] =
                       IF c.rest # {} THEN [c EXCEPT !.pc = "purge", !.keys = {}] ELSE Idle]
        /\ fresh' = IF c.op = "expire" THEN fresh \ c.keys ELSE fresh
        /\ Observe([data |-> tree, ttl |-> ttl_tree'], now)
        /\ UNCHANGED <<tree, now, txn, snap>>

\* ttl has seen the data and now reads the expiry.
Probe(t) ==
    LET c == call[t]
    IN  /\ c.pc = "probe"
        /\ call' = [call EXCEPT ![t] =
                       IF \E k \in c.keys : is_expired(ttl_tree[k], now)
                       THEN [c EXCEPT !.pc = "data"] ELSE Idle]
        /\ UNCHANGED <<tree, ttl_tree, now, txn, snap, fresh, seen>>

\* The rest of an iteration once k has been visited.
After(c, k, next) == IF c.rest = {k} THEN next ELSE [c EXCEPT !.rest = @ \ {k}]

\* purge_expired visits a key of the TTL tree, in any order; each eviction
\* counts as a call of its own.
PurgeVisit(t, k) ==
    LET c == call[t]
    IN  /\ c.pc = "purge"
        /\ k \in c.rest
        /\ call' = [call EXCEPT ![t] =
                       IF is_expired(ttl_tree[k], now)
                       THEN [c EXCEPT !.pc = "data", !.keys = {k}, !.rest = @ \ {k},
                                      !.since = now]
                       ELSE After(c, k, Idle)]
        /\ UNCHANGED <<tree, ttl_tree, now, txn, snap, fresh, seen>>

\* The next operation of a call fails: `?` returns the error, and what the
\* call has already written stays written.
IoError(t) ==
    /\ workload.fails
    /\ call[t] # Idle
    /\ call' = [call EXCEPT ![t] = Idle]
    /\ snap' = [snap EXCEPT ![t] = IF call[t].op = "snapshot" THEN NoSnap ELSE @]
    /\ UNCHANGED <<tree, ttl_tree, now, txn, fresh, seen>>

-----------------------------------------------------------------------------
(***************************************************************************)
(* SledTxn: a buffer, applied to the data tree in one sled transaction.    *)
(***************************************************************************)
transaction(t) ==
    /\ "commit" \in workload.ops[t]
    /\ call[t] = Idle
    /\ ~txn[t].open
    /\ txn' = [txn EXCEPT ![t].open = TRUE]
    /\ UNCHANGED <<tree, ttl_tree, now, call, snap, fresh, seen>>

InTxn(t) == txn[t].open /\ call[t] = Idle

\* SledTxn::put and delete (val = Absent).
TxnWrite(t, k, val) ==
    /\ InTxn(t)
    /\ txn' = [txn EXCEPT ![t].overlay[k] = val]
    /\ UNCHANGED <<tree, ttl_tree, now, call, snap, fresh, seen>>

Touched(t) == {k \in Key : txn[t].overlay[k] # Untouched}

\* Mutant: without a sled transaction only part of the buffer may be applied.
TxnCommitPartly(t) ==
    \E keys \in SUBSET Touched(t) :
        /\ InTxn(t)
        /\ tree' = SetData(Stored, keys, txn[t].overlay).data
        /\ txn' = [txn EXCEPT ![t] = NoTxn]
        /\ UNCHANGED <<ttl_tree, now, call, snap, fresh, seen>>

\* commit: the data tree at once, then the TTL entries one by one.
TxnCommit(t) ==
    LET keys == Touched(t)
    IN  /\ InTxn(t)
        /\ tree' = SetData(Stored, keys, txn[t].overlay).data
        /\ fresh' = fresh \cup keys
        /\ txn' = [txn EXCEPT ![t] = NoTxn]
        /\ call' = [call EXCEPT ![t] =
                       IF keys = {} THEN Idle
                       ELSE Iterate("commit", "ttl_each", keys)]
        /\ Observe([data |-> tree', ttl |-> ttl_tree], now)
        /\ UNCHANGED <<ttl_tree, now, snap>>

ClearTtl(t, k) ==
    LET c == call[t]
    IN  /\ c.pc = "ttl_each"
        /\ k \in c.rest
        /\ ttl_tree' = SetTtl(Stored, {k}, NoExpiry).ttl
        /\ call' = [call EXCEPT ![t] = After(c, k, Idle)]
        /\ Observe([data |-> tree, ttl |-> ttl_tree'], now)
        /\ UNCHANGED <<tree, now, txn, snap, fresh>>

\* rollback, a drop, or a commit whose sled transaction fails.
TxnRollback(t) ==
    /\ InTxn(t)
    /\ txn' = [txn EXCEPT ![t] = NoTxn]
    /\ UNCHANGED <<tree, ttl_tree, now, call, snap, fresh, seen>>

-----------------------------------------------------------------------------
(***************************************************************************)
(* snapshot: iterate the TTL tree for the expired keys (collected in       *)
(* call.keys), then copy the data tree without them.                       *)
(***************************************************************************)
snapshot(t) ==
    /\ "snapshot" \in workload.ops[t]
    /\ call[t] = Idle
    /\ ~snap[t].held
    /\ call' = [call EXCEPT ![t] = Iterate("snapshot", "snap_ttl", Key)]
    /\ seen' = [seen EXCEPT ![t] = {Visible(Stored, now)}]
    /\ UNCHANGED <<tree, ttl_tree, now, txn, snap, fresh>>

SnapTtl(t, k) ==
    LET c == call[t]
        found == [c EXCEPT !.keys = @ \cup ({k} \cap ExpiredKeys(Stored, now))]
    IN  /\ c.pc = "snap_ttl"
        /\ k \in c.rest
        /\ call' = [call EXCEPT ![t] =
                       After(found, k, [found EXCEPT !.pc = "snap_data", !.rest = Key])]
        /\ UNCHANGED <<tree, ttl_tree, now, txn, snap, fresh, seen>>

\* Mutant: the copy takes expired entries too.
SnapDataUnfiltered(t, k) ==
    LET c == call[t]
    IN  /\ c.pc = "snap_data"
        /\ k \in c.rest
        /\ snap' = [snap EXCEPT ![t].data[k] = tree[k], ![t].held = (c.rest = {k})]
        /\ call' = [call EXCEPT ![t] = After(c, k, Idle)]
        /\ UNCHANGED <<tree, ttl_tree, now, txn, fresh, seen>>

SnapData(t, k) ==
    LET c == call[t]
    IN  /\ c.pc = "snap_data"
        /\ k \in c.rest
        /\ snap' = [snap EXCEPT ![t].data[k] = IF k \in c.keys THEN Absent ELSE tree[k],
                                ![t].held = (c.rest = {k})]
        /\ call' = [call EXCEPT ![t] = After(c, k, Idle)]
        /\ UNCHANGED <<tree, ttl_tree, now, txn, fresh, seen>>

DropSnapshot(t) ==
    /\ snap[t].held
    /\ call[t] = Idle
    /\ snap' = [snap EXCEPT ![t] = NoSnap]
    /\ seen' = [seen EXCEPT ![t] = {}]
    /\ UNCHANGED <<tree, ttl_tree, now, call, txn, fresh>>

Tick ==
    /\ now < MaxTime
    /\ now' = now + 1
    /\ Observe(Stored, now')
    /\ UNCHANGED <<tree, ttl_tree, call, txn, snap, fresh>>

-----------------------------------------------------------------------------
Start(t) ==
    \/ \E k \in Key :
        \/ delete(t, k) \/ get(t, k) \/ ttl_of(t, k) \/ persist(t, k)
        \/ \E d \in Ttl : expire(t, k, d)
        \/ \E v \in Value :
            \/ put(t, k, v)
            \/ \E d \in Ttl : put_with_ttl(t, k, v, d)
            \/ \E old \in MaybeValue : compare_and_swap(t, k, old, v)
    \/ \E pairs \in [Key -> MaybeValue] : batch_write(t, pairs)
    \/ \E keys \in SUBSET Key : batch_delete(t, keys)
    \/ purge_expired(t) \/ transaction(t) \/ snapshot(t)

Progress(t) ==
    \/ WriteTree(t) \/ CasRefused(t) \/ WriteTtlTree(t) \/ Probe(t)
    \/ \E k \in Key : \/ PurgeVisit(t, k) \/ ClearTtl(t, k)
                      \/ SnapTtl(t, k) \/ SnapData(t, k)

TxnStep(t) ==
    \/ \E k \in Key, val \in MaybeValue : TxnWrite(t, k, val)
    \/ TxnCommit(t) \/ TxnRollback(t)

Step ==
    \/ \E t \in Thread : \/ Start(t) \/ Progress(t) \/ TxnStep(t)
                         \/ DropSnapshot(t) \/ IoError(t)
    \/ Tick

Next == Step /\ UNCHANGED workload

Spec == Init /\ [][Next]_vars

-----------------------------------------------------------------------------
(***************************************************************************)
(* Properties.                                                             *)
(***************************************************************************)
\* Every variable holds a value of the shape the code gives it.
TypeOK ==
    /\ workload \in [ops : [Thread -> SUBSET OpName], fails : BOOLEAN]
    /\ Stored \in Tables
    /\ now \in Nat
    /\ call \in [Thread -> Call]
    /\ txn \in [Thread -> [open : BOOLEAN, overlay : [Key -> MaybeValue \cup {Untouched}]]]
    /\ snap \in [Thread -> [held : BOOLEAN, data : [Key -> MaybeValue]]]
    /\ fresh \subseteq Key
    /\ seen \in [Thread -> SUBSET [Key -> MaybeValue]]

\* When no call is under way, a key last written (or deleted) without a TTL has
\* no expiry: the value is not silently evicted at an old one.
NoStaleExpiry ==
    (\A t \in Thread : call[t] = Idle) => \A k \in fresh : ttl_tree[k] = NoExpiry

\* The two trees agree: well formed, and no stale expiry.
TreesAgree == TypeOK /\ NoStaleExpiry

\* Each value of a snapshot was visible under its key while it was captured.
SnapshotHonest ==
    \A t \in Thread : snap[t].held =>
        \A k \in Key : \E m \in seen[t] : snap[t].data[k] = m[k]

(***************************************************************************)
(* A write counts as done once the data tree has it: the sidecar update it *)
(* still owes is applied in the mapping.                                   *)
(***************************************************************************)
SidecarOnly == {"expire", "persist"}

Owed(c) == IF c.pc = "ttl_each" THEN c.rest
           ELSE IF c.pc = "ttl" /\ c.op \notin SidecarOnly THEN c.keys ELSE {}

TtlBar == [k \in Key |->
              IF \E t \in Thread : k \in Owed(call[t])
              THEN call[CHOOSE t \in Thread : k \in Owed(call[t])].exp
              ELSE ttl_tree[k]]

NoReq == [op |-> "none", keys |-> {}, pairs |-> NoPairs, exp |-> NoExpiry, old |-> Absent,
          since |-> 0]

Pending(c) ==
    IF c.pc \in {"probe", "data"} \/ (c.pc = "ttl" /\ c.op \in SidecarOnly)
    THEN [op |-> c.op, keys |-> c.keys, pairs |-> c.pairs, exp |-> c.exp, old |-> c.old,
          since |-> c.since]
    ELSE NoReq

\* SledTxn needs no call to begin: sled has no "transaction" request pending.
KvBar == [data |-> tree, ttl |-> TtlBar]
ReqBar == [t \in Thread |-> Pending(call[t])]
OpenBar == {t \in Thread : txn[t].open}
StagedBar == [t \in Thread |-> txn[t].overlay]

Abs == INSTANCE KvStore WITH
    kv <- KvBar, req <- ReqBar, open <- OpenBar, staged <- StagedBar

\* Every call takes effect at once or not at all, every transaction as a whole
\* when it commits, and none that is not Careless treats an expired key as live.
Refines == Abs!Spec
=============================================================================
