----------------------------- MODULE FjallStore ------------------------------
(***************************************************************************)
(* The fjall backend: FjallStore, FjallTxn and FjallSnap.                  *)
(*                                                                         *)
(* Every write is one fjall batch over the data and the TTL keyspace, so   *)
(* it is atomic.  What is not: a call that reads first and commits its     *)
(* batch later without looking again.  Transactions hold txn_lock from     *)
(* begin to end; the plain operations never take it, so it orders          *)
(* transactions among themselves only.                                     *)
(***************************************************************************)
EXTENDS KvCore

CONSTANTS Thread,      \* the threads sharing the store
          Nobody,      \* no thread
          Untouched,   \* a key a transaction has not written
          Ttl,         \* the durations passed to put_with_ttl and expire
          MaxTime,     \* bound on the clock
          Workloads,   \* what is asked of the store, see workload
          Reentrant,   \* may a thread begin a transaction inside its own?
          Careless     \* are calls made that overlook an expiry (Overlooks)?

ASSUME FjallAssumption ==
    /\ Nobody \notin Thread
    /\ Untouched \notin MaybeValue
    /\ Ttl \subseteq Nat
    /\ MaxTime \in Nat
    /\ Reentrant \in BOOLEAN
    /\ Careless \in BOOLEAN

VARIABLES
    workload,  \* fixed: the operations each thread calls
    db,        \* the data and the TTL keyspace
    now,       \* wall clock
    txn_lock,  \* holder of FjallStore::txn_lock
    overlay,   \* the overlay (and batch) of the open FjallTxn
    call,      \* what each thread is executing
    snap       \* the FjallSnap each thread holds

vars == <<workload, db, now, txn_lock, overlay, call, snap>>

OpName == {"put", "batch_write", "batch_write_across", "put_with_ttl", "put_returning",
           "delete", "batch_delete", "get", "ttl", "purge_expired", "expire", "persist",
           "transaction", "compare_and_swap"}

ASSUME WorkloadAssumption == Workloads \subseteq [Thread -> SUBSET (OpName \cup {"snapshot"})]

Call == [op : OpName \cup {"none"},
         pc : {"idle", "probe", "evict", "batch", "lock", "cas_read", "cas_commit"},
         keys : SUBSET Key, pairs : [Key -> MaybeValue], exp : Expiry, old : MaybeValue,
         since : Nat]

\* since: the clock when the call was made.
Idle == [op |-> "none", pc |-> "idle", keys |-> {}, pairs |-> NoPairs,
         exp |-> NoExpiry, old |-> Absent, since |-> 0]

NoOverlay == [k \in Key |-> Untouched]
NoSnap == [tables |-> EmptyTables, captured_at |-> NoExpiry]

Init ==
    /\ workload \in Workloads
    /\ db = EmptyTables
    /\ now = 0
    /\ txn_lock = Nobody
    /\ overlay = NoOverlay
    /\ call = [t \in Thread |-> Idle]
    /\ snap = [t \in Thread |-> NoSnap]

-----------------------------------------------------------------------------
(***************************************************************************)
(* Calling an operation: everything up to its batch.                       *)
(***************************************************************************)
\* expire and persist take an elapsed entry for a live one, and
\* batch_write_across leaves the expiry of the value it replaces.
Overlooks(op, k) ==
    \/ op \in {"expire", "persist"} /\ is_expired(db.ttl[k], now)
    \/ op = "batch_write_across" /\ db.ttl[k] # NoExpiry

Begin(t, op, pc, keys, pairs, exp, old) ==
    /\ op \in workload[t]
    /\ call[t] = Idle
    /\ pc = "lock" => (Reentrant \/ txn_lock # t)
    /\ Careless \/ \A k \in keys : ~Overlooks(op, k)
    /\ call' = [call EXCEPT ![t] = [op |-> op, pc |-> pc, keys |-> keys, pairs |-> pairs,
                                    exp |-> exp, old |-> old, since |-> now]]
    /\ UNCHANGED <<db, now, txn_lock, overlay, snap>>

Pair(k, v) == [NoPairs EXCEPT ![k] = v]
Given(pairs) == {k \in Key : pairs[k] # Absent}

put(t, k, v) == Begin(t, "put", "batch", {k}, Pair(k, v), NoExpiry, Absent)

put_with_ttl(t, k, v, ttl) ==
    Begin(t, "put_with_ttl", "batch", {k}, Pair(k, v), now + ttl, Absent)

batch_write(t, pairs) == Begin(t, "batch_write", "batch", Given(pairs), pairs, NoExpiry, Absent)

\* Across partitions, the default one among them; no partition's TTLs.
batch_write_across(t, pairs) ==
    Begin(t, "batch_write_across", "batch", Given(pairs), pairs, NoExpiry, Absent)

delete(t, k) == Begin(t, "delete", "batch", {k}, NoPairs, NoExpiry, Absent)

batch_delete(t, keys) == Begin(t, "batch_delete", "batch", keys, NoPairs, NoExpiry, Absent)

get(t, k) ==
    /\ is_expired(db.ttl[k], now)
    /\ Begin(t, "get", "batch", {k}, NoPairs, NoExpiry, Absent)

\* get, then put: an expired entry is evicted on the way.
put_returning(t, k, v) ==
    Begin(t, "put_returning", IF is_expired(db.ttl[k], now) THEN "evict" ELSE "batch",
          {k}, Pair(k, v), NoExpiry, Absent)

\* get, then delete when there was a value: either way the key is removed.
delete_returning(t, k) ==
    \/ get(t, k)
    \/ ~is_expired(db.ttl[k], now) /\ db.data[k] # Absent /\ delete(t, k)

\* ttl, expire and persist look at the data first.
ttl_of(t, k) ==
    /\ db.data[k] # Absent
    /\ Begin(t, "ttl", "probe", {k}, NoPairs, NoExpiry, Absent)

expire(t, k, ttl) ==
    /\ db.data[k] # Absent
    /\ Begin(t, "expire", "batch", {k}, NoPairs, now + ttl, Absent)

persist(t, k) ==
    /\ db.data[k] # Absent
    /\ Begin(t, "persist", "probe", {k}, NoPairs, NoExpiry, Absent)

purge_expired(t) ==
    /\ ExpiredKeys(db, now) # {}
    /\ Begin(t, "purge_expired", "batch", ExpiredKeys(db, now), NoPairs, NoExpiry, Absent)

transaction(t) == Begin(t, "transaction", "lock", {}, NoPairs, NoExpiry, Absent)

\* The trait's default: a transaction that reads, compares and writes.
compare_and_swap(t, k, old, new) ==
    Begin(t, "compare_and_swap", "lock", {k}, Pair(k, new), NoExpiry, old)

-----------------------------------------------------------------------------
(***************************************************************************)
(* The rest of a call.                                                     *)
(***************************************************************************)
Return(t) == call' = [call EXCEPT ![t] = Idle]

\* ttl and persist have seen the data and now read the TTL entry.
Probe(t) ==
    LET c == call[t]
        acts == IF c.op = "ttl" THEN c.keys \subseteq ExpiredKeys(db, now)
                ELSE \A k \in c.keys : db.ttl[k] # NoExpiry
    IN  /\ c.pc = "probe"
        /\ IF acts THEN call' = [call EXCEPT ![t].pc = "batch"] ELSE Return(t)
        /\ UNCHANGED <<db, now, txn_lock, overlay, snap>>

Evict(t) ==
    /\ call[t].pc = "evict"
    /\ db' = Remove(db, call[t].keys)
    /\ call' = [call EXCEPT ![t].pc = "batch"]
    /\ UNCHANGED <<now, txn_lock, overlay, snap>>

\* Mutant: a plain write forgets the TTL keyspace.
EffectKeepsTtl(tb, c) ==
    IF c.op = "put_with_ttl" THEN Insert(tb, c.keys, c.pairs, c.exp)
    ELSE IF c.op \in {"put", "batch_write"} THEN SetData(tb, c.keys, c.pairs)
    ELSE Remove(tb, c.keys)

Effect(tb, c) ==
    CASE c.op \in {"put", "batch_write", "put_returning"} ->
            Insert(tb, c.keys, c.pairs, NoExpiry)
      [] c.op = "put_with_ttl"       -> Insert(tb, c.keys, c.pairs, c.exp)
      [] c.op = "batch_write_across" -> SetData(tb, c.keys, c.pairs)
      [] c.op = "expire"             -> SetTtl(tb, c.keys, c.exp)
      [] c.op = "persist"            -> SetTtl(tb, c.keys, NoExpiry)
      [] OTHER                       -> Remove(tb, c.keys)

\* The batch, or the single operation on the TTL keyspace, is committed.
Commit(t) ==
    /\ call[t].pc = "batch"
    /\ db' = Effect(db, call[t])
    /\ Return(t)
    /\ UNCHANGED <<now, txn_lock, overlay, snap>>

\* An operation on the store fails; a failed batch leaves nothing behind.
WriteError(t) ==
    /\ call[t].pc \in {"probe", "evict", "batch"}
    /\ Return(t)
    /\ UNCHANGED <<db, now, txn_lock, overlay, snap>>

-----------------------------------------------------------------------------
(***************************************************************************)
(* FjallTxn.                                                               *)
(***************************************************************************)
\* Mutant: the transaction does not take txn_lock.
LockTxnShared(t) ==
    LET c == call[t]
    IN  /\ c.pc = "lock"
        /\ txn_lock' = t
        /\ overlay' = NoOverlay
        /\ call' = [call EXCEPT ![t] = IF c.op = "transaction" THEN Idle
                                       ELSE [c EXCEPT !.pc = "cas_read"]]
        /\ UNCHANGED <<db, now, snap>>

LockTxn(t) ==
    LET c == call[t]
    IN  /\ c.pc = "lock"
        /\ txn_lock = Nobody
        /\ txn_lock' = t
        /\ overlay' = NoOverlay
        /\ call' = [call EXCEPT ![t] = IF c.op = "transaction" THEN Idle
                                       ELSE [c EXCEPT !.pc = "cas_read"]]
        /\ UNCHANGED <<db, now, snap>>

InTxn(t) == txn_lock = t /\ call[t] = Idle

\* FjallTxn::get: the overlay, then the store as it is now.
TxnGet(k) == IF overlay[k] # Untouched THEN overlay[k] ELSE Visible(db, now)[k]

\* FjallTxn::put and delete (val = Absent): the batch and the overlay.
TxnWrite(t, k, val) ==
    /\ InTxn(t)
    /\ overlay' = [overlay EXCEPT ![k] = val]
    /\ UNCHANGED <<db, now, txn_lock, call, snap>>

\* Mutant: the guard outlives the transaction.
EndTxnKeepsLock == overlay' = NoOverlay /\ UNCHANGED txn_lock

EndTxn == overlay' = NoOverlay /\ txn_lock' = Nobody

\* Mutant: the batch clears the expiry of deleted keys only.
AppliedKeepsTtl(tb, writes) ==
    SetData(tb, {k \in Key : writes[k] # Untouched}, writes)

\* Every staged write goes with the removal of the key's TTL entry.
Applied(tb, writes) == Insert(tb, {k \in Key : writes[k] # Untouched}, writes, NoExpiry)

TxnCommit(t) ==
    /\ InTxn(t)
    /\ db' = Applied(db, overlay)
    /\ EndTxn
    /\ UNCHANGED <<now, call, snap>>

\* rollback, a drop, or a batch that fails.
TxnRollback(t) ==
    /\ InTxn(t)
    /\ EndTxn
    /\ UNCHANGED <<db, now, call, snap>>

CasRead(t) ==
    LET c == call[t]
    IN  /\ c.pc = "cas_read"
        /\ IF \A k \in c.keys : TxnGet(k) = c.old
           THEN call' = [call EXCEPT ![t].pc = "cas_commit"] /\ UNCHANGED <<txn_lock, overlay>>
           ELSE Return(t) /\ EndTxn
        /\ UNCHANGED <<db, now, snap>>

CasCommit(t) ==
    LET c == call[t]
    IN  /\ c.pc = "cas_commit"
        /\ db' = Insert(db, c.keys, c.pairs, NoExpiry)
        /\ EndTxn
        /\ Return(t)
        /\ UNCHANGED <<now, snap>>

CasError(t) ==
    /\ call[t].pc \in {"cas_read", "cas_commit"}
    /\ EndTxn
    /\ Return(t)
    /\ UNCHANGED <<db, now, snap>>

-----------------------------------------------------------------------------
snapshot(t) ==
    /\ "snapshot" \in workload[t]
    /\ call[t] = Idle
    /\ snap[t] = NoSnap
    /\ snap' = [snap EXCEPT ![t] = [tables |-> db, captured_at |-> now]]
    /\ UNCHANGED <<db, now, txn_lock, overlay, call>>

DropSnapshot(t) ==
    /\ snap[t] # NoSnap
    /\ snap' = [snap EXCEPT ![t] = NoSnap]
    /\ UNCHANGED <<db, now, txn_lock, overlay, call>>

\* Mutant: the TTL entry is read from the live keyspace.
SnapshotViewLiveTtl(t) ==
    Visible([data |-> snap[t].tables.data, ttl |-> db.ttl], snap[t].captured_at)

\* FjallSnap::get and range judge expiry at capture time.
SnapshotView(t) == Visible(snap[t].tables, snap[t].captured_at)

Tick ==
    /\ now < MaxTime
    /\ now' = now + 1
    /\ UNCHANGED <<db, txn_lock, overlay, call, snap>>

Start(t) ==
    \/ \E k \in Key :
        \/ delete(t, k) \/ delete_returning(t, k)
        \/ get(t, k) \/ ttl_of(t, k) \/ persist(t, k)
        \/ \E d \in Ttl : expire(t, k, d)
        \/ \E v \in Value :
            \/ put(t, k, v) \/ put_returning(t, k, v)
            \/ \E d \in Ttl : put_with_ttl(t, k, v, d)
            \/ \E old \in MaybeValue : compare_and_swap(t, k, old, v)
    \/ \E pairs \in [Key -> MaybeValue] : batch_write(t, pairs) \/ batch_write_across(t, pairs)
    \/ \E keys \in SUBSET Key : batch_delete(t, keys)
    \/ purge_expired(t) \/ transaction(t)

Progress(t) ==
    \/ Probe(t) \/ Evict(t) \/ Commit(t) \/ WriteError(t)
    \/ LockTxn(t) \/ CasRead(t) \/ CasCommit(t) \/ CasError(t)

TxnStep(t) ==
    \/ \E k \in Key, val \in MaybeValue : TxnWrite(t, k, val)
    \/ TxnCommit(t) \/ TxnRollback(t)

Step ==
    \/ \E t \in Thread : \/ Start(t) \/ Progress(t) \/ TxnStep(t)
                         \/ snapshot(t) \/ DropSnapshot(t)
    \/ Tick

Next == Step /\ UNCHANGED workload

Spec == Init /\ [][Next]_vars

\* Threads are scheduled, and a client that opened a transaction ends it, after
\* however many other calls, and does not open a second one inside it.
Fairness ==
    \A t \in Thread :
        /\ WF_vars(Progress(t) /\ UNCHANGED workload)
        /\ SF_vars((TxnCommit(t) \/ TxnRollback(t)) /\ UNCHANGED workload)
FairSpec == Spec /\ Fairness

-----------------------------------------------------------------------------
(***************************************************************************)
(* Properties.                                                             *)
(***************************************************************************)
\* Every variable holds a value of the shape the code gives it.
TypeOK ==
    /\ workload \in [Thread -> SUBSET (OpName \cup {"snapshot"})]
    /\ db \in Tables
    /\ now \in Nat
    /\ txn_lock \in Thread \cup {Nobody}
    /\ overlay \in [Key -> MaybeValue \cup {Untouched}]
    /\ call \in [Thread -> Call]
    /\ snap \in [Thread -> [tables : Tables, captured_at : Expiry]]

\* compare_and_swap replaces only the value it was told to expect, as stored at
\* the instant of the swap.
CasAtomic ==
    [][\A t \in Thread : CasCommit(t) =>
          \A k \in call[t].keys : CasMatches(db, k, call[t].old, call[t].since, now)]_vars

\* A snapshot shows the same values for as long as it is held, data and TTL
\* taken from the same instant.
SnapshotStable ==
    [][\A t \in Thread :
          snap[t] # NoSnap /\ snap'[t] # NoSnap => SnapshotView(t)' = SnapshotView(t)]_vars

\* The TTL keyspace holds no expiry for an absent key.
NoOrphanTtl == \A k \in Key : db.data[k] = Absent => db.ttl[k] = NoExpiry

\* The two keyspaces agree: well formed, and no orphaned expiry.
KeyspacesAgree == TypeOK /\ NoOrphanTtl

\* txn_lock, once taken, is given up.
LockReleased == \A t \in Thread : txn_lock = t ~> txn_lock # t

InClientTxn(t) == txn_lock = t /\ call[t].pc \notin {"cas_read", "cas_commit"}

\* The calls as the clients see them.
Pending(c) == [op |-> c.op, keys |-> c.keys, pairs |-> c.pairs,
               exp |-> c.exp, old |-> c.old, since |-> c.since]

ReqBar    == [t \in Thread |-> Pending(call[t])]
OpenBar   == {t \in Thread : InClientTxn(t)}
StagedBar == [t \in Thread |-> IF InClientTxn(t) THEN overlay ELSE NoOverlay]

Abs == INSTANCE KvStore WITH kv <- db, req <- ReqBar, open <- OpenBar, staged <- StagedBar

\* Every call takes effect at once or not at all, every transaction as a whole
\* when it commits, and none that is not Careless treats an expired key as live
\* or gives a value an old expiry.
Refines == Abs!Spec
=============================================================================
