------------------------------ MODULE RedbStore ------------------------------
(***************************************************************************)
(* The redb backend: RedbStore, RedbTxn and RedbSnapshot.                  *)
(*                                                                         *)
(* The committed root of the redb file is `db`.  Each reading phase opens  *)
(* a read transaction, which sees one committed root.  Each writing phase  *)
(* takes the store's write_lock and then redb's own exclusive write        *)
(* transaction (`writer`), which blocks while another one is open.  A      *)
(* one-shot writer keeps both until it has committed; transaction()        *)
(* releases write_lock as soon as it has begun, so an open RedbTxn owns    *)
(* `writer` only.                                                          *)
(*                                                                         *)
(* get, ttl, expire, persist and purge_expired decide on what a read       *)
(* transaction showed and act later, in a write transaction of their own:  *)
(* the window between the two is two steps of this model.                  *)
(*                                                                         *)
(* A call that returns without writing (a hit, KeyNotFound, a scan) leaves *)
(* the state alone and is not a step.                                      *)
(***************************************************************************)
EXTENDS KvCore

CONSTANTS Thread,      \* the threads sharing the store
          Nobody,      \* no thread
          Untouched,   \* a key a transaction has not written
          Ttl,         \* the durations passed to put_with_ttl and expire
          MaxTime,     \* bound on the clock
          Op,          \* the operations the threads call
          Reentrant,   \* may a thread call the store while its own
                       \* transaction is open?
          Careless     \* are calls made that overlook an expiry (Overlooks)?

ASSUME RedbAssumption ==
    /\ Nobody \notin Thread
    /\ Untouched \notin MaybeValue
    /\ Ttl \subseteq Nat
    /\ MaxTime \in Nat
    /\ Reentrant \in BOOLEAN
    /\ Careless \in BOOLEAN

VARIABLES
    db,          \* the committed data and TTL tables
    now,         \* wall clock
    write_lock,  \* holder of RedbStore::write_lock
    writer,      \* owner of redb's write transaction kept open by a RedbTxn
    inner,       \* the tables as that transaction has changed them
    overlay,     \* RedbTxn::overlay
    call,        \* what each thread is executing
    snap,        \* the RedbSnapshot each thread holds
    backup_file  \* the last backup

vars == <<db, now, write_lock, writer, inner, overlay, call, snap, backup_file>>

Writes  == {"put", "batch_write", "restore", "put_with_ttl", "put_returning_old"}
Deletes == {"delete", "batch_delete", "delete_returning_old"}
Evicts  == {"get", "ttl", "purge_expired"}
OneShot == Writes \cup Deletes \cup Evicts \cup {"expire", "persist"}
Begins  == {"transaction", "compare_and_swap"}

Call == [op : OneShot \cup Begins \cup {"none"},
         pc : {"idle", "lock", "begin", "cas_read", "cas_commit", "spoiled"},
         keys : SUBSET Key, pairs : [Key -> MaybeValue],
         exp : Expiry, old : MaybeValue, since : Nat]

\* since: the clock when the call was made.
Idle == [op |-> "none", pc |-> "idle", keys |-> {}, pairs |-> NoPairs,
         exp |-> NoExpiry, old |-> Absent, since |-> 0]

\* Between two calls, with a transaction in which a write failed.
Spoiled == [Idle EXCEPT !.pc = "spoiled"]

NoOverlay == [k \in Key |-> Untouched]

\* captured_at is NoExpiry when no snapshot is held.
NoSnap == [tables |-> EmptyTables, captured_at |-> NoExpiry]

Init ==
    /\ db = EmptyTables
    /\ now = 0
    /\ write_lock = Nobody
    /\ writer = Nobody
    /\ inner = EmptyTables
    /\ overlay = NoOverlay
    /\ call = [t \in Thread |-> Idle]
    /\ snap = [t \in Thread |-> NoSnap]
    /\ backup_file = EmptyTables

-----------------------------------------------------------------------------
(***************************************************************************)
(* Calling an operation: everything up to the wait for write_lock.         *)
(***************************************************************************)
CanCall(t, op) ==
    /\ op \in Op
    /\ call[t] = Idle
    /\ Reentrant \/ writer # t

\* expire and persist take an elapsed entry for a live one, and the
\* returning_old calls leave the expiry of the value they replace.
Overlooks(op, k) ==
    \/ op \in {"expire", "persist"} /\ is_expired(db.ttl[k], now)
    \/ op \in {"put_returning_old", "delete_returning_old"} /\ db.ttl[k] # NoExpiry

\* t has done op's reading phase and goes on to its writing phase.
WaitForLock(t, op, keys, pairs, exp, old) ==
    /\ CanCall(t, op)
    /\ Careless \/ \A k \in keys : ~Overlooks(op, k)
    /\ call' = [call EXCEPT ![t] =
                   [op |-> op, pc |-> "lock", keys |-> keys, pairs |-> pairs,
                    exp |-> exp, old |-> old, since |-> now]]
    /\ UNCHANGED <<db, now, write_lock, writer, inner, overlay, snap, backup_file>>

Pair(k, v) == [NoPairs EXCEPT ![k] = v]

put(t, k, v) == WaitForLock(t, "put", {k}, Pair(k, v), NoExpiry, Absent)

put_returning_old(t, k, v) ==
    WaitForLock(t, "put_returning_old", {k}, Pair(k, v), NoExpiry, Absent)

batch_write(t, pairs) ==
    LET keys == {k \in Key : pairs[k] # Absent}
    IN  WaitForLock(t, "batch_write", keys, pairs, NoExpiry, Absent)

\* The expiry is computed before the lock is taken.
put_with_ttl(t, k, v, ttl) ==
    WaitForLock(t, "put_with_ttl", {k}, Pair(k, v), now + ttl, Absent)

delete(t, k) == WaitForLock(t, "delete", {k}, NoPairs, NoExpiry, Absent)

delete_returning_old(t, k) ==
    WaitForLock(t, "delete_returning_old", {k}, NoPairs, NoExpiry, Absent)

batch_delete(t, keys) == WaitForLock(t, "batch_delete", keys, NoPairs, NoExpiry, Absent)

\* An entry that has elapsed sends get into its eviction phase.
get(t, k) ==
    /\ is_expired(db.ttl[k], now)
    /\ WaitForLock(t, "get", {k}, NoPairs, NoExpiry, Absent)

ttl_of(t, k) ==
    /\ db.data[k] # Absent
    /\ is_expired(db.ttl[k], now)
    /\ WaitForLock(t, "ttl", {k}, NoPairs, NoExpiry, Absent)

expire(t, k, ttl) ==
    /\ db.data[k] # Absent
    /\ WaitForLock(t, "expire", {k}, NoPairs, now + ttl, Absent)

persist(t, k) ==
    /\ db.data[k] # Absent
    /\ db.ttl[k] # NoExpiry
    /\ WaitForLock(t, "persist", {k}, NoPairs, NoExpiry, Absent)

purge_expired(t) ==
    /\ ExpiredKeys(db, now) # {}
    /\ WaitForLock(t, "purge_expired", ExpiredKeys(db, now), NoPairs, NoExpiry, Absent)

\* backup copies the file; restore reads the data table of the copy, expired
\* entries included, and hands it to batch_write.
backup(t) ==
    /\ CanCall(t, "backup")
    /\ backup_file' = db
    /\ UNCHANGED <<db, now, write_lock, writer, inner, overlay, call, snap>>

restore(t) ==
    WaitForLock(t, "restore", PresentKeys(backup_file), backup_file.data, NoExpiry, Absent)

transaction(t) == WaitForLock(t, "transaction", {}, NoPairs, NoExpiry, Absent)

\* The trait's default: a transaction that reads, compares and writes.
compare_and_swap(t, k, old, new) ==
    WaitForLock(t, "compare_and_swap", {k}, Pair(k, new), NoExpiry, old)

-----------------------------------------------------------------------------
(***************************************************************************)
(* The writing phase.                                                      *)
(***************************************************************************)
AcquireWriteLock(t) ==
    /\ call[t].pc = "lock"
    /\ write_lock = Nobody
    /\ write_lock' = t
    /\ call' = [call EXCEPT ![t].pc = "begin"]
    /\ UNCHANGED <<db, now, writer, inner, overlay, snap, backup_file>>

\* Mutant: no operation but a delete clears the sidecar.
EffectKeepsTtl(tb, c) ==
    IF c.op = "put_with_ttl" THEN Insert(tb, c.keys, c.pairs, c.exp)
    ELSE IF c.op \in Writes THEN SetData(tb, c.keys, c.pairs)
    ELSE Remove(tb, c.keys)

\* What a one-shot operation does to the tables in its write transaction.
Effect(tb, c) ==
    CASE c.op \in {"put", "batch_write", "restore"} -> Insert(tb, c.keys, c.pairs, NoExpiry)
      [] c.op = "put_with_ttl"         -> Insert(tb, c.keys, c.pairs, c.exp)
      [] c.op = "put_returning_old"    -> SetData(tb, c.keys, c.pairs)
      [] c.op = "delete_returning_old" -> SetData(tb, c.keys, NoPairs)
      [] c.op = "expire"               -> SetTtl(tb, c.keys, c.exp)
      [] c.op = "persist"              -> SetTtl(tb, c.keys, NoExpiry)
      [] OTHER                         -> Remove(tb, c.keys)

Return(t) == call' = [call EXCEPT ![t] = Idle]

\* Mutant: a one-shot write does not wait for an open write transaction.
CommitWriteAnyway(t) ==
    /\ call[t].pc = "begin"
    /\ call[t].op \in OneShot
    /\ db' = Effect(db, call[t])
    /\ write_lock' = Nobody
    /\ Return(t)
    /\ UNCHANGED <<now, writer, inner, overlay, snap, backup_file>>

\* begin_write, the operation, commit; then the guard is dropped.
CommitWrite(t) ==
    /\ call[t].pc = "begin"
    /\ call[t].op \in OneShot
    /\ writer = Nobody
    /\ db' = Effect(db, call[t])
    /\ write_lock' = Nobody
    /\ Return(t)
    /\ UNCHANGED <<now, writer, inner, overlay, snap, backup_file>>

\* Any fallible redb call of the writing phase: the write transaction is
\* dropped uncommitted and the guard released.
WriteError(t) ==
    /\ call[t].pc = "begin"
    /\ writer = Nobody
    /\ write_lock' = Nobody
    /\ Return(t)
    /\ UNCHANGED <<db, now, writer, inner, overlay, snap, backup_file>>

-----------------------------------------------------------------------------
(***************************************************************************)
(* RedbTxn.                                                                *)
(***************************************************************************)
BeginTxn(t) ==
    /\ call[t].pc = "begin"
    /\ call[t].op \in Begins
    /\ writer = Nobody
    /\ writer' = t
    /\ inner' = db
    /\ overlay' = NoOverlay
    /\ write_lock' = Nobody
    /\ call' = [call EXCEPT ![t] = IF call[t].op = "transaction" THEN Idle
                                   ELSE [call[t] EXCEPT !.pc = "cas_read"]]
    /\ UNCHANGED <<db, now, snap, backup_file>>

\* RedbTxn::get: the overlay first, then the transaction's tables, TTL honoured.
TxnGet(k) ==
    IF overlay[k] # Untouched THEN overlay[k] ELSE Visible(inner, now)[k]

\* Mutant: only the data table is written.
StageDataOnly(k, val) ==
    /\ inner' = SetData(inner, {k}, Pair(k, val))
    /\ overlay' = [overlay EXCEPT ![k] = val]

\* RedbTxn::put and delete (val = Absent): both tables and the overlay.
Stage(k, val) ==
    /\ inner' = Insert(inner, {k}, Pair(k, val), NoExpiry)
    /\ overlay' = [overlay EXCEPT ![k] = val]

\* t owns the write transaction and is between two calls.
InTxn(t) == writer = t /\ call[t] = Idle

TxnPut(t, k, v) ==
    /\ InTxn(t)
    /\ Stage(k, v)
    /\ UNCHANGED <<db, now, write_lock, writer, call, snap, backup_file>>

TxnDelete(t, k) ==
    /\ InTxn(t)
    /\ Stage(k, Absent)
    /\ UNCHANGED <<db, now, write_lock, writer, call, snap, backup_file>>

\* A call of put or delete fails: nothing is written, or the data table alone.
\* After a failure of its storage redb (external) fails every further use of
\* the transaction, which the client can only give up.
TxnWriteError(t, k, val) ==
    /\ InTxn(t)
    /\ inner' \in {inner, SetData(inner, {k}, Pair(k, val))}
    /\ call' = [call EXCEPT ![t] = Spoiled]
    /\ UNCHANGED <<db, now, write_lock, writer, overlay, snap, backup_file>>

\* Mutant: redb's write transaction is not given up.
EndTxnLeaks ==
    /\ UNCHANGED writer
    /\ inner' = EmptyTables
    /\ overlay' = NoOverlay

EndTxn ==
    /\ writer' = Nobody
    /\ inner' = EmptyTables
    /\ overlay' = NoOverlay

TxnCommit(t) ==
    /\ InTxn(t)
    /\ db' = inner
    /\ EndTxn
    /\ UNCHANGED <<now, write_lock, call, snap, backup_file>>

\* rollback, a drop without commit, or a commit that fails.
TxnRollback(t) ==
    /\ writer = t
    /\ call[t] \in {Idle, Spoiled}
    /\ EndTxn
    /\ Return(t)
    /\ UNCHANGED <<db, now, write_lock, snap, backup_file>>

\* compare_and_swap: read and compare; on a mismatch roll back.
CasRead(t) ==
    LET c == call[t]
        k == CHOOSE x \in c.keys : TRUE
    IN  /\ c.pc = "cas_read"
        /\ IF TxnGet(k) = c.old
           THEN /\ call' = [call EXCEPT ![t].pc = "cas_commit"]
                /\ UNCHANGED <<writer, inner, overlay>>
           ELSE /\ Return(t)
                /\ EndTxn
        /\ UNCHANGED <<db, now, write_lock, snap, backup_file>>

\* ... on a match put the new value and commit.
CasCommit(t) ==
    LET c == call[t]
    IN  /\ c.pc = "cas_commit"
        /\ db' = Insert(inner, c.keys, c.pairs, NoExpiry)
        /\ EndTxn
        /\ Return(t)
        /\ UNCHANGED <<now, write_lock, snap, backup_file>>

\* ... or a call of the swap fails and its transaction is dropped.
CasError(t) ==
    /\ call[t].pc \in {"cas_read", "cas_commit"}
    /\ EndTxn
    /\ Return(t)
    /\ UNCHANGED <<db, now, write_lock, snap, backup_file>>

-----------------------------------------------------------------------------
(***************************************************************************)
(* RedbSnapshot, and the clock.                                            *)
(***************************************************************************)
snapshot(t) ==
    /\ "snapshot" \in Op
    /\ call[t] = Idle
    /\ snap[t] = NoSnap
    /\ snap' = [snap EXCEPT ![t] = [tables |-> db, captured_at |-> now]]
    /\ UNCHANGED <<db, now, write_lock, writer, inner, overlay, call, backup_file>>

DropSnapshot(t) ==
    /\ snap[t] # NoSnap
    /\ snap' = [snap EXCEPT ![t] = NoSnap]
    /\ UNCHANGED <<db, now, write_lock, writer, inner, overlay, call, backup_file>>

\* Mutant: the snapshot judges expiry by the clock.
SnapshotViewLive(t) == Visible(snap[t].tables, now)

\* RedbSnapshot::get and range judge expiry at capture time.
SnapshotView(t) == Visible(snap[t].tables, snap[t].captured_at)

Tick ==
    /\ now < MaxTime
    /\ now' = now + 1
    /\ UNCHANGED <<db, write_lock, writer, inner, overlay, call, snap, backup_file>>

-----------------------------------------------------------------------------
Start(t) ==
    \/ \E k \in Key :
        \/ delete(t, k) \/ delete_returning_old(t, k)
        \/ get(t, k) \/ ttl_of(t, k) \/ persist(t, k)
        \/ \E d \in Ttl : expire(t, k, d)
        \/ \E v \in Value :
            \/ put(t, k, v) \/ put_returning_old(t, k, v)
            \/ \E d \in Ttl : put_with_ttl(t, k, v, d)
            \/ \E old \in MaybeValue : compare_and_swap(t, k, old, v)
    \/ \E pairs \in [Key -> MaybeValue] : batch_write(t, pairs)
    \/ \E keys \in SUBSET Key : batch_delete(t, keys)
    \/ purge_expired(t) \/ backup(t) \/ restore(t) \/ transaction(t)

\* The steps of a call under way.
Progress(t) ==
    \/ AcquireWriteLock(t) \/ CommitWrite(t) \/ WriteError(t)
    \/ BeginTxn(t) \/ CasRead(t) \/ CasCommit(t) \/ CasError(t)

\* The client's use of an open transaction.
TxnStep(t) ==
    \/ \E k \in Key : TxnDelete(t, k) \/ \E v \in Value : TxnPut(t, k, v)
    \/ \E k \in Key, val \in MaybeValue : TxnWriteError(t, k, val)
    \/ TxnCommit(t) \/ TxnRollback(t)

Next ==
    \/ \E t \in Thread : Start(t) \/ Progress(t) \/ TxnStep(t)
                         \/ snapshot(t) \/ DropSnapshot(t)
    \/ Tick

Spec == Init /\ [][Next]_vars

\* Threads are scheduled, and a client that opened a transaction ends it.
Fairness == \A t \in Thread : /\ WF_vars(Progress(t))
                              /\ WF_vars(TxnCommit(t) \/ TxnRollback(t))
FairSpec == Spec /\ Fairness

-----------------------------------------------------------------------------
(***************************************************************************)
(* Properties.                                                             *)
(***************************************************************************)
\* Every variable holds a value of the shape the code gives it.
TypeOK ==
    /\ db \in Tables
    /\ now \in Nat
    /\ write_lock \in Thread \cup {Nobody}
    /\ writer \in Thread \cup {Nobody}
    /\ inner \in Tables
    /\ overlay \in [Key -> MaybeValue \cup {Untouched}]
    /\ call \in [Thread -> Call]
    /\ snap \in [Thread -> [tables : Tables, captured_at : Expiry]]
    /\ backup_file \in Tables

\* A thread past AcquireWriteLock holds write_lock, and nobody else does; a
\* compare_and_swap past BeginTxn owns the write transaction and has staged
\* nothing, and reaches its commit only with the expected value under the key,
\* as get gave it at an instant of the call.
Ownership ==
    \A t \in Thread :
        /\ call[t].since <= now
        /\ call[t].pc = "begin" <=> write_lock = t
        /\ call[t].pc \in {"cas_read", "cas_commit"} =>
              /\ writer = t
              /\ call[t].op = "compare_and_swap"
              /\ overlay = NoOverlay
        /\ call[t].op = "compare_and_swap" => \E k \in Key : call[t].keys = {k}
        /\ call[t].pc = "cas_commit" =>
              \A k \in call[t].keys : CasMatches(inner, k, call[t].old, call[t].since, now)

\* While a RedbTxn is open no other writer gets in: a key it has not written
\* still reads, data and expiry, as committed.  So what the transaction read
\* is current when it commits.  (After a write of its own that failed halfway
\* it may read that write, and can no longer commit.)
TxnIsolation ==
    writer # Nobody /\ call[writer] # Spoiled =>
        \A k \in Key : overlay[k] = Untouched =>
            inner.data[k] = db.data[k] /\ inner.ttl[k] = db.ttl[k]

\* A key the transaction has written reads, inside it and after its commit,
\* as written, and carries no expiry of an earlier value.
ReadYourWrites ==
    writer # Nobody /\ call[writer] # Spoiled =>
        \A k \in Key : overlay[k] # Untouched =>
            inner.data[k] = overlay[k] /\ inner.ttl[k] = NoExpiry

\* compare_and_swap replaces only the value it was told to expect, as
\* committed at the instant of the swap, whatever the other threads do.
CasAtomic ==
    [][\A t \in Thread : CasCommit(t) =>
          \A k \in call[t].keys : CasMatches(db, k, call[t].old, call[t].since, now)]_vars

\* A snapshot shows the same values for as long as it is held: neither writes
\* nor the passing of time (a key that expires after the capture) show.
SnapshotStable ==
    [][\A t \in Thread :
          snap[t] # NoSnap /\ snap'[t] # NoSnap => SnapshotView(t)' = SnapshotView(t)]_vars

\* An eviction (get, ttl, purge_expired) removes only a value whose expiry
\* has elapsed at that instant.
EvictsOnlyExpired ==
    [][\A t \in Thread : CommitWrite(t) /\ call[t].op \in Evicts =>
          \A k \in PresentKeys(db) : db'.data[k] = Absent => is_expired(db.ttl[k], now)]_vars

\* The sidecar holds no expiry for an absent key, which a later write could
\* inherit.
NoOrphanTtl == \A k \in Key : db.data[k] = Absent => db.ttl[k] = NoExpiry

\* write_lock, once taken, is given up: its holder waits at most for the one
\* transaction that is open, and no new one can begin meanwhile.
LockReleased == \A t \in Thread : write_lock = t ~> write_lock # t

\* The calls as the clients see them.
Pending(c) == [op |-> c.op, keys |-> c.keys, pairs |-> c.pairs,
               exp |-> c.exp, old |-> c.old, since |-> c.since]

InClientTxn(t) == writer = t /\ call[t].pc \notin {"cas_read", "cas_commit"}

ReqBar    == [t \in Thread |-> Pending(call[t])]
OpenBar   == {t \in Thread : InClientTxn(t)}
StagedBar == [t \in Thread |-> IF InClientTxn(t) THEN overlay ELSE NoOverlay]

Abs == INSTANCE KvStore WITH kv <- db, req <- ReqBar, open <- OpenBar, staged <- StagedBar

\* Every call takes effect at once or not at all, every transaction as a whole
\* when it commits, and none that is not Careless treats an expired key as live
\* or gives a value an old expiry.
Refines == Abs!Spec
=============================================================================
