--------------------------- MODULE RedbStoreProofs ---------------------------
(***************************************************************************)
(* Proofs about RedbStore, for any threads, keys, values, TTLs and bounds. *)
(***************************************************************************)
EXTENDS RedbStore, TLAPS

(***************************************************************************)
(* The data and TTL tables.                                                *)
(***************************************************************************)
\* The empty tables, the empty map and the absent expiry have their types.
LEMMA CoreTypes ==
    /\ EmptyTables \in Tables
    /\ NoPairs \in [Key -> MaybeValue]
    /\ NoExpiry \in Expiry
    /\ Absent \in MaybeValue
    /\ \A v \in Value : v \in MaybeValue
  BY DEF EmptyTables, Tables, NoPairs, MaybeValue, NoExpiry, Expiry

\* Writing pairs to the data table yields tables again.
LEMMA SetDataType ==
    ASSUME NEW tb \in Tables, NEW keys \in SUBSET Key, NEW pairs \in [Key -> MaybeValue]
    PROVE  SetData(tb, keys, pairs) \in Tables
  BY DEF SetData, Tables

\* Writing an expiry to the TTL table yields tables again.
LEMMA SetTtlType ==
    ASSUME NEW tb \in Tables, NEW keys \in SUBSET Key, NEW exp \in Expiry
    PROVE  SetTtl(tb, keys, exp) \in Tables
  BY DEF SetTtl, Tables

\* So do the combined writes of one transaction.
LEMMA InsertType ==
    ASSUME NEW tb \in Tables, NEW keys \in SUBSET Key, NEW pairs \in [Key -> MaybeValue],
           NEW exp \in Expiry
    PROVE  /\ Insert(tb, keys, pairs, exp) \in Tables
           /\ Remove(tb, keys) \in Tables
  BY SetDataType, SetTtlType, CoreTypes DEF Insert, Remove

\* The value and the expiry of a key after a write to the data table.
LEMMA SetDataAt ==
    ASSUME NEW tb \in Tables, NEW keys, NEW pairs, NEW k \in Key
    PROVE  /\ SetData(tb, keys, pairs).data[k] = IF k \in keys THEN pairs[k] ELSE tb.data[k]
           /\ SetData(tb, keys, pairs).ttl[k] = tb.ttl[k]
  BY DEF SetData, Tables

\* The same after a write to the TTL table.
LEMMA SetTtlAt ==
    ASSUME NEW tb \in Tables, NEW keys, NEW exp, NEW k \in Key
    PROVE  /\ SetTtl(tb, keys, exp).ttl[k] = IF k \in keys THEN exp ELSE tb.ttl[k]
           /\ SetTtl(tb, keys, exp).data[k] = tb.data[k]
  BY DEF SetTtl, Tables

\* The same after an insert.
LEMMA InsertAt ==
    ASSUME NEW tb \in Tables, NEW keys, NEW pairs, NEW exp, NEW k \in Key
    PROVE  /\ Insert(tb, keys, pairs, exp).data[k] = IF k \in keys THEN pairs[k] ELSE tb.data[k]
           /\ Insert(tb, keys, pairs, exp).ttl[k] = IF k \in keys THEN exp ELSE tb.ttl[k]
  BY DEF Insert, SetTtl, SetData, Tables

\* The same after a removal.
LEMMA RemoveAt ==
    ASSUME NEW tb \in Tables, NEW keys, NEW k \in Key
    PROVE  /\ Remove(tb, keys).data[k] = IF k \in keys THEN Absent ELSE tb.data[k]
           /\ Remove(tb, keys).ttl[k] = IF k \in keys THEN NoExpiry ELSE tb.ttl[k]
  BY InsertAt DEF Remove, NoPairs

\* What is visible under one key.
LEMMA VisibleAt ==
    ASSUME NEW tb, NEW time, NEW k \in Key
    PROVE  Visible(tb, time)[k] = IF is_expired(tb.ttl[k], time) THEN Absent ELSE tb.data[k]
  BY DEF Visible

\* What a read finds is what compare_and_swap would compare.
LEMMA VisibleMatches ==
    ASSUME NEW tb, NEW since \in Nat, NEW time \in Nat, since <= time, NEW k \in Key, NEW old,
           Visible(tb, time)[k] = old
    PROVE  CasMatches(tb, k, old, since, time)
  <1>1. time \in since .. time
    OBVIOUS
  <1>. QED BY <1>1 DEF CasMatches

\* A comparison that held still holds when time has passed: the call has had
\* one more instant.
LEMMA MatchesLater ==
    ASSUME NEW tb, NEW since \in Nat, NEW time \in Nat, NEW k, NEW old,
           CasMatches(tb, k, old, since, time)
    PROVE  CasMatches(tb, k, old, since, time + 1)
  <1>1. PICK instant \in since .. time : Visible(tb, instant)[k] = old
    BY DEF CasMatches
  <1>2. instant \in since .. (time + 1)
    OBVIOUS
  <1>. QED BY <1>1, <1>2 DEF CasMatches

-----------------------------------------------------------------------------
\* The constants of the model have their types.
LEMMA ConstantTypes ==
    /\ EmptyTables \in Tables
    /\ NoPairs \in [Key -> MaybeValue]
    /\ NoExpiry \in Expiry
    /\ Idle \in Call
    /\ NoOverlay \in [Key -> MaybeValue \cup {Untouched}]
  BY CoreTypes DEF Idle, Call, NoOverlay

\* The state after a failed write of a transaction is that of an idle thread but
\* for its mark.
LEMMA SpoiledFacts ==
    /\ Spoiled \in Call /\ Spoiled # Idle
    /\ Spoiled.pc = "spoiled" /\ Spoiled.op = Idle.op /\ Spoiled.keys = Idle.keys
    /\ Spoiled.pairs = Idle.pairs /\ Spoiled.exp = Idle.exp /\ Spoiled.old = Idle.old
    /\ Spoiled.since = Idle.since
  BY ConstantTypes DEF Spoiled, Idle, Call

\* A single pair is a partial map.
LEMMA PairType ==
    ASSUME NEW k \in Key, NEW val \in MaybeValue
    PROVE  Pair(k, val) \in [Key -> MaybeValue]
  BY ConstantTypes DEF Pair

\* The effect of a one-shot call keeps the tables well typed.
LEMMA EffectType ==
    ASSUME NEW tb \in Tables, NEW c \in Call
    PROVE  Effect(tb, c) \in Tables
  <1>1. c.keys \in SUBSET Key /\ c.pairs \in [Key -> MaybeValue] /\ c.exp \in Expiry
    BY DEF Call
  <1>2. SetData(tb, c.keys, c.pairs) \in Tables /\ SetData(tb, c.keys, NoPairs) \in Tables
    BY <1>1, SetDataType, ConstantTypes
  <1>3. SetTtl(tb, c.keys, c.exp) \in Tables /\ SetTtl(tb, c.keys, NoExpiry) \in Tables
    BY <1>1, SetTtlType, ConstantTypes
  <1>4. /\ Insert(tb, c.keys, c.pairs, NoExpiry) \in Tables
        /\ Insert(tb, c.keys, c.pairs, c.exp) \in Tables
        /\ Remove(tb, c.keys) \in Tables
    BY <1>1, InsertType, ConstantTypes
  <1>. QED BY <1>2, <1>3, <1>4 DEF Effect

-----------------------------------------------------------------------------
(***************************************************************************)
(* The inductive invariant.  Isolation alone is not inductive: that nobody *)
(* commits under an open transaction needs to know who owns write_lock and *)
(* redb's write transaction, and that a compare_and_swap past its          *)
(* comparison still compares equal.                                        *)
(***************************************************************************)
CallsEnabled ==
    \A t \in Thread : call[t] \in {Idle, Spoiled} \/ call[t].op \in Op \cap (OneShot \cup Begins)

IInv == TypeOK /\ Ownership /\ TxnIsolation /\ ReadYourWrites /\ CallsEnabled

\* The program starts in the invariant.
LEMMA InitIInv == Init => IInv
  <1>. SUFFICES ASSUME Init PROVE IInv
    OBVIOUS
  <1>1. TypeOK
    BY ConstantTypes DEF Init, TypeOK, NoSnap
  <1>2. Ownership
    BY RedbAssumption DEF Init, Ownership, Idle
  <1>. QED
    BY <1>1, <1>2 DEF IInv, TxnIsolation, ReadYourWrites, CallsEnabled, Init

\* Steps that touch only snapshots or the backup.
LEMMA SameCore ==
    ASSUME IInv, UNCHANGED <<db, now, write_lock, writer, inner, overlay, call>>
    PROVE  Ownership' /\ TxnIsolation' /\ ReadYourWrites' /\ CallsEnabled'
  <1>1. Ownership'
    BY DEF IInv, Ownership, CasMatches, Visible
  <1>2. TxnIsolation' /\ ReadYourWrites'
    BY DEF IInv, TxnIsolation, ReadYourWrites
  <1>3. CallsEnabled'
    BY DEF IInv, CallsEnabled
  <1>. QED BY <1>1, <1>2, <1>3

\* A call that goes to wait for write_lock, with arguments of their types.
LEMMA WaitForLockIInv ==
    ASSUME IInv, NEW t \in Thread, NEW op \in OneShot \cup Begins,
           NEW keys \in SUBSET Key, NEW pairs \in [Key -> MaybeValue],
           NEW exp \in Expiry, NEW old \in MaybeValue,
           op = "compare_and_swap" => \E k \in Key : keys = {k},
           WaitForLock(t, op, keys, pairs, exp, old)
    PROVE  IInv'
  <1>. DEFINE c == [op |-> op, pc |-> "lock", keys |-> keys,
                    pairs |-> pairs, exp |-> exp, old |-> old, since |-> now]
  <1>1. /\ call' = [call EXCEPT ![t] = c]
        /\ call[t] = Idle /\ op \in Op
        /\ UNCHANGED <<db, now, write_lock, writer, inner, overlay, snap, backup_file>>
    BY DEF WaitForLock, CanCall
  <1>2. c \in Call
    BY DEF Call, IInv, TypeOK
  <1>3. TypeOK'
    BY <1>1, <1>2 DEF IInv, TypeOK
  <1>4. \A u \in Thread : call'[u] = IF u = t THEN c ELSE call[u]
    BY <1>1 DEF IInv, TypeOK
  <1>5. Ownership'
    <2>. SUFFICES ASSUME NEW u \in Thread
                  PROVE  Ownership!(u)'
      BY DEF Ownership
    <2>1. CASE u = t
      <3>1. now \in Nat /\ c.since <= now
        BY DEF IInv, TypeOK
      <3>. QED BY <1>1, <1>4, <2>1, <3>1 DEF IInv, Ownership, Idle
    <2>2. CASE u # t
      BY <1>1, <1>4, <2>2 DEF IInv, Ownership, CasMatches, Visible
    <2>. QED BY <2>1, <2>2
  <1>6. CallsEnabled'
    BY <1>1, <1>4 DEF IInv, CallsEnabled
  <1>7. TxnIsolation' /\ ReadYourWrites'
    BY <1>1, <1>4, SpoiledFacts DEF IInv, TypeOK, TxnIsolation, ReadYourWrites
  <1>. QED BY <1>3, <1>5, <1>6, <1>7 DEF IInv

\* Every call that starts keeps the invariant: it waits for the lock with
\* well-typed arguments, or is backup.
LEMMA StartIInv ==
    ASSUME IInv, NEW t \in Thread, Start(t)
    PROVE  IInv'
  <1>. USE ConstantTypes
  <1>t. db \in Tables /\ now \in Nat /\ backup_file \in Tables
    BY DEF IInv, TypeOK
  <1>e. \A d \in Ttl : now + d \in Expiry
    BY <1>t, RedbAssumption DEF Expiry
  <1>a. Absent \in MaybeValue
    BY DEF MaybeValue
  <1>o. \A op \in {"put", "put_returning_old", "batch_write", "put_with_ttl", "delete",
                   "delete_returning_old", "batch_delete", "get", "ttl", "expire",
                   "persist", "purge_expired", "restore", "transaction",
                   "compare_and_swap"} : op \in OneShot \cup Begins
    BY DEF OneShot, Begins, Writes, Deletes, Evicts
  <1>p. \A k \in Key, v \in Value : Pair(k, v) \in [Key -> MaybeValue]
    BY PairType DEF MaybeValue
  <1>1. ASSUME NEW k \in Key, delete(t, k) PROVE IInv'
    BY <1>1, <1>a, <1>o, WaitForLockIInv DEF delete
  <1>2. ASSUME NEW k \in Key, delete_returning_old(t, k) PROVE IInv'
    BY <1>2, <1>a, <1>o, WaitForLockIInv DEF delete_returning_old
  <1>3. ASSUME NEW k \in Key, get(t, k) PROVE IInv'
    BY <1>3, <1>a, <1>o, WaitForLockIInv DEF get
  <1>4. ASSUME NEW k \in Key, ttl_of(t, k) PROVE IInv'
    BY <1>4, <1>a, <1>o, WaitForLockIInv DEF ttl_of
  <1>5. ASSUME NEW k \in Key, persist(t, k) PROVE IInv'
    BY <1>5, <1>a, <1>o, WaitForLockIInv DEF persist
  <1>6. ASSUME NEW k \in Key, NEW d \in Ttl, expire(t, k, d) PROVE IInv'
    BY <1>6, <1>a, <1>o, <1>e, WaitForLockIInv DEF expire
  <1>7. ASSUME NEW k \in Key, NEW v \in Value, put(t, k, v) PROVE IInv'
    BY <1>7, <1>a, <1>o, <1>p, WaitForLockIInv DEF put
  <1>8. ASSUME NEW k \in Key, NEW v \in Value, put_returning_old(t, k, v) PROVE IInv'
    BY <1>8, <1>a, <1>o, <1>p, WaitForLockIInv DEF put_returning_old
  <1>9. ASSUME NEW k \in Key, NEW v \in Value, NEW d \in Ttl, put_with_ttl(t, k, v, d)
        PROVE  IInv'
    BY <1>9, <1>a, <1>o, <1>p, <1>e, WaitForLockIInv DEF put_with_ttl
  <1>10. ASSUME NEW k \in Key, NEW v \in Value, NEW old \in MaybeValue,
                compare_and_swap(t, k, old, v)
         PROVE  IInv'
    BY <1>10, <1>o, <1>p, WaitForLockIInv DEF compare_and_swap
  <1>11. ASSUME NEW pairs \in [Key -> MaybeValue], batch_write(t, pairs) PROVE IInv'
    BY <1>11, <1>a, <1>o, WaitForLockIInv DEF batch_write
  <1>12. ASSUME NEW keys \in SUBSET Key, batch_delete(t, keys) PROVE IInv'
    BY <1>12, <1>a, <1>o, WaitForLockIInv DEF batch_delete
  <1>13. ASSUME purge_expired(t) PROVE IInv'
    <2>1. ExpiredKeys(db, now) \in SUBSET Key
      BY DEF ExpiredKeys
    <2>. QED BY <1>13, <2>1, <1>a, <1>o, WaitForLockIInv DEF purge_expired
  <1>14. ASSUME backup(t) PROVE IInv'
    <2>1. /\ backup_file' = db
          /\ UNCHANGED <<db, now, write_lock, writer, inner, overlay, call, snap>>
      BY <1>14 DEF backup
    <2>2. TypeOK'
      BY <2>1 DEF IInv, TypeOK
    <2>. QED BY <2>1, <2>2, SameCore DEF IInv
  <1>15. ASSUME restore(t) PROVE IInv'
    <2>1. PresentKeys(backup_file) \in SUBSET Key /\ backup_file.data \in [Key -> MaybeValue]
      BY <1>t DEF PresentKeys, Tables
    <2>. QED BY <1>15, <2>1, <1>a, <1>o, WaitForLockIInv DEF restore
  <1>16. ASSUME transaction(t) PROVE IInv'
    BY <1>16, <1>a, <1>o, WaitForLockIInv DEF transaction
  <1>. QED
    BY <1>1, <1>2, <1>3, <1>4, <1>5, <1>6, <1>7, <1>8, <1>9, <1>10, <1>11, <1>12, <1>13,
       <1>14, <1>15, <1>16 DEF Start

-----------------------------------------------------------------------------
\* Taking write_lock.
LEMMA AcquireIInv ==
    ASSUME IInv, NEW t \in Thread, AcquireWriteLock(t)
    PROVE  IInv'
  <1>1. /\ call[t].pc = "lock" /\ write_lock = Nobody /\ write_lock' = t
        /\ call' = [call EXCEPT ![t].pc = "begin"]
        /\ UNCHANGED <<db, now, writer, inner, overlay, snap, backup_file>>
    BY DEF AcquireWriteLock
  <1>2. [call[t] EXCEPT !.pc = "begin"] \in Call
    BY DEF IInv, TypeOK, Call
  <1>3. TypeOK'
    BY <1>1, <1>2 DEF IInv, TypeOK
  <1>4. \A u \in Thread :
          /\ call'[u].pc = IF u = t THEN "begin" ELSE call[u].pc
          /\ call'[u].op = call[u].op /\ call'[u].keys = call[u].keys
          /\ call'[u].old = call[u].old
    BY <1>1 DEF IInv, TypeOK, Call
  <1>5. Ownership'
    BY <1>1, <1>4, RedbAssumption DEF IInv, Ownership, CasMatches, Visible
  <1>6. CallsEnabled'
    <2>1. call[t].op \in Op \cap (OneShot \cup Begins)
      BY <1>1, SpoiledFacts DEF IInv, CallsEnabled, Idle
    <2>2. \A u \in Thread : u # t => call'[u] = call[u]
      BY <1>1 DEF IInv, TypeOK
    <2>. QED BY <1>4, <2>1, <2>2 DEF IInv, CallsEnabled
  <1>7. TxnIsolation' /\ ReadYourWrites'
    <2>1. \A u \in Thread : u # t => call'[u] = call[u]
      BY <1>1 DEF IInv, TypeOK
    <2>2. call[t] # Spoiled
      BY <1>1, SpoiledFacts
    <2>. QED BY <1>1, <2>1, <2>2 DEF IInv, TypeOK, TxnIsolation, ReadYourWrites
  <1>. QED BY <1>3, <1>5, <1>6, <1>7 DEF IInv

\* A one-shot write or its failure: no transaction is open before or after.
LEMMA OneShotIInv ==
    ASSUME IInv, NEW t \in Thread, CommitWrite(t) \/ WriteError(t)
    PROVE  IInv'
  <1>1. /\ call[t].pc = "begin" /\ writer = Nobody /\ write_lock' = Nobody
        /\ call' = [call EXCEPT ![t] = Idle]
        /\ UNCHANGED <<now, writer, inner, overlay, snap, backup_file>>
    BY DEF CommitWrite, WriteError, Return
  <1>2. db' \in Tables
    <2>1. db \in Tables /\ call[t] \in Call
      BY DEF IInv, TypeOK
    <2>. QED BY <2>1, EffectType DEF CommitWrite, WriteError
  <1>3. TypeOK'
    BY <1>1, <1>2, ConstantTypes DEF IInv, TypeOK
  <1>4. \A u \in Thread : call'[u] = IF u = t THEN Idle ELSE call[u]
    BY <1>1 DEF IInv, TypeOK
  <1>5. Ownership'
    <2>1. \A u \in Thread : call[u].pc \notin {"cas_read", "cas_commit"}
      BY <1>1, RedbAssumption DEF IInv, Ownership
    <2>2. write_lock = t
      BY <1>1 DEF IInv, Ownership
    <2>3. Idle.since <= now
      BY DEF Idle, IInv, TypeOK
    <2>. QED BY <1>1, <1>4, <2>1, <2>2, <2>3, RedbAssumption DEF IInv, Ownership, Idle
  <1>6. CallsEnabled'
    BY <1>4 DEF IInv, CallsEnabled
  <1>7. TxnIsolation' /\ ReadYourWrites'
    BY <1>1 DEF TxnIsolation, ReadYourWrites
  <1>. QED BY <1>3, <1>5, <1>6, <1>7 DEF IInv

\* Beginning a transaction: its view is the committed tables.
LEMMA BeginTxnIInv ==
    ASSUME IInv, NEW t \in Thread, BeginTxn(t)
    PROVE  IInv'
  <1>. DEFINE c == IF call[t].op = "transaction" THEN Idle
                   ELSE [call[t] EXCEPT !.pc = "cas_read"]
  <1>1. /\ call[t].pc = "begin" /\ call[t].op \in Begins /\ writer = Nobody /\ writer' = t
        /\ inner' = db /\ overlay' = NoOverlay /\ write_lock' = Nobody
        /\ call' = [call EXCEPT ![t] = c]
        /\ UNCHANGED <<db, now, snap, backup_file>>
    BY DEF BeginTxn
  <1>2. c \in Call
    BY ConstantTypes DEF IInv, TypeOK, Call
  <1>3. TypeOK'
    BY <1>1, <1>2, ConstantTypes DEF IInv, TypeOK
  <1>4. \A u \in Thread : call'[u] = IF u = t THEN c ELSE call[u]
    BY <1>1 DEF IInv, TypeOK
  <1>c. /\ c.pc \in {"idle", "cas_read"}
        /\ c.pc = "cas_read" => c.op = "compare_and_swap"
        /\ c.op = "compare_and_swap" => \E k \in Key : c.keys = {k}
        /\ c.since <= now
        /\ c = Idle \/ c.op \in Op \cap (OneShot \cup Begins)
    <2>1. call[t] # Idle /\ call[t] # Spoiled /\ call[t] \in Call
      BY <1>1, SpoiledFacts DEF Idle, IInv, TypeOK
    <2>2. Idle.pc = "idle" /\ Idle.op = "none" /\ Idle.since <= now
      BY DEF Idle, IInv, TypeOK
    <2>. QED BY <1>1, <2>1, <2>2 DEF Begins, IInv, Call, Ownership, CallsEnabled
  <1>5. Ownership'
    <2>. HIDE DEF c
    <2>1. \A u \in Thread : call[u].pc \notin {"cas_read", "cas_commit"}
      BY <1>1, RedbAssumption DEF IInv, Ownership
    <2>2. write_lock = t
      BY <1>1 DEF IInv, Ownership
    <2>. QED BY <1>1, <1>4, <1>c, <2>1, <2>2, RedbAssumption DEF IInv, Ownership
  <1>6. CallsEnabled'
    BY <1>4, <1>c DEF IInv, CallsEnabled
  <1>7. TxnIsolation' /\ ReadYourWrites'
    BY <1>1 DEF TxnIsolation, ReadYourWrites, NoOverlay
  <1>. QED BY <1>3, <1>5, <1>6, <1>7 DEF IInv

\* A put or delete inside a transaction.
LEMMA StageIInv ==
    ASSUME IInv, NEW t \in Thread, NEW k \in Key, NEW val \in MaybeValue, InTxn(t),
           Stage(k, val),
           UNCHANGED <<db, now, write_lock, writer, call, snap, backup_file>>
    PROVE  IInv'
  <1>1. /\ inner' = Insert(inner, {k}, Pair(k, val), NoExpiry)
        /\ overlay' = [overlay EXCEPT ![k] = val]
        /\ writer = t /\ call[t] = Idle
    BY DEF Stage, InTxn
  <1>t. inner \in Tables /\ overlay \in [Key -> MaybeValue \cup {Untouched}]
    BY DEF IInv, TypeOK
  <1>2. inner' \in Tables
    BY <1>1, <1>t, InsertType, PairType, ConstantTypes
  <1>3. TypeOK'
    BY <1>1, <1>2 DEF IInv, TypeOK
  <1>4. Ownership'
    <2>1. \A u \in Thread : call[u].pc \notin {"cas_read", "cas_commit"}
      BY <1>1, RedbAssumption DEF IInv, Ownership, Idle
    <2>. QED BY <2>1 DEF IInv, Ownership
  <1>5. \A x \in Key : /\ inner'.data[x] = IF x = k THEN val ELSE inner.data[x]
                       /\ inner'.ttl[x] = IF x = k THEN NoExpiry ELSE inner.ttl[x]
    <2>1. Pair(k, val)[k] = val
      BY ConstantTypes DEF Pair
    <2>2. {k} \in SUBSET Key /\ Pair(k, val) \in [Key -> MaybeValue] /\ NoExpiry \in Expiry
      BY PairType, ConstantTypes
    <2>3. \A x \in Key :
            /\ inner'.data[x] = IF x \in {k} THEN Pair(k, val)[x] ELSE inner.data[x]
            /\ inner'.ttl[x] = IF x \in {k} THEN NoExpiry ELSE inner.ttl[x]
      BY <1>1, <1>t, <2>2, InsertAt
    <2>. QED BY <2>1, <2>3
  <1>6. \A x \in Key : overlay'[x] = IF x = k THEN val ELSE overlay[x]
    BY <1>1, <1>t
  <1>7. TxnIsolation' /\ ReadYourWrites'
    BY <1>5, <1>6, RedbAssumption DEF IInv, TxnIsolation, ReadYourWrites
  <1>8. CallsEnabled'
    BY DEF IInv, CallsEnabled
  <1>. QED BY <1>3, <1>4, <1>7, <1>8 DEF IInv

\* A put or delete inside a transaction fails.
LEMMA WriteErrorIInv ==
    ASSUME IInv, NEW t \in Thread, NEW k \in Key, NEW val \in MaybeValue, TxnWriteError(t, k, val)
    PROVE  IInv'
  <1>1. /\ writer = t /\ call[t] = Idle /\ call' = [call EXCEPT ![t] = Spoiled]
        /\ inner' \in {inner, SetData(inner, {k}, Pair(k, val))}
        /\ UNCHANGED <<db, now, write_lock, writer, overlay, snap, backup_file>>
    BY DEF TxnWriteError, InTxn
  <1>2. inner' \in Tables
    <2>1. inner \in Tables /\ {k} \in SUBSET Key /\ Pair(k, val) \in [Key -> MaybeValue]
      BY PairType DEF IInv, TypeOK
    <2>2. SetData(inner, {k}, Pair(k, val)) \in Tables
      BY <2>1, SetDataType
    <2>. QED BY <1>1, <2>1, <2>2
  <1>3. TypeOK'
    BY <1>1, <1>2, SpoiledFacts DEF IInv, TypeOK
  <1>4. \A u \in Thread : call'[u] = IF u = t THEN Spoiled ELSE call[u]
    BY <1>1 DEF IInv, TypeOK
  <1>5. Ownership'
    <2>1. \A u \in Thread : call[u].pc \notin {"cas_read", "cas_commit"}
      BY <1>1 DEF IInv, Ownership, Idle
    <2>2. call[t].pc # "begin" /\ call[t].op # "compare_and_swap" /\ call[t].since <= now
      BY <1>1 DEF IInv, Ownership, Idle
    <2>. QED BY <1>1, <1>4, <2>1, <2>2, SpoiledFacts DEF IInv, Ownership
  <1>6. CallsEnabled'
    BY <1>4 DEF IInv, CallsEnabled
  <1>7. TxnIsolation' /\ ReadYourWrites'
    BY <1>1, <1>4 DEF TxnIsolation, ReadYourWrites
  <1>. QED BY <1>3, <1>5, <1>6, <1>7 DEF IInv

\* The end of a transaction, by whatever way, with its owner idle afterwards.
LEMMA EndTxnIInv ==
    ASSUME IInv, NEW t \in Thread, writer = t, EndTxn, db' \in Tables,
           call[t].pc # "begin", call' = [call EXCEPT ![t] = Idle],
           UNCHANGED <<now, write_lock, snap, backup_file>>
    PROVE  IInv'
  <1>1. writer' = Nobody /\ inner' = EmptyTables /\ overlay' = NoOverlay
    BY DEF EndTxn
  <1>2. TypeOK'
    BY <1>1, ConstantTypes DEF IInv, TypeOK
  <1>3. \A u \in Thread : call'[u] = IF u = t THEN Idle ELSE call[u]
    BY DEF IInv, TypeOK
  <1>4. Ownership'
    <2>1. \A u \in Thread : u # t => call[u].pc \notin {"cas_read", "cas_commit"}
      BY DEF IInv, Ownership
    <2>2. Idle.since <= now
      BY DEF Idle, IInv, TypeOK
    <2>. QED BY <1>3, <2>1, <2>2 DEF IInv, Ownership, Idle
  <1>5. CallsEnabled'
    BY <1>3 DEF IInv, CallsEnabled
  <1>6. TxnIsolation' /\ ReadYourWrites'
    BY <1>1 DEF TxnIsolation, ReadYourWrites
  <1>. QED BY <1>2, <1>4, <1>5, <1>6 DEF IInv

\* The client's use of its transaction.
LEMMA TxnStepIInv ==
    ASSUME IInv, NEW t \in Thread, TxnStep(t)
    PROVE  IInv'
  <1>1. ASSUME NEW k \in Key, TxnDelete(t, k) PROVE IInv'
    BY <1>1, StageIInv DEF TxnDelete, MaybeValue
  <1>2. ASSUME NEW k \in Key, NEW v \in Value, TxnPut(t, k, v) PROVE IInv'
    BY <1>2, StageIInv DEF TxnPut, MaybeValue
  <1>3. ASSUME TxnCommit(t) \/ TxnRollback(t) PROVE IInv'
    <2>1. /\ writer = t /\ call[t] \in {Idle, Spoiled} /\ EndTxn /\ db' \in {db, inner}
          /\ call' = [call EXCEPT ![t] = Idle]
          /\ UNCHANGED <<now, write_lock, snap, backup_file>>
      BY <1>3 DEF TxnCommit, TxnRollback, InTxn, Return, IInv, TypeOK
    <2>2. db' \in Tables
      BY <2>1 DEF IInv, TypeOK
    <2>3. call[t].pc # "begin"
      BY <2>1, SpoiledFacts DEF Idle
    <2>. QED BY <2>1, <2>2, <2>3, EndTxnIInv
  <1>4. ASSUME NEW k \in Key, NEW val \in MaybeValue, TxnWriteError(t, k, val) PROVE IInv'
    BY <1>4, WriteErrorIInv
  <1>. QED BY <1>1, <1>2, <1>3, <1>4 DEF TxnStep

\* What a transaction with nothing staged reads is what it would compare.
LEMMA TxnGetMatches ==
    ASSUME IInv, NEW k \in Key, overlay = NoOverlay, NEW old, TxnGet(k) = old,
           NEW since \in Nat, since <= now
    PROVE  CasMatches(inner, k, old, since, now)
  <1>1. TxnGet(k) = Visible(inner, now)[k]
    BY DEF TxnGet, NoOverlay
  <1>2. now \in Nat
    BY DEF IInv, TypeOK
  <1>. QED BY <1>1, <1>2, VisibleMatches

\* The steps of a compare_and_swap inside its transaction.
LEMMA CasIInv ==
    ASSUME IInv, NEW t \in Thread, CasRead(t) \/ CasCommit(t) \/ CasError(t)
    PROVE  IInv'
  <1>1. /\ call[t].pc \in {"cas_read", "cas_commit"}
        /\ writer = t /\ overlay = NoOverlay /\ call[t].op = "compare_and_swap"
    BY DEF IInv, Ownership, CasRead, CasCommit, CasError
  <1>2. PICK k \in Key : call[t].keys = {k}
    BY <1>1 DEF IInv, Ownership
  <1>3. CASE /\ CasRead(t)
             /\ call' = [call EXCEPT ![t].pc = "cas_commit"]
             /\ TxnGet(CHOOSE x \in call[t].keys : TRUE) = call[t].old
             /\ UNCHANGED <<writer, inner, overlay>>
    <2>1. UNCHANGED <<db, now, write_lock, writer, inner, overlay, snap, backup_file>>
      BY <1>3 DEF CasRead
    <2>2. CasMatches(inner, k, call[t].old, call[t].since, now)
      <3>1. (CHOOSE x \in {k} : TRUE) = k
        OBVIOUS
      <3>2. call[t].since \in Nat /\ call[t].since <= now
        BY DEF IInv, TypeOK, Call, Ownership
      <3>. QED BY <1>1, <1>2, <1>3, <3>1, <3>2, TxnGetMatches
    <2>3. [call[t] EXCEPT !.pc = "cas_commit"] \in Call
      BY DEF IInv, TypeOK, Call
    <2>4. TypeOK'
      BY <1>3, <2>1, <2>3 DEF IInv, TypeOK
    <2>5. \A u \in Thread :
            /\ call'[u].pc = IF u = t THEN "cas_commit" ELSE call[u].pc
            /\ call'[u].op = call[u].op /\ call'[u].keys = call[u].keys
            /\ call'[u].old = call[u].old /\ call'[u].since = call[u].since
      BY <1>3 DEF IInv, TypeOK, Call
    <2>6. Ownership'
      BY <1>1, <1>2, <2>1, <2>2, <2>5 DEF IInv, Ownership, CasMatches, Visible
    <2>7. CallsEnabled'
      <3>1. call[t].op \in Op \cap (OneShot \cup Begins)
        BY <1>1, SpoiledFacts DEF IInv, CallsEnabled, Idle
      <3>2. \A u \in Thread : u # t => call'[u] = call[u]
        BY <1>3 DEF IInv, TypeOK
      <3>. QED BY <2>5, <3>1, <3>2 DEF IInv, CallsEnabled
    <2>8. TxnIsolation' /\ ReadYourWrites'
      <3>1. call[t] # Spoiled
        BY <1>1, SpoiledFacts
      <3>. QED BY <1>1, <2>1, <3>1 DEF IInv, TxnIsolation, ReadYourWrites
    <2>. QED BY <2>4, <2>6, <2>7, <2>8 DEF IInv
  <1>4. CASE /\ EndTxn /\ Return(t)
             /\ db' \in {db, Insert(inner, call[t].keys, call[t].pairs, NoExpiry)}
             /\ UNCHANGED <<now, write_lock, snap, backup_file>>
    <2>1. db \in Tables /\ inner \in Tables /\ call[t] \in Call
      BY DEF IInv, TypeOK
    <2>2. call[t].keys \in SUBSET Key /\ call[t].pairs \in [Key -> MaybeValue]
      BY <2>1 DEF Call
    <2>3. Insert(inner, call[t].keys, call[t].pairs, NoExpiry) \in Tables
      BY <2>1, <2>2, InsertType, ConstantTypes
    <2>4. db' \in Tables
      BY <1>4, <2>1, <2>3
    <2>. QED BY <1>1, <1>4, <2>4, EndTxnIInv DEF Return
  <1>. QED BY <1>3, <1>4 DEF CasRead, CasCommit, CasError

\* The clock moves; a comparison that held still holds.
LEMMA TickIInv ==
    ASSUME IInv, Tick
    PROVE  IInv'
  <1>1. /\ now \in Nat /\ now' = now + 1
        /\ UNCHANGED <<db, write_lock, writer, inner, overlay, call, snap, backup_file>>
    BY DEF IInv, TypeOK, Tick
  <1>2. TypeOK'
    BY <1>1 DEF IInv, TypeOK
  <1>3. ASSUME NEW k \in Key, NEW old, NEW since \in Nat, CasMatches(inner, k, old, since, now)
        PROVE  CasMatches(inner, k, old, since, now')
    BY <1>1, <1>3, MatchesLater
  <1>4. \A t \in Thread : call[t].keys \in SUBSET Key /\ call[t].since \in Nat
    BY DEF IInv, TypeOK, Call
  <1>5. Ownership'
    <2>1. ASSUME NEW t \in Thread, NEW k \in call[t].keys,
                 CasMatches(inner, k, call[t].old, call[t].since, now)
          PROVE  CasMatches(inner, k, call[t].old, call[t].since, now)'
      <3>1. CasMatches(inner, k, call[t].old, call[t].since, now')
        BY <1>3, <1>4, <2>1
      <3>. QED BY <1>1, <3>1 DEF CasMatches, Visible
    <2>2. \A t \in Thread : call[t].since <= now'
      BY <1>1, <1>4 DEF IInv, Ownership
    <2>. QED BY <1>1, <2>1, <2>2 DEF IInv, Ownership
  <1>6. TxnIsolation' /\ ReadYourWrites'
    BY <1>1 DEF IInv, TxnIsolation, ReadYourWrites
  <1>7. CallsEnabled'
    BY <1>1 DEF IInv, CallsEnabled
  <1>. QED BY <1>2, <1>5, <1>6, <1>7 DEF IInv

-----------------------------------------------------------------------------
\* Every step keeps the invariant.
LEMMA NextIInv == IInv /\ [Next]_vars => IInv'
  <1>. SUFFICES ASSUME IInv, [Next]_vars PROVE IInv'
    OBVIOUS
  <1>1. ASSUME NEW t \in Thread, Start(t) PROVE IInv'
    BY <1>1, StartIInv
  <1>2. ASSUME NEW t \in Thread, Progress(t) PROVE IInv'
    BY <1>2, AcquireIInv, OneShotIInv, BeginTxnIInv, CasIInv DEF Progress
  <1>3. ASSUME NEW t \in Thread, TxnStep(t) PROVE IInv'
    BY <1>3, TxnStepIInv
  <1>4. ASSUME NEW t \in Thread, snapshot(t) \/ DropSnapshot(t) PROVE IInv'
    <2>1. UNCHANGED <<db, now, write_lock, writer, inner, overlay, call, backup_file>>
      BY <1>4 DEF snapshot, DropSnapshot
    <2>2. /\ [tables |-> db, captured_at |-> now] \in [tables : Tables, captured_at : Expiry]
          /\ NoSnap \in [tables : Tables, captured_at : Expiry]
      BY ConstantTypes DEF IInv, TypeOK, NoSnap, Expiry
    <2>3. TypeOK'
      BY <1>4, <2>1, <2>2 DEF IInv, TypeOK, snapshot, DropSnapshot
    <2>. QED BY <2>1, <2>3, SameCore DEF IInv
  <1>5. ASSUME Tick PROVE IInv'
    BY <1>5, TickIInv
  <1>6. ASSUME UNCHANGED vars PROVE IInv'
    <2>1. TypeOK'
      BY <1>6 DEF IInv, TypeOK, vars
    <2>. QED BY <1>6, <2>1, SameCore DEF IInv, vars
  <1>. QED BY <1>1, <1>2, <1>3, <1>4, <1>5, <1>6 DEF Next

\* The inductive invariant holds in every reachable state.
THEOREM Invariance == Spec => []IInv
  BY InitIInv, NextIInv, PTL DEF Spec

\* Every variable keeps its type, for any threads, keys, values and bounds.
THEOREM TypeCorrect == Spec => []TypeOK
  <1>1. IInv => TypeOK
    BY DEF IInv
  <1>. QED BY <1>1, Invariance, PTL

\* write_lock and the write transaction are where the code believes them to be.
THEOREM OwnershipHolds == Spec => []Ownership
  <1>1. IInv => Ownership
    BY DEF IInv
  <1>. QED BY <1>1, Invariance, PTL

\* No writer gets in while a RedbTxn is open.
THEOREM IsolationHolds == Spec => []TxnIsolation
  <1>1. IInv => TxnIsolation
    BY DEF IInv
  <1>. QED BY <1>1, Invariance, PTL

\* A transaction reads its own writes.
THEOREM ReadYourWritesHolds == Spec => []ReadYourWrites
  <1>1. IInv => ReadYourWrites
    BY DEF IInv
  <1>. QED BY <1>1, Invariance, PTL

\* In a transaction that has staged nothing, the committed entry compares the
\* way the transaction's own does.
LEMMA CasReadsCommitted ==
    ASSUME IInv, NEW t \in Thread, call[t].pc = "cas_commit", NEW k \in call[t].keys
    PROVE  CasMatches(db, k, call[t].old, call[t].since, now)
  <1>1. writer = t /\ overlay = NoOverlay /\ CasMatches(inner, k, call[t].old, call[t].since, now)
    BY DEF IInv, Ownership
  <1>2. k \in Key
    BY DEF IInv, TypeOK, Call
  <1>3. inner.data[k] = db.data[k] /\ inner.ttl[k] = db.ttl[k]
    BY <1>1, <1>2, SpoiledFacts, RedbAssumption DEF IInv, TxnIsolation, NoOverlay
  <1>4. \A instant : Visible(inner, instant)[k] = Visible(db, instant)[k]
    BY <1>2, <1>3, VisibleAt
  <1>. QED BY <1>1, <1>4 DEF CasMatches

\* compare_and_swap is atomic with respect to every other operation.
THEOREM CasIsAtomic == Spec => CasAtomic
  <1>1. IInv /\ [Next]_vars =>
          [\A t \in Thread : CasCommit(t) =>
              \A k \in call[t].keys : CasMatches(db, k, call[t].old, call[t].since, now)]_vars
    BY CasReadsCommitted DEF CasCommit
  <1>. QED BY <1>1, Invariance, PTL DEF Spec, CasAtomic

-----------------------------------------------------------------------------
(***************************************************************************)
(* Snapshots.                                                              *)
(***************************************************************************)
\* A snapshot shows the same values for as long as it is held, whatever is
\* written and however much time passes meanwhile.
THEOREM SnapshotsAreStable == Spec => SnapshotStable
  <1>1. ASSUME TypeOK, [Next]_vars, NEW t \in Thread, snap[t] # NoSnap, snap'[t] # NoSnap
        PROVE  SnapshotView(t)' = SnapshotView(t)
    <2>1. snap'[t] = snap[t]
      <3>1. ASSUME NEW u \in Thread, snapshot(u) \/ DropSnapshot(u) PROVE snap'[t] = snap[t]
        BY <1>1, <3>1 DEF snapshot, DropSnapshot, TypeOK
      <3>2. ASSUME NEW u \in Thread, Start(u) PROVE snap' = snap
        BY <3>2 DEF Start, backup, put, put_returning_old, put_with_ttl, compare_and_swap,
              delete, delete_returning_old, get, ttl_of, persist, expire, batch_write,
              batch_delete, purge_expired, restore, transaction, WaitForLock
      <3>3. ASSUME NEW u \in Thread, Progress(u) \/ TxnStep(u) PROVE snap' = snap
        BY <3>3 DEF Progress, TxnStep, AcquireWriteLock, CommitWrite, WriteError, BeginTxn,
              CasRead, CasCommit, CasError, TxnPut, TxnDelete, TxnWriteError, TxnCommit,
              TxnRollback
      <3>4. ASSUME Tick \/ UNCHANGED vars PROVE snap' = snap
        BY <3>4 DEF Tick, vars
      <3>. QED BY <1>1, <3>1, <3>2, <3>3, <3>4 DEF Next
    <2>. QED BY <2>1 DEF SnapshotView, Visible
  <1>2. TypeOK /\ [Next]_vars =>
          [\A t \in Thread : snap[t] # NoSnap /\ snap'[t] # NoSnap
              => SnapshotView(t)' = SnapshotView(t)]_vars
    BY <1>1
  <1>. QED BY <1>2, TypeCorrect, PTL DEF Spec, SnapshotStable

-----------------------------------------------------------------------------
(***************************************************************************)
(* The sidecar stays clean.  delete_returning_old leaves the expiry of the *)
(* entry it deletes, and expire looks for the key in one transaction and   *)
(* writes its expiry in another: with the first on a key that has an       *)
(* expiry, or with either and two threads, NoOrphanTtl fails.  Without     *)
(* them it holds.  The invariant says of the calls under way that the      *)
(* values they will insert exist, that the keys expire found are still     *)
(* there and that those of delete_returning_old have no expiry.            *)
(***************************************************************************)
SidecarDiscipline ==
    \/ Op \cap {"expire", "delete_returning_old"} = {}
    \/ /\ \A t, u \in Thread : t = u
       /\ "delete_returning_old" \notin Op \/ ~Careless

WillKeepClean(c) ==
    /\ c.op \in {"put_with_ttl", "put_returning_old"} =>
          \A k \in c.keys : c.pairs[k] # Absent
    /\ c.op = "expire" => \A k \in c.keys : db.data[k] # Absent
    /\ c.op = "delete_returning_old" => \A k \in c.keys : db.ttl[k] = NoExpiry

CleanInv == NoOrphanTtl /\ \A t \in Thread : WillKeepClean(call[t])

\* A call that starts brings the values it inserts, expire has seen its key, and
\* delete_returning_old is given one without an expiry.
LEMMA StartClean ==
    ASSUME SidecarDiscipline, IInv, NEW t \in Thread, Start(t)
    PROVE  /\ db' = db
           /\ \A u \in Thread : u # t => call'[u] = call[u]
           /\ call'[t] = call[t] \/ WillKeepClean(call'[t])
  <1>t. call \in [Thread -> Call]
    BY DEF IInv, TypeOK
  <1>. DEFINE Goal == /\ db' = db
                      /\ \A u \in Thread : u # t => call'[u] = call[u]
                      /\ call'[t] = call[t] \/ WillKeepClean(call'[t])
  <1>1. ASSUME NEW op, NEW keys, NEW pairs, NEW exp, NEW old,
               WaitForLock(t, op, keys, pairs, exp, old),
               op \in {"put_with_ttl", "put_returning_old"} => \A k \in keys : pairs[k] # Absent,
               op = "expire" => \A k \in keys : db.data[k] # Absent
        PROVE  Goal
    <2>1. op = "delete_returning_old" => \A k \in keys : db.ttl[k] = NoExpiry
      BY <1>1 DEF WaitForLock, CanCall, SidecarDiscipline, Overlooks
    <2>. QED BY <1>1, <2>1, <1>t DEF WaitForLock, WillKeepClean
  <1>2. \A k \in Key, v \in Value : Pair(k, v)[k] # Absent
    BY AbsentAssumption DEF Pair, NoPairs
  <1>3. ASSUME NEW k \in Key,
               \/ delete(t, k) \/ delete_returning_old(t, k)
               \/ get(t, k) \/ ttl_of(t, k) \/ persist(t, k)
               \/ \E d \in Ttl : expire(t, k, d)
        PROVE  Goal
    <2>. HIDE DEF Goal
    <2>. QED BY <1>1, <1>3 DEF delete, delete_returning_old, get, ttl_of, persist, expire
  <1>4. ASSUME NEW k \in Key, NEW v \in Value,
               \/ put(t, k, v) \/ put_returning_old(t, k, v)
               \/ \E d \in Ttl : put_with_ttl(t, k, v, d)
               \/ \E old \in MaybeValue : compare_and_swap(t, k, old, v)
        PROVE  Goal
    <2>. HIDE DEF Goal
    <2>. QED BY <1>1, <1>2, <1>4 DEF put, put_returning_old, put_with_ttl, compare_and_swap
  <1>5. ASSUME \/ \E pairs \in [Key -> MaybeValue] : batch_write(t, pairs)
               \/ \E keys \in SUBSET Key : batch_delete(t, keys)
               \/ purge_expired(t) \/ restore(t) \/ transaction(t)
        PROVE  Goal
    <2>. HIDE DEF Goal
    <2>. QED BY <1>1, <1>5 DEF batch_write, batch_delete, purge_expired, restore, transaction
  <1>6. ASSUME backup(t) PROVE Goal
    BY <1>6 DEF backup
  <1>. HIDE DEF Goal
  <1>7. Goal
    BY <1>3, <1>4, <1>5, <1>6 DEF Start
  <1>. QED BY <1>7 DEF Goal

\* The effect of a call that keeps clean leaves no orphan.
LEMMA EffectClean ==
    ASSUME NEW tb \in Tables, NEW c \in Call, c.op \in OneShot,
           \A k \in Key : tb.data[k] = Absent => tb.ttl[k] = NoExpiry,
           c.op \in {"put_with_ttl", "put_returning_old"} => \A k \in c.keys : c.pairs[k] # Absent,
           c.op = "expire" => \A k \in c.keys : tb.data[k] # Absent,
           c.op = "delete_returning_old" => \A k \in c.keys : tb.ttl[k] = NoExpiry,
           NEW k \in Key, Effect(tb, c).data[k] = Absent
    PROVE  Effect(tb, c).ttl[k] = NoExpiry
  <1>1. CASE c.op \in {"put", "batch_write", "restore"}
    BY <1>1, InsertAt DEF Effect
  <1>2. CASE c.op = "put_with_ttl"
    <2>1. Effect(tb, c) = Insert(tb, c.keys, c.pairs, c.exp)
      BY <1>2 DEF Effect
    <2>. QED BY <1>2, <2>1, InsertAt
  <1>3. CASE c.op = "put_returning_old"
    <2>1. Effect(tb, c) = SetData(tb, c.keys, c.pairs)
      BY <1>3 DEF Effect
    <2>. QED BY <1>3, <2>1, SetDataAt
  <1>4. CASE c.op = "expire"
    <2>1. Effect(tb, c) = SetTtl(tb, c.keys, c.exp)
      BY <1>4 DEF Effect
    <2>. QED BY <1>4, <2>1, SetTtlAt
  <1>5. CASE c.op = "persist"
    <2>1. Effect(tb, c) = SetTtl(tb, c.keys, NoExpiry)
      BY <1>5 DEF Effect
    <2>. QED BY <1>5, <2>1, SetTtlAt
  <1>6. CASE c.op \in (Deletes \cup Evicts) \ {"delete_returning_old"}
    <2>1. Effect(tb, c) = Remove(tb, c.keys)
      BY <1>6 DEF Effect, Deletes, Evicts
    <2>. QED BY <1>6, <2>1, RemoveAt
  <1>7. CASE c.op = "delete_returning_old"
    <2>1. Effect(tb, c) = SetData(tb, c.keys, NoPairs)
      BY <1>7 DEF Effect
    <2>. QED BY <1>7, <2>1, SetDataAt
  <1>. QED BY <1>1, <1>2, <1>3, <1>4, <1>5, <1>6, <1>7 DEF OneShot, Writes, Deletes, Evicts

\* Every step keeps the sidecar clean.
LEMMA NextClean ==
    ASSUME SidecarDiscipline, IInv, CleanInv, [Next]_vars
    PROVE  CleanInv'
  <1>t. /\ db \in Tables /\ inner \in Tables /\ call \in [Thread -> Call]
        /\ NoOrphanTtl /\ \A t \in Thread : WillKeepClean(call[t])
        /\ \A t \in Thread : call[t].keys \in SUBSET Key
    BY DEF IInv, TypeOK, CleanInv, Call
  \* A step that leaves the tables alone.
  <1>1. ASSUME db' = db, \A u \in Thread : call'[u] = call[u] \/ WillKeepClean(call'[u])
        PROVE  CleanInv'
    BY <1>1, <1>t DEF CleanInv, NoOrphanTtl, WillKeepClean
  <1>i. WillKeepClean(Idle)
    BY DEF WillKeepClean, Idle
  <1>2. ASSUME NEW t \in Thread, Start(t) PROVE CleanInv'
    BY <1>1, <1>2, <1>t, StartClean
  \* A step that moves a call on, or ends it, without writing.
  <1>3. ASSUME NEW t \in Thread,
               \/ AcquireWriteLock(t) \/ BeginTxn(t)
               \/ (CasRead(t) /\ db' = db) \/ CasError(t) \/ WriteError(t)
        PROVE  CleanInv'
    <2>1. db' = db /\ \A u \in Thread : u # t => call'[u] = call[u]
      BY <1>3, <1>t DEF AcquireWriteLock, BeginTxn, CasRead, CasError, WriteError, Return
    <2>2. \/ call'[t] = Idle
          \/ /\ call'[t].op = call[t].op /\ call'[t].keys = call[t].keys
             /\ call'[t].pairs = call[t].pairs
      BY <1>3, <1>t DEF AcquireWriteLock, BeginTxn, CasRead, CasError, WriteError, Return, Call
    <2>3. WillKeepClean(call'[t])
      BY <2>2, <1>i, <1>t DEF WillKeepClean
    <2>. QED BY <1>1, <2>1, <2>3
  \* When a thread writes, no other has an expire or a delete_returning_old under way.
  <1>4. ASSUME NEW t \in Thread, NoOrphanTtl',
               call' = [call EXCEPT ![t] = Idle] \/ call' = [call EXCEPT ![t] = Spoiled]
        PROVE  CleanInv'
    <2>1. \A u \in Thread : u # t => call'[u] = call[u]
      BY <1>4, <1>t
    <2>2. call'[t].op = "none"
      BY <1>4, <1>t, SpoiledFacts DEF Idle
    <2>3. ASSUME NEW u \in Thread PROVE WillKeepClean(call[u])'
      <3>1. CASE u = t
        BY <2>2, <3>1 DEF WillKeepClean
      <3>2. CASE u # t
        <4>1. call[u].op \notin {"expire", "delete_returning_old"}
          <5>1. "expire" \notin Op /\ "delete_returning_old" \notin Op
            BY <3>2 DEF SidecarDiscipline
          <5>. QED BY <5>1, SpoiledFacts DEF IInv, CallsEnabled, Idle
        <4>. QED BY <2>1, <3>2, <4>1, <1>t DEF WillKeepClean
      <3>. QED BY <3>1, <3>2
    <2>. QED BY <1>4, <2>3 DEF CleanInv
  <1>5. ASSUME NEW t \in Thread, CommitWrite(t) PROVE CleanInv'
    <2>1. /\ call[t].pc = "begin" /\ call[t].op \in OneShot /\ db' = Effect(db, call[t])
          /\ call' = [call EXCEPT ![t] = Idle]
      BY <1>5 DEF CommitWrite, Return
    <2>2. NoOrphanTtl'
      BY <1>t, <2>1, EffectClean DEF NoOrphanTtl, WillKeepClean
    <2>. QED BY <1>4, <2>1, <2>2
  <1>6. ASSUME NEW t \in Thread, CasCommit(t) PROVE CleanInv'
    <2>1. /\ call[t].pc = "cas_commit" /\ call' = [call EXCEPT ![t] = Idle]
          /\ db' = Insert(inner, call[t].keys, call[t].pairs, NoExpiry)
      BY <1>6 DEF CasCommit, Return
    <2>2. writer = t /\ overlay = NoOverlay
      BY <2>1 DEF IInv, Ownership
    <2>3. \A k \in Key : inner.data[k] = db.data[k] /\ inner.ttl[k] = db.ttl[k]
      BY <2>1, <2>2, SpoiledFacts, RedbAssumption DEF IInv, TxnIsolation, NoOverlay
    <2>4. NoOrphanTtl'
      BY <1>t, <2>1, <2>3, InsertAt DEF NoOrphanTtl
    <2>. QED BY <1>4, <2>1, <2>4
  <1>7. ASSUME NEW t \in Thread, TxnStep(t) PROVE CleanInv'
    <2>1. /\ writer = t
          /\ db' = db \/ (db' = inner /\ call[t] = Idle)
          /\ call' = [call EXCEPT ![t] = Idle] \/ call' = [call EXCEPT ![t] = Spoiled]
      BY <1>7, <1>t DEF TxnStep, TxnPut, TxnDelete, TxnWriteError, TxnCommit, TxnRollback, InTxn, Return
    <2>2. NoOrphanTtl'
      <3>1. CASE db' = db
        BY <1>t, <3>1 DEF NoOrphanTtl
      <3>2. CASE db' = inner /\ call[t] = Idle
        <4>1. call[writer] # Spoiled /\ writer # Nobody
          BY <2>1, <3>2, SpoiledFacts, RedbAssumption
        <4>2. \A k \in Key : inner.data[k] = Absent => inner.ttl[k] = NoExpiry
          BY <1>t, <4>1 DEF IInv, TxnIsolation, ReadYourWrites, NoOrphanTtl
        <4>. QED BY <3>2, <4>2 DEF NoOrphanTtl
      <3>. QED BY <2>1, <3>1, <3>2
    <2>. QED BY <1>4, <2>1, <2>2
  <1>8. ASSUME \/ \E t \in Thread : snapshot(t) \/ DropSnapshot(t)
               \/ Tick \/ UNCHANGED vars
        PROVE  CleanInv'
    <2>1. db' = db /\ call' = call
      BY <1>8 DEF snapshot, DropSnapshot, Tick, vars
    <2>. QED BY <1>1, <2>1
  <1>9. \A t \in Thread : CasRead(t) => db' = db
    BY DEF CasRead
  <1>. QED
    BY <1>2, <1>3, <1>5, <1>6, <1>7, <1>8, <1>9 DEF Next, Progress

\* An expiry never outlives its value, so no later write inherits one: for
\* any number of threads when nobody calls expire or delete_returning_old, and
\* for one thread that calls everything, delete_returning_old on keys without
\* an expiry.
THEOREM SidecarStaysClean ==
    ASSUME SidecarDiscipline
    PROVE  Spec => []NoOrphanTtl
  <1>1. Init => CleanInv
    BY DEF Init, CleanInv, NoOrphanTtl, WillKeepClean, Idle, EmptyTables
  <1>2. IInv /\ CleanInv /\ [Next]_vars => CleanInv'
    BY NextClean
  <1>3. CleanInv => NoOrphanTtl
    BY DEF CleanInv
  <1>. QED BY <1>1, <1>2, <1>3, Invariance, PTL DEF Spec
-----------------------------------------------------------------------------
(***************************************************************************)
(* RedbStore implements KvStore as long as no call overlooks an expiry     *)
(* and, when there are several threads, none depends on the sidecar it was *)
(* called with: the evicting reads, expire and persist decide in one redb  *)
(* transaction and act in another, put_returning_old and                   *)
(* delete_returning_old never look.                                        *)
(***************************************************************************)
Bypasses == {"put_returning_old", "delete_returning_old"}
Decides == Evicts \cup {"expire", "persist"} \cup Bypasses

AtomicUse ==
    /\ ~Careless
    /\ Op \cap Decides = {} \/ \A t, u \in Thread : t = u

\* What a call depends on still holds: the entries to evict are expired, those
\* to expire or persist were live when the call was made, and a call that
\* bypasses the sidecar would have found nothing there.
Seen(c, tb, time) ==
    /\ c.op \in Evicts => \A k \in c.keys : is_expired(tb.ttl[k], time)
    /\ c.op \in {"expire", "persist"} => \A k \in c.keys : Visible(tb, c.since)[k] # Absent
    /\ c.op \in Bypasses => \A k \in c.keys : tb.ttl[k] = NoExpiry

SeenInv == \A t \in Thread : Seen(call[t], db, now)

-----------------------------------------------------------------------------
\* A call that starts has read what it will act on.
LEMMA StartSeen ==
    ASSUME AtomicUse, IInv, NEW t \in Thread, Start(t)
    PROVE  UNCHANGED <<db, now>> /\ (call'[t] = call[t] \/ Seen(call'[t], db, now))
  <1>t. call \in [Thread -> Call]
    BY DEF IInv, TypeOK
  <1>. DEFINE Goal == UNCHANGED <<db, now>> /\ (call'[t] = call[t] \/ Seen(call'[t], db, now))
  <1>1. ASSUME NEW op, NEW keys, NEW pairs, NEW exp, NEW old,
               WaitForLock(t, op, keys, pairs, exp, old),
               op \in Evicts => \A k \in keys : is_expired(db.ttl[k], now),
               op \in {"expire", "persist"} => \A k \in keys : k \in Key /\ db.data[k] # Absent
        PROVE  Goal
    <2>1. \A k \in keys : ~Overlooks(op, k)
      BY <1>1 DEF WaitForLock, AtomicUse
    <2>2. op \in {"expire", "persist"} => \A k \in keys : Visible(db, now)[k] # Absent
      BY <1>1, <2>1, VisibleAt DEF Overlooks
    <2>3. op \in Bypasses => \A k \in keys : db.ttl[k] = NoExpiry
      BY <2>1 DEF Overlooks, Bypasses
    <2>4. UNCHANGED <<db, now>> /\ call'[t].op = op /\ call'[t].keys = keys /\ call'[t].since = now
      BY <1>1, <1>t DEF WaitForLock
    <2>. QED BY <1>1, <2>2, <2>3, <2>4 DEF Seen
  <1>2. ASSUME backup(t) PROVE Goal
    BY <1>2 DEF backup
  <1>. HIDE DEF Goal
  <1>3. ASSUME NEW k \in Key,
               \/ delete(t, k) \/ delete_returning_old(t, k)
               \/ get(t, k) \/ ttl_of(t, k) \/ persist(t, k)
               \/ \E d \in Ttl : expire(t, k, d)
        PROVE  Goal
    BY <1>1, <1>3 DEF delete, delete_returning_old, get, ttl_of, persist, expire, Evicts
  <1>4. ASSUME NEW k \in Key, NEW v \in Value,
               \/ put(t, k, v) \/ put_returning_old(t, k, v)
               \/ \E d \in Ttl : put_with_ttl(t, k, v, d)
               \/ \E old \in MaybeValue : compare_and_swap(t, k, old, v)
        PROVE  Goal
    BY <1>1, <1>4 DEF put, put_returning_old, put_with_ttl, compare_and_swap, Evicts
  <1>5. ASSUME \/ \E pairs \in [Key -> MaybeValue] : batch_write(t, pairs)
               \/ \E keys \in SUBSET Key : batch_delete(t, keys)
               \/ restore(t) \/ transaction(t)
        PROVE  Goal
    BY <1>1, <1>5 DEF batch_write, batch_delete, restore, transaction, Evicts
  <1>6. ASSUME purge_expired(t) PROVE Goal
    <2>1. \A k \in ExpiredKeys(db, now) : is_expired(db.ttl[k], now)
      BY DEF ExpiredKeys
    <2>. QED BY <1>1, <1>6, <2>1 DEF purge_expired, Evicts
  <1>7. Goal
    BY <1>2, <1>3, <1>4, <1>5, <1>6 DEF Start
  <1>. QED BY <1>7 DEF Goal

\* Alone, a thread finds the tables as it has read them.
LEMMA NextSeen ==
    ASSUME AtomicUse, IInv, IInv', SeenInv, [Next]_vars
    PROVE  SeenInv'
  <1>1. CASE Op \cap Decides = {}
    BY <1>1, SpoiledFacts DEF IInv, CallsEnabled, SeenInv, Seen, Decides, Bypasses, Evicts, Idle
  <1>2. CASE \A t, u \in Thread : t = u
    <2>. SUFFICES ASSUME NEW t \in Thread PROVE Seen(call'[t], db', now')
      BY DEF SeenInv
    <2>t. /\ call \in [Thread -> Call] /\ call[t] \in Call /\ db \in Tables /\ now \in Nat
          /\ call[t].keys \in SUBSET Key
      BY DEF IInv, TypeOK, Call
    <2>s. Seen(call[t], db, now)
      BY DEF SeenInv
    <2>i. \A tb, time : Seen(Idle, tb, time) /\ Seen(Spoiled, tb, time)
      BY SpoiledFacts DEF Seen, Idle, Evicts, Bypasses
    <2>1. CASE Start(t)
      BY <2>1, <2>s, StartSeen
    <2>2. CASE AcquireWriteLock(t)
      <3>1. /\ call'[t].op = call[t].op /\ call'[t].keys = call[t].keys
            /\ call'[t].since = call[t].since /\ UNCHANGED <<db, now>>
        BY <2>2, <2>t DEF AcquireWriteLock, Call
      <3>. QED BY <2>s, <3>1 DEF Seen
    <2>3. CASE BeginTxn(t) \/ CasRead(t) \/ CasCommit(t) \/ CasError(t)
      <3>1. call[t].op \in Begins
        BY <2>3 DEF BeginTxn, CasRead, CasCommit, CasError, IInv, Ownership, Begins
      <3>2. call'[t] = Idle \/ call'[t].op = call[t].op
        BY <2>3, <2>t DEF BeginTxn, CasRead, CasCommit, CasError, Return, Call
      <3>. QED BY <2>i, <3>1, <3>2 DEF Seen, Begins, Evicts, Bypasses
    <2>4. CASE CommitWrite(t) \/ WriteError(t)
      BY <2>4, <2>i, <2>t DEF CommitWrite, WriteError, Return
    <2>5. CASE TxnStep(t)
      BY <2>5, <2>i, <2>s, <2>t
         DEF TxnStep, TxnPut, TxnDelete, TxnWriteError, TxnCommit, TxnRollback, InTxn, Return
    <2>6. CASE snapshot(t) \/ DropSnapshot(t) \/ UNCHANGED vars
      BY <2>6, <2>s DEF snapshot, DropSnapshot, vars
    <2>7. CASE Tick
      <3>1. UNCHANGED <<db, call>> /\ now' = now + 1
        BY <2>7 DEF Tick
      <3>2. \A k \in call[t].keys :
              is_expired(db.ttl[k], now) => is_expired(db.ttl[k], now + 1)
        <4>1. \A k \in call[t].keys : db.ttl[k] \in Expiry
          BY <2>t DEF Tables
        <4>. QED BY <2>t, <4>1 DEF is_expired, Expiry, NoExpiry
      <3>. QED BY <2>s, <3>1, <3>2 DEF Seen
    <2>. QED BY <1>2, <2>1, <2>2, <2>3, <2>4, <2>5, <2>6, <2>7 DEF Next, Progress
  <1>. QED BY <1>1, <1>2 DEF AtomicUse

-----------------------------------------------------------------------------
\* The operators on tables are those of the abstract specification.
LEMMA AbsInsert ==
    /\ \A tb, keys, pairs, exp : Abs!Insert(tb, keys, pairs, exp) = Insert(tb, keys, pairs, exp)
    /\ \A tb, keys : Abs!Remove(tb, keys) = Remove(tb, keys)
    /\ \A tb, keys, exp : Abs!SetTtl(tb, keys, exp) = SetTtl(tb, keys, exp)
    /\ \A tb, k, old, since, time :
          Abs!CasMatches(tb, k, old, since, time) = CasMatches(tb, k, old, since, time)
    /\ \A tb, time : Abs!Visible(tb, time) = Visible(tb, time)
    /\ \A tb, time : Abs!ExpiredKeys(tb, time) = ExpiredKeys(tb, time)
    /\ \A tb : Abs!PresentKeys(tb) = PresentKeys(tb)
  BY DEF Abs!Insert, Insert, Abs!Remove, Remove, Abs!SetTtl, SetTtl, Abs!SetData, SetData,
         Abs!NoPairs, NoPairs, Abs!NoExpiry, NoExpiry, Abs!CasMatches, CasMatches,
         Abs!Visible, Visible, Abs!is_expired, is_expired, Abs!ExpiredKeys, ExpiredKeys,
         Abs!PresentKeys, PresentKeys

\* The initial states are initial states of the abstract specification.
LEMMA AbsInitial == Init => Abs!Init
  <1>. SUFFICES ASSUME Init PROVE Abs!Init
    OBVIOUS
  <1>1. db = Abs!EmptyTables
    BY DEF Init, EmptyTables, Abs!EmptyTables, NoExpiry, Abs!NoExpiry
  <1>2. ReqBar = [t \in Thread |-> Abs!NoReq]
    BY DEF Init, ReqBar, Pending, Idle, Abs!NoReq, NoPairs, Abs!NoPairs, NoExpiry, Abs!NoExpiry
  <1>3. OpenBar = {}
    BY RedbAssumption DEF Init, OpenBar, InClientTxn
  <1>4. StagedBar = [t \in Thread |-> Abs!NothingStaged]
    BY RedbAssumption DEF Init, StagedBar, InClientTxn, NoOverlay, Abs!NothingStaged
  <1>. QED BY <1>1, <1>2, <1>3, <1>4 DEF Abs!Init, Init

-----------------------------------------------------------------------------
\* A thread that returns has no request pending.
LEMMA ReturnBar ==
    ASSUME TypeOK, NEW t \in Thread, call' = [call EXCEPT ![t] = Idle]
    PROVE  ReqBar' = [ReqBar EXCEPT ![t] = Abs!NoReq]
  <1>1. Pending(Idle) = Abs!NoReq
    BY DEF Pending, Idle, Abs!NoReq, NoPairs, Abs!NoPairs, NoExpiry, Abs!NoExpiry
  <1>2. \A u \in Thread : Pending(call'[u]) = IF u = t THEN Abs!NoReq ELSE Pending(call[u])
    BY <1>1 DEF TypeOK
  <1>3. ReqBar' = [u \in Thread |-> Pending(call'[u])]
    BY DEF ReqBar, Pending
  <1>. QED BY <1>2, <1>3 DEF ReqBar

\* Returning from a call, with its effect or without, is an abstract Respond.
LEMMA RespondStep ==
    ASSUME TypeOK, NEW t \in Thread, call' = [call EXCEPT ![t] = Idle],
           call[t].op # "none", OpenBar' = OpenBar, StagedBar' = StagedBar, now' = now,
           db' = db \/ Abs!IsEffect(db', Pending(call[t]))
    PROVE  Abs!Respond(t)
  <1>1. ReqBar[t] = Pending(call[t])
    BY DEF ReqBar
  <1>2. ReqBar[t] # Abs!NoReq
    BY <1>1 DEF Pending, Abs!NoReq
  <1>. QED BY <1>1, <1>2, ReturnBar DEF Abs!Respond

\* Steps that neither open nor close nor write a client's transaction.
LEMMA SameTxnBar ==
    ASSUME TypeOK, UNCHANGED <<writer, overlay>>, call' \in [Thread -> Call],
           \A u \in Thread : (call'[u].pc \in {"cas_read", "cas_commit"})
                             <=> (call[u].pc \in {"cas_read", "cas_commit"})
    PROVE  OpenBar' = OpenBar /\ StagedBar' = StagedBar
  <1>1. \A u \in Thread : InClientTxn(u)' <=> InClientTxn(u)
    BY DEF InClientTxn
  <1>2. OpenBar' = OpenBar
    BY <1>1 DEF OpenBar
  <1>3. StagedBar' = StagedBar
    BY <1>1 DEF StagedBar, NoOverlay
  <1>. QED BY <1>2, <1>3

\* Nobody is in a client's transaction when redb has no write transaction, or
\* when a compare_and_swap owns it.
LEMMA NoClientTxn ==
    ASSUME NEW t \in Thread,
           writer = Nobody \/ (writer = t /\ call[t].pc \in {"cas_read", "cas_commit"})
    PROVE  OpenBar = {} /\ StagedBar = [u \in Thread |-> NoOverlay]
  <1>1. \A u \in Thread : ~InClientTxn(u)
    BY RedbAssumption DEF InClientTxn
  <1>. QED BY <1>1 DEF OpenBar, StagedBar

\* Steps invisible to the clients.
LEMMA StutterStep ==
    ASSUME UNCHANGED <<db, now>>, ReqBar' = ReqBar, OpenBar' = OpenBar, StagedBar' = StagedBar
    PROVE  UNCHANGED Abs!vars
  BY DEF Abs!vars
-----------------------------------------------------------------------------
\* Starting a call is an abstract Invoke.
LEMMA InvokeStep ==
    ASSUME IInv, IInv', NEW t \in Thread, NEW op \in OneShot \cup Begins,
           NEW keys, NEW pairs, NEW exp, NEW old,
           WaitForLock(t, op, keys, pairs, exp, old)
    PROVE  Abs!Invoke(t)
  <1>. DEFINE c == [op |-> op, pc |-> "lock", keys |-> keys,
                    pairs |-> pairs, exp |-> exp, old |-> old, since |-> now]
  <1>1. /\ call' = [call EXCEPT ![t] = c] /\ call[t] = Idle
        /\ UNCHANGED <<db, now, write_lock, writer, inner, overlay, snap, backup_file>>
    BY DEF WaitForLock, CanCall
  <1>t. call \in [Thread -> Call] /\ call' \in [Thread -> Call] /\ TypeOK
    BY DEF IInv, TypeOK
  <1>2. \A u \in Thread : call'[u] = IF u = t THEN c ELSE call[u]
    BY <1>1, <1>t
  <1>3. OpenBar' = OpenBar /\ StagedBar' = StagedBar
    BY <1>1, <1>2, <1>t, SameTxnBar DEF Idle
  <1>4. ReqBar[t] = Abs!NoReq
    <2>1. Pending(Idle) = Abs!NoReq
      BY DEF Pending, Idle, Abs!NoReq, NoPairs, Abs!NoPairs, NoExpiry, Abs!NoExpiry
    <2>2. ReqBar[t] = Pending(call[t])
      BY DEF ReqBar
    <2>. QED BY <1>1, <2>1, <2>2
  <1>5. c \in Call
    BY <1>2, <1>t
  <1>6. ReqBar' = [ReqBar EXCEPT ![t] = Pending(c)]
    <2>1. ReqBar' = [u \in Thread |-> Pending(call'[u])]
      BY DEF ReqBar, Pending
    <2>2. \A u \in Thread : Pending(call'[u]) = IF u = t THEN Pending(c) ELSE Pending(call[u])
      BY <1>2
    <2>. QED BY <2>1, <2>2 DEF ReqBar
  <1>7. Pending(c) \in Abs!Request
    BY <1>5 DEF Pending, Call, Abs!Request, Abs!OpName, OneShot, Begins, Writes, Deletes, Evicts,
                Abs!MaybeValue, MaybeValue, Abs!Expiry, Expiry, Abs!NoExpiry, NoExpiry
  <1>8. ReqBar'[t] = Pending(c)
    BY <1>6 DEF ReqBar
  <1>9. Pending(c).since = now
    BY DEF Pending
  <1>. QED BY <1>1, <1>3, <1>4, <1>6, <1>7, <1>8, <1>9 DEF Abs!Invoke

\* Every call that starts is an Invoke, but for backup, which no client sees.
LEMMA StartStep ==
    ASSUME IInv, IInv', NEW t \in Thread, Start(t)
    PROVE  Abs!Invoke(t) \/ UNCHANGED Abs!vars
  <1>1. CASE \E op \in OneShot \cup Begins : \E keys, pairs, exp, old :
                WaitForLock(t, op, keys, pairs, exp, old)
    BY <1>1, InvokeStep
  <1>2. CASE backup(t)
    <2>1. UNCHANGED <<db, now, writer, overlay, call>>
      BY <1>2 DEF backup
    <2>2. ReqBar' = ReqBar /\ OpenBar' = OpenBar /\ StagedBar' = StagedBar
      BY <2>1 DEF ReqBar, OpenBar, StagedBar, Pending, InClientTxn, NoOverlay
    <2>. QED BY <2>1, <2>2, StutterStep
  <1>o. \A op \in {"put", "put_returning_old", "batch_write", "put_with_ttl", "delete",
                   "delete_returning_old", "batch_delete", "get", "ttl", "expire",
                   "persist", "purge_expired", "restore", "transaction",
                   "compare_and_swap"} : op \in OneShot \cup Begins
    BY DEF OneShot, Begins, Writes, Deletes, Evicts
  <1>3. CASE \E k \in Key :
               \/ delete(t, k) \/ delete_returning_old(t, k)
               \/ get(t, k) \/ ttl_of(t, k) \/ persist(t, k)
               \/ \E d \in Ttl : expire(t, k, d)
    BY <1>3, <1>1, <1>o DEF delete, delete_returning_old, get, ttl_of, persist, expire
  <1>4. CASE \E k \in Key, v \in Value :
               \/ put(t, k, v) \/ put_returning_old(t, k, v)
               \/ \E d \in Ttl : put_with_ttl(t, k, v, d)
               \/ \E old \in MaybeValue : compare_and_swap(t, k, old, v)
    BY <1>4, <1>1, <1>o DEF put, put_returning_old, put_with_ttl, compare_and_swap
  <1>5. CASE \/ \E pairs \in [Key -> MaybeValue] : batch_write(t, pairs)
             \/ \E keys \in SUBSET Key : batch_delete(t, keys)
             \/ purge_expired(t) \/ restore(t) \/ transaction(t)
    BY <1>5, <1>1, <1>o DEF batch_write, batch_delete, purge_expired, restore, transaction
  <1>. QED BY <1>2, <1>3, <1>4, <1>5 DEF Start

\* Taking write_lock is invisible.
LEMMA AcquireStep ==
    ASSUME IInv, IInv', NEW t \in Thread, AcquireWriteLock(t)
    PROVE  UNCHANGED Abs!vars
  <1>1. /\ call' = [call EXCEPT ![t].pc = "begin"] /\ call[t].pc = "lock"
        /\ UNCHANGED <<db, now, writer, overlay>>
    BY DEF AcquireWriteLock
  <1>t. call \in [Thread -> Call] /\ call' \in [Thread -> Call] /\ TypeOK
    BY DEF IInv, TypeOK
  <1>2. \A u \in Thread : Pending(call'[u]) = Pending(call[u])
    BY <1>1, <1>t DEF Pending, Call
  <1>3. ReqBar' = ReqBar
    BY <1>2 DEF ReqBar, Pending
  <1>4. OpenBar' = OpenBar /\ StagedBar' = StagedBar
    BY <1>1, <1>t, SameTxnBar DEF Call
  <1>. QED BY <1>1, <1>3, <1>4, StutterStep

\* Where the sidecar is empty, clearing it changes nothing.
LEMMA CleanSidecar ==
    ASSUME NEW tb \in Tables, NEW keys \in SUBSET Key, NEW pairs,
           \A k \in keys : tb.ttl[k] = NoExpiry
    PROVE  SetData(tb, keys, pairs) = Insert(tb, keys, pairs, NoExpiry)
  <1>. DEFINE d == SetData(tb, keys, pairs)
  <1>1. d = [data |-> [k \in Key |-> IF k \in keys THEN pairs[k] ELSE tb.data[k]], ttl |-> tb.ttl]
    BY DEF SetData, Tables
  <1>2. [k \in Key |-> IF k \in keys THEN NoExpiry ELSE d.ttl[k]] = tb.ttl
    BY <1>1 DEF Tables
  <1>3. [d EXCEPT !.ttl = tb.ttl] = d
    BY <1>1
  <1>. QED BY <1>2, <1>3 DEF Insert, SetTtl

\* The effect of a one-shot call is the abstract one.
LEMMA EffectIsAbstract ==
    ASSUME db \in Tables, NEW c \in Call, c.op \in OneShot, Seen(c, db, now)
    PROVE  Abs!IsEffect(Effect(db, c), Pending(c))
  <1>1. /\ Pending(c).op = c.op /\ Pending(c).keys = c.keys
        /\ Pending(c).pairs = c.pairs /\ Pending(c).exp = c.exp
        /\ Pending(c).since = c.since
    BY DEF Pending
  <1>x. Abs!NoExpiry = NoExpiry
    BY DEF Abs!NoExpiry, NoExpiry
  <1>2. CASE c.op \in {"put", "batch_write", "restore"}
    <2>1. Effect(db, c) = Insert(db, c.keys, c.pairs, NoExpiry)
      BY <1>2 DEF Effect
    <2>. QED BY <1>1, <1>2, <1>x, <2>1, AbsInsert DEF Abs!IsEffect
  <1>3. CASE c.op = "put_with_ttl"
    <2>1. Effect(db, c) = Insert(db, c.keys, c.pairs, c.exp)
      BY <1>3 DEF Effect
    <2>. QED BY <1>1, <1>3, <2>1, AbsInsert DEF Abs!IsEffect
  <1>4. CASE c.op \in {"delete", "batch_delete"}
    <2>1. Effect(db, c) = Remove(db, c.keys)
      BY <1>4 DEF Effect
    <2>. QED BY <1>1, <1>4, <2>1, AbsInsert DEF Abs!IsEffect
  <1>5. CASE c.op = "persist"
    <2>1. Effect(db, c) = SetTtl(db, c.keys, NoExpiry)
      BY <1>5 DEF Effect
    <2>2. \A k \in c.keys : Visible(db, c.since)[k] # Absent
      BY <1>5 DEF Seen
    <2>. QED BY <1>1, <1>5, <1>x, <2>1, <2>2, AbsInsert DEF Abs!IsEffect, Abs!WasLive
  <1>k. c.keys \in SUBSET Key
    BY DEF Call
  <1>6. CASE c.op \in Evicts
    <2>1. Effect(db, c) = Remove(db, c.keys)
      BY <1>6 DEF Effect, Evicts
    <2>2. c.keys \subseteq ExpiredKeys(db, now)
      BY <1>6, <1>k DEF Seen, ExpiredKeys
    <2>. QED BY <1>1, <1>6, <2>1, <2>2, AbsInsert DEF Abs!IsEffect, Evicts
  <1>7. CASE c.op = "expire"
    <2>1. Effect(db, c) = SetTtl(db, c.keys, c.exp)
      BY <1>7 DEF Effect
    <2>2. \A k \in c.keys : Visible(db, c.since)[k] # Absent
      BY <1>7 DEF Seen
    <2>. QED BY <1>1, <1>7, <2>1, <2>2, AbsInsert DEF Abs!IsEffect, Abs!WasLive
  <1>8. CASE c.op = "put_returning_old"
    <2>1. Effect(db, c) = SetData(db, c.keys, c.pairs)
      BY <1>8 DEF Effect
    <2>2. \A k \in c.keys : db.ttl[k] = NoExpiry
      BY <1>8 DEF Seen, Bypasses
    <2>3. Effect(db, c) = Insert(db, c.keys, c.pairs, NoExpiry)
      BY <1>k, <2>1, <2>2, CleanSidecar
    <2>. QED BY <1>1, <1>8, <1>x, <2>3, AbsInsert DEF Abs!IsEffect
  <1>9. CASE c.op = "delete_returning_old"
    <2>1. Effect(db, c) = SetData(db, c.keys, NoPairs)
      BY <1>9 DEF Effect
    <2>2. \A k \in c.keys : db.ttl[k] = NoExpiry
      BY <1>9 DEF Seen, Bypasses
    <2>3. Effect(db, c) = Remove(db, c.keys)
      BY <1>k, <2>1, <2>2, CleanSidecar DEF Remove
    <2>. QED BY <1>1, <1>9, <2>3, AbsInsert DEF Abs!IsEffect
  <1>. QED BY <1>2, <1>3, <1>4, <1>5, <1>6, <1>7, <1>8, <1>9 DEF OneShot, Writes, Deletes, Evicts

\* A one-shot write, or its failure, is an abstract Respond.
LEMMA OneShotStep ==
    ASSUME AtomicUse, IInv, IInv', SeenInv, NEW t \in Thread,
           CommitWrite(t) \/ WriteError(t)
    PROVE  Abs!Respond(t)
  <1>1. /\ call[t].pc = "begin" /\ call' = [call EXCEPT ![t] = Idle]
        /\ UNCHANGED <<now, writer, overlay>>
    BY DEF CommitWrite, WriteError, Return
  <1>t. call \in [Thread -> Call] /\ call' \in [Thread -> Call] /\ TypeOK
    BY DEF IInv, TypeOK
  <1>2. call[t].op \in Op \cap (OneShot \cup Begins)
    BY <1>1, SpoiledFacts DEF IInv, CallsEnabled, Idle
  <1>3. OpenBar' = OpenBar /\ StagedBar' = StagedBar
    BY <1>1, <1>t, SameTxnBar DEF Idle
  <1>4. db' = db \/ Abs!IsEffect(db', Pending(call[t]))
    <2>1. call[t] \in Call /\ Seen(call[t], db, now) /\ db \in Tables
      BY <1>2, <1>t DEF SeenInv, TypeOK
    <2>. QED BY <2>1, EffectIsAbstract DEF CommitWrite, WriteError
  <1>5. call[t].op # "none"
    BY <1>2 DEF OneShot, Begins, Writes, Deletes, Evicts
  <1>. QED BY <1>1, <1>3, <1>4, <1>5, <1>t, RespondStep

-----------------------------------------------------------------------------
\* Beginning a client's transaction is the abstract BeginTxn; beginning the
\* one inside compare_and_swap is invisible.
LEMMA BeginStep ==
    ASSUME IInv, IInv', NEW t \in Thread, BeginTxn(t)
    PROVE  Abs!BeginTxn(t) \/ UNCHANGED Abs!vars
  <1>1. /\ call[t].pc = "begin" /\ call[t].op \in Begins
        /\ writer = Nobody /\ writer' = t /\ overlay' = NoOverlay
        /\ UNCHANGED <<db, now>>
    BY DEF BeginTxn
  <1>t. call \in [Thread -> Call] /\ call' \in [Thread -> Call] /\ TypeOK
    BY DEF IInv, TypeOK
  <1>2. OpenBar = {} /\ StagedBar = [u \in Thread |-> NoOverlay]
    BY <1>1, NoClientTxn
  <1>3. StagedBar' = StagedBar
    <2>1. StagedBar' = [u \in Thread |-> NoOverlay]
      BY <1>1 DEF StagedBar, NoOverlay
    <2>. QED BY <1>2, <2>1
  <1>4. CASE call[t].op = "transaction"
    <2>1. call' = [call EXCEPT ![t] = Idle]
      BY <1>4 DEF BeginTxn
    <2>2. \A u \in Thread : InClientTxn(u)' <=> u = t
      BY <1>1, <1>t, <2>1 DEF InClientTxn, Idle
    <2>3. OpenBar' = {t}
      BY <2>2 DEF OpenBar
    <2>4. ReqBar[t].op = "transaction"
      BY <1>4 DEF ReqBar, Pending
    <2>. QED BY <1>1, <1>2, <1>3, <1>t, <2>1, <2>3, <2>4, ReturnBar DEF Abs!BeginTxn
  <1>5. CASE call[t].op # "transaction"
    <2>1. call' = [call EXCEPT ![t] = [call[t] EXCEPT !.pc = "cas_read"]]
      BY <1>5 DEF BeginTxn
    <2>2. \A u \in Thread : Pending(call'[u]) = Pending(call[u])
      BY <2>1, <1>t DEF Pending, Call
    <2>3. ReqBar' = ReqBar
      BY <2>2 DEF ReqBar, Pending
    <2>4. call'[t].pc = "cas_read"
      BY <2>1, <1>t DEF Call
    <2>5. \A u \in Thread : ~(InClientTxn(u)')
      BY <1>1, <2>4 DEF InClientTxn
    <2>6. OpenBar' = {}
      BY <2>5 DEF OpenBar
    <2>. QED BY <1>1, <1>2, <1>3, <2>3, <2>6, StutterStep
  <1>. QED BY <1>4, <1>5

\* The tables of a transaction are the committed ones with its writes applied.
LEMMA InnerIsApplied ==
    ASSUME IInv, NEW t \in Thread, writer = t, call[t] # Spoiled
    PROVE  inner = Abs!Applied(db, overlay)
  <1>. DEFINE keys == {k \in Key : overlay[k] # Untouched}
  <1>t. db \in Tables /\ inner \in Tables
    BY DEF IInv, TypeOK
  <1>1. Abs!Applied(db, overlay) = Insert(db, keys, overlay, NoExpiry)
    BY AbsInsert DEF Abs!Applied, Abs!NoExpiry, NoExpiry
  <1>2. Insert(db, keys, overlay, NoExpiry) =
          [data |-> [k \in Key |-> IF k \in keys THEN overlay[k] ELSE db.data[k]],
           ttl  |-> [k \in Key |-> IF k \in keys THEN NoExpiry ELSE db.ttl[k]]]
    <2>1. SetData(db, keys, overlay) =
            [data |-> [k \in Key |-> IF k \in keys THEN overlay[k] ELSE db.data[k]],
             ttl  |-> db.ttl]
      BY <1>t DEF SetData, Tables
    <2>2. \A d, e : SetTtl([data |-> d, ttl |-> e], keys, NoExpiry) =
            [data |-> d, ttl |-> [k \in Key |-> IF k \in keys THEN NoExpiry ELSE e[k]]]
      BY DEF SetTtl
    <2>. QED BY <2>1, <2>2 DEF Insert
  <1>3. \A k \in Key : /\ inner.data[k] = IF k \in keys THEN overlay[k] ELSE db.data[k]
                       /\ inner.ttl[k] = IF k \in keys THEN NoExpiry ELSE db.ttl[k]
    BY RedbAssumption DEF IInv, TxnIsolation, ReadYourWrites
  <1>4. /\ inner.data = [k \in Key |-> IF k \in keys THEN overlay[k] ELSE db.data[k]]
        /\ inner.ttl = [k \in Key |-> IF k \in keys THEN NoExpiry ELSE db.ttl[k]]
    BY <1>t, <1>3 DEF Tables
  <1>5. inner = [data |-> inner.data, ttl |-> inner.ttl]
    BY <1>t DEF Tables
  <1>. QED BY <1>1, <1>2, <1>4, <1>5

\* The owner of the write transaction, between two calls, is the one client
\* inside a transaction, and its overlay is what it has staged.
LEMMA ClientTxn ==
    ASSUME NEW t \in Thread, writer = t, call[t] \in {Idle, Spoiled}
    PROVE  OpenBar = {t} /\ StagedBar = [u \in Thread |-> IF u = t THEN overlay ELSE NoOverlay]
  <1>1. \A u \in Thread : InClientTxn(u) <=> u = t
    BY SpoiledFacts DEF InClientTxn, Idle
  <1>. QED BY <1>1 DEF OpenBar, StagedBar

\* The client's use of its transaction.
LEMMA TxnStepStep ==
    ASSUME IInv, IInv', NEW t \in Thread, TxnStep(t)
    PROVE  Abs!Stage(t) \/ Abs!Commit(t) \/ Abs!Rollback(t) \/ UNCHANGED Abs!vars
  <1>t. call \in [Thread -> Call] /\ TypeOK
    BY DEF IInv, TypeOK
  <1>1. /\ writer = t /\ call[t] \in {Idle, Spoiled} /\ UNCHANGED now
        /\ call' = [call EXCEPT ![t] = Idle] \/ call' = [call EXCEPT ![t] = Spoiled]
    BY <1>t DEF TxnStep, TxnDelete, TxnPut, TxnWriteError, TxnCommit, TxnRollback, InTxn, Return
  <1>p. Pending(Spoiled) = Pending(Idle)
    BY SpoiledFacts DEF Pending
  <1>2. OpenBar = {t} /\ StagedBar = [u \in Thread |-> IF u = t THEN overlay ELSE NoOverlay]
    BY <1>1, ClientTxn
  <1>3. ReqBar' = ReqBar
    <2>1. \A u \in Thread : Pending(call'[u]) = Pending(call[u])
      BY <1>1, <1>p, <1>t
    <2>2. \A u \in Thread : Pending(call[u])' = Pending(call'[u])
      BY DEF Pending
    <2>. QED BY <2>1, <2>2 DEF ReqBar
  <1>4. ASSUME NEW k \in Key, NEW val \in MaybeValue, Stage(k, val), UNCHANGED <<db, writer, call>>
        PROVE  Abs!Stage(t)
    <2>1. overlay' = [overlay EXCEPT ![k] = val] /\ overlay \in [Key -> MaybeValue \cup {Untouched}]
      BY <1>4 DEF Stage, IInv, TypeOK
    <2>2. \A u \in Thread : InClientTxn(u)' <=> u = t
      BY <1>1, <1>4, SpoiledFacts DEF InClientTxn, Idle
    <2>3. OpenBar' = {t}
      BY <2>2 DEF OpenBar
    <2>4. StagedBar' = [u \in Thread |-> IF u = t THEN overlay' ELSE NoOverlay]
      BY <2>2 DEF StagedBar, NoOverlay
    <2>5. StagedBar' = [StagedBar EXCEPT ![t] = [StagedBar[t] EXCEPT ![k] = val]]
      BY <1>2, <2>1, <2>4
    <2>6. k \in Key /\ val \in Abs!MaybeValue
      BY DEF Abs!MaybeValue, MaybeValue
    <2>. QED BY <1>1, <1>2, <1>3, <1>4, <2>3, <2>5, <2>6 DEF Abs!Stage
  <1>5. ASSUME EndTxn, db' = db \/ (db' = inner /\ call[t] = Idle) PROVE Abs!Commit(t) \/ Abs!Rollback(t)
    <2>1. writer' = Nobody
      BY <1>5 DEF EndTxn
    <2>2. \A u \in Thread : ~(InClientTxn(u)')
      BY <2>1, RedbAssumption DEF InClientTxn
    <2>3. OpenBar' = {}
      BY <2>2 DEF OpenBar
    <2>4. StagedBar' = [u \in Thread |-> NoOverlay]
      BY <2>2 DEF StagedBar, NoOverlay
    <2>5. StagedBar' = [StagedBar EXCEPT ![t] = Abs!NothingStaged]
      <3>1. Abs!NothingStaged = NoOverlay
        BY DEF Abs!NothingStaged, NoOverlay
      <3>. QED BY <1>2, <2>4, <3>1
    <2>6. Abs!EndTxn(t)
      BY <1>1, <1>2, <1>3, <2>3, <2>5 DEF Abs!EndTxn
    <2>7. call[t] = Idle => inner = Abs!Applied(db, StagedBar[t])
      BY <1>1, <1>2, InnerIsApplied, SpoiledFacts
    <2>. QED BY <1>5, <2>6, <2>7 DEF Abs!Commit, Abs!Rollback
  <1>6. Absent \in MaybeValue /\ \A v \in Value : v \in MaybeValue
    BY DEF MaybeValue
  <1>7. ASSUME NEW k \in Key, TxnDelete(t, k) PROVE Abs!Stage(t)
    BY <1>4, <1>6, <1>7 DEF TxnDelete
  <1>8. ASSUME NEW k \in Key, NEW v \in Value, TxnPut(t, k, v) PROVE Abs!Stage(t)
    BY <1>4, <1>6, <1>8 DEF TxnPut
  <1>9. ASSUME TxnCommit(t) \/ TxnRollback(t) PROVE Abs!Commit(t) \/ Abs!Rollback(t)
    BY <1>5, <1>9 DEF TxnCommit, TxnRollback, InTxn
  <1>10. ASSUME NEW k \in Key, NEW val \in MaybeValue, TxnWriteError(t, k, val)
         PROVE  UNCHANGED Abs!vars
    <2>1. UNCHANGED <<db, now, writer, overlay>> /\ call' = [call EXCEPT ![t] = Spoiled]
      BY <1>10 DEF TxnWriteError
    <2>2. \A u \in Thread : (call'[u].pc \in {"cas_read", "cas_commit"})
                            <=> (call[u].pc \in {"cas_read", "cas_commit"})
      BY <1>t, <1>1, <2>1, SpoiledFacts DEF Idle
    <2>3. call' \in [Thread -> Call]
      BY <1>t, <2>1, SpoiledFacts
    <2>4. OpenBar' = OpenBar /\ StagedBar' = StagedBar
      BY <1>t, <2>1, <2>2, <2>3, SameTxnBar
    <2>. QED BY <1>3, <2>1, <2>4, StutterStep
  <1>. QED BY <1>7, <1>8, <1>9, <1>10 DEF TxnStep

\* A compare_and_swap inside its transaction: the comparison is invisible, the
\* end a Respond.
LEMMA CasStep ==
    ASSUME IInv, IInv', NEW t \in Thread, CasRead(t) \/ CasCommit(t) \/ CasError(t)
    PROVE  Abs!Respond(t) \/ UNCHANGED Abs!vars
  <1>1. /\ call[t].pc \in {"cas_read", "cas_commit"} /\ UNCHANGED now
        /\ writer = t /\ overlay = NoOverlay /\ call[t].op = "compare_and_swap"
    BY DEF IInv, Ownership, CasRead, CasCommit, CasError
  <1>t. call \in [Thread -> Call] /\ call' \in [Thread -> Call] /\ TypeOK
    BY DEF IInv, TypeOK
  <1>2. OpenBar = {} /\ StagedBar = [u \in Thread |-> NoOverlay]
    BY <1>1, NoClientTxn
  <1>3. CASE /\ call' = [call EXCEPT ![t].pc = "cas_commit"]
             /\ UNCHANGED <<db, writer, overlay>>
    <2>1. \A u \in Thread : Pending(call'[u]) = Pending(call[u])
      BY <1>3, <1>t DEF Pending, Call
    <2>2. ReqBar' = ReqBar
      BY <2>1 DEF ReqBar, Pending
    <2>3. OpenBar' = OpenBar /\ StagedBar' = StagedBar
      BY <1>1, <1>3, <1>t, SameTxnBar DEF Call
    <2>. QED BY <1>1, <1>3, <2>2, <2>3, StutterStep
  <1>4. CASE /\ EndTxn /\ call' = [call EXCEPT ![t] = Idle]
             /\ db' = db \/ Abs!IsEffect(db', Pending(call[t]))
    <2>1. writer' = Nobody
      BY <1>4 DEF EndTxn
    <2>2. \A u \in Thread : ~(InClientTxn(u)')
      BY <2>1, RedbAssumption DEF InClientTxn
    <2>3. OpenBar' = OpenBar
      BY <1>2, <2>2 DEF OpenBar
    <2>4. StagedBar' = [u \in Thread |-> NoOverlay]
      BY <2>2 DEF StagedBar, NoOverlay
    <2>. QED BY <1>1, <1>2, <1>4, <1>t, <2>3, <2>4, RespondStep
  <1>5. ASSUME CasCommit(t) PROVE Abs!IsEffect(db', Pending(call[t]))
    <2>1. inner = db
      <3>1. inner.data = db.data /\ inner.ttl = db.ttl
        <4>1. \A k \in Key : inner.data[k] = db.data[k] /\ inner.ttl[k] = db.ttl[k]
          BY <1>1, SpoiledFacts, RedbAssumption DEF IInv, TxnIsolation, NoOverlay
        <4>. QED BY <4>1 DEF IInv, TypeOK, Tables
      <3>2. inner = [data |-> inner.data, ttl |-> inner.ttl] /\ db = [data |-> db.data, ttl |-> db.ttl]
        BY DEF IInv, TypeOK, Tables
      <3>. QED BY <3>1, <3>2
    <2>2. db' = Insert(db, call[t].keys, call[t].pairs, NoExpiry)
      BY <1>5, <2>1 DEF CasCommit
    <2>3. \A k \in call[t].keys : CasMatches(db, k, call[t].old, call[t].since, now)
      BY <1>5, CasReadsCommitted DEF CasCommit
    <2>4. /\ Pending(call[t]).op = "compare_and_swap" /\ Pending(call[t]).keys = call[t].keys
          /\ Pending(call[t]).pairs = call[t].pairs /\ Pending(call[t]).old = call[t].old
          /\ Pending(call[t]).since = call[t].since
      BY <1>1 DEF Pending
    <2>5. Abs!NoExpiry = NoExpiry
      BY DEF Abs!NoExpiry, NoExpiry
    <2>. QED BY <2>2, <2>3, <2>4, <2>5, AbsInsert DEF Abs!IsEffect
  <1>6. ASSUME CasRead(t) PROVE Abs!Respond(t) \/ UNCHANGED Abs!vars
    BY <1>3, <1>4, <1>6 DEF CasRead, Return
  <1>7. ASSUME CasCommit(t) \/ CasError(t) PROVE Abs!Respond(t) \/ UNCHANGED Abs!vars
    BY <1>4, <1>5, <1>7 DEF CasCommit, CasError, Return
  <1>. QED BY <1>6, <1>7

\* Every step of RedbStore is a step of KvStore or invisible.
LEMMA StepRefines ==
    ASSUME AtomicUse, IInv, IInv', SeenInv, [Next]_vars
    PROVE  [Abs!Next]_(Abs!vars)
  <1>1. ASSUME NEW t \in Thread, Start(t) PROVE [Abs!Next]_(Abs!vars)
    BY <1>1, StartStep DEF Abs!Next
  <1>2. ASSUME NEW t \in Thread, Progress(t) PROVE [Abs!Next]_(Abs!vars)
    BY <1>2, AcquireStep, OneShotStep, BeginStep, CasStep DEF Progress, Abs!Next
  <1>3. ASSUME NEW t \in Thread, TxnStep(t) PROVE [Abs!Next]_(Abs!vars)
    BY <1>3, TxnStepStep DEF Abs!Next
  <1>4. ASSUME (\E t \in Thread : snapshot(t) \/ DropSnapshot(t)) \/ UNCHANGED vars
        PROVE  [Abs!Next]_(Abs!vars)
    <2>1. UNCHANGED <<db, now, writer, overlay, call>>
      BY <1>4 DEF snapshot, DropSnapshot, vars
    <2>2. ReqBar' = ReqBar /\ OpenBar' = OpenBar /\ StagedBar' = StagedBar
      BY <2>1 DEF ReqBar, OpenBar, StagedBar, Pending, InClientTxn, NoOverlay
    <2>. QED BY <2>1, <2>2, StutterStep
  <1>5. ASSUME Tick PROVE [Abs!Next]_(Abs!vars)
    <2>1. UNCHANGED <<db, writer, overlay, call>> /\ now' = now + 1
      BY <1>5 DEF Tick
    <2>2. ReqBar' = ReqBar /\ OpenBar' = OpenBar /\ StagedBar' = StagedBar
      BY <2>1 DEF ReqBar, OpenBar, StagedBar, Pending, InClientTxn, NoOverlay
    <2>. QED BY <2>1, <2>2 DEF Abs!Tick, Abs!Next
  <1>. QED BY <1>1, <1>2, <1>3, <1>4, <1>5 DEF Next

\* redb's store is the store the documentation promises, for any number of
\* threads, keys and values: puts, deletes, batches, put_with_ttl,
\* compare_and_swap, restore and transactions each take effect at one instant;
\* for a single thread so do all other calls, as long as expire and persist are
\* called on keys that have not expired and the returning_old calls on keys
\* that have no expiry.
THEOREM Refinement ==
    ASSUME AtomicUse
    PROVE  Spec => Refines
  <1>1. Init => SeenInv
    BY DEF Init, SeenInv, Seen, Idle, Evicts, Bypasses
  <1>2. IInv /\ IInv' /\ SeenInv /\ [Next]_vars => SeenInv'
    BY NextSeen
  <1>3. IInv /\ IInv' /\ SeenInv /\ [Next]_vars => [Abs!Next]_(Abs!vars)
    BY StepRefines
  <1>. QED BY <1>1, <1>2, <1>3, AbsInitial, Invariance, PTL DEF Spec, Refines, Abs!Spec
=============================================================================
