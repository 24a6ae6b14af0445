-------------------------- MODULE FjallStoreProofs ---------------------------
(***************************************************************************)
(* Proofs about FjallStore, for any threads, keys, values, TTLs, bounds    *)
(* and workloads.                                                          *)
(*                                                                         *)
(* txn_lock orders transactions among themselves only, so what a call may  *)
(* rely on between its read and its batch depends on what the other        *)
(* threads call: the theorems name the workloads they hold for.            *)
(***************************************************************************)
EXTENDS FjallStore, TLAPS

(***************************************************************************)
(* The data and TTL tables.                                                *)
(***************************************************************************)
\* The empty tables, the empty map and the absent expiry have their types.
LEMMA CoreTypes ==
    /\ EmptyTables \in Tables
    /\ NoPairs \in [Key -> MaybeValue]
    /\ NoExpiry \in Expiry
    /\ Absent \in MaybeValue
    /\ \A v \in Value : v \in MaybeValue
  BY DEF EmptyTables, Tables, NoPairs, MaybeValue, NoExpiry, Expiry

\* Writing pairs to the data table yields tables again.
LEMMA SetDataType ==
    ASSUME NEW tb \in Tables, NEW keys \in SUBSET Key, NEW pairs \in [Key -> MaybeValue]
    PROVE  SetData(tb, keys, pairs) \in Tables
  BY DEF SetData, Tables

\* Writing an expiry to the TTL table yields tables again.
LEMMA SetTtlType ==
    ASSUME NEW tb \in Tables, NEW keys \in SUBSET Key, NEW exp \in Expiry
    PROVE  SetTtl(tb, keys, exp) \in Tables
  BY DEF SetTtl, Tables

\* So do the combined writes of one transaction.
LEMMA InsertType ==
    ASSUME NEW tb \in Tables, NEW keys \in SUBSET Key, NEW pairs \in [Key -> MaybeValue],
           NEW exp \in Expiry
    PROVE  /\ Insert(tb, keys, pairs, exp) \in Tables
           /\ Remove(tb, keys) \in Tables
  BY SetDataType, SetTtlType, CoreTypes DEF Insert, Remove

\* The value and the expiry of a key after a write to the data table.
LEMMA SetDataAt ==
    ASSUME NEW tb \in Tables, NEW keys, NEW pairs, NEW k \in Key
    PROVE  /\ SetData(tb, keys, pairs).data[k] = IF k \in keys THEN pairs[k] ELSE tb.data[k]
           /\ SetData(tb, keys, pairs).ttl[k] = tb.ttl[k]
  BY DEF SetData, Tables

\* The same after a write to the TTL table.
LEMMA SetTtlAt ==
    ASSUME NEW tb \in Tables, NEW keys, NEW exp, NEW k \in Key
    PROVE  /\ SetTtl(tb, keys, exp).ttl[k] = IF k \in keys THEN exp ELSE tb.ttl[k]
           /\ SetTtl(tb, keys, exp).data[k] = tb.data[k]
  BY DEF SetTtl, Tables

\* The same after an insert.
LEMMA InsertAt ==
    ASSUME NEW tb \in Tables, NEW keys, NEW pairs, NEW exp, NEW k \in Key
    PROVE  /\ Insert(tb, keys, pairs, exp).data[k] = IF k \in keys THEN pairs[k] ELSE tb.data[k]
           /\ Insert(tb, keys, pairs, exp).ttl[k] = IF k \in keys THEN exp ELSE tb.ttl[k]
  BY DEF Insert, SetTtl, SetData, Tables

\* The same after a removal.
LEMMA RemoveAt ==
    ASSUME NEW tb \in Tables, NEW keys, NEW k \in Key
    PROVE  /\ Remove(tb, keys).data[k] = IF k \in keys THEN Absent ELSE tb.data[k]
           /\ Remove(tb, keys).ttl[k] = IF k \in keys THEN NoExpiry ELSE tb.ttl[k]
  BY InsertAt DEF Remove, NoPairs

\* What is visible under one key.
LEMMA VisibleAt ==
    ASSUME NEW tb, NEW time, NEW k \in Key
    PROVE  Visible(tb, time)[k] = IF is_expired(tb.ttl[k], time) THEN Absent ELSE tb.data[k]
  BY DEF Visible

\* What a read finds is what compare_and_swap would compare.
LEMMA VisibleMatches ==
    ASSUME NEW tb, NEW since \in Nat, NEW time \in Nat, since <= time, NEW k \in Key, NEW old,
           Visible(tb, time)[k] = old
    PROVE  CasMatches(tb, k, old, since, time)
  <1>1. time \in since .. time
    OBVIOUS
  <1>. QED BY <1>1 DEF CasMatches

\* A comparison that held still holds when time has passed: the call has had
\* one more instant.
LEMMA MatchesLater ==
    ASSUME NEW tb, NEW since \in Nat, NEW time \in Nat, NEW k, NEW old,
           CasMatches(tb, k, old, since, time)
    PROVE  CasMatches(tb, k, old, since, time + 1)
  <1>1. PICK instant \in since .. time : Visible(tb, instant)[k] = old
    BY DEF CasMatches
  <1>2. instant \in since .. (time + 1)
    OBVIOUS
  <1>. QED BY <1>1, <1>2 DEF CasMatches

\* All writes of the store come from one thread.
Lone(w) == \E t \in Thread : \A u \in Thread \ {t} : w[u] \subseteq {"snapshot"}

\* All writes of the store are made inside transactions.
Begins == {"transaction", "compare_and_swap"}
Transactional(w) == \A t \in Thread : w[t] \subseteq Begins \cup {"snapshot"}

Exclusive(w) == Lone(w) \/ Transactional(w)

(***************************************************************************)
(* The inductive invariant.  CallShape: the pc of a call fits its          *)
(* operation and the values it inserts exist.  Seen: what a call under way *)
(* read, and will act on, still holds, when the workload lets nobody else  *)
(* write meanwhile; and unless calls are Careless the keys of expire and   *)
(* persist were live when the call was made and those of                   *)
(* batch_write_across have no expiry.                                      *)
(***************************************************************************)
Inserts == {"put", "batch_write", "batch_write_across", "put_returning", "put_with_ttl"}

CallShape(c) ==
    /\ c.pc = "idle" => c = Idle
    /\ c.pc \in {"probe", "evict", "batch"} => c.op \in OpName \ Begins
    /\ c.pc \in {"lock", "cas_read", "cas_commit"} => c.op \in Begins
    /\ c.pc \in {"cas_read", "cas_commit"} => c.op = "compare_and_swap"
    /\ c.pc = "evict" => c.op = "put_returning"
    /\ c.op \in Inserts => \A k \in c.keys : c.pairs[k] # Absent

\* The calls whose keys had all expired when they decided to evict them.
Evicting(c) ==
    \/ c.op \in {"get", "purge_expired"}
    \/ c.op = "ttl" /\ c.pc = "batch"
    \/ c.pc = "evict"

Seen(c, tb, time) ==
    /\ Evicting(c) => \A k \in c.keys : is_expired(tb.ttl[k], time)
    /\ c.op = "expire" => \A k \in c.keys : tb.data[k] # Absent
    /\ c.op \in {"expire", "persist"} /\ ~Careless =>
          \A k \in c.keys : Visible(tb, c.since)[k] # Absent
    /\ c.op = "batch_write_across" /\ ~Careless => \A k \in c.keys : tb.ttl[k] = NoExpiry
    /\ c.pc = "cas_commit" => \A k \in c.keys : CasMatches(tb, k, c.old, c.since, time)

\* Only a thread that begins transactions holds txn_lock, and a
\* compare_and_swap past it has staged nothing.
Locking ==
    /\ \A t \in Thread : txn_lock = t => workload[t] \cap Begins # {}
    /\ \A t \in Thread : call[t].pc \in {"cas_read", "cas_commit"} =>
          txn_lock = t /\ overlay = NoOverlay

CallsOK == \A t \in Thread :
    /\ CallShape(call[t])
    /\ call[t].since <= now
    /\ call[t] = Idle \/ call[t].op \in workload[t]
    /\ Exclusive(workload) => Seen(call[t], db, now)

IInv == TypeOK /\ Locking /\ CallsOK

-----------------------------------------------------------------------------
(***************************************************************************)
(* Types.                                                                  *)
(***************************************************************************)
\* The constants of the model have their types.
LEMMA ConstantTypes ==
    /\ Idle \in Call
    /\ NoOverlay \in [Key -> MaybeValue \cup {Untouched}]
    /\ NoSnap \in [tables : Tables, captured_at : Expiry]
  BY CoreTypes DEF Idle, Call, NoOverlay, NoSnap

\* A single pair is a partial map with a value.
LEMMA PairType ==
    ASSUME NEW k \in Key, NEW v \in Value
    PROVE  Pair(k, v) \in [Key -> MaybeValue] /\ Pair(k, v)[k] # Absent
  BY CoreTypes, AbsentAssumption DEF Pair

\* The effect of a batch keeps the tables well typed.
LEMMA EffectType ==
    ASSUME NEW tb \in Tables, NEW c \in Call
    PROVE  Effect(tb, c) \in Tables
  <1>1. c.keys \in SUBSET Key /\ c.pairs \in [Key -> MaybeValue] /\ c.exp \in Expiry
    BY DEF Call
  <1>2. SetData(tb, c.keys, c.pairs) \in Tables
    BY <1>1, SetDataType
  <1>3. SetTtl(tb, c.keys, c.exp) \in Tables /\ SetTtl(tb, c.keys, NoExpiry) \in Tables
    BY <1>1, SetTtlType, CoreTypes
  <1>4. /\ Insert(tb, c.keys, c.pairs, NoExpiry) \in Tables
        /\ Insert(tb, c.keys, c.pairs, c.exp) \in Tables
        /\ Remove(tb, c.keys) \in Tables
    BY <1>1, InsertType, CoreTypes
  <1>. QED BY <1>2, <1>3, <1>4 DEF Effect

\* So does the commit of a transaction.
LEMMA AppliedType ==
    ASSUME NEW tb \in Tables, NEW writes \in [Key -> MaybeValue \cup {Untouched}]
    PROVE  Applied(tb, writes) \in Tables
  BY FjallAssumption, CoreTypes DEF Applied, Insert, SetTtl, SetData, Tables

\* An idle thread has nothing to rely on.
LEMMA IdleFacts ==
    /\ CallShape(Idle)
    /\ \A tb, time : Seen(Idle, tb, time)
    /\ Idle.pc = "idle" /\ Idle.op = "none" /\ Idle.since = 0
  BY DEF Idle, CallShape, Seen, Evicting, Inserts

-----------------------------------------------------------------------------
(***************************************************************************)
(* Exclusion: under an exclusive workload, while one thread is about to    *)
(* write no other thread is acting on something it has read.               *)
(***************************************************************************)
LEMMA WriterExcludes ==
    ASSUME IInv, Exclusive(workload), NEW t \in Thread, NEW u \in Thread, t # u,
           call[t].pc \in {"batch", "evict"} \/ txn_lock = t
    PROVE  \A tb, time : Seen(call[u], tb, time)
  <1>1. /\ call[t] = Idle \/ call[t].op \in workload[t]
        /\ call[u] = Idle \/ call[u].op \in workload[u]
        /\ CallShape(call[t]) /\ CallShape(call[u])
        /\ call[t] \in Call /\ call[u] \in Call
        /\ txn_lock = t => workload[t] \cap Begins # {}
        /\ call[u].pc = "cas_commit" => txn_lock = u
    BY DEF IInv, CallsOK, Locking, TypeOK
  <1>2. call[t].pc \in {"batch", "evict"} => call[t].op \in workload[t]
    BY <1>1, IdleFacts
  <1>3. CASE Lone(workload)
    <2>1. PICK a \in Thread : \A x \in Thread \ {a} : workload[x] \subseteq {"snapshot"}
      BY <1>3 DEF Lone
    <2>2. "snapshot" \notin OpName \cup {"none"} /\ "snapshot" \notin Begins
      BY DEF OpName, Begins
    <2>3. t = a
      <3>1. SUFFICES ASSUME t # a PROVE FALSE
        OBVIOUS
      <3>2. workload[t] \subseteq {"snapshot"}
        BY <2>1, <3>1
      <3>. QED BY <1>1, <1>2, <2>2, <3>2 DEF Call
    <2>4. call[u] = Idle
      BY <1>1, <2>1, <2>2, <2>3 DEF Call
    <2>. QED BY <2>4, IdleFacts
  <1>4. CASE Transactional(workload)
    <2>1. workload[t] \subseteq Begins \cup {"snapshot"} /\ workload[u] \subseteq Begins \cup {"snapshot"}
      BY <1>4 DEF Transactional
    <2>2. txn_lock = t
      BY <1>1, <1>2, <2>1 DEF CallShape, OpName, Begins
    <2>3. call[u].pc # "cas_commit"
      BY <1>1, <2>2
    <2>4. call[u] = Idle \/ call[u].op \in Begins
      BY <1>1, <2>1 DEF Call, OpName
    <2>5. call[u].op \in Begins => call[u].pc # "evict"
      BY <1>1 DEF CallShape, Begins
    <2>. QED BY <2>3, <2>4, <2>5, IdleFacts DEF Seen, Evicting, Begins
  <1>. QED BY <1>3, <1>4 DEF Exclusive

\* One thread's call changes, and the tables only if it was writing.
LEMMA CallsStep ==
    ASSUME IInv, NEW t \in Thread, NEW c \in Call,
           call' = [call EXCEPT ![t] = c], workload' = workload, now' = now,
           CallShape(c), c.since <= now, c = Idle \/ c.op \in workload[t],
           Exclusive(workload) => Seen(c, db', now),
           db' = db \/ call[t].pc \in {"batch", "evict"} \/ txn_lock = t
    PROVE  CallsOK'
  <1>1. SUFFICES ASSUME NEW u \in Thread
                 PROVE  /\ CallShape(call'[u]) /\ call'[u].since <= now
                        /\ call'[u] = Idle \/ call'[u].op \in workload[u]
                        /\ Exclusive(workload) => Seen(call'[u], db', now)
    BY <1>1 DEF CallsOK
  <1>2. call'[u] = IF u = t THEN c ELSE call[u]
    BY DEF IInv, TypeOK
  <1>3. CASE u = t
    BY <1>2, <1>3
  <1>4. CASE u # t
    <2>1. /\ CallShape(call[u]) /\ call[u].since <= now
          /\ (call[u] = Idle \/ call[u].op \in workload[u])
          /\ Exclusive(workload) => Seen(call[u], db, now)
      BY DEF IInv, CallsOK
    <2>2. Exclusive(workload) => Seen(call[u], db', now)
      BY <1>4, <2>1, WriterExcludes
    <2>. QED BY <1>2, <1>4, <2>1, <2>2
  <1>. QED BY <1>3, <1>4

-----------------------------------------------------------------------------
\* The program starts in the invariant.
LEMMA InitIInv == Init => IInv
  <1>. SUFFICES ASSUME Init PROVE IInv
    OBVIOUS
  <1>1. TypeOK
    BY CoreTypes, ConstantTypes, WorkloadAssumption DEF Init, TypeOK
  <1>2. Locking
    BY FjallAssumption, IdleFacts DEF Init, Locking
  <1>3. CallsOK
    BY IdleFacts DEF Init, CallsOK
  <1>. QED BY <1>1, <1>2, <1>3 DEF IInv

\* A call that starts with arguments of their types, and with what it has read.
LEMMA BeginIInv ==
    ASSUME IInv, NEW t \in Thread, NEW op \in OpName, NEW pc,
           NEW keys \in SUBSET Key, NEW pairs \in [Key -> MaybeValue],
           NEW exp \in Expiry, NEW old \in MaybeValue,
           IF op \in Begins THEN pc = "lock" ELSE pc \in {"probe", "evict", "batch"},
           pc = "evict" => op = "put_returning",
           op \in Inserts => \A k \in keys : pairs[k] # Absent,
           op \in {"get", "purge_expired"} \/ pc = "evict" \/ (op = "ttl" /\ pc = "batch") =>
               \A k \in keys : is_expired(db.ttl[k], now),
           op \in {"expire", "persist"} => \A k \in keys : db.data[k] # Absent,
           Begin(t, op, pc, keys, pairs, exp, old), workload' = workload
    PROVE  IInv'
  <1>. DEFINE c == [op |-> op, pc |-> pc, keys |-> keys, pairs |-> pairs,
                    exp |-> exp, old |-> old, since |-> now]
  <1>1. /\ call' = [call EXCEPT ![t] = c] /\ op \in workload[t]
        /\ UNCHANGED <<db, now, txn_lock, overlay, snap>>
    BY DEF Begin
  <1>2. c \in Call /\ c.since <= now
    BY DEF Call, Begins, IInv, TypeOK
  <1>3. CallShape(c)
    BY DEF CallShape, Begins
  <1>4. Seen(c, db, now)
    <2>1. Careless \/ \A k \in keys : ~Overlooks(op, k)
      BY DEF Begin
    <2>2. op \in {"expire", "persist"} /\ ~Careless => \A k \in keys : Visible(db, now)[k] # Absent
      BY <2>1, VisibleAt DEF Overlooks
    <2>3. op = "batch_write_across" /\ ~Careless => \A k \in keys : db.ttl[k] = NoExpiry
      BY <2>1 DEF Overlooks
    <2>. QED BY <2>2, <2>3 DEF Seen, Evicting, Begins
  <1>5. c.op \in workload[t] /\ c.pc \notin {"cas_read", "cas_commit"}
    BY <1>1 DEF Begins
  <1>. HIDE DEF c
  <1>6. CallsOK'
    BY <1>1, <1>2, <1>3, <1>4, <1>5, CallsStep
  <1>7. TypeOK'
    BY <1>1, <1>2 DEF IInv, TypeOK
  <1>8. Locking'
    <2>1. \A u \in Thread : call'[u] = IF u = t THEN c ELSE call[u]
      BY <1>1 DEF IInv, TypeOK
    <2>. QED BY <1>1, <1>5, <2>1 DEF IInv, Locking
  <1>. QED BY <1>6, <1>7, <1>8 DEF IInv

\* Every call that starts keeps the invariant.
LEMMA StartIInv ==
    ASSUME IInv, NEW t \in Thread, Start(t), workload' = workload
    PROVE  IInv'
  <1>t. now \in Nat
    BY DEF IInv, TypeOK
  <1>e. \A d \in Ttl : now + d \in Expiry
    BY <1>t, FjallAssumption DEF Expiry
  <1>p. /\ NoPairs \in [Key -> MaybeValue] /\ NoExpiry \in Expiry /\ Absent \in MaybeValue
        /\ \A k \in Key, v \in Value : /\ Pair(k, v) \in [Key -> MaybeValue]
                                       /\ Pair(k, v)[k] # Absent
    BY CoreTypes, PairType
  <1>1. ASSUME NEW k \in Key, delete(t, k) PROVE IInv'
    BY <1>1, <1>p, BeginIInv DEF delete, OpName, Begins, Inserts
  <1>2. ASSUME NEW k \in Key, get(t, k) PROVE IInv'
    BY <1>2, <1>p, BeginIInv DEF get, OpName, Begins, Inserts
  <1>3. ASSUME NEW k \in Key, delete_returning(t, k) PROVE IInv'
    BY <1>1, <1>2, <1>3 DEF delete_returning
  <1>4. ASSUME NEW k \in Key, ttl_of(t, k) PROVE IInv'
    BY <1>4, <1>p, BeginIInv DEF ttl_of, OpName, Begins, Inserts
  <1>5. ASSUME NEW k \in Key, persist(t, k) PROVE IInv'
    BY <1>5, <1>p, BeginIInv DEF persist, OpName, Begins, Inserts
  <1>6. ASSUME NEW k \in Key, NEW d \in Ttl, expire(t, k, d) PROVE IInv'
    BY <1>6, <1>p, <1>e, BeginIInv DEF expire, OpName, Begins, Inserts
  <1>7. ASSUME NEW k \in Key, NEW v \in Value, put(t, k, v) PROVE IInv'
    BY <1>7, <1>p, BeginIInv DEF put, OpName, Begins, Inserts
  <1>8. ASSUME NEW k \in Key, NEW v \in Value, put_returning(t, k, v) PROVE IInv'
    BY <1>8, <1>p, BeginIInv DEF put_returning, OpName, Begins, Inserts
  <1>9. ASSUME NEW k \in Key, NEW v \in Value, NEW d \in Ttl, put_with_ttl(t, k, v, d)
        PROVE  IInv'
    BY <1>9, <1>p, <1>e, BeginIInv DEF put_with_ttl, OpName, Begins, Inserts
  <1>10. ASSUME NEW k \in Key, NEW v \in Value, NEW old \in MaybeValue,
                compare_and_swap(t, k, old, v)
         PROVE  IInv'
    BY <1>10, <1>p, BeginIInv DEF compare_and_swap, OpName, Begins, Inserts
  <1>11. ASSUME NEW pairs \in [Key -> MaybeValue],
                batch_write(t, pairs) \/ batch_write_across(t, pairs)
         PROVE  IInv'
    <2>1. Given(pairs) \in SUBSET Key /\ \A k \in Given(pairs) : pairs[k] # Absent
      BY DEF Given
    <2>. QED BY <1>11, <1>p, <2>1, BeginIInv
             DEF batch_write, batch_write_across, OpName, Begins, Inserts
  <1>12. ASSUME NEW keys \in SUBSET Key, batch_delete(t, keys) PROVE IInv'
    BY <1>12, <1>p, BeginIInv DEF batch_delete, OpName, Begins, Inserts
  <1>13. ASSUME purge_expired(t) PROVE IInv'
    <2>1. ExpiredKeys(db, now) \in SUBSET Key
      BY DEF ExpiredKeys
    <2>2. \A k \in ExpiredKeys(db, now) : is_expired(db.ttl[k], now)
      BY DEF ExpiredKeys
    <2>. QED BY <1>13, <1>p, <2>1, <2>2, BeginIInv DEF purge_expired, OpName, Begins, Inserts
  <1>14. ASSUME transaction(t) PROVE IInv'
    BY <1>14, <1>p, BeginIInv DEF transaction, OpName, Begins, Inserts
  <1>. QED
    BY <1>1, <1>2, <1>3, <1>4, <1>5, <1>6, <1>7, <1>8, <1>9, <1>10, <1>11, <1>12, <1>13,
       <1>14 DEF Start

-----------------------------------------------------------------------------
\* The steps of a plain call: it moves on, or returns with its batch or without.
LEMMA PlainIInv ==
    ASSUME IInv, NEW t \in Thread, Probe(t) \/ Evict(t) \/ Commit(t) \/ WriteError(t),
           workload' = workload
    PROVE  IInv'
  <1>t. /\ call \in [Thread -> Call] /\ call[t] \in Call /\ db \in Tables
        /\ CallShape(call[t]) /\ call[t].op \in workload[t]
        /\ Exclusive(workload) => Seen(call[t], db, now)
        /\ call[t].since <= now /\ Idle.since <= now
    <2>1. call[t].pc # "idle"
      BY DEF Probe, Evict, Commit, WriteError
    <2>. QED BY <2>1, IdleFacts DEF IInv, TypeOK, CallsOK
  <1>1. UNCHANGED <<now, txn_lock, overlay, snap>> /\ call[t].pc \in {"probe", "evict", "batch"}
    BY DEF Probe, Evict, Commit, WriteError
  <1>2. db' \in Tables /\ (db' = db \/ call[t].pc \in {"batch", "evict"})
    <2>1. call[t].keys \in SUBSET Key
      BY <1>t DEF Call
    <2>2. Remove(db, call[t].keys) \in Tables
      BY <1>t, <2>1, InsertType, CoreTypes
    <2>. QED BY <1>t, <2>2, EffectType DEF Probe, Evict, Commit, WriteError
  <1>3. PICK c \in Call :
          /\ call' = [call EXCEPT ![t] = c]
          /\ CallShape(c) /\ c.since <= now /\ (c = Idle \/ c.op \in workload[t])
          /\ c.pc \notin {"cas_read", "cas_commit"}
          /\ Exclusive(workload) => Seen(c, db', now)
    <2>1. CASE call' = [call EXCEPT ![t] = Idle]
      BY <2>1, <1>t, ConstantTypes, IdleFacts
    <2>2. CASE call' = [call EXCEPT ![t].pc = "batch"]
      <3>. DEFINE c == [call[t] EXCEPT !.pc = "batch"]
      <3>1. /\ c \in Call /\ c.op = call[t].op /\ c.keys = call[t].keys
            /\ c.pairs = call[t].pairs /\ c.pc = "batch" /\ c.since = call[t].since
        BY <1>t DEF Call
      <3>2. call' = [call EXCEPT ![t] = c]
        BY <2>2
      <3>. HIDE DEF c
      <3>3. CallShape(c)
        BY <1>t, <1>1, <3>1 DEF CallShape
      <3>4. call[t].op \in OpName \ Begins
        BY <1>t, <1>1 DEF CallShape
      <3>5. CASE Probe(t)
        <4>1. db' = db
          BY <3>5 DEF Probe
        <4>2. c.op = "ttl" => \A k \in c.keys : is_expired(db.ttl[k], now)
          <5>1. c.op = "ttl" => c.keys \subseteq ExpiredKeys(db, now)
            <6>1. call[t].pc = "probe" /\ call'[t].pc = "batch"
              BY <3>5, <3>1, <3>2, <1>t DEF Probe
            <6>. QED BY <3>1, <3>5, <6>1, <1>t, IdleFacts DEF Probe, Return
          <5>. QED BY <5>1 DEF ExpiredKeys
        <4>. QED BY <1>t, <3>1, <3>2, <3>3, <4>1, <4>2 DEF Seen, Evicting
      <3>6. CASE Evict(t)
        <4>1. call[t].op = "put_returning"
          BY <1>t, <3>6 DEF CallShape, Evict
        <4>. QED BY <1>t, <3>1, <3>2, <3>3, <4>1 DEF Seen, Evicting
      <3>7. CASE Commit(t) \/ WriteError(t)
        <4>1. call' = [call EXCEPT ![t] = Idle]
          BY <3>7 DEF Commit, WriteError, Return
        <4>. QED BY <2>1, <4>1
      <3>. QED BY <3>5, <3>6, <3>7
    <2>. QED BY <2>1, <2>2 DEF Probe, Evict, Commit, WriteError, Return
  <1>4. CallsOK'
    BY <1>1, <1>2, <1>3, CallsStep
  <1>5. TypeOK'
    BY <1>1, <1>2, <1>3 DEF IInv, TypeOK
  <1>6. Locking'
    <2>1. \A u \in Thread : call'[u] = IF u = t THEN c ELSE call[u]
      BY <1>3, <1>t
    <2>. QED BY <1>1, <1>3, <2>1 DEF IInv, Locking
  <1>. QED BY <1>4, <1>5, <1>6 DEF IInv

\* Taking txn_lock.
LEMMA LockIInv ==
    ASSUME IInv, NEW t \in Thread, LockTxn(t), workload' = workload
    PROVE  IInv'
  <1>. DEFINE c == IF call[t].op = "transaction" THEN Idle ELSE [call[t] EXCEPT !.pc = "cas_read"]
  <1>1. /\ call[t].pc = "lock" /\ txn_lock = Nobody /\ txn_lock' = t /\ overlay' = NoOverlay
        /\ call' = [call EXCEPT ![t] = c] /\ UNCHANGED <<db, now, snap>>
    BY DEF LockTxn
  <1>t. /\ call \in [Thread -> Call] /\ call[t] \in Call /\ CallShape(call[t])
        /\ call[t].op \in workload[t] /\ call[t].op \in Begins
        /\ call[t].since <= now /\ Idle.since <= now
    BY <1>1, IdleFacts DEF IInv, TypeOK, CallsOK, CallShape
  <1>2. /\ c \in Call /\ CallShape(c) /\ (c = Idle \/ c.op \in workload[t])
        /\ Seen(c, db, now) /\ c.since <= now
    <2>1. CASE call[t].op = "transaction"
      BY <2>1, <1>t, ConstantTypes, IdleFacts
    <2>2. CASE call[t].op # "transaction"
      <3>1. /\ c \in Call /\ c.op = "compare_and_swap" /\ c.op = call[t].op
            /\ c.pc = "cas_read" /\ c.since = call[t].since
        BY <2>2, <1>t DEF Call, Begins
      <3>. HIDE DEF c
      <3>. QED BY <3>1, <1>t DEF CallShape, Seen, Evicting, Begins, Inserts
    <2>. QED BY <2>1, <2>2
  <1>. HIDE DEF c
  <1>3. CallsOK'
    BY <1>1, <1>2, CallsStep
  <1>4. TypeOK'
    BY <1>1, <1>2, ConstantTypes DEF IInv, TypeOK
  <1>5. Locking'
    <2>1. \A u \in Thread : u # t => call'[u] = call[u]
      BY <1>1, <1>t
    <2>2. \A u \in Thread : call[u].pc \notin {"cas_read", "cas_commit"}
      BY <1>1, FjallAssumption DEF IInv, Locking
    <2>. QED BY <1>1, <1>t, <2>1, <2>2 DEF Locking
  <1>. QED BY <1>3, <1>4, <1>5 DEF IInv

\* A put or delete inside a transaction.
LEMMA TxnWriteIInv ==
    ASSUME IInv, NEW t \in Thread, NEW k \in Key, NEW val \in MaybeValue, TxnWrite(t, k, val),
           workload' = workload
    PROVE  IInv'
  <1>1. /\ txn_lock = t /\ call[t] = Idle /\ overlay' = [overlay EXCEPT ![k] = val]
        /\ UNCHANGED <<db, now, txn_lock, call, snap>>
    BY DEF TxnWrite, InTxn
  <1>2. TypeOK'
    BY <1>1 DEF IInv, TypeOK
  <1>3. Locking'
    <2>1. \A u \in Thread : call[u].pc \notin {"cas_read", "cas_commit"}
      BY <1>1, IdleFacts DEF IInv, Locking
    <2>. QED BY <1>1, <2>1 DEF IInv, Locking
  <1>4. CallsOK'
    BY <1>1 DEF IInv, CallsOK
  <1>. QED BY <1>2, <1>3, <1>4 DEF IInv

\* The end of a transaction, by whatever way, with its owner idle afterwards.
LEMMA EndTxnIInv ==
    ASSUME IInv, NEW t \in Thread, txn_lock = t, EndTxn, db' \in Tables,
           call' = [call EXCEPT ![t] = Idle], UNCHANGED <<now, snap, workload>>
    PROVE  IInv'
  <1>1. txn_lock' = Nobody /\ overlay' = NoOverlay
    BY DEF EndTxn
  <1>2. TypeOK'
    BY <1>1, ConstantTypes DEF IInv, TypeOK
  <1>3. CallsOK'
    <2>1. Idle.since <= now
      BY IdleFacts DEF IInv, TypeOK
    <2>. QED BY <2>1, ConstantTypes, IdleFacts, CallsStep
  <1>4. Locking'
    <2>1. \A u \in Thread : call'[u] = IF u = t THEN Idle ELSE call[u]
      BY DEF IInv, TypeOK
    <2>2. \A u \in Thread : u # t => call[u].pc \notin {"cas_read", "cas_commit"}
      BY DEF IInv, Locking
    <2>. QED BY <1>1, <2>1, <2>2, IdleFacts, FjallAssumption DEF Locking
  <1>. QED BY <1>2, <1>3, <1>4 DEF IInv

\* The client's use of its transaction.
LEMMA TxnStepIInv ==
    ASSUME IInv, NEW t \in Thread, TxnStep(t), workload' = workload
    PROVE  IInv'
  <1>1. ASSUME NEW k \in Key, NEW val \in MaybeValue, TxnWrite(t, k, val) PROVE IInv'
    BY <1>1, TxnWriteIInv
  <1>2. ASSUME TxnCommit(t) \/ TxnRollback(t) PROVE IInv'
    <2>1. /\ txn_lock = t /\ call[t] = Idle /\ EndTxn /\ db' \in {db, Applied(db, overlay)}
          /\ UNCHANGED <<now, call, snap>>
      BY <1>2 DEF TxnCommit, TxnRollback, InTxn
    <2>2. db' \in Tables /\ call' = [call EXCEPT ![t] = Idle]
      BY <2>1, AppliedType DEF IInv, TypeOK
    <2>. QED BY <2>1, <2>2, EndTxnIInv
  <1>. QED BY <1>1, <1>2 DEF TxnStep

\* The steps of a compare_and_swap inside its transaction.
LEMMA CasIInv ==
    ASSUME IInv, NEW t \in Thread, CasRead(t) \/ CasCommit(t) \/ CasError(t),
           workload' = workload
    PROVE  IInv'
  <1>t. /\ call \in [Thread -> Call] /\ call[t] \in Call /\ db \in Tables
        /\ CallShape(call[t]) /\ call[t].op \in workload[t]
        /\ call[t].pc \in {"cas_read", "cas_commit"} /\ call[t].op = "compare_and_swap"
        /\ txn_lock = t /\ overlay = NoOverlay
        /\ call[t].keys \in SUBSET Key /\ call[t].pairs \in [Key -> MaybeValue]
        /\ now \in Nat /\ call[t].since \in Nat /\ call[t].since <= now
    <2>1. call[t].pc \in {"cas_read", "cas_commit"}
      BY DEF CasRead, CasCommit, CasError
    <2>. QED BY <2>1, IdleFacts DEF IInv, TypeOK, CallsOK, CallShape, Locking, Call
  <1>1. CASE /\ CasRead(t)
             /\ call' = [call EXCEPT ![t].pc = "cas_commit"] /\ UNCHANGED <<txn_lock, overlay>>
             /\ \A k \in call[t].keys : TxnGet(k) = call[t].old
    <2>. DEFINE c == [call[t] EXCEPT !.pc = "cas_commit"]
    <2>1. call' = [call EXCEPT ![t] = c] /\ UNCHANGED <<db, now, snap, txn_lock, overlay>>
      BY <1>1 DEF CasRead
    <2>2. /\ c \in Call /\ c.op = "compare_and_swap" /\ c.op = call[t].op /\ c.pc = "cas_commit"
          /\ c.keys = call[t].keys /\ c.old = call[t].old /\ c.since = call[t].since
      BY <1>t DEF Call
    <2>. HIDE DEF c
    <2>3. \A k \in c.keys : CasMatches(db, k, c.old, c.since, now)
      <3>1. \A k \in Key : TxnGet(k) = Visible(db, now)[k]
        BY <1>t DEF TxnGet, NoOverlay
      <3>. QED BY <1>1, <1>t, <2>2, <3>1, VisibleMatches
    <2>4. CallShape(c) /\ Seen(c, db, now)
      BY <1>t, <2>2, <2>3 DEF CallShape, Seen, Evicting, Begins, Inserts
    <2>5. CallsOK'
      BY <1>t, <2>1, <2>2, <2>4, CallsStep
    <2>6. TypeOK'
      BY <2>1, <2>2 DEF IInv, TypeOK
    <2>7. Locking'
      <3>1. \A u \in Thread : u # t => call'[u] = call[u]
        BY <2>1, <1>t
      <3>. QED BY <1>t, <2>1, <3>1 DEF IInv, Locking
    <2>. QED BY <2>5, <2>6, <2>7 DEF IInv
  <1>2. CASE /\ EndTxn /\ Return(t) /\ UNCHANGED <<now, snap>>
             /\ db' \in {db, Insert(db, call[t].keys, call[t].pairs, NoExpiry)}
    <2>0. Insert(db, call[t].keys, call[t].pairs, NoExpiry) \in Tables
      BY <1>t, InsertType, CoreTypes
    <2>1. db' \in Tables
      BY <1>2, <1>t, <2>0
    <2>. QED BY <1>2, <1>t, <2>1, EndTxnIInv DEF Return
  <1>3. ASSUME CasRead(t) PROVE IInv'
    BY <1>1, <1>2, <1>3 DEF CasRead
  <1>4. ASSUME CasCommit(t) \/ CasError(t) PROVE IInv'
    BY <1>2, <1>4 DEF CasCommit, CasError
  <1>. QED BY <1>3, <1>4

\* The clock moves: what has expired stays expired.
LEMMA TickIInv ==
    ASSUME IInv, Tick, workload' = workload
    PROVE  IInv'
  <1>1. /\ now \in Nat /\ now' = now + 1 /\ now' \in Nat
        /\ UNCHANGED <<db, txn_lock, overlay, call, snap>>
    BY DEF IInv, TypeOK, Tick
  <1>2. TypeOK' /\ Locking'
    BY <1>1 DEF IInv, TypeOK, Locking
  <1>3. ASSUME NEW c \in Call, Seen(c, db, now) PROVE Seen(c, db, now')
    <2>1. db \in Tables /\ c.keys \in SUBSET Key /\ c.since \in Nat
      BY DEF IInv, TypeOK, Call
    <2>2. \A k \in c.keys : is_expired(db.ttl[k], now) => is_expired(db.ttl[k], now')
      <3>1. \A k \in c.keys : db.ttl[k] \in Expiry
        BY <2>1 DEF Tables
      <3>. QED BY <1>1, <3>1 DEF is_expired, Expiry, NoExpiry
    <2>3. \A k \in c.keys :
            CasMatches(db, k, c.old, c.since, now) => CasMatches(db, k, c.old, c.since, now')
      BY <1>1, <2>1, MatchesLater
    <2>. QED BY <1>3, <2>2, <2>3 DEF Seen
  <1>4. CallsOK'
    <2>1. \A t \in Thread : call[t].since <= now'
      BY <1>1 DEF IInv, CallsOK, TypeOK, Call
    <2>. QED BY <1>1, <1>3, <2>1 DEF IInv, CallsOK, TypeOK
  <1>. QED BY <1>2, <1>4 DEF IInv

\* Every step keeps the invariant.
LEMMA NextIInv == IInv /\ [Next]_vars => IInv'
  <1>. SUFFICES ASSUME IInv, [Next]_vars PROVE IInv'
    OBVIOUS
  <1>w. workload' = workload
    BY DEF Next, vars
  <1>1. ASSUME NEW t \in Thread, Start(t) PROVE IInv'
    BY <1>1, <1>w, StartIInv
  <1>2. ASSUME NEW t \in Thread, Progress(t) PROVE IInv'
    BY <1>2, <1>w, PlainIInv, LockIInv, CasIInv DEF Progress
  <1>3. ASSUME NEW t \in Thread, TxnStep(t) PROVE IInv'
    BY <1>3, <1>w, TxnStepIInv
  <1>4. ASSUME \/ \E t \in Thread : snapshot(t) \/ DropSnapshot(t)
               \/ UNCHANGED vars
        PROVE  IInv'
    <2>1. UNCHANGED <<workload, db, now, txn_lock, overlay, call>>
      BY <1>4, <1>w DEF snapshot, DropSnapshot, vars
    <2>2. snap' \in [Thread -> [tables : Tables, captured_at : Expiry]]
      <3>1. [tables |-> db, captured_at |-> now] \in [tables : Tables, captured_at : Expiry]
        BY DEF IInv, TypeOK, Expiry
      <3>. QED BY <1>4, <3>1, ConstantTypes DEF IInv, TypeOK, snapshot, DropSnapshot, vars
    <2>3. TypeOK'
      BY <2>1, <2>2 DEF IInv, TypeOK
    <2>4. Locking' /\ CallsOK'
      BY <2>1 DEF IInv, Locking, CallsOK
    <2>. QED BY <2>3, <2>4 DEF IInv
  <1>5. ASSUME Tick PROVE IInv'
    BY <1>5, <1>w, TickIInv
  <1>. QED BY <1>1, <1>2, <1>3, <1>4, <1>5 DEF Next, Step

\* The inductive invariant holds in every reachable state, whatever the
\* workloads.
THEOREM Invariance == Spec => []IInv
  BY InitIInv, NextIInv, PTL DEF Spec

-----------------------------------------------------------------------------
(***************************************************************************)
(* What follows for the clients.                                           *)
(***************************************************************************)
\* compare_and_swap replaces only the value it was told to expect, when all
\* writers use transactions or compare_and_swap, and when there is one writer.
\* (txn_lock does not keep a plain put out between the read and the batch.)
THEOREM CasIsAtomic ==
    ASSUME \A w \in Workloads : Exclusive(w)
    PROVE  Spec => CasAtomic
  <1>. DEFINE Fixed == workload \in Workloads
  <1>1. Init => Fixed
    BY DEF Init
  <1>2. Fixed /\ [Next]_vars => Fixed'
    BY DEF Next, vars
  <1>3. IInv /\ Fixed /\ [Next]_vars =>
          [\A t \in Thread : CasCommit(t) =>
              \A k \in call[t].keys : CasMatches(db, k, call[t].old, call[t].since, now)]_vars
    BY DEF CasCommit, IInv, CallsOK, Seen
  <1>. QED BY <1>1, <1>2, <1>3, Invariance, PTL DEF Spec, CasAtomic

\* A snapshot shows the same values for as long as it is held.
THEOREM SnapshotsAreStable == Spec => SnapshotStable
  <1>1. ASSUME TypeOK, [Next]_vars, NEW t \in Thread, snap[t] # NoSnap, snap'[t] # NoSnap
        PROVE  SnapshotView(t)' = SnapshotView(t)
    <2>1. snap'[t] = snap[t]
      <3>1. ASSUME NEW u \in Thread, snapshot(u) \/ DropSnapshot(u) PROVE snap'[t] = snap[t]
        BY <1>1, <3>1 DEF snapshot, DropSnapshot, TypeOK
      <3>2. ASSUME NEW u \in Thread, Start(u) PROVE snap' = snap
        BY <3>2 DEF Start, put, put_returning, put_with_ttl, compare_and_swap, delete,
              delete_returning, get, ttl_of, persist, expire, batch_write,
              batch_write_across, batch_delete, purge_expired, transaction, Begin
      <3>3. ASSUME NEW u \in Thread, Progress(u) \/ TxnStep(u) PROVE snap' = snap
        BY <3>3 DEF Progress, TxnStep, Probe, Evict, Commit, WriteError, LockTxn,
              CasRead, CasCommit, CasError, TxnWrite, TxnCommit, TxnRollback
      <3>4. ASSUME Tick \/ UNCHANGED vars PROVE snap' = snap
        BY <3>4 DEF Tick, vars
      <3>. QED BY <1>1, <3>1, <3>2, <3>3, <3>4 DEF Next, Step
    <2>. QED BY <2>1 DEF SnapshotView, Visible
  <1>2. IInv /\ [Next]_vars =>
          [\A t \in Thread : snap[t] # NoSnap /\ snap'[t] # NoSnap
              => SnapshotView(t)' = SnapshotView(t)]_vars
    BY <1>1 DEF IInv
  <1>. QED BY <1>2, Invariance, PTL DEF Spec, SnapshotStable

\* No batch leaves an expiry without its value.
LEMMA EffectClean ==
    ASSUME NEW tb \in Tables, NEW c \in Call, c.op \in OpName \ Begins,
           \A k \in Key : tb.data[k] = Absent => tb.ttl[k] = NoExpiry,
           c.op \in Inserts => \A k \in c.keys : c.pairs[k] # Absent,
           c.op = "expire" => \A k \in c.keys : tb.data[k] # Absent,
           NEW k \in Key, Effect(tb, c).data[k] = Absent
    PROVE  Effect(tb, c).ttl[k] = NoExpiry
  <1>1. CASE c.op \in {"put", "batch_write", "put_returning"}
    <2>1. Effect(tb, c) = Insert(tb, c.keys, c.pairs, NoExpiry)
      BY <1>1 DEF Effect
    <2>. QED BY <2>1, InsertAt
  <1>2. CASE c.op = "put_with_ttl"
    <2>1. Effect(tb, c) = Insert(tb, c.keys, c.pairs, c.exp)
      BY <1>2 DEF Effect
    <2>. QED BY <1>2, <2>1, InsertAt DEF Inserts
  <1>3. CASE c.op = "batch_write_across"
    <2>1. Effect(tb, c) = SetData(tb, c.keys, c.pairs)
      BY <1>3 DEF Effect
    <2>. QED BY <1>3, <2>1, SetDataAt DEF Inserts
  <1>4. CASE c.op = "expire"
    <2>1. Effect(tb, c) = SetTtl(tb, c.keys, c.exp)
      BY <1>4 DEF Effect
    <2>. QED BY <1>4, <2>1, SetTtlAt
  <1>5. CASE c.op = "persist"
    <2>1. Effect(tb, c) = SetTtl(tb, c.keys, NoExpiry)
      BY <1>5 DEF Effect
    <2>. QED BY <1>5, <2>1, SetTtlAt
  <1>6. CASE c.op \in {"delete", "batch_delete", "get", "ttl", "purge_expired"}
    <2>1. Effect(tb, c) = Remove(tb, c.keys)
      BY <1>6 DEF Effect
    <2>. QED BY <1>6, <2>1, RemoveAt
  <1>. QED BY <1>1, <1>2, <1>3, <1>4, <1>5, <1>6 DEF OpName, Begins

\* The workloads in which the key that expire has found stays where it is.
ExpiresSafely(w) == Lone(w) \/ \A t \in Thread : "expire" \notin w[t]

\* Every step keeps the keyspaces in agreement.
LEMMA NextAgrees ==
    ASSUME IInv, ExpiresSafely(workload), NoOrphanTtl, [Next]_vars
    PROVE  NoOrphanTtl'
  <1>t. db \in Tables /\ \A t \in Thread : call[t] \in Call /\ call[t].keys \in SUBSET Key
    BY DEF IInv, TypeOK, Call
  <1>1. ASSUME NEW t \in Thread, Commit(t) PROVE NoOrphanTtl'
    <2>1. /\ db' = Effect(db, call[t]) /\ call[t].pc = "batch" /\ CallShape(call[t])
          /\ call[t].op \in workload[t]
      BY <1>1, IdleFacts DEF Commit, IInv, CallsOK
    <2>2. call[t].op = "expire" => \A k \in call[t].keys : db.data[k] # Absent
      BY <2>1 DEF ExpiresSafely, Exclusive, IInv, CallsOK, Seen
    <2>. QED BY <1>t, <2>1, <2>2, EffectClean DEF NoOrphanTtl, CallShape
  <1>2. ASSUME NEW t \in Thread, Evict(t) PROVE NoOrphanTtl'
    BY <1>2, <1>t, RemoveAt DEF Evict, NoOrphanTtl
  <1>3. ASSUME NEW t \in Thread, CasCommit(t) PROVE NoOrphanTtl'
    BY <1>3, <1>t, InsertAt DEF CasCommit, NoOrphanTtl
  <1>4. ASSUME NEW t \in Thread, TxnCommit(t) PROVE NoOrphanTtl'
    BY <1>4, <1>t, InsertAt DEF TxnCommit, Applied, NoOrphanTtl
  <1>5. ASSUME db' = db PROVE NoOrphanTtl'
    BY <1>5 DEF NoOrphanTtl
  <1>6. ASSUME NEW t \in Thread, Start(t) PROVE db' = db
    BY <1>6 DEF Start, put, put_returning, put_with_ttl, compare_and_swap, delete,
          delete_returning, get, ttl_of, persist, expire, batch_write,
          batch_write_across, batch_delete, purge_expired, transaction, Begin
  <1>7. ASSUME NEW t \in Thread, Progress(t) PROVE NoOrphanTtl'
    BY <1>1, <1>2, <1>3, <1>5, <1>7
       DEF Progress, Probe, WriteError, LockTxn, CasRead, CasError
  <1>8. ASSUME NEW t \in Thread, TxnStep(t) PROVE NoOrphanTtl'
    BY <1>4, <1>5, <1>8 DEF TxnStep, TxnWrite, TxnRollback
  <1>9. ASSUME \/ \E t \in Thread : snapshot(t) \/ DropSnapshot(t)
               \/ Tick \/ UNCHANGED vars
        PROVE  db' = db
    BY <1>9 DEF snapshot, DropSnapshot, Tick, vars
  <1>. QED BY <1>5, <1>6, <1>7, <1>8, <1>9 DEF Next, Step

\* The data and the TTL keyspace agree: every variable has its type, and an
\* expiry never outlives its value.
THEOREM KeyspacesStayInAgreement ==
    ASSUME \A w \in Workloads : ExpiresSafely(w)
    PROVE  Spec => []KeyspacesAgree
  <1>. DEFINE Fixed == workload \in Workloads
  <1>1. Init => Fixed /\ NoOrphanTtl
    BY DEF Init, NoOrphanTtl, EmptyTables
  <1>2. IInv /\ Fixed /\ NoOrphanTtl /\ [Next]_vars => Fixed' /\ NoOrphanTtl'
    <2>1. Fixed /\ [Next]_vars => Fixed'
      BY DEF Next, vars
    <2>2. Fixed => ExpiresSafely(workload)
      OBVIOUS
    <2>. QED BY <2>1, <2>2, NextAgrees
  <1>3. IInv /\ NoOrphanTtl => KeyspacesAgree
    BY DEF IInv, KeyspacesAgree
  <1>. QED BY <1>1, <1>2, <1>3, Invariance, PTL DEF Spec

-----------------------------------------------------------------------------
(***************************************************************************)
(* FjallStore implements KvStore, as long as no call overlooks an expiry,  *)
(* for the exclusive workloads, and for any workload without the calls     *)
(* that depend on what was stored when they were made and commit a batch   *)
(* later: evicting reads, expire, persist, put_returning,                  *)
(* compare_and_swap, batch_write_across.                                   *)
(***************************************************************************)
Decides == {"get", "ttl", "purge_expired", "expire", "persist", "put_returning",
            "compare_and_swap", "batch_write_across"}
Serial(w) == Exclusive(w) \/ \A t \in Thread : w[t] \cap Decides = {}

\* The operators on tables are those of the abstract specification.
LEMMA AbsInsert ==
    /\ \A tb, keys, pairs, exp : Abs!Insert(tb, keys, pairs, exp) = Insert(tb, keys, pairs, exp)
    /\ \A tb, keys : Abs!Remove(tb, keys) = Remove(tb, keys)
    /\ \A tb, keys, exp : Abs!SetTtl(tb, keys, exp) = SetTtl(tb, keys, exp)
    /\ \A tb, keys, pairs : Abs!SetData(tb, keys, pairs) = SetData(tb, keys, pairs)
    /\ \A tb, k, old, since, time :
          Abs!CasMatches(tb, k, old, since, time) = CasMatches(tb, k, old, since, time)
    /\ \A tb, time : Abs!Visible(tb, time) = Visible(tb, time)
    /\ \A tb, time : Abs!ExpiredKeys(tb, time) = ExpiredKeys(tb, time)
    /\ \A tb : Abs!PresentKeys(tb) = PresentKeys(tb)
    /\ Abs!NoExpiry = NoExpiry
  BY DEF Abs!Insert, Insert, Abs!Remove, Remove, Abs!SetTtl, SetTtl, Abs!SetData, SetData,
         Abs!NoPairs, NoPairs, Abs!NoExpiry, NoExpiry, Abs!CasMatches, CasMatches,
         Abs!Visible, Visible, Abs!is_expired, is_expired, Abs!ExpiredKeys, ExpiredKeys,
         Abs!PresentKeys, PresentKeys

\* An idle thread has no request pending, and nothing staged is nothing staged.
LEMMA AbsNothing == Pending(Idle) = Abs!NoReq /\ Abs!NothingStaged = NoOverlay
  BY DEF Pending, Idle, Abs!NoReq, NoPairs, Abs!NoPairs, NoExpiry, Abs!NoExpiry,
         Abs!NothingStaged, NoOverlay

\* The initial states are initial states of the abstract specification.
LEMMA AbsInitial == Init => Abs!Init
  <1>. SUFFICES ASSUME Init PROVE Abs!Init
    OBVIOUS
  <1>1. db = Abs!EmptyTables
    BY DEF Init, EmptyTables, Abs!EmptyTables, NoExpiry, Abs!NoExpiry
  <1>2. ReqBar = [t \in Thread |-> Abs!NoReq]
    BY AbsNothing DEF Init, ReqBar
  <1>3. OpenBar = {}
    BY FjallAssumption DEF Init, OpenBar, InClientTxn
  <1>4. StagedBar = [t \in Thread |-> Abs!NothingStaged]
    BY FjallAssumption, AbsNothing DEF Init, StagedBar, InClientTxn
  <1>. QED BY <1>1, <1>2, <1>3, <1>4 DEF Abs!Init, Init

\* What the clients see of a change of one thread's call.
LEMMA CallBar ==
    ASSUME TypeOK, NEW t \in Thread, NEW c, call' = [call EXCEPT ![t] = c]
    PROVE  ReqBar' = [ReqBar EXCEPT ![t] = Pending(c)]
  <1>1. \A u \in Thread : Pending(call'[u]) = IF u = t THEN Pending(c) ELSE Pending(call[u])
    BY DEF TypeOK
  <1>2. ReqBar' = [u \in Thread |-> Pending(call'[u])]
    BY DEF ReqBar, Pending
  <1>. QED BY <1>1, <1>2 DEF ReqBar

\* Steps that neither open nor close nor write a client's transaction.
LEMMA SameTxnBar ==
    ASSUME UNCHANGED <<txn_lock, overlay>>,
           \A u \in Thread : (call'[u].pc \in {"cas_read", "cas_commit"})
                             <=> (call[u].pc \in {"cas_read", "cas_commit"})
    PROVE  OpenBar' = OpenBar /\ StagedBar' = StagedBar
  <1>1. \A u \in Thread : InClientTxn(u)' <=> InClientTxn(u)
    BY DEF InClientTxn
  <1>2. OpenBar' = OpenBar
    BY <1>1 DEF OpenBar
  <1>3. StagedBar' = StagedBar
    BY <1>1 DEF StagedBar, NoOverlay
  <1>. QED BY <1>2, <1>3

\* Nobody is in a client's transaction when txn_lock is free, or when a
\* compare_and_swap holds it.
LEMMA NoClientTxn ==
    ASSUME NEW t \in Thread,
           txn_lock = Nobody \/ (txn_lock = t /\ call[t].pc \in {"cas_read", "cas_commit"})
    PROVE  OpenBar = {} /\ StagedBar = [u \in Thread |-> NoOverlay]
  <1>1. \A u \in Thread : ~InClientTxn(u)
    BY FjallAssumption DEF InClientTxn
  <1>. QED BY <1>1 DEF OpenBar, StagedBar

\* The same after a step.
LEMMA NoClientTxnNext ==
    ASSUME NEW t \in Thread,
           txn_lock' = Nobody \/ (txn_lock' = t /\ call'[t].pc \in {"cas_read", "cas_commit"})
    PROVE  OpenBar' = {} /\ StagedBar' = [u \in Thread |-> NoOverlay]
  <1>1. \A u \in Thread : ~(InClientTxn(u)')
    BY FjallAssumption DEF InClientTxn
  <1>2. NoOverlay' = NoOverlay
    BY DEF NoOverlay
  <1>. QED BY <1>1, <1>2 DEF OpenBar, StagedBar

\* Returning from a call, with its effect or without, is an abstract Respond.
LEMMA RespondStep ==
    ASSUME TypeOK, NEW t \in Thread, call' = [call EXCEPT ![t] = Idle],
           call[t].op # "none", OpenBar' = OpenBar, StagedBar' = StagedBar, now' = now,
           db' = db \/ Abs!IsEffect(db', Pending(call[t]))
    PROVE  Abs!Respond(t)
  <1>1. ReqBar[t] = Pending(call[t])
    BY DEF ReqBar
  <1>2. ReqBar[t] # Abs!NoReq
    BY <1>1 DEF Pending, Abs!NoReq
  <1>3. ReqBar' = [ReqBar EXCEPT ![t] = Abs!NoReq]
    BY CallBar, AbsNothing
  <1>. QED BY <1>1, <1>2, <1>3 DEF Abs!Respond

\* A step that moves a call on without the clients seeing it.
LEMMA MoveBar ==
    ASSUME TypeOK, NEW t \in Thread, NEW pc, call' = [call EXCEPT ![t].pc = pc]
    PROVE  ReqBar' = ReqBar
  <1>1. \A u \in Thread : Pending(call'[u]) = Pending(call[u])
    BY DEF TypeOK, Call, Pending
  <1>. QED BY <1>1 DEF ReqBar, Pending

\* Steps invisible to the clients.
LEMMA StutterStep ==
    ASSUME UNCHANGED <<db, now>>, ReqBar' = ReqBar, OpenBar' = OpenBar, StagedBar' = StagedBar
    PROVE  UNCHANGED Abs!vars
  BY DEF Abs!vars

-----------------------------------------------------------------------------
\* Starting a call is an abstract Invoke.
LEMMA InvokeStep ==
    ASSUME IInv, IInv', NEW t \in Thread, NEW op \in OpName, NEW pc, NEW keys, NEW pairs,
           NEW exp, NEW old, Begin(t, op, pc, keys, pairs, exp, old),
           pc \notin {"cas_read", "cas_commit"}
    PROVE  Abs!Invoke(t)
  <1>. DEFINE c == [op |-> op, pc |-> pc, keys |-> keys, pairs |-> pairs,
                    exp |-> exp, old |-> old, since |-> now]
  <1>1. /\ call' = [call EXCEPT ![t] = c] /\ call[t] = Idle
        /\ UNCHANGED <<db, now, txn_lock, overlay, snap>>
    BY DEF Begin
  <1>t. call \in [Thread -> Call] /\ call' \in [Thread -> Call] /\ TypeOK
    BY DEF IInv, TypeOK
  <1>2. \A u \in Thread : call'[u] = IF u = t THEN c ELSE call[u]
    BY <1>1, <1>t
  <1>3. OpenBar' = OpenBar /\ StagedBar' = StagedBar
    BY <1>1, <1>2, SameTxnBar DEF Idle
  <1>4. ReqBar[t] = Abs!NoReq
    BY <1>1, AbsNothing DEF ReqBar
  <1>5. c \in Call
    BY <1>2, <1>t
  <1>6. ReqBar' = [ReqBar EXCEPT ![t] = Pending(c)]
    BY <1>1, <1>t, CallBar
  <1>7. Pending(c) \in Abs!Request
    BY <1>5 DEF Pending, Call, Abs!Request, Abs!OpName, OpName,
                Abs!MaybeValue, MaybeValue, Abs!Expiry, Expiry, Abs!NoExpiry, NoExpiry
  <1>8. ReqBar'[t] = Pending(c)
    BY <1>6 DEF ReqBar
  <1>9. Pending(c).since = now
    BY DEF Pending
  <1>. QED BY <1>1, <1>3, <1>4, <1>6, <1>7, <1>8, <1>9 DEF Abs!Invoke

\* Every call that starts is an Invoke.
LEMMA StartStep ==
    ASSUME IInv, IInv', NEW t \in Thread, Start(t)
    PROVE  Abs!Invoke(t)
  <1>1. ASSUME \E op \in OpName, pc \in {"probe", "evict", "batch", "lock"} :
                  \E keys, pairs, exp, old : Begin(t, op, pc, keys, pairs, exp, old)
        PROVE  Abs!Invoke(t)
    BY <1>1, InvokeStep
  <1>2. ASSUME NEW k \in Key,
               \/ delete(t, k) \/ delete_returning(t, k)
               \/ get(t, k) \/ ttl_of(t, k) \/ persist(t, k)
               \/ \E d \in Ttl : expire(t, k, d)
        PROVE  Abs!Invoke(t)
    BY <1>2, <1>1 DEF delete, delete_returning, get, ttl_of, persist, expire, OpName
  <1>3. ASSUME NEW k \in Key, NEW v \in Value,
               \/ put(t, k, v) \/ put_returning(t, k, v)
               \/ \E d \in Ttl : put_with_ttl(t, k, v, d)
               \/ \E old \in MaybeValue : compare_and_swap(t, k, old, v)
        PROVE  Abs!Invoke(t)
    BY <1>3, <1>1 DEF put, put_returning, put_with_ttl, compare_and_swap, OpName
  <1>4. ASSUME \/ \E pairs \in [Key -> MaybeValue] :
                      batch_write(t, pairs) \/ batch_write_across(t, pairs)
               \/ \E keys \in SUBSET Key : batch_delete(t, keys)
               \/ purge_expired(t) \/ transaction(t)
        PROVE  Abs!Invoke(t)
    BY <1>4, <1>1 DEF batch_write, batch_write_across, batch_delete, purge_expired,
                      transaction, OpName
  <1>. QED BY <1>2, <1>3, <1>4 DEF Start

\* In a serial workload, what a call will act on is still so.
LEMMA SerialSeen ==
    ASSUME IInv, Serial(workload), NEW t \in Thread
    PROVE  Seen(call[t], db, now)
  <1>1. CASE Exclusive(workload)
    BY <1>1 DEF IInv, CallsOK
  <1>2. CASE \A u \in Thread : workload[u] \cap Decides = {}
    <2>1. call[t] = Idle \/ call[t].op \notin Decides
      BY <1>2 DEF IInv, CallsOK
    <2>2. CallShape(call[t])
      BY DEF IInv, CallsOK
    <2>3. call[t].pc = "evict" => call[t].op \in Decides
      BY <2>2 DEF CallShape, Decides
    <2>4. call[t].pc = "cas_commit" => call[t].op \in Decides
      BY <2>2 DEF CallShape, Decides
    <2>. QED BY <2>1, <2>3, <2>4, IdleFacts DEF Seen, Evicting, Decides
  <1>. QED BY <1>1, <1>2 DEF Serial

\* Where the TTL keyspace is empty, clearing it changes nothing.
LEMMA CleanSidecar ==
    ASSUME NEW tb \in Tables, NEW keys \in SUBSET Key, NEW pairs,
           \A k \in keys : tb.ttl[k] = NoExpiry
    PROVE  SetData(tb, keys, pairs) = Insert(tb, keys, pairs, NoExpiry)
  <1>. DEFINE d == SetData(tb, keys, pairs)
  <1>1. d = [data |-> [k \in Key |-> IF k \in keys THEN pairs[k] ELSE tb.data[k]], ttl |-> tb.ttl]
    BY DEF SetData, Tables
  <1>2. [k \in Key |-> IF k \in keys THEN NoExpiry ELSE d.ttl[k]] = tb.ttl
    BY <1>1 DEF Tables
  <1>3. [d EXCEPT !.ttl = tb.ttl] = d
    BY <1>1
  <1>. QED BY <1>2, <1>3 DEF Insert, SetTtl

\* The effect of a batch is the abstract one when what was read still holds.
LEMMA EffectIsAbstract ==
    ASSUME ~Careless, db \in Tables, NEW c \in Call, c.op \in OpName \ Begins, c.pc = "batch", Seen(c, db, now)
    PROVE  Abs!IsEffect(Effect(db, c), Pending(c))
  <1>1. /\ Pending(c).op = c.op /\ Pending(c).keys = c.keys
        /\ Pending(c).pairs = c.pairs /\ Pending(c).exp = c.exp
        /\ Pending(c).since = c.since
    BY DEF Pending
  <1>k. c.keys \in SUBSET Key
    BY DEF Call
  <1>2. CASE c.op \in {"put", "batch_write", "put_returning"}
    <2>1. Effect(db, c) = Insert(db, c.keys, c.pairs, NoExpiry)
      BY <1>2 DEF Effect
    <2>. QED BY <1>1, <1>2, <2>1, AbsInsert DEF Abs!IsEffect
  <1>3. CASE c.op = "put_with_ttl"
    <2>1. Effect(db, c) = Insert(db, c.keys, c.pairs, c.exp)
      BY <1>3 DEF Effect
    <2>. QED BY <1>1, <1>3, <2>1, AbsInsert DEF Abs!IsEffect
  <1>4. CASE c.op = "batch_write_across"
    <2>1. Effect(db, c) = SetData(db, c.keys, c.pairs)
      BY <1>4 DEF Effect
    <2>2. \A k \in c.keys : db.ttl[k] = NoExpiry
      BY <1>4 DEF Seen
    <2>3. Effect(db, c) = Insert(db, c.keys, c.pairs, NoExpiry)
      BY <1>k, <2>1, <2>2, CleanSidecar
    <2>. QED BY <1>1, <1>4, <2>3, AbsInsert DEF Abs!IsEffect
  <1>5. CASE c.op \in {"delete", "batch_delete"}
    <2>1. Effect(db, c) = Remove(db, c.keys)
      BY <1>5 DEF Effect
    <2>. QED BY <1>1, <1>5, <2>1, AbsInsert DEF Abs!IsEffect
  <1>6. CASE c.op \in {"get", "ttl", "purge_expired"}
    <2>1. Effect(db, c) = Remove(db, c.keys)
      BY <1>6 DEF Effect
    <2>2. c.keys \subseteq ExpiredKeys(db, now)
      BY <1>6, <1>k DEF Seen, Evicting, ExpiredKeys
    <2>. QED BY <1>1, <1>6, <2>1, <2>2, AbsInsert DEF Abs!IsEffect
  <1>7. CASE c.op = "expire"
    <2>1. Effect(db, c) = SetTtl(db, c.keys, c.exp)
      BY <1>7 DEF Effect
    <2>2. \A k \in c.keys : Visible(db, c.since)[k] # Absent
      BY <1>7 DEF Seen
    <2>. QED BY <1>1, <1>7, <2>1, <2>2, AbsInsert DEF Abs!IsEffect, Abs!WasLive
  <1>8. CASE c.op = "persist"
    <2>1. Effect(db, c) = SetTtl(db, c.keys, NoExpiry)
      BY <1>8 DEF Effect
    <2>2. \A k \in c.keys : Visible(db, c.since)[k] # Absent
      BY <1>8 DEF Seen
    <2>. QED BY <1>1, <1>8, <2>1, <2>2, AbsInsert DEF Abs!IsEffect, Abs!WasLive
  <1>. QED BY <1>2, <1>3, <1>4, <1>5, <1>6, <1>7, <1>8 DEF OpName, Begins

\* The steps of a plain call: the eviction of put_returning is an abstract
\* Evict, the end of the call a Respond, the rest invisible.
LEMMA PlainStep ==
    ASSUME ~Careless, IInv, IInv', Serial(workload), NEW t \in Thread,
           Probe(t) \/ Evict(t) \/ Commit(t) \/ WriteError(t)
    PROVE  Abs!Respond(t) \/ Abs!Evict \/ UNCHANGED Abs!vars
  <1>1. UNCHANGED <<now, txn_lock, overlay, snap>> /\ call[t].pc \in {"probe", "evict", "batch"}
    BY DEF Probe, Evict, Commit, WriteError
  <1>t. /\ call \in [Thread -> Call] /\ call[t] \in Call /\ TypeOK
        /\ call[t].op \in OpName \ Begins /\ Seen(call[t], db, now)
        /\ call[t].keys \in SUBSET Key /\ db \in Tables
    BY <1>1, SerialSeen DEF IInv, TypeOK, CallsOK, CallShape, Call
  <1>2. OpenBar' = OpenBar /\ StagedBar' = StagedBar
    <2>1. call'[t].pc \notin {"cas_read", "cas_commit"}
      BY <1>t, IdleFacts DEF Probe, Evict, Commit, WriteError, Return, Call
    <2>2. \A u \in Thread : u # t => call'[u] = call[u]
      BY <1>t DEF Probe, Evict, Commit, WriteError, Return
    <2>. QED BY <1>1, <2>1, <2>2, SameTxnBar
  <1>3. ASSUME call' = [call EXCEPT ![t].pc = "batch"], db' = db PROVE UNCHANGED Abs!vars
    BY <1>1, <1>2, <1>3, <1>t, MoveBar, StutterStep
  <1>4. ASSUME call' = [call EXCEPT ![t] = Idle],
               db' = db \/ Abs!IsEffect(db', Pending(call[t]))
        PROVE  Abs!Respond(t)
    <2>1. call[t].op # "none"
      BY <1>t DEF OpName
    <2>. QED BY <1>1, <1>2, <1>4, <1>t, <2>1, RespondStep
  <1>5. CASE Probe(t)
    BY <1>3, <1>4, <1>5 DEF Probe, Return
  <1>6. CASE WriteError(t)
    BY <1>4, <1>6 DEF WriteError, Return
  <1>7. CASE Commit(t)
    BY <1>4, <1>7, <1>t, EffectIsAbstract DEF Commit, Return
  <1>8. CASE Evict(t)
    <2>1. call[t].pc = "evict" /\ db' = Remove(db, call[t].keys)
      BY <1>8 DEF Evict
    <2>2. call[t].keys \subseteq ExpiredKeys(db, now)
      BY <1>t, <2>1 DEF Seen, Evicting, ExpiredKeys
    <2>3. ReqBar' = ReqBar
      BY <1>8, <1>t, MoveBar DEF Evict
    <2>. QED BY <1>1, <1>2, <2>1, <2>2, <2>3, AbsInsert DEF Abs!Evict
  <1>. QED BY <1>5, <1>6, <1>7, <1>8

\* Taking txn_lock begins a client's transaction, or is invisible.
LEMMA LockStep ==
    ASSUME IInv, IInv', NEW t \in Thread, LockTxn(t)
    PROVE  Abs!BeginTxn(t) \/ UNCHANGED Abs!vars
  <1>1. /\ call[t].pc = "lock" /\ txn_lock = Nobody /\ txn_lock' = t /\ overlay' = NoOverlay
        /\ UNCHANGED <<db, now>>
    BY DEF LockTxn
  <1>t. call \in [Thread -> Call] /\ TypeOK
    BY DEF IInv, TypeOK
  <1>2. OpenBar = {} /\ StagedBar = [u \in Thread |-> NoOverlay]
    BY <1>1, NoClientTxn
  <1>3. CASE call[t].op = "transaction"
    <2>1. call' = [call EXCEPT ![t] = Idle]
      BY <1>3 DEF LockTxn
    <2>2. \A u \in Thread : InClientTxn(u)' <=> u = t
      BY <1>1, <1>t, <2>1, IdleFacts DEF InClientTxn
    <2>3. OpenBar' = {t}
      BY <2>2 DEF OpenBar
    <2>4. StagedBar' = StagedBar
      <3>1. StagedBar' = [u \in Thread |-> NoOverlay]
        BY <1>1 DEF StagedBar, NoOverlay
      <3>. QED BY <1>2, <3>1
    <2>5. ReqBar[t].op = "transaction"
      BY <1>3 DEF ReqBar, Pending
    <2>6. ReqBar' = [ReqBar EXCEPT ![t] = Abs!NoReq]
      BY <1>t, <2>1, CallBar, AbsNothing
    <2>. QED BY <1>1, <1>2, <2>3, <2>4, <2>5, <2>6 DEF Abs!BeginTxn
  <1>4. CASE call[t].op # "transaction"
    <2>1. call' = [call EXCEPT ![t].pc = "cas_read"]
      BY <1>4 DEF LockTxn
    <2>2. ReqBar' = ReqBar
      BY <1>t, <2>1, MoveBar
    <2>3. call'[t].pc = "cas_read"
      BY <1>t, <2>1 DEF Call
    <2>4. OpenBar' = {} /\ StagedBar' = [u \in Thread |-> NoOverlay]
      BY <1>1, <2>3, NoClientTxnNext
    <2>. QED BY <1>1, <1>2, <2>2, <2>4, StutterStep
  <1>. QED BY <1>3, <1>4

\* The holder of txn_lock, when idle, is the one client inside a transaction.
LEMMA ClientTxn ==
    ASSUME NEW t \in Thread, InTxn(t)
    PROVE  OpenBar = {t} /\ StagedBar = [u \in Thread |-> IF u = t THEN overlay ELSE NoOverlay]
  <1>1. \A u \in Thread : InClientTxn(u) <=> u = t
    BY IdleFacts DEF InTxn, InClientTxn
  <1>. QED BY <1>1 DEF OpenBar, StagedBar

\* The client's use of its transaction.
LEMMA TxnStepStep ==
    ASSUME IInv, IInv', NEW t \in Thread, TxnStep(t)
    PROVE  Abs!Stage(t) \/ Abs!Commit(t) \/ Abs!Rollback(t)
  <1>1. InTxn(t) /\ UNCHANGED <<now, call>>
    BY DEF TxnStep, TxnWrite, TxnCommit, TxnRollback
  <1>2. OpenBar = {t} /\ StagedBar = [u \in Thread |-> IF u = t THEN overlay ELSE NoOverlay]
    BY <1>1, ClientTxn
  <1>3. ReqBar' = ReqBar
    BY <1>1 DEF ReqBar, Pending
  <1>4. ASSUME NEW k \in Key, NEW val \in MaybeValue, TxnWrite(t, k, val)
        PROVE  Abs!Stage(t)
    <2>1. /\ overlay' = [overlay EXCEPT ![k] = val] /\ UNCHANGED <<db, txn_lock>>
          /\ overlay \in [Key -> MaybeValue \cup {Untouched}]
      BY <1>4 DEF TxnWrite, IInv, TypeOK
    <2>2. \A u \in Thread : InClientTxn(u)' <=> u = t
      BY <1>1, <2>1, IdleFacts DEF InTxn, InClientTxn
    <2>3. OpenBar' = {t}
      BY <2>2 DEF OpenBar
    <2>4. StagedBar' = [u \in Thread |-> IF u = t THEN overlay' ELSE NoOverlay]
      BY <2>2 DEF StagedBar, NoOverlay
    <2>5. StagedBar' = [StagedBar EXCEPT ![t] = [StagedBar[t] EXCEPT ![k] = val]]
      BY <1>2, <2>1, <2>4
    <2>6. k \in Key /\ val \in Abs!MaybeValue
      BY DEF Abs!MaybeValue, MaybeValue
    <2>. QED BY <1>1, <1>2, <1>3, <2>1, <2>3, <2>5, <2>6 DEF Abs!Stage
  <1>5. ASSUME TxnCommit(t) \/ TxnRollback(t) PROVE Abs!Commit(t) \/ Abs!Rollback(t)
    <2>1. txn_lock' = Nobody /\ db' \in {db, Applied(db, overlay)}
      BY <1>5 DEF TxnCommit, TxnRollback, EndTxn
    <2>2. OpenBar' = {} /\ StagedBar' = [u \in Thread |-> NoOverlay]
      BY <2>1, NoClientTxnNext
    <2>3. StagedBar' = [StagedBar EXCEPT ![t] = Abs!NothingStaged]
      BY <1>2, <2>2, AbsNothing
    <2>4. Abs!EndTxn(t)
      BY <1>1, <1>2, <1>3, <2>2, <2>3 DEF Abs!EndTxn
    <2>5. Applied(db, overlay) = Abs!Applied(db, StagedBar[t])
      BY <1>2, AbsInsert DEF Applied, Abs!Applied
    <2>6. CASE TxnCommit(t)
      <3>1. db' = Applied(db, overlay)
        BY <2>6 DEF TxnCommit
      <3>. QED BY <2>4, <2>5, <3>1 DEF Abs!Commit
    <2>7. CASE TxnRollback(t)
      BY <2>4, <2>7 DEF TxnRollback, Abs!Rollback
    <2>. QED BY <1>5, <2>6, <2>7
  <1>. QED BY <1>4, <1>5 DEF TxnStep

\* A compare_and_swap inside its transaction: the comparison is invisible, the
\* end a Respond.
LEMMA CasStep ==
    ASSUME IInv, IInv', Serial(workload), NEW t \in Thread,
           CasRead(t) \/ CasCommit(t) \/ CasError(t)
    PROVE  Abs!Respond(t) \/ UNCHANGED Abs!vars
  <1>1. call[t].pc \in {"cas_read", "cas_commit"} /\ UNCHANGED now
    BY DEF CasRead, CasCommit, CasError
  <1>t. /\ call \in [Thread -> Call] /\ TypeOK /\ txn_lock = t
        /\ call[t].op = "compare_and_swap" /\ Seen(call[t], db, now)
    BY <1>1, SerialSeen DEF IInv, TypeOK, CallsOK, CallShape, Locking
  <1>2. OpenBar = {} /\ StagedBar = [u \in Thread |-> NoOverlay]
    BY <1>1, <1>t, NoClientTxn
  <1>3. ASSUME call' = [call EXCEPT ![t].pc = "cas_commit"], UNCHANGED <<db, txn_lock, overlay>>
        PROVE  UNCHANGED Abs!vars
    <2>1. ReqBar' = ReqBar
      BY <1>3, <1>t, MoveBar
    <2>2. call'[t].pc = "cas_commit"
      BY <1>3, <1>t DEF Call
    <2>3. OpenBar' = {} /\ StagedBar' = [u \in Thread |-> NoOverlay]
      BY <1>3, <1>t, <2>2, NoClientTxnNext
    <2>. QED BY <1>1, <1>2, <1>3, <2>1, <2>3, StutterStep
  <1>4. ASSUME EndTxn, call' = [call EXCEPT ![t] = Idle],
               db' = db \/ Abs!IsEffect(db', Pending(call[t]))
        PROVE  Abs!Respond(t)
    <2>1. txn_lock' = Nobody
      BY <1>4 DEF EndTxn
    <2>2. OpenBar' = {} /\ StagedBar' = [u \in Thread |-> NoOverlay]
      BY <2>1, NoClientTxnNext
    <2>. QED BY <1>1, <1>2, <1>4, <1>t, <2>2, RespondStep
  <1>5. ASSUME CasCommit(t) PROVE Abs!IsEffect(db', Pending(call[t]))
    <2>1. db' = Insert(db, call[t].keys, call[t].pairs, NoExpiry)
      BY <1>5 DEF CasCommit
    <2>2. \A k \in call[t].keys : CasMatches(db, k, call[t].old, call[t].since, now)
      BY <1>5, <1>t DEF CasCommit, Seen
    <2>3. /\ Pending(call[t]).op = "compare_and_swap" /\ Pending(call[t]).keys = call[t].keys
          /\ Pending(call[t]).pairs = call[t].pairs /\ Pending(call[t]).old = call[t].old
          /\ Pending(call[t]).since = call[t].since
      BY <1>t DEF Pending
    <2>. QED BY <2>1, <2>2, <2>3, AbsInsert DEF Abs!IsEffect
  <1>6. ASSUME CasRead(t) PROVE Abs!Respond(t) \/ UNCHANGED Abs!vars
    BY <1>3, <1>4, <1>6 DEF CasRead, Return
  <1>7. ASSUME CasCommit(t) \/ CasError(t) PROVE Abs!Respond(t) \/ UNCHANGED Abs!vars
    BY <1>4, <1>5, <1>7 DEF CasCommit, CasError, Return
  <1>. QED BY <1>6, <1>7

\* Every step of FjallStore is a step of KvStore or invisible.
LEMMA StepRefines ==
    ASSUME ~Careless, IInv, IInv', Serial(workload), [Next]_vars
    PROVE  [Abs!Next]_(Abs!vars)
  <1>1. ASSUME NEW t \in Thread, Start(t) PROVE [Abs!Next]_(Abs!vars)
    BY <1>1, StartStep DEF Abs!Next
  <1>2. ASSUME NEW t \in Thread, Progress(t) PROVE [Abs!Next]_(Abs!vars)
    BY <1>2, PlainStep, LockStep, CasStep DEF Progress, Abs!Next
  <1>3. ASSUME NEW t \in Thread, TxnStep(t) PROVE [Abs!Next]_(Abs!vars)
    BY <1>3, TxnStepStep DEF Abs!Next
  <1>4. ASSUME UNCHANGED <<db, txn_lock, overlay, call>>
        PROVE  ReqBar' = ReqBar /\ OpenBar' = OpenBar /\ StagedBar' = StagedBar
    BY <1>4 DEF ReqBar, OpenBar, StagedBar, Pending, InClientTxn, NoOverlay
  <1>5. ASSUME (\E t \in Thread : snapshot(t) \/ DropSnapshot(t)) \/ UNCHANGED vars
        PROVE  [Abs!Next]_(Abs!vars)
    <2>1. UNCHANGED <<db, now, txn_lock, overlay, call>>
      BY <1>5 DEF snapshot, DropSnapshot, vars
    <2>. QED BY <1>4, <2>1, StutterStep
  <1>6. ASSUME Tick PROVE [Abs!Next]_(Abs!vars)
    <2>1. UNCHANGED <<db, txn_lock, overlay, call>> /\ now' = now + 1
      BY <1>6 DEF Tick
    <2>. QED BY <1>4, <2>1 DEF Abs!Tick, Abs!Next
  <1>. QED BY <1>1, <1>2, <1>3, <1>5, <1>6 DEF Next, Step

\* For serial workloads fjall's store is the store the documentation promises:
\* every call takes effect at one instant or not at all, an eviction removes
\* only what has expired, and every transaction is applied as a whole; as long
\* as expire and persist are called on keys that have not expired and
\* batch_write_across on keys that have no expiry.
THEOREM Refinement ==
    ASSUME ~Careless, \A w \in Workloads : Serial(w)
    PROVE  Spec => Refines
  <1>. DEFINE Fixed == workload \in Workloads
  <1>1. Init => Fixed
    BY DEF Init
  <1>2. Fixed /\ [Next]_vars => Fixed'
    BY DEF Next, vars
  <1>3. IInv /\ IInv' /\ Fixed /\ [Next]_vars => [Abs!Next]_(Abs!vars)
    BY StepRefines
  <1>. QED BY <1>1, <1>2, <1>3, AbsInitial, Invariance, PTL DEF Spec, Refines, Abs!Spec
=============================================================================
