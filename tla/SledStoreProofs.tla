--------------------------- MODULE SledStoreProofs ---------------------------
(***************************************************************************)
(* Proofs about SledStore, for any keys, values, threads and clock.  Two   *)
(* trees written one after the other agree only for some workloads; which  *)
(* ones is part of each theorem's statement.                               *)
(***************************************************************************)
EXTENDS SledStore, TLAPS

(***************************************************************************)
(* The data and TTL tables.                                                *)
(***************************************************************************)
\* The empty tables, the empty map and the absent expiry have their types.
LEMMA CoreTypes ==
    /\ EmptyTables \in Tables
    /\ NoPairs \in [Key -> MaybeValue]
    /\ NoExpiry \in Expiry
    /\ Absent \in MaybeValue
    /\ \A v \in Value : v \in MaybeValue
  BY DEF EmptyTables, Tables, NoPairs, MaybeValue, NoExpiry, Expiry

\* Writing pairs to the data table yields tables again.
LEMMA SetDataType ==
    ASSUME NEW tb \in Tables, NEW keys \in SUBSET Key, NEW pairs \in [Key -> MaybeValue]
    PROVE  SetData(tb, keys, pairs) \in Tables
  BY DEF SetData, Tables

\* Writing an expiry to the TTL table yields tables again.
LEMMA SetTtlType ==
    ASSUME NEW tb \in Tables, NEW keys \in SUBSET Key, NEW exp \in Expiry
    PROVE  SetTtl(tb, keys, exp) \in Tables
  BY DEF SetTtl, Tables

\* The expiry and the value of a key after a write to the TTL table.
LEMMA SetTtlAt ==
    ASSUME NEW tb \in Tables, NEW keys, NEW exp, NEW k \in Key
    PROVE  /\ SetTtl(tb, keys, exp).ttl[k] = IF k \in keys THEN exp ELSE tb.ttl[k]
           /\ SetTtl(tb, keys, exp).data[k] = tb.data[k]
  BY DEF SetTtl, Tables

\* What is visible under one key.
LEMMA VisibleAt ==
    ASSUME NEW tb, NEW time, NEW k \in Key
    PROVE  Visible(tb, time)[k] = IF is_expired(tb.ttl[k], time) THEN Absent ELSE tb.data[k]
  BY DEF Visible

\* The calls that give a key an expiry.
SetsTtl == {"put_with_ttl", "expire"}

\* Nobody gives a key an expiry.
NoTtl(w) == \A t \in Thread : w.ops[t] \cap SetsTtl = {}

\* One thread uses the store; or one thread writes it, and others take snapshots.
Lone(w) == \E a \in Thread : \A t \in Thread \ {a} : w.ops[t] = {}
Writer(a, w) == \A t \in Thread \ {a} : w.ops[t] \subseteq {"snapshot"}
OneWriter(w) == \E a \in Thread : Writer(a, w)

\* The workloads for which the two trees act as one: no expiry is ever set, or
\* one thread writes and none of its operations fails half way.
Orderly(w) == NoTtl(w) \/ (OneWriter(w) /\ ~w.fails)

Erases == {"delete", "batch_delete", "get", "ttl", "purge_expired"}
WritesData == {"put", "batch_write", "put_with_ttl", "compare_and_swap"} \cup Erases

\* What a call in each of its steps carries.
CallShape(c) ==
    /\ c.pc = "idle" <=> c = Idle
    /\ c.op = "none" <=> c = Idle
    /\ c.pc = "probe" => c.op = "ttl"
    /\ c.pc = "data" => c.op \in WritesData
    /\ c.pc = "ttl" => c.op \in WritesData \cup SidecarOnly
    /\ c.pc = "purge" => c.op = "purge_expired"
    /\ c.pc = "ttl_each" <=> c.op = "commit"
    /\ c.pc \in {"snap_ttl", "snap_data"} <=> c.op = "snapshot"
    /\ c.op \in SetsTtl <=> c.exp # NoExpiry
    /\ c.op \in Erases => c.pairs = NoPairs
    /\ c.rest # {} => c.op \in {"purge_expired", "commit", "snapshot"}

\* A call that has just begun, and what it has looked at before.
FirstStep(c) ==
    /\ CallShape(c) /\ c.op \in OpName /\ c.since = now
    /\ c.pc \in {"probe", "data", "ttl", "purge"}
    /\ c.pc = "ttl" => c.op \in SidecarOnly

\* What ttl asks is one key's; what an eviction, an expire, a persist (of keys
\* with an expiry) or a swap has seen is still so.
Holding(c, data, ttl, time) ==
    /\ c.op = "ttl" => \A k, l \in c.keys : k = l
    /\ c.pc = "data" /\ c.op \in Evicts => \A k \in c.keys : is_expired(ttl[k], time)
    /\ c.op = "expire" => \A k \in c.keys : data[k] # Absent
    /\ c.op = "persist" => \/ \A k \in c.keys : data[k] # Absent
                           \/ \A k \in c.keys : ttl[k] = NoExpiry
    /\ ~Careless /\ (\/ c.op \in {"expire", "persist"}
                     \/ c.op = "compare_and_swap" /\ c.pc = "data") =>
          c.since <= time /\ \A k \in c.keys : ~is_expired(ttl[k], c.since)

CallsOK(cs, w) ==
    \A t \in Thread : CallShape(cs[t]) /\ (cs[t] = Idle \/ cs[t].op \in w.ops[t])

TxnsOK(xs, w) ==
    /\ xs \in [Thread -> [open : BOOLEAN, overlay : [Key -> MaybeValue \cup {Untouched}]]]
    /\ \A t \in Thread : xs[t].open => "commit" \in w.ops[t]

\* The inductive invariant: types, the shape of the calls, and an empty TTL
\* tree as long as nobody sets an expiry.
IInv ==
    /\ TypeOK
    /\ workload \in Workloads
    /\ CallsOK(call, workload)
    /\ TxnsOK(txn, workload)
    /\ NoTtl(workload) => \A k \in Key : ttl_tree[k] = NoExpiry

-----------------------------------------------------------------------------
\* The fields of the record of a thread that runs no call.
LEMMA IdleFacts ==
    /\ Idle \in Call /\ CallShape(Idle)
    /\ Idle.op = "none" /\ Idle.pc = "idle" /\ Idle.keys = {} /\ Idle.pairs = NoPairs
    /\ Idle.exp = NoExpiry /\ Idle.old = Absent /\ Idle.rest = {} /\ Idle.since = 0
  <1>1. Idle \in Call
    BY CoreTypes DEF Idle, Call
  <1>2. /\ Idle.op = "none" /\ Idle.pc = "idle" /\ Idle.keys = {} /\ Idle.pairs = NoPairs
        /\ Idle.exp = NoExpiry /\ Idle.old = Absent /\ Idle.rest = {} /\ Idle.since = 0
    BY DEF Idle
  <1>. QED BY <1>1, <1>2 DEF CallShape, SetsTtl, Erases, WritesData, SidecarOnly

\* The two trees as one record of the contract's tables.
LEMMA StoredFacts ==
    ASSUME TypeOK
    PROVE  /\ Stored \in Tables /\ Stored.data = tree /\ Stored.ttl = ttl_tree
           /\ tree \in [Key -> MaybeValue] /\ ttl_tree \in [Key -> Expiry]
  BY DEF TypeOK, Stored, Tables

\* What a reader sees of a key is a value or Absent.
LEMMA VisibleType ==
    ASSUME NEW tb \in Tables, NEW time
    PROVE  Visible(tb, time) \in [Key -> MaybeValue]
  BY CoreTypes DEF Visible, Tables, MaybeValue

\* The calls after one thread's has changed.
LEMMA CallsStep ==
    ASSUME IInv, NEW t \in Thread, NEW c \in Call, CallShape(c),
           c = Idle \/ c.op \in workload.ops[t], call' = [call EXCEPT ![t] = c],
           workload' = workload
    PROVE  call' \in [Thread -> Call] /\ CallsOK(call', workload')
  <1>1. call \in [Thread -> Call] /\ CallsOK(call, workload)
    BY DEF IInv, TypeOK
  <1>2. \A u \in Thread : call'[u] = IF u = t THEN c ELSE call[u]
    BY <1>1
  <1>. QED BY <1>1, <1>2 DEF CallsOK

\* What Observe records keeps the type of the history.
LEMMA ObserveType ==
    ASSUME TypeOK, NEW tb \in Tables, NEW time, Observe(tb, time)
    PROVE  seen' \in [Thread -> SUBSET [Key -> MaybeValue]]
  BY VisibleType DEF Observe, TypeOK

\* The record of a closed SledTxn is well typed.
LEMMA NoTxnType ==
    NoTxn \in [open : BOOLEAN, overlay : [Key -> MaybeValue \cup {Untouched}]]
  BY DEF NoTxn, NoTouch

\* SledStore::open starts from two empty trees and no call under way.
LEMMA InitIInv == Init => IInv
  <1>. SUFFICES ASSUME Init PROVE IInv
    OBVIOUS
  <1>1. Stored \in Tables
    BY CoreTypes DEF Init, Stored, Tables
  <1>2. TypeOK
    BY <1>1, IdleFacts, WorkloadAssumption, CoreTypes
       DEF Init, TypeOK, NoTxn, NoTouch, NoSnap
  <1>3. CallsOK(call, workload)
    BY IdleFacts DEF Init, CallsOK
  <1>4. TxnsOK(txn, workload)
    BY NoTxnType DEF Init, TxnsOK, NoTxn
  <1>. QED BY <1>2, <1>3, <1>4 DEF Init, IInv

\* A step that changes nothing but calls, transactions, snapshots and history.
LEMMA QuietStep ==
    ASSUME IInv, UNCHANGED <<workload, tree, ttl_tree, now>>,
           call' \in [Thread -> Call] /\ CallsOK(call', workload'),
           TxnsOK(txn', workload'),
           snap' \in [Thread -> [held : BOOLEAN, data : [Key -> MaybeValue]]],
           fresh' \subseteq Key, seen' \in [Thread -> SUBSET [Key -> MaybeValue]]
    PROVE  IInv'
  <1>1. TypeOK'
    BY DEF IInv, TypeOK, Stored, TxnsOK
  <1>. QED BY <1>1 DEF IInv, NoTtl

\* A step that writes one of the trees.
LEMMA TreeStep ==
    ASSUME IInv, UNCHANGED <<workload, now, snap>>,
           [data |-> tree', ttl |-> ttl_tree'] \in Tables,
           call' \in [Thread -> Call] /\ CallsOK(call', workload'),
           TxnsOK(txn', workload'),
           fresh' \subseteq Key, Observe([data |-> tree', ttl |-> ttl_tree'], now),
           NoTtl(workload) => \A k \in Key : ttl_tree'[k] = NoExpiry
    PROVE  IInv'
  <1>1. seen' \in [Thread -> SUBSET [Key -> MaybeValue]]
    BY ObserveType DEF IInv
  <1>2. TypeOK'
    BY <1>1 DEF IInv, TypeOK, Stored, TxnsOK
  <1>. QED BY <1>2 DEF IInv, NoTtl

-----------------------------------------------------------------------------
\* The record of a call that writes.
LEMMA WriteIs ==
    ASSUME NEW op, NEW keys, NEW pairs, NEW exp
    PROVE  Write(op, keys, pairs, exp) =
              [op |-> op, pc |-> "data", keys |-> keys, pairs |-> pairs, exp |-> exp,
               old |-> Absent, rest |-> {}, since |-> now]
  BY DEF Write

\* A call that visits keys.
LEMMA IterateIs ==
    ASSUME TypeOK, NEW keys \in SUBSET Key,
           NEW op \in {"purge_expired", "commit", "snapshot"},
           NEW pc \in {"purge", "ttl_each", "snap_ttl"},
           pc = "purge" <=> op = "purge_expired", pc = "ttl_each" <=> op = "commit"
    PROVE  LET c == Iterate(op, pc, keys)
           IN  /\ c \in Call /\ CallShape(c) /\ c.op = op /\ c.pc = pc
               /\ c.keys = {} /\ c.rest = keys /\ c.exp = NoExpiry /\ c.since = now
  <1>. DEFINE c == Iterate(op, pc, keys)
  <1>1. /\ c.op = op /\ c.pc = pc /\ c.keys = {} /\ c.rest = keys /\ c.exp = NoExpiry
        /\ c.pairs = NoPairs /\ c.since = now
    BY DEF Iterate
  <1>2. c \in Call
    BY CoreTypes DEF Call, OpName, Iterate, TypeOK
  <1>3. c # Idle
    BY <1>1, IdleFacts
  <1>. HIDE DEF c
  <1>4. CallShape(c)
    BY <1>1, <1>3 DEF CallShape, SetsTtl, Erases
  <1>. QED BY <1>1, <1>2, <1>4 DEF c

\* A batch of one key's update is well typed.
LEMMA PairType ==
    ASSUME NEW k \in Key, NEW v \in MaybeValue
    PROVE  Pair(k, v) \in [Key -> MaybeValue]
  BY CoreTypes DEF Pair, NoPairs

\* A call that has just been made, whatever its first step.
Made(op, pc, keys, pairs, exp, old) ==
    [op |-> op, pc |-> pc, keys |-> keys, pairs |-> pairs, exp |-> exp, old |-> old, rest |-> {},
     since |-> now]

\* The record of a call that writes is well typed when its parts are.
LEMMA CallIs ==
    ASSUME TypeOK, NEW op \in OpName, NEW pc \in {"probe", "data", "ttl"}, NEW keys \in SUBSET Key,
           NEW pairs \in [Key -> MaybeValue], NEW exp \in Expiry, NEW old \in MaybeValue,
           pc = "probe" => op = "ttl", pc = "data" => op \in WritesData,
           pc = "ttl" => op \in SidecarOnly,
           op \in SetsTtl <=> exp # NoExpiry, op \in Erases => pairs = NoPairs
    PROVE  LET c == Made(op, pc, keys, pairs, exp, old)
           IN  /\ c \in Call /\ FirstStep(c)
               /\ c.op = op /\ c.pc = pc /\ c.keys = keys /\ c.since = now
  <1>. DEFINE c == Made(op, pc, keys, pairs, exp, old)
  <1>1. c \in Call
    BY DEF Call, Made, TypeOK
  <1>2. /\ c.op = op /\ c.pc = pc /\ c.exp = exp /\ c.pairs = pairs /\ c.rest = {}
        /\ c.keys = keys /\ c.since = now
    BY DEF Made
  <1>3. op \notin {"commit", "snapshot", "none"}
    BY DEF WritesData, Erases, SidecarOnly
  <1>4. c # Idle
    BY <1>2, <1>3, IdleFacts
  <1>. HIDE DEF c
  <1>5. CallShape(c)
    BY <1>2, <1>3, <1>4 DEF CallShape
  <1>. QED BY <1>1, <1>2, <1>5 DEF c, FirstStep

\* Entering a call changes the caller's record only.
LEMMA BeginIInv ==
    ASSUME IInv, NEW t \in Thread, NEW c \in Call, CallShape(c), Begin(t, c),
           workload' = workload
    PROVE  IInv'
  <1>1. call' \in [Thread -> Call] /\ CallsOK(call', workload')
    BY CallsStep DEF Begin
  <1>2. TypeOK
    BY DEF IInv
  <1>3. TxnsOK(txn', workload')
    BY DEF IInv, Begin
  <1>. QED BY <1>1, <1>2, <1>3, QuietStep DEF Begin, TypeOK

\* A call that begins holds what it has looked at.
LEMMA MadeHolds ==
    ASSUME TypeOK, NEW op \in OpName, NEW pc \in {"probe", "data", "ttl"}, NEW keys \in SUBSET Key,
           NEW pairs \in [Key -> MaybeValue], NEW exp \in Expiry, NEW old \in MaybeValue,
           pc = "probe" => op = "ttl", pc = "data" => op \in WritesData,
           pc = "ttl" => op \in SidecarOnly,
           op \in SetsTtl <=> exp # NoExpiry, op \in Erases => pairs = NoPairs,
           pc = "data" /\ op \in Evicts => \A k \in keys : is_expired(ttl_tree[k], now),
           op \in {"expire", "persist"} => \A k \in keys : tree[k] # Absent,
           op = "ttl" => \A k, l \in keys : k = l,
           NEW t, Begin(t, Made(op, pc, keys, pairs, exp, old))
    PROVE  \E c \in Call : FirstStep(c) /\ Holding(c, tree, ttl_tree, now) /\ Begin(t, c)
  <1>. DEFINE c == Made(op, pc, keys, pairs, exp, old)
  <1>0. now \in Nat
    BY DEF TypeOK
  <1>1. c \in Call /\ FirstStep(c) /\ c.op = op /\ c.pc = pc /\ c.keys = keys /\ c.since = now
    BY CallIs
  <1>2. Begin(t, c)
    OBVIOUS
  <1>. HIDE DEF c
  <1>3. Careless \/ (op \in {"expire", "persist", "compare_and_swap"} =>
                        \A k \in keys : ~is_expired(ttl_tree[k], now))
    BY <1>1, <1>2 DEF Begin, Overlooks
  <1>4. Holding(c, tree, ttl_tree, now)
    BY <1>0, <1>1, <1>3 DEF Holding
  <1>. QED BY <1>1, <1>2, <1>4

\* Every call that starts has the shape of its first step.
LEMMA StartShape ==
    ASSUME IInv, NEW t \in Thread, Start(t)
    PROVE  \/ \E c \in Call : FirstStep(c) /\ Holding(c, tree, ttl_tree, now) /\ Begin(t, c)
           \/ transaction(t) \/ snapshot(t)
  <1>. DEFINE Shaped == \E c \in Call : /\ FirstStep(c) /\ Holding(c, tree, ttl_tree, now)
                                              /\ Begin(t, c)
  <1>0. /\ NoPairs \in [Key -> MaybeValue] /\ NoExpiry \in Expiry /\ Absent \in MaybeValue
        /\ \A v \in Value : v \in MaybeValue
        /\ now \in Nat /\ \A d \in Ttl : now + d \in Expiry /\ now + d # NoExpiry
        /\ TypeOK
    BY CoreTypes, SledAssumption DEF IInv, TypeOK, Expiry, NoExpiry
  <1>1. ASSUME NEW k \in Key, NEW d \in Ttl, expire(t, k, d) PROVE Shaped
    <2>0. [Write("expire", {k}, NoPairs, now + d) EXCEPT !.pc = "ttl"]
            = Made("expire", "ttl", {k}, NoPairs, now + d, Absent)
      BY DEF Write, Made
    <2>1. Begin(t, Made("expire", "ttl", {k}, NoPairs, now + d, Absent))
      BY <1>1, <2>0 DEF expire
    <2>. QED BY <1>0, <1>1, <2>1, MadeHolds
         DEF expire, Erases, Evicts, OpName, SetsTtl, SidecarOnly, WritesData
  <1>2. ASSUME NEW k \in Key, delete(t, k) PROVE Shaped
    <2>1. Begin(t, Made("delete", "data", {k}, NoPairs, NoExpiry, Absent))
      BY <1>2, WriteIs DEF delete, Made
    <2>. QED BY <1>0, <2>1, MadeHolds
         DEF Erases, Evicts, OpName, SetsTtl, SidecarOnly, WritesData
  <1>3. ASSUME NEW k \in Key, get(t, k) PROVE Shaped
    <2>1. Begin(t, Made("get", "data", {k}, NoPairs, NoExpiry, Absent))
      BY <1>3, WriteIs DEF get, Made
    <2>. QED BY <1>0, <1>3, <2>1, MadeHolds
         DEF get, Erases, Evicts, OpName, SetsTtl, SidecarOnly, WritesData
  <1>4. ASSUME NEW k \in Key, ttl_of(t, k) PROVE Shaped
    <2>0. [Write("ttl", {k}, NoPairs, NoExpiry) EXCEPT !.pc = "probe"]
            = Made("ttl", "probe", {k}, NoPairs, NoExpiry, Absent)
      BY DEF Write, Made
    <2>1. Begin(t, Made("ttl", "probe", {k}, NoPairs, NoExpiry, Absent))
      BY <1>4, <2>0 DEF ttl_of
    <2>. QED BY <1>0, <2>1, MadeHolds
         DEF Erases, Evicts, OpName, SetsTtl, SidecarOnly, WritesData
  <1>5. ASSUME NEW k \in Key, persist(t, k) PROVE Shaped
    <2>0. [Write("persist", {k}, NoPairs, NoExpiry) EXCEPT !.pc = "ttl"]
            = Made("persist", "ttl", {k}, NoPairs, NoExpiry, Absent)
      BY DEF Write, Made
    <2>1. Begin(t, Made("persist", "ttl", {k}, NoPairs, NoExpiry, Absent))
      BY <1>5, <2>0 DEF persist
    <2>. QED BY <1>0, <1>5, <2>1, MadeHolds
         DEF persist, Erases, Evicts, OpName, SetsTtl, SidecarOnly, WritesData
  <1>6. ASSUME NEW k \in Key, NEW v \in Value, put(t, k, v) PROVE Shaped
    <2>1. Begin(t, Made("put", "data", {k}, Pair(k, v), NoExpiry, Absent))
      BY <1>6, WriteIs DEF put, Made
    <2>2. Pair(k, v) \in [Key -> MaybeValue]
      BY <1>0, PairType
    <2>. QED BY <1>0, <2>1, <2>2, MadeHolds
         DEF Erases, Evicts, OpName, SetsTtl, SidecarOnly, WritesData
  <1>7. ASSUME NEW k \in Key, NEW v \in Value, NEW d \in Ttl, put_with_ttl(t, k, v, d)
        PROVE  Shaped
    <2>1. Begin(t, Made("put_with_ttl", "data", {k}, Pair(k, v), now + d, Absent))
      BY <1>7, WriteIs DEF put_with_ttl, Made
    <2>2. Pair(k, v) \in [Key -> MaybeValue]
      BY <1>0, PairType
    <2>. QED BY <1>0, <2>1, <2>2, MadeHolds
         DEF Erases, Evicts, OpName, SetsTtl, SidecarOnly, WritesData
  <1>8. ASSUME NEW k \in Key, NEW v \in Value, NEW old \in MaybeValue,
               compare_and_swap(t, k, old, v)
        PROVE  Shaped
    <2>1. Begin(t, Made("compare_and_swap", "data", {k}, Pair(k, v), NoExpiry, old))
      BY <1>8, WriteIs DEF compare_and_swap, Made
    <2>2. Pair(k, v) \in [Key -> MaybeValue]
      BY <1>0, PairType
    <2>. QED BY <1>0, <2>1, <2>2, MadeHolds
         DEF Erases, Evicts, OpName, SetsTtl, SidecarOnly, WritesData
  <1>9. ASSUME NEW pairs \in [Key -> MaybeValue], batch_write(t, pairs) PROVE Shaped
    <2>1. Begin(t, Made("batch_write", "data", {k \in Key : pairs[k] # Absent}, pairs, NoExpiry,
                     Absent))
      BY <1>9, WriteIs DEF batch_write, Made
    <2>. QED BY <1>0, <2>1, MadeHolds
         DEF Erases, Evicts, OpName, SetsTtl, SidecarOnly, WritesData
  <1>10. ASSUME NEW keys \in SUBSET Key, batch_delete(t, keys) PROVE Shaped
    <2>1. Begin(t, Made("batch_delete", "data", keys, NoPairs, NoExpiry, Absent))
      BY <1>10, WriteIs DEF batch_delete, Made
    <2>. QED BY <1>0, <2>1, MadeHolds
         DEF Erases, Evicts, OpName, SetsTtl, SidecarOnly, WritesData
  <1>11. ASSUME purge_expired(t) PROVE Shaped
    <2>. DEFINE c == Iterate("purge_expired", "purge", Key)
    <2>1. c \in Call /\ CallShape(c) /\ c.op = "purge_expired" /\ c.pc = "purge" /\ c.since = now
      BY <1>0, IterateIs
    <2>. HIDE DEF c
    <2>2. FirstStep(c) /\ Holding(c, tree, ttl_tree, now)
      BY <2>1 DEF FirstStep, Holding, OpName
    <2>. QED BY <1>11, <2>1, <2>2 DEF purge_expired, c
  <1>. HIDE DEF Shaped
  <1>12. ASSUME NEW k \in Key,
                \/ delete(t, k) \/ get(t, k) \/ ttl_of(t, k) \/ persist(t, k)
                \/ \E d \in Ttl : expire(t, k, d)
                \/ \E v \in Value :
                    \/ put(t, k, v)
                    \/ \E d \in Ttl : put_with_ttl(t, k, v, d)
                    \/ \E old \in MaybeValue : compare_and_swap(t, k, old, v)
         PROVE  Shaped
    BY <1>1, <1>2, <1>3, <1>4, <1>5, <1>6, <1>7, <1>8, <1>12
  <1>13. Shaped \/ transaction(t) \/ snapshot(t)
    BY <1>9, <1>10, <1>11, <1>12 DEF Start
  <1>. QED BY <1>13 DEF Shaped

\* Every call may be entered, with arguments of the right type.
LEMMA StartIInv ==
    ASSUME IInv, NEW t \in Thread, Start(t), workload' = workload
    PROVE  IInv'
  <1>0. TypeOK
    BY DEF IInv
  <1>1. CASE \E c \in Call : FirstStep(c) /\ Begin(t, c)
    BY <1>1, BeginIInv DEF FirstStep
  <1>2. CASE transaction(t)
    <2>1. call' \in [Thread -> Call] /\ CallsOK(call', workload')
      BY <1>2 DEF transaction, IInv, TypeOK
    <2>2. TxnsOK(txn', workload')
      BY <1>2 DEF transaction, IInv, TxnsOK
    <2>. QED BY <1>0, <1>2, <2>1, <2>2, QuietStep DEF transaction, TypeOK
  <1>3. CASE snapshot(t)
    <2>. DEFINE c == Iterate("snapshot", "snap_ttl", Key)
    <2>3. c \in Call /\ CallShape(c) /\ c.op = "snapshot"
      BY <1>0, IterateIs
    <2>4. call' = [call EXCEPT ![t] = c] /\ "snapshot" \in workload.ops[t]
      BY <1>3 DEF snapshot
    <2>. HIDE DEF c
    <2>1. call' \in [Thread -> Call] /\ CallsOK(call', workload')
      BY <2>3, <2>4, CallsStep
    <2>0. Visible(Stored, now) \in [Key -> MaybeValue]
      BY <1>0, StoredFacts, VisibleType
    <2>2. seen' \in [Thread -> SUBSET [Key -> MaybeValue]]
      BY <1>0, <1>3, <2>0 DEF snapshot, TypeOK
    <2>5. TxnsOK(txn', workload')
      BY <1>3 DEF IInv, snapshot
    <2>. QED BY <1>0, <1>3, <2>1, <2>2, <2>5, QuietStep DEF snapshot, TypeOK
  <1>. QED BY <1>1, <1>2, <1>3, StartShape

-----------------------------------------------------------------------------
\* The call of a thread that has one.
LEMMA CallFacts ==
    ASSUME IInv, NEW t \in Thread
    PROVE  /\ call[t] \in Call /\ CallShape(call[t])
           /\ call[t].pc # "idle" => call[t] # Idle /\ call[t].op \in workload.ops[t]
           /\ call[t].keys \in SUBSET Key /\ call[t].pairs \in [Key -> MaybeValue]
           /\ call[t].exp \in Expiry /\ call[t].old \in MaybeValue /\ call[t].rest \in SUBSET Key
           /\ NoTtl(workload) => call[t].exp = NoExpiry
           /\ call[t].since \in Nat
  <1>1. call[t] \in Call /\ CallShape(call[t]) /\ (call[t] = Idle \/ call[t].op \in workload.ops[t])
    BY DEF IInv, TypeOK, CallsOK
  <1>2. /\ call[t].keys \in SUBSET Key /\ call[t].pairs \in [Key -> MaybeValue]
        /\ call[t].exp \in Expiry /\ call[t].old \in MaybeValue /\ call[t].rest \in SUBSET Key
        /\ call[t].since \in Nat
    BY <1>1 DEF Call
  <1>3. call[t].pc # "idle" => call[t] # Idle /\ call[t].op \in workload.ops[t]
    BY <1>1, IdleFacts
  <1>4. NoTtl(workload) => call[t].exp = NoExpiry
    BY <1>1, IdleFacts DEF NoTtl, CallShape
  <1>. QED BY <1>1, <1>2, <1>3, <1>4

\* Moving a call on to its next tree operation.
LEMMA MoveShape ==
    ASSUME NEW c \in Call, CallShape(c), NEW pc \in {"data", "ttl", "purge"},
           pc = "data" => c.op \in WritesData /\ c.pc \in {"probe", "purge"},
           pc = "ttl" => c.pc = "data", pc = "purge" => c.op = "purge_expired"
    PROVE  /\ [c EXCEPT !.pc = pc] \in Call /\ CallShape([c EXCEPT !.pc = pc])
           /\ [c EXCEPT !.pc = pc].op = c.op
  <1>. DEFINE d == [c EXCEPT !.pc = pc]
  <1>1. /\ d \in Call /\ d.pc = pc /\ d.op = c.op /\ d.exp = c.exp /\ d.pairs = c.pairs
        /\ d.rest = c.rest
    BY DEF Call
  <1>2. d # Idle
    BY <1>1, IdleFacts
  <1>3. c # Idle
    BY IdleFacts DEF CallShape, WritesData, Erases
  <1>. HIDE DEF d
  <1>4. CallShape(d)
    BY <1>1, <1>2, <1>3 DEF CallShape, WritesData, Erases
  <1>. QED BY <1>1, <1>4 DEF d

\* Changing what an iteration has collected and has left.
LEMMA IterateShape ==
    ASSUME NEW c \in Call, CallShape(c), NEW d \in Call,
           c.op \in {"purge_expired", "commit", "snapshot"},
           d.op = c.op, d.exp = c.exp, d.pairs = c.pairs,
           d.pc = c.pc \/ (c.pc = "snap_ttl" /\ d.pc = "snap_data")
                       \/ (c.op = "purge_expired" /\ d.pc \in {"purge", "data"})
    PROVE  CallShape(d)
  <1>1. c # Idle /\ c.pc # "idle"
    BY IdleFacts DEF CallShape
  <1>2. d # Idle
    BY <1>1, IdleFacts
  <1>. QED BY <1>1, <1>2 DEF CallShape, WritesData, Erases

\* The two writes of a call.
LEMMA WriteTreeIInv ==
    ASSUME IInv, NEW t \in Thread, WriteTree(t), workload' = workload
    PROVE  IInv'
  <1>. DEFINE c == call[t]
  <1>1. c.pc = "data" /\ tree' = SetData(Stored, c.keys, c.pairs).data
        /\ UNCHANGED <<ttl_tree, now, txn, snap>>
        /\ Observe([data |-> tree', ttl |-> ttl_tree], now)
    BY DEF WriteTree
  <1>2. call' = [call EXCEPT ![t] = [c EXCEPT !.pc = "ttl"]]
    BY DEF WriteTree, IInv, TypeOK
  <1>3. fresh' \subseteq Key
    BY CallFacts DEF WriteTree, IInv, TypeOK
  <1>t. c \in Call /\ CallShape(c) /\ c.op \in workload.ops[t] /\ c.keys \in SUBSET Key
        /\ c.pairs \in [Key -> MaybeValue] /\ TypeOK
    BY <1>1, CallFacts DEF IInv
  <1>. HIDE DEF c
  <1>4. [c EXCEPT !.pc = "ttl"] \in Call /\ CallShape([c EXCEPT !.pc = "ttl"])
        /\ [c EXCEPT !.pc = "ttl"].op = c.op
    BY <1>1, <1>t, MoveShape
  <1>5. call' \in [Thread -> Call] /\ CallsOK(call', workload')
    BY <1>2, <1>4, <1>t, CallsStep
  <1>6. [data |-> tree', ttl |-> ttl_tree'] \in Tables
    BY <1>1, <1>t, StoredFacts, SetDataType DEF Tables
  <1>7. TxnsOK(txn', workload')
    BY <1>1 DEF IInv
  <1>. QED BY <1>1, <1>3, <1>5, <1>6, <1>7, TreeStep DEF IInv

\* The call after a write of the sidecar.
LEMMA AfterTtlShape ==
    ASSUME IInv, NEW t \in Thread, call[t].pc = "ttl"
    PROVE  LET c == call[t]
               d == IF c.rest # {} THEN [c EXCEPT !.pc = "purge", !.keys = {}] ELSE Idle
           IN  d \in Call /\ CallShape(d) /\ (d = Idle \/ d.op \in workload.ops[t])
  <1>. DEFINE c == call[t]
  <1>t. c \in Call /\ CallShape(c) /\ c.op \in workload.ops[t] /\ c.rest \in SUBSET Key
    BY CallFacts
  <1>1. CASE c.rest # {}
    <2>1. c.op = "purge_expired"
      BY <1>1, <1>t DEF CallShape, WritesData, Erases, SidecarOnly
    <2>. DEFINE d == [c EXCEPT !.pc = "purge", !.keys = {}]
    <2>2. d \in Call /\ d.op = c.op /\ d.exp = c.exp /\ d.pairs = c.pairs /\ d.pc = "purge"
      BY <1>t DEF Call
    <2>3. CallShape(d)
      BY <1>t, <2>1, <2>2, IterateShape
    <2>. QED BY <1>1, <1>t, <2>2, <2>3
  <1>2. CASE c.rest = {}
    BY <1>2, IdleFacts
  <1>. QED BY <1>1, <1>2

\* The second half of a write: the TTL tree's batch.
LEMMA WriteTtlTreeIInv ==
    ASSUME IInv, NEW t \in Thread, WriteTtlTree(t), workload' = workload
    PROVE  IInv'
  <1>. DEFINE c == call[t]
              d == IF c.rest # {} THEN [c EXCEPT !.pc = "purge", !.keys = {}] ELSE Idle
  <1>1. c.pc = "ttl" /\ ttl_tree' = SetTtl(Stored, c.keys, c.exp).ttl
        /\ UNCHANGED <<tree, now, txn, snap>> /\ call' = [call EXCEPT ![t] = d]
        /\ Observe([data |-> tree, ttl |-> ttl_tree'], now)
    BY DEF WriteTtlTree
  <1>3. fresh' \subseteq Key
    BY DEF WriteTtlTree, IInv, TypeOK
  <1>t. c \in Call /\ c.keys \in SUBSET Key /\ c.exp \in Expiry /\ TypeOK
        /\ (NoTtl(workload) => c.exp = NoExpiry)
    BY <1>1, CallFacts DEF IInv
  <1>4. d \in Call /\ CallShape(d) /\ (d = Idle \/ d.op \in workload.ops[t])
    BY <1>1, AfterTtlShape
  <1>. HIDE DEF c, d
  <1>5. call' \in [Thread -> Call] /\ CallsOK(call', workload')
    BY <1>1, <1>4, CallsStep
  <1>6. [data |-> tree', ttl |-> ttl_tree'] \in Tables
    BY <1>1, <1>t, StoredFacts, SetTtlType DEF Tables
  <1>7. ASSUME NoTtl(workload), NEW k \in Key PROVE ttl_tree'[k] = NoExpiry
    BY <1>1, <1>7, <1>t, StoredFacts, SetTtlAt DEF IInv
  <1>8. TxnsOK(txn', workload')
    BY <1>1 DEF IInv
  <1>. QED BY <1>1, <1>3, <1>5, <1>6, <1>7, <1>8, TreeStep

\* Steps of a call that write neither tree.
LEMMA MoveIInv ==
    ASSUME IInv, NEW t \in Thread, NEW d \in Call, CallShape(d),
           d = Idle \/ d.op \in workload.ops[t], call' = [call EXCEPT ![t] = d],
           UNCHANGED <<workload, tree, ttl_tree, now, txn, fresh, seen>>,
           snap' \in [Thread -> [held : BOOLEAN, data : [Key -> MaybeValue]]]
    PROVE  IInv'
  <1>1. call' \in [Thread -> Call] /\ CallsOK(call', workload')
    BY CallsStep
  <1>. QED BY <1>1, QuietStep DEF IInv, TypeOK

\* The rest of an iteration.
LEMMA AfterShape ==
    ASSUME NEW c \in Call, CallShape(c), c.op \in {"purge_expired", "commit", "snapshot"},
           NEW k \in Key
    PROVE  /\ [c EXCEPT !.rest = @ \ {k}] \in Call /\ CallShape([c EXCEPT !.rest = @ \ {k}])
           /\ [c EXCEPT !.rest = @ \ {k}].op = c.op
           /\ [c EXCEPT !.rest = @ \ {k}].pc = c.pc
           /\ [c EXCEPT !.rest = @ \ {k}].keys = c.keys
           /\ [c EXCEPT !.rest = @ \ {k}].exp = c.exp
           /\ [c EXCEPT !.rest = @ \ {k}].rest = c.rest \ {k}
  <1>. DEFINE d == [c EXCEPT !.rest = @ \ {k}]
  <1>1. /\ d \in Call /\ d.op = c.op /\ d.exp = c.exp /\ d.pairs = c.pairs /\ d.pc = c.pc
        /\ d.keys = c.keys /\ d.rest = c.rest \ {k}
    BY DEF Call
  <1>2. CallShape(d)
    BY <1>1, IterateShape
  <1>. QED BY <1>1, <1>2

\* The containment probe of ttl ends the call.
LEMMA ProbeIInv ==
    ASSUME IInv, NEW t \in Thread, workload' = workload
    PROVE  /\ Probe(t) => IInv'
           /\ CasRefused(t) => IInv'
           /\ \A k \in Key : PurgeVisit(t, k) => IInv'
  <1>. DEFINE c == call[t]
  <1>0. snap \in [Thread -> [held : BOOLEAN, data : [Key -> MaybeValue]]] /\ Idle \in Call
        /\ CallShape(Idle)
    BY IdleFacts DEF IInv, TypeOK
  <1>1. ASSUME Probe(t) PROVE IInv'
    <2>1. c.pc = "probe" /\ c \in Call /\ CallShape(c) /\ c.op \in workload.ops[t]
      BY <1>1, CallFacts DEF Probe
    <2>2. [c EXCEPT !.pc = "data"] \in Call /\ CallShape([c EXCEPT !.pc = "data"])
          /\ [c EXCEPT !.pc = "data"].op = c.op
      BY <2>1, MoveShape DEF CallShape, WritesData, Erases
    <2>. QED BY <1>0, <1>1, <2>1, <2>2, MoveIInv DEF Probe
  <1>2. ASSUME CasRefused(t) PROVE IInv'
    BY <1>0, <1>2, MoveIInv DEF CasRefused
  <1>3. ASSUME NEW k \in Key, PurgeVisit(t, k) PROVE IInv'
    <2>1. c.pc = "purge" /\ c \in Call /\ CallShape(c) /\ c.op \in workload.ops[t]
          /\ c.rest \in SUBSET Key /\ k \in c.rest /\ c.op = "purge_expired"
      BY <1>3, CallFacts DEF PurgeVisit, CallShape
    <2>. DEFINE hit == [c EXCEPT !.pc = "data", !.keys = {k}, !.rest = c.rest \ {k},
                                   !.since = now]
                miss == [c EXCEPT !.rest = @ \ {k}]
    <2>7. /\ hit \in Call /\ hit.op = c.op /\ hit.exp = c.exp /\ hit.pairs = c.pairs
          /\ hit.pc = "data"
      BY <2>1 DEF Call, IInv, TypeOK
    <2>2. hit \in Call /\ CallShape(hit) /\ hit.op = c.op
      BY <2>1, <2>7, IterateShape
    <2>3. miss \in Call /\ CallShape(miss) /\ miss.op = c.op
      BY <2>1, AfterShape
    <2>4. call' = [call EXCEPT ![t] = hit] \/ call' = [call EXCEPT ![t] = miss]
          \/ call' = [call EXCEPT ![t] = Idle]
      <3>1. CASE is_expired(ttl_tree[k], now)
        BY <1>3, <3>1 DEF PurgeVisit
      <3>2. CASE ~is_expired(ttl_tree[k], now) /\ c.rest = {k}
        BY <1>3, <3>2 DEF PurgeVisit, After
      <3>3. CASE ~is_expired(ttl_tree[k], now) /\ c.rest # {k}
        BY <1>3, <3>3 DEF PurgeVisit, After
      <3>. QED BY <3>1, <3>2, <3>3
    <2>5. UNCHANGED <<workload, tree, ttl_tree, now, txn, snap, fresh, seen>>
      BY <1>3 DEF PurgeVisit
    <2>. HIDE DEF hit, miss, c
    <2>. QED BY <1>0, <2>1, <2>2, <2>3, <2>4, <2>5, MoveIInv
  <1>. QED BY <1>1, <1>2, <1>3

\* An operation fails: the call is over, a capture is abandoned.
LEMMA IoErrorIInv ==
    ASSUME IInv, NEW t \in Thread, IoError(t), workload' = workload
    PROVE  IInv'
  <1>1. NoSnap \in [held : BOOLEAN, data : [Key -> MaybeValue]]
    BY CoreTypes DEF NoSnap
  <1>2. snap' \in [Thread -> [held : BOOLEAN, data : [Key -> MaybeValue]]]
    BY <1>1 DEF IoError, IInv, TypeOK
  <1>. QED BY <1>2, IdleFacts, MoveIInv DEF IoError

\* What a transaction wrote, as pairs of the data tree.
LEMMA OverlayFacts ==
    ASSUME TypeOK, NEW t \in Thread
    PROVE  /\ txn[t].overlay \in [Key -> MaybeValue \cup {Untouched}]
           /\ Touched(t) \in SUBSET Key
           /\ \A k \in Touched(t) : txn[t].overlay[k] \in MaybeValue
  BY DEF TypeOK, Touched

\* The data tree after a commit.
LEMMA CommitTree ==
    ASSUME TypeOK, NEW t \in Thread
    PROVE  /\ SetData(Stored, Touched(t), txn[t].overlay).data =
                 [k \in Key |-> IF k \in Touched(t) THEN txn[t].overlay[k] ELSE tree[k]]
           /\ SetData(Stored, Touched(t), txn[t].overlay).data \in [Key -> MaybeValue]
  <1>1. SetData(Stored, Touched(t), txn[t].overlay).data =
           [k \in Key |-> IF k \in Touched(t) THEN txn[t].overlay[k] ELSE tree[k]]
    BY StoredFacts DEF SetData, Tables
  <1>. QED BY <1>1, StoredFacts, OverlayFacts

\* The steps of SledTxn: its overlay, the data batch of commit, then the TTL
\* tree key by key.
LEMMA TxnStepIInv ==
    ASSUME IInv, NEW t \in Thread, TxnStep(t), workload' = workload
    PROVE  IInv'
  <1>0. TypeOK /\ CallsOK(call, workload) /\ call \in [Thread -> Call]
    BY DEF IInv, TypeOK
  <1>1. ASSUME NEW k \in Key, NEW val \in MaybeValue, TxnWrite(t, k, val) PROVE IInv'
    <2>1. TxnsOK(txn', workload')
      BY <1>1 DEF TxnWrite, IInv, TxnsOK
    <2>. QED BY <1>0, <1>1, <2>1, QuietStep DEF TxnWrite, TypeOK
  <1>2. ASSUME TxnRollback(t) PROVE IInv'
    <2>1. TxnsOK(txn', workload')
      BY <1>2, NoTxnType DEF TxnRollback, IInv, TxnsOK, NoTxn
    <2>. QED BY <1>0, <1>2, <2>1, QuietStep DEF TxnRollback, TypeOK
  <1>3. ASSUME TxnCommit(t) PROVE IInv'
    <2>. DEFINE keys == Touched(t)
                d == IF keys = {} THEN Idle ELSE Iterate("commit", "ttl_each", keys)
    <2>1. /\ tree' = SetData(Stored, keys, txn[t].overlay).data /\ fresh' = fresh \cup keys
          /\ txn' = [txn EXCEPT ![t] = NoTxn] /\ call' = [call EXCEPT ![t] = d]
          /\ Observe([data |-> tree', ttl |-> ttl_tree], now)
          /\ UNCHANGED <<ttl_tree, now, snap>>
      BY <1>3 DEF TxnCommit
    <2>2. keys \in SUBSET Key /\ tree' \in [Key -> MaybeValue]
      BY <1>0, <2>1, OverlayFacts, CommitTree
    <2>3. "commit" \in workload.ops[t]
      BY <1>3 DEF TxnCommit, InTxn, IInv, TxnsOK
    <2>4. Iterate("commit", "ttl_each", keys) \in Call
          /\ CallShape(Iterate("commit", "ttl_each", keys))
          /\ Iterate("commit", "ttl_each", keys).op = "commit"
      BY <1>0, <2>2, IterateIs
    <2>5. d \in Call /\ CallShape(d) /\ (d = Idle \/ d.op \in workload.ops[t])
      BY <2>3, <2>4, IdleFacts
    <2>6. TxnsOK(txn', workload')
      BY <2>1, NoTxnType DEF IInv, TxnsOK, NoTxn
    <2>7. [data |-> tree', ttl |-> ttl_tree'] \in Tables
      BY <1>0, <2>1, <2>2, StoredFacts DEF Tables
    <2>. HIDE DEF keys, d
    <2>8. call' \in [Thread -> Call] /\ CallsOK(call', workload')
      BY <2>1, <2>5, CallsStep
    <2>9. fresh' \subseteq Key
      BY <1>0, <2>1, <2>2 DEF TypeOK
    <2>. QED BY <2>1, <2>6, <2>7, <2>8, <2>9, TreeStep DEF IInv
  <1>. QED BY <1>1, <1>2, <1>3 DEF TxnStep

\* The sidecar entries of a committed transaction.
LEMMA ClearTtlIInv ==
    ASSUME IInv, NEW t \in Thread, NEW k \in Key, ClearTtl(t, k), workload' = workload
    PROVE  IInv'
  <1>. DEFINE c == call[t]
              d == [c EXCEPT !.rest = @ \ {k}]
  <1>1. /\ c.pc = "ttl_each" /\ k \in c.rest /\ ttl_tree' = SetTtl(Stored, {k}, NoExpiry).ttl
        /\ Observe([data |-> tree, ttl |-> ttl_tree'], now) /\ UNCHANGED <<tree, now, txn, snap, fresh>>
    BY DEF ClearTtl
  <1>2. c \in Call /\ CallShape(c) /\ c.op \in workload.ops[t] /\ c.op = "commit" /\ TypeOK
    BY <1>1, CallFacts DEF CallShape, IInv
  <1>3. d \in Call /\ CallShape(d) /\ d.op = c.op
    BY <1>2, AfterShape
  <1>4. call' = [call EXCEPT ![t] = d] \/ call' = [call EXCEPT ![t] = Idle]
    BY DEF ClearTtl, After
  <1>. HIDE DEF c, d
  <1>5. call' \in [Thread -> Call] /\ CallsOK(call', workload')
    BY <1>2, <1>3, <1>4, IdleFacts, CallsStep
  <1>6. [data |-> tree', ttl |-> ttl_tree'] \in Tables
    BY <1>1, <1>2, StoredFacts, SetTtlType, CoreTypes DEF Tables
  <1>7. ASSUME NoTtl(workload), NEW l \in Key PROVE ttl_tree'[l] = NoExpiry
    BY <1>1, <1>2, <1>7, StoredFacts, SetTtlAt DEF IInv
  <1>8. fresh' \subseteq Key /\ TxnsOK(txn', workload')
    BY <1>1 DEF IInv, TypeOK
  <1>. QED BY <1>1, <1>5, <1>6, <1>7, <1>8, TreeStep

\* The call of a capture after it has visited k.
LEMMA SnapTtlIs ==
    ASSUME IInv, NEW t \in Thread, NEW k \in Key, SnapTtl(t, k)
    PROVE  \E d \in Call :
              /\ CallShape(d) /\ d.op = "snapshot" /\ call' = [call EXCEPT ![t] = d]
              /\ d.keys = call[t].keys \cup ({k} \cap ExpiredKeys(Stored, now))
              /\ \/ call[t].rest = {k} /\ d.pc = "snap_data" /\ d.rest = Key
                 \/ call[t].rest # {k} /\ d.pc = "snap_ttl" /\ d.rest = call[t].rest \ {k}
  <1>. DEFINE c == call[t]
              found == [c EXCEPT !.keys = @ \cup ({k} \cap ExpiredKeys(Stored, now))]
              more == [found EXCEPT !.rest = @ \ {k}]
              turn == [found EXCEPT !.pc = "snap_data", !.rest = Key]
  <1>1. c.pc = "snap_ttl" /\ k \in c.rest
    BY DEF SnapTtl
  <1>2. c \in Call /\ CallShape(c) /\ c.op = "snapshot"
    BY <1>1, CallFacts DEF CallShape
  <1>3. {k} \cap ExpiredKeys(Stored, now) \in SUBSET Key
    OBVIOUS
  <1>4. /\ found \in Call /\ found.op = c.op /\ found.pc = c.pc /\ found.pairs = c.pairs
        /\ found.exp = c.exp /\ found.rest = c.rest
        /\ found.keys = c.keys \cup ({k} \cap ExpiredKeys(Stored, now))
    BY <1>2, <1>3 DEF Call
  <1>5. CallShape(found)
    BY <1>2, <1>4, IterateShape
  <1>6. call' = [call EXCEPT ![t] = IF c.rest = {k} THEN turn ELSE more]
    BY <1>4 DEF SnapTtl, After
  <1>. HIDE DEF c, found
  <1>7. /\ more \in Call /\ CallShape(more) /\ more.op = c.op /\ more.pc = c.pc
        /\ more.keys = found.keys /\ more.rest = c.rest \ {k}
    BY <1>2, <1>4, <1>5, AfterShape
  <1>8. /\ turn \in Call /\ turn.op = c.op /\ turn.pc = "snap_data" /\ turn.pairs = c.pairs
        /\ turn.exp = c.exp /\ turn.rest = Key /\ turn.keys = found.keys
    BY <1>4 DEF Call
  <1>9. CallShape(turn)
    BY <1>1, <1>2, <1>8, IterateShape
  <1>. HIDE DEF more, turn
  <1>10. CASE c.rest = {k}
    <2>1. call' = [call EXCEPT ![t] = turn]
      BY <1>6, <1>10
    <2>. QED BY <1>2, <1>4, <1>8, <1>9, <1>10, <2>1 DEF c
  <1>11. CASE c.rest # {k}
    <2>1. call' = [call EXCEPT ![t] = more]
      BY <1>6, <1>11
    <2>. QED BY <1>1, <1>2, <1>4, <1>7, <1>11, <2>1 DEF c
  <1>. QED BY <1>10, <1>11

\* The data pass of snapshot keeps the keys its TTL map does not call elapsed.
LEMMA SnapDataIs ==
    ASSUME IInv, NEW t \in Thread, NEW k \in Key, SnapData(t, k)
    PROVE  /\ call[t].pc = "snap_data" /\ call[t].op = "snapshot" /\ k \in call[t].rest
           /\ \E d \in Call :
                 /\ CallShape(d) /\ call' = [call EXCEPT ![t] = d]
                 /\ \/ call[t].rest = {k} /\ d = Idle
                    \/ /\ call[t].rest # {k} /\ d.op = "snapshot" /\ d.pc = "snap_data"
                       /\ d.keys = call[t].keys /\ d.rest = call[t].rest \ {k}
  <1>. DEFINE c == call[t]
              more == [c EXCEPT !.rest = @ \ {k}]
  <1>1. c.pc = "snap_data" /\ k \in c.rest
    BY DEF SnapData
  <1>2. c \in Call /\ CallShape(c) /\ c.op = "snapshot"
    BY <1>1, CallFacts DEF CallShape
  <1>3. call' = [call EXCEPT ![t] = IF c.rest = {k} THEN Idle ELSE more]
    BY DEF SnapData, After
  <1>4. /\ more \in Call /\ CallShape(more) /\ more.op = c.op /\ more.pc = c.pc
        /\ more.keys = c.keys /\ more.rest = c.rest \ {k}
    BY <1>2, AfterShape
  <1>. HIDE DEF more, c
  <1>5. CASE c.rest = {k}
    BY <1>1, <1>2, <1>3, <1>5, IdleFacts DEF c
  <1>6. CASE c.rest # {k}
    BY <1>1, <1>2, <1>3, <1>4, <1>6 DEF c
  <1>. QED BY <1>5, <1>6

\* The two passes of snapshot, and its drop.
LEMMA SnapIInv ==
    ASSUME IInv, NEW t \in Thread, workload' = workload
    PROVE  /\ \A k \in Key : SnapTtl(t, k) => IInv'
           /\ \A k \in Key : SnapData(t, k) => IInv'
           /\ DropSnapshot(t) => IInv'
  <1>0. TypeOK
    BY DEF IInv
  <1>1. ASSUME NEW k \in Key, SnapTtl(t, k) PROVE IInv'
    <2>1. "snapshot" \in workload.ops[t]
      BY <1>1, CallFacts DEF SnapTtl, CallShape
    <2>2. PICK d \in Call : CallShape(d) /\ d.op = "snapshot" /\ call' = [call EXCEPT ![t] = d]
      BY <1>1, SnapTtlIs
    <2>3. UNCHANGED <<tree, ttl_tree, now, txn, snap, fresh, seen>>
      BY <1>1 DEF SnapTtl
    <2>4. snap' \in [Thread -> [held : BOOLEAN, data : [Key -> MaybeValue]]]
      BY <1>0, <2>3 DEF TypeOK
    <2>. QED BY <2>1, <2>2, <2>3, <2>4, MoveIInv
  <1>2. ASSUME NEW k \in Key, SnapData(t, k) PROVE IInv'
    <2>1. "snapshot" \in workload.ops[t]
      BY <1>2, CallFacts DEF SnapData, CallShape
    <2>2. tree[k] \in MaybeValue /\ Absent \in MaybeValue
      BY <1>0, StoredFacts, CoreTypes
    <2>3. snap' \in [Thread -> [held : BOOLEAN, data : [Key -> MaybeValue]]]
      <3>. DEFINE v == IF k \in call[t].keys THEN Absent ELSE tree[k]
                  b == (call[t].rest = {k})
      <3>1. v \in MaybeValue /\ b \in BOOLEAN
        BY <2>2
      <3>2. snap' = [snap EXCEPT ![t].data[k] = v, ![t].held = b]
        BY <1>2 DEF SnapData
      <3>. HIDE DEF v, b
      <3>. QED BY <1>0, <3>1, <3>2 DEF TypeOK
    <2>4. PICK d \in Call : /\ CallShape(d) /\ call' = [call EXCEPT ![t] = d]
                            /\ d = Idle \/ d.op = "snapshot"
      BY <1>2, SnapDataIs
    <2>5. UNCHANGED <<tree, ttl_tree, now, txn, fresh, seen>>
      BY <1>2 DEF SnapData
    <2>. QED BY <2>1, <2>3, <2>4, <2>5, MoveIInv
  <1>3. ASSUME DropSnapshot(t) PROVE IInv'
    <2>1. snap' \in [Thread -> [held : BOOLEAN, data : [Key -> MaybeValue]]]
      BY <1>0, <1>3, CoreTypes DEF DropSnapshot, TypeOK, NoSnap
    <2>2. seen' \in [Thread -> SUBSET [Key -> MaybeValue]]
      BY <1>0, <1>3 DEF DropSnapshot, TypeOK
    <2>3. call' \in [Thread -> Call] /\ CallsOK(call', workload') /\ TxnsOK(txn', workload')
      BY <1>0, <1>3 DEF DropSnapshot, IInv, TypeOK
    <2>. QED BY <1>0, <1>3, <2>1, <2>2, <2>3, QuietStep DEF DropSnapshot, TypeOK
  <1>. QED BY <1>1, <1>2, <1>3

\* The clock advances up to MaxTime.
LEMMA TickIInv ==
    ASSUME IInv, Tick, workload' = workload
    PROVE  IInv'
  <1>1. seen' \in [Thread -> SUBSET [Key -> MaybeValue]]
    BY StoredFacts, ObserveType DEF Tick, IInv
  <1>2. TypeOK'
    BY <1>1 DEF Tick, IInv, TypeOK, Stored
  <1>. QED BY <1>2 DEF Tick, IInv, NoTtl

\* Every step keeps the invariant.
LEMMA NextIInv == IInv /\ [Next]_vars => IInv'
  <1>. SUFFICES ASSUME IInv, [Next]_vars PROVE IInv'
    OBVIOUS
  <1>1. ASSUME UNCHANGED vars PROVE IInv'
    BY <1>1 DEF vars, IInv, TypeOK, Stored, NoTtl
  <1>2. ASSUME Step, workload' = workload PROVE IInv'
    BY <1>2, StartIInv, WriteTreeIInv, WriteTtlTreeIInv, ProbeIInv, ClearTtlIInv, SnapIInv,
       TxnStepIInv, IoErrorIInv, TickIInv DEF Step, Progress
  <1>. QED BY <1>1, <1>2 DEF Next

\* The inductive invariant holds of every workload.
THEOREM Invariance == Spec => []IInv
  <1>. QED BY InitIInv, NextIInv, PTL DEF Spec

-----------------------------------------------------------------------------
(***************************************************************************)
(* The two trees in an orderly workload.                                   *)
(***************************************************************************)
\* c has still to clear the expiry of k.
Clears(c, k) ==
    \/ c.pc = "ttl" /\ c.exp = NoExpiry /\ k \in c.keys
    \/ c.pc = "ttl_each" /\ k \in c.rest

\* The keys in fr, last written without a TTL, have no expiry or are about to
\* lose it, and no expiry is about to be set on them.
FreshOK(c, ttl, fr) ==
    /\ \A k \in fr : ttl[k] = NoExpiry \/ Clears(c, k)
    /\ c.pc = "ttl" /\ c.op = "put_with_ttl" => c.keys \cap fr = {}

OrderInv ==
    Orderly(workload) =>
        /\ \A t \in Thread : Holding(call[t], tree, ttl_tree, now)
        /\ \A a \in Thread :
              Writer(a, workload) /\ ~workload.fails => FreshOK(call[a], ttl_tree, fresh)

\* A thread that does more than take snapshots.
Mutator(t, w) == ~(w.ops[t] \subseteq {"snapshot"})

\* The threads beside the writer are idle or taking a snapshot.
LEMMA OthersAside ==
    ASSUME IInv, NEW a \in Thread, Writer(a, workload), NEW t \in Thread, t # a
    PROVE  /\ call[t].op \in {"none", "snapshot"} /\ ~Mutator(t, workload)
           /\ call[t].pc \in {"idle", "snap_ttl", "snap_data"} /\ Owed(call[t]) = {}
  <1>1. workload.ops[t] \subseteq {"snapshot"}
    BY DEF Writer
  <1>2. call[t].op \in {"none", "snapshot"}
    BY <1>1, IdleFacts DEF IInv, CallsOK
  <1>3. CallShape(call[t])
    BY CallFacts
  <1>4. call[t].pc \in {"idle", "snap_ttl", "snap_data"}
    BY <1>2, <1>3 DEF CallShape
  <1>. QED BY <1>1, <1>2, <1>4 DEF Mutator, Owed

\* A call that needs nothing to hold.
LEMMA HoldsNothing ==
    ASSUME NEW c, \/ c.op \notin Evicts \cup {"expire", "persist", "compare_and_swap"}
                  \/ c.pc # "data" /\ c.op \notin {"ttl", "expire", "persist"},
           NEW data, NEW ttl, NEW time
    PROVE  Holding(c, data, ttl, time)
  BY DEF Holding, Evicts

\* When no expiry is set, what one call relies on does not depend on the others.
LEMMA HoldsAnyway ==
    ASSUME IInv, IInv', NoTtl(workload), UNCHANGED <<workload, now>>, NEW u \in Thread,
           Holding(call[u], tree, ttl_tree, now)
    PROVE  Holding(call[u], tree', ttl_tree', now')
  <1>1. \A k \in Key : ttl_tree[k] = NoExpiry /\ ttl_tree'[k] = NoExpiry
    BY DEF IInv
  <1>2. call[u].op # "expire"
    BY IdleFacts DEF IInv, CallsOK, NoTtl, SetsTtl
  <1>3. call[u].keys \in SUBSET Key
    BY CallFacts
  <1>. QED BY <1>1, <1>2, <1>3 DEF Holding, is_expired

\* One thread's step keeps the order when it keeps it for that thread, and
\* writes the trees only as the writer.
LEMMA OrderStep ==
    ASSUME IInv, IInv', OrderInv, workload' = workload, NEW t \in Thread, NEW d,
           call' = [call EXCEPT ![t] = d], now' = now,
           UNCHANGED <<tree, ttl_tree, fresh>> \/ Mutator(t, workload),
           Orderly(workload) => Holding(d, tree', ttl_tree', now'),
           ~workload.fails /\ FreshOK(call[t], ttl_tree, fresh) => FreshOK(d, ttl_tree', fresh')
    PROVE  OrderInv'
  <1>. SUFFICES ASSUME Orderly(workload) PROVE OrderInv'
    BY DEF OrderInv
  <1>1. \A u \in Thread : call'[u] = IF u = t THEN d ELSE call[u]
    BY DEF IInv, TypeOK
  <1>2. \A u \in Thread : Holding(call[u], tree, ttl_tree, now)
    BY DEF OrderInv
  <1>3. ASSUME NEW a \in Thread, Writer(a, workload), a # t
        PROVE  UNCHANGED <<tree, ttl_tree, fresh>>
    BY <1>3, OthersAside
  <1>4. ASSUME NEW u \in Thread, u # t PROVE Holding(call[u], tree', ttl_tree', now')
    <2>1. CASE NoTtl(workload)
      BY <1>2, <2>1, HoldsAnyway
    <2>2. CASE OneWriter(workload)
      <3>1. PICK a \in Thread : Writer(a, workload)
        BY <2>2 DEF OneWriter
      <3>2. CASE a = t
        <4>1. call[u].op \in {"none", "snapshot"}
          BY <1>4, <3>1, <3>2, OthersAside
        <4>. QED BY <4>1, HoldsNothing DEF Evicts
      <3>3. CASE a # t
        BY <1>2, <1>3, <3>1, <3>3
      <3>. QED BY <3>2, <3>3
    <2>. QED BY <2>1, <2>2 DEF Orderly
  <1>5. \A u \in Thread : Holding(call'[u], tree', ttl_tree', now')
    BY <1>1, <1>4
  <1>6. ASSUME NEW a \in Thread, Writer(a, workload), ~workload.fails
        PROVE  FreshOK(call'[a], ttl_tree', fresh')
    <2>1. FreshOK(call[a], ttl_tree, fresh)
      BY <1>6 DEF OrderInv
    <2>2. CASE a = t
      BY <1>1, <1>6, <2>1, <2>2
    <2>3. CASE a # t
      BY <1>1, <1>3, <1>6, <2>1, <2>3
    <2>. QED BY <2>2, <2>3
  <1>. QED BY <1>5, <1>6 DEF OrderInv, Writer

\* Steps that owe the TTL tree nothing, and will not.
LEMMA FreshMove ==
    ASSUME NEW c, NEW d, NEW ttl, NEW fr, c.pc \notin {"ttl", "ttl_each"},
           d.pc = "ttl" => d.op # "put_with_ttl"
    PROVE  FreshOK(c, ttl, fr) => FreshOK(d, ttl, fr)
  BY DEF FreshOK, Clears

\* Steps of a call that write neither tree.
LEMMA OrderMove ==
    ASSUME IInv, IInv', OrderInv, workload' = workload, NEW t \in Thread, NEW d,
           call' = [call EXCEPT ![t] = d], UNCHANGED <<tree, ttl_tree, now, fresh>>,
           call[t].pc \notin {"ttl", "ttl_each"}, d.pc = "ttl" => d.op # "put_with_ttl",
           Orderly(workload) => Holding(d, tree, ttl_tree, now)
    PROVE  OrderInv'
  <1>1. FreshOK(call[t], ttl_tree, fresh) => FreshOK(d, ttl_tree', fresh')
    BY FreshMove
  <1>. QED BY <1>1, OrderStep

\* Steps that touch neither tree nor any call.
LEMMA OrderQuiet ==
    ASSUME OrderInv, UNCHANGED <<workload, tree, ttl_tree, now, call, fresh>>
    PROVE  OrderInv'
  BY DEF OrderInv, Orderly, NoTtl, OneWriter, Writer

\* Two empty trees agree.
LEMMA OrderInit == Init => OrderInv
  <1>. SUFFICES ASSUME Init PROVE OrderInv
    OBVIOUS
  <1>1. \A t \in Thread : call[t] = Idle
    BY DEF Init
  <1>2. \A t \in Thread : Holding(call[t], tree, ttl_tree, now)
    BY <1>1, IdleFacts, HoldsNothing DEF Evicts
  <1>3. \A t \in Thread : FreshOK(call[t], ttl_tree, fresh)
    BY <1>1, IdleFacts DEF Init, FreshOK
  <1>. QED BY <1>2, <1>3 DEF OrderInv

\* Starting a call.
LEMMA OrderStart ==
    ASSUME IInv, IInv', OrderInv, workload' = workload, NEW t \in Thread, Start(t)
    PROVE  OrderInv'
  <1>1. ASSUME NEW c \in Call, FirstStep(c), Holding(c, tree, ttl_tree, now), Begin(t, c)
        PROVE  OrderInv'
    <2>1. /\ call' = [call EXCEPT ![t] = c] /\ UNCHANGED <<tree, ttl_tree, now, fresh>>
          /\ call[t].pc = "idle"
      BY <1>1, IdleFacts DEF Begin
    <2>2. c.pc = "ttl" => c.op # "put_with_ttl"
      BY <1>1 DEF FirstStep, SidecarOnly
    <2>. QED BY <1>1, <2>1, <2>2, OrderMove
  <1>2. ASSUME transaction(t) PROVE OrderInv'
    BY <1>2, OrderQuiet DEF transaction
  <1>3. ASSUME snapshot(t) PROVE OrderInv'
    <2>. DEFINE d == Iterate("snapshot", "snap_ttl", Key)
    <2>1. /\ call' = [call EXCEPT ![t] = d] /\ UNCHANGED <<tree, ttl_tree, now, fresh>>
          /\ call[t].pc = "idle"
      BY <1>3, IdleFacts DEF snapshot
    <2>2. d.op = "snapshot" /\ d.pc = "snap_ttl"
      BY DEF Iterate
    <2>. HIDE DEF d
    <2>3. Holding(d, tree, ttl_tree, now)
      BY <2>2, HoldsNothing DEF Evicts
    <2>. QED BY <2>1, <2>2, <2>3, OrderMove
  <1>. QED BY <1>1, <1>2, <1>3, StartShape

\* The thread of a call that writes is the writer.
LEMMA CallMutates ==
    ASSUME IInv, NEW t \in Thread, call[t].pc \in {"data", "ttl", "ttl_each"}
    PROVE  Mutator(t, workload)
  <1>1. call[t].op \in workload.ops[t] /\ CallShape(call[t])
    BY CallFacts
  <1>2. call[t].op # "snapshot"
    BY <1>1 DEF CallShape
  <1>. QED BY <1>1, <1>2 DEF Mutator

\* The two writes of a call.
LEMMA OrderWriteTree ==
    ASSUME IInv, IInv', OrderInv, workload' = workload, NEW t \in Thread, WriteTree(t)
    PROVE  OrderInv'
  <1>. DEFINE c == call[t]
              d == [c EXCEPT !.pc = "ttl"]
  <1>1. c.pc = "data" /\ UNCHANGED <<ttl_tree, now, txn, snap>>
        /\ fresh' = IF c.op \in Evicts THEN fresh
                    ELSE IF c.exp = NoExpiry THEN fresh \cup c.keys ELSE fresh \ c.keys
    BY DEF WriteTree
  <1>2. call' = [call EXCEPT ![t] = d]
    BY DEF WriteTree, IInv, TypeOK
  <1>3. c \in Call /\ CallShape(c)
    BY CallFacts
  <1>4. /\ d.pc = "ttl" /\ d.op = c.op /\ d.keys = c.keys /\ d.exp = c.exp
        /\ d.rest = c.rest
    BY <1>3 DEF Call
  <1>m. Mutator(t, workload)
    BY <1>1, CallMutates
  <1>. HIDE DEF c, d
  <1>5. c.op \in WritesData /\ (c.op \in SetsTtl <=> c.exp # NoExpiry)
    BY <1>1, <1>3 DEF CallShape
  <1>6. ASSUME NEW k \in fresh', k \in c.keys PROVE c.exp = NoExpiry
    BY <1>1, <1>5, <1>6 DEF Evicts, SetsTtl
  <1>7. ASSUME NEW k \in fresh', k \notin c.keys PROVE k \in fresh
    BY <1>1, <1>7
  <1>8. d.op = "put_with_ttl" => d.keys \cap fresh' = {}
    BY <1>1, <1>4, <1>5 DEF SetsTtl, Evicts
  <1>9. FreshOK(c, ttl_tree, fresh) => FreshOK(d, ttl_tree', fresh')
    BY <1>1, <1>4, <1>6, <1>7, <1>8 DEF FreshOK, Clears
  <1>10. Orderly(workload) => Holding(d, tree', ttl_tree', now')
    <2>1. c.op \notin {"expire", "persist"}
      BY <1>5 DEF WritesData, Erases
    <2>2. Orderly(workload) => Holding(c, tree, ttl_tree, now)
      BY DEF OrderInv, c
    <2>. QED BY <1>4, <2>1, <2>2 DEF Holding
  <1>. QED BY <1>1, <1>2, <1>m, <1>9, <1>10, OrderStep DEF c

\* The TTL tree's batch pays what the call still owes.
LEMMA OrderWriteTtl ==
    ASSUME IInv, IInv', OrderInv, workload' = workload, NEW t \in Thread, WriteTtlTree(t)
    PROVE  OrderInv'
  <1>. DEFINE c == call[t]
              d == IF c.rest # {} THEN [c EXCEPT !.pc = "purge", !.keys = {}] ELSE Idle
  <1>1. /\ c.pc = "ttl" /\ ttl_tree' = SetTtl(Stored, c.keys, c.exp).ttl
        /\ UNCHANGED <<tree, now>> /\ call' = [call EXCEPT ![t] = d]
        /\ fresh' = IF c.op = "expire" THEN fresh \ c.keys ELSE fresh
    BY DEF WriteTtlTree
  <1>2. c \in Call /\ CallShape(c) /\ c.keys \in SUBSET Key /\ TypeOK /\ fresh \subseteq Key
    BY CallFacts DEF IInv, TypeOK
  <1>3. \A k \in Key : ttl_tree'[k] = IF k \in c.keys THEN c.exp ELSE ttl_tree[k]
    BY <1>1, <1>2, StoredFacts, SetTtlAt
  <1>4. d.pc \in {"purge", "idle"} /\ d.op \in {"purge_expired", "none"}
    <2>1. CASE c.rest # {}
      <3>1. c.op = "purge_expired"
        BY <1>1, <1>2, <2>1 DEF CallShape, WritesData, Erases, SidecarOnly
      <3>. QED BY <1>2, <2>1, <3>1 DEF Call
    <2>2. CASE c.rest = {}
      BY <2>2, IdleFacts
    <2>. QED BY <2>1, <2>2
  <1>m. Mutator(t, workload)
    BY <1>1, CallMutates
  <1>. HIDE DEF c, d
  <1>5. c.op \in SetsTtl <=> c.exp # NoExpiry
    BY <1>2 DEF CallShape
  <1>6. ASSUME FreshOK(c, ttl_tree, fresh) PROVE FreshOK(d, ttl_tree', fresh')
    <2>1. ASSUME NEW k \in fresh' PROVE ttl_tree'[k] = NoExpiry
      <3>1. CASE k \in c.keys
        <4>1. c.exp = NoExpiry
          BY <1>1, <1>5, <1>6, <3>1, <2>1 DEF FreshOK, SetsTtl
        <4>. QED BY <1>2, <1>3, <3>1, <4>1
      <3>2. CASE k \notin c.keys
        BY <1>1, <1>2, <1>3, <1>6, <2>1, <3>2 DEF FreshOK, Clears
      <3>. QED BY <3>1, <3>2
    <2>. QED BY <1>4, <2>1 DEF FreshOK
  <1>7. Holding(d, tree', ttl_tree', now')
    BY <1>4, HoldsNothing
  <1>. QED BY <1>1, <1>m, <1>6, <1>7, OrderStep DEF c

\* Reading before a write, and giving up.
LEMMA OrderProbe ==
    ASSUME IInv, IInv', OrderInv, workload' = workload, NEW t \in Thread,
           Probe(t) \/ CasRefused(t)
    PROVE  OrderInv'
  <1>. DEFINE c == call[t]
              d == [c EXCEPT !.pc = "data"]
  <1>1. UNCHANGED <<tree, ttl_tree, now, fresh>> /\ c.pc \notin {"ttl", "ttl_each"}
    BY DEF Probe, CasRefused
  <1>2. ASSUME call' = [call EXCEPT ![t] = Idle] PROVE OrderInv'
    <2>1. Holding(Idle, tree, ttl_tree, now) /\ Idle.pc # "ttl"
      BY IdleFacts, HoldsNothing DEF Evicts
    <2>. QED BY <1>1, <1>2, <2>1, OrderMove
  <1>3. ASSUME Probe(t), call' = [call EXCEPT ![t] = d],
               \E k \in c.keys : is_expired(ttl_tree[k], now)
        PROVE  OrderInv'
    <2>1. c \in Call /\ CallShape(c) /\ c.pc = "probe"
      BY <1>3, CallFacts DEF Probe
    <2>2. c.op = "ttl"
      BY <2>1 DEF CallShape
    <2>3. d.pc = "data" /\ d.op = "ttl" /\ d.keys = c.keys
      BY <2>1, <2>2 DEF Call
    <2>4. Orderly(workload) => Holding(c, tree, ttl_tree, now)
      BY DEF OrderInv
    <2>. HIDE DEF c, d
    <2>5. Orderly(workload) => Holding(d, tree, ttl_tree, now)
      BY <1>3, <2>2, <2>3, <2>4 DEF Holding
    <2>. QED BY <1>1, <1>3, <2>3, <2>5, OrderMove DEF c
  <1>. QED BY <1>2, <1>3 DEF Probe, CasRefused

\* purge_expired removes an elapsed key from both trees in turn.
LEMMA OrderPurge ==
    ASSUME IInv, IInv', OrderInv, workload' = workload, NEW t \in Thread, NEW k \in Key,
           PurgeVisit(t, k)
    PROVE  OrderInv'
  <1>. DEFINE c == call[t]
              hit == [c EXCEPT !.pc = "data", !.keys = {k}, !.rest = c.rest \ {k},
                                 !.since = now]
              miss == [c EXCEPT !.rest = c.rest \ {k}]
  <1>1. UNCHANGED <<tree, ttl_tree, now, fresh>> /\ c.pc = "purge" /\ k \in c.rest
    BY DEF PurgeVisit
  <1>2. c \in Call /\ c.op = "purge_expired"
    BY <1>1, CallFacts DEF CallShape
  <1>3. /\ hit.pc = "data" /\ hit.op = c.op /\ hit.keys = {k}
        /\ miss.pc = "purge" /\ miss.op = c.op
    BY <1>1, <1>2 DEF Call
  <1>4. \/ is_expired(ttl_tree[k], now) /\ call' = [call EXCEPT ![t] = hit]
        \/ call' = [call EXCEPT ![t] = miss]
        \/ call' = [call EXCEPT ![t] = Idle]
    <2>1. CASE is_expired(ttl_tree[k], now)
      BY <2>1 DEF PurgeVisit
    <2>2. CASE ~is_expired(ttl_tree[k], now)
      BY <2>2 DEF PurgeVisit, After
    <2>. QED BY <2>1, <2>2
  <1>. HIDE DEF hit, miss, c
  <1>5. is_expired(ttl_tree[k], now) => Holding(hit, tree, ttl_tree, now)
    BY <1>2, <1>3 DEF Holding
  <1>6. Holding(miss, tree, ttl_tree, now) /\ Holding(Idle, tree, ttl_tree, now)
    BY <1>2, <1>3, IdleFacts, HoldsNothing DEF Evicts
  <1>7. c.pc \notin {"ttl", "ttl_each"} /\ hit.pc # "ttl" /\ miss.pc # "ttl" /\ Idle.pc # "ttl"
    BY <1>1, <1>3, IdleFacts
  <1>. QED BY <1>1, <1>4, <1>5, <1>6, <1>7, OrderMove DEF c

\* A failed call leaves both trees as they are; an orderly workload with TTLs
\* has none.
LEMMA OrderIoError ==
    ASSUME IInv, IInv', OrderInv, workload' = workload, NEW t \in Thread, IoError(t)
    PROVE  OrderInv'
  <1>1. /\ workload.fails /\ call' = [call EXCEPT ![t] = Idle]
        /\ UNCHANGED <<tree, ttl_tree, now, fresh>>
    BY DEF IoError
  <1>2. Holding(Idle, tree', ttl_tree', now')
    BY IdleFacts, HoldsNothing DEF Evicts
  <1>. QED BY <1>1, <1>2, OrderStep

\* Committing a transaction, and clearing the expiries it has overwritten.
LEMMA OrderTxn ==
    ASSUME IInv, IInv', OrderInv, workload' = workload, NEW t \in Thread, TxnStep(t)
    PROVE  OrderInv'
  <1>1. ASSUME TxnCommit(t) PROVE OrderInv'
    <2>. DEFINE keys == Touched(t)
                d == IF keys = {} THEN Idle ELSE Iterate("commit", "ttl_each", keys)
    <2>1. /\ fresh' = fresh \cup keys /\ call' = [call EXCEPT ![t] = d]
          /\ UNCHANGED <<ttl_tree, now>> /\ InTxn(t)
      BY <1>1 DEF TxnCommit
    <2>2. \/ keys = {} /\ d = Idle
          \/ d.op = "commit" /\ d.pc = "ttl_each" /\ d.rest = keys
      BY DEF Iterate
    <2>3. Mutator(t, workload)
      BY <2>1 DEF InTxn, IInv, TxnsOK, Mutator
    <2>4. call[t].pc = "idle"
      BY <2>1, IdleFacts DEF InTxn
    <2>. HIDE DEF keys, d
    <2>5. FreshOK(call[t], ttl_tree, fresh) => FreshOK(d, ttl_tree', fresh')
      BY <2>1, <2>2, <2>4, IdleFacts DEF FreshOK, Clears
    <2>6. Holding(d, tree', ttl_tree', now')
      BY <2>2, IdleFacts, HoldsNothing DEF Evicts
    <2>. QED BY <2>1, <2>3, <2>5, <2>6, OrderStep
  <1>. QED BY <1>1, OrderQuiet DEF TxnStep, TxnWrite, TxnRollback

\* commit removes the expiries of the keys it wrote, one at a time.
LEMMA OrderClear ==
    ASSUME IInv, IInv', OrderInv, workload' = workload, NEW t \in Thread, NEW k \in Key,
           ClearTtl(t, k)
    PROVE  OrderInv'
  <1>. DEFINE c == call[t]
              more == [c EXCEPT !.rest = c.rest \ {k}]
              d == IF c.rest = {k} THEN Idle ELSE more
  <1>1. /\ c.pc = "ttl_each" /\ k \in c.rest /\ UNCHANGED <<tree, now, fresh>>
        /\ ttl_tree' = SetTtl(Stored, {k}, NoExpiry).ttl /\ call' = [call EXCEPT ![t] = d]
    BY DEF ClearTtl, After
  <1>2. c \in Call /\ c.op = "commit" /\ TypeOK /\ fresh \subseteq Key
    BY <1>1, CallFacts DEF CallShape, IInv, TypeOK
  <1>3. more.op = "commit" /\ more.pc = "ttl_each" /\ more.rest = c.rest \ {k}
    BY <1>1, <1>2 DEF Call
  <1>4. \A l \in Key : ttl_tree'[l] = IF l \in {k} THEN NoExpiry ELSE ttl_tree[l]
    BY <1>1, <1>2, StoredFacts, SetTtlAt
  <1>m. Mutator(t, workload)
    BY <1>1, CallMutates
  <1>5. \/ c.rest = {k} /\ d = Idle
        \/ d.op = "commit" /\ d.pc = "ttl_each" /\ d.rest = c.rest \ {k}
    BY <1>3
  <1>. HIDE DEF c, d, more
  <1>6. FreshOK(c, ttl_tree, fresh) => FreshOK(d, ttl_tree', fresh')
    BY <1>1, <1>2, <1>4, <1>5, IdleFacts DEF FreshOK, Clears
  <1>7. Holding(d, tree', ttl_tree', now')
    BY <1>5, IdleFacts, HoldsNothing DEF Evicts
  <1>. QED BY <1>1, <1>m, <1>6, <1>7, OrderStep DEF c

\* Taking a snapshot.
LEMMA OrderSnap ==
    ASSUME IInv, IInv', OrderInv, workload' = workload, NEW t \in Thread, NEW k \in Key,
           SnapTtl(t, k) \/ SnapData(t, k)
    PROVE  OrderInv'
  <1>1. UNCHANGED <<tree, ttl_tree, now, fresh>> /\ call[t].pc \notin {"ttl", "ttl_each"}
    BY DEF SnapTtl, SnapData
  <1>2. \E d \in Call : /\ call' = [call EXCEPT ![t] = d]
                        /\ d.op = "snapshot" \/ d = Idle
                        /\ d.pc # "ttl"
    BY SnapTtlIs, SnapDataIs, IdleFacts
  <1>3. PICK d \in Call : /\ call' = [call EXCEPT ![t] = d]
                          /\ d.op = "snapshot" \/ d = Idle
                          /\ d.pc # "ttl"
    BY <1>2
  <1>4. Holding(d, tree, ttl_tree, now)
    BY <1>3, IdleFacts, HoldsNothing DEF Evicts
  <1>. QED BY <1>1, <1>3, <1>4, OrderMove

\* The clock changes neither tree.
LEMMA OrderTick ==
    ASSUME IInv, OrderInv, workload' = workload, Tick
    PROVE  OrderInv'
  <1>1. UNCHANGED <<tree, ttl_tree, call, fresh>> /\ now' = now + 1
    BY DEF Tick
  <1>2. now \in Nat /\ ttl_tree \in [Key -> Expiry]
    BY StoredFacts DEF IInv, TypeOK
  <1>3. \A k \in Key : is_expired(ttl_tree[k], now) => is_expired(ttl_tree[k], now + 1)
    BY <1>2 DEF is_expired, Expiry, NoExpiry
  <1>4. \A t \in Thread : call[t].keys \in SUBSET Key /\ call[t].since \in Nat
    BY CallFacts
  <1>5. ASSUME Orderly(workload), NEW t \in Thread
        PROVE  Holding(call[t], tree, ttl_tree, now + 1)
    BY <1>2, <1>3, <1>4, <1>5 DEF OrderInv, Holding
  <1>. QED BY <1>1, <1>5 DEF OrderInv, Orderly, NoTtl, OneWriter, Writer

\* Every step keeps OrderInv when the workload is orderly.
LEMMA NextOrder == IInv /\ IInv' /\ OrderInv /\ [Next]_vars => OrderInv'
  <1>. SUFFICES ASSUME IInv, IInv', OrderInv, [Next]_vars PROVE OrderInv'
    OBVIOUS
  <1>1. ASSUME UNCHANGED vars PROVE OrderInv'
    BY <1>1, OrderQuiet DEF vars
  <1>2. ASSUME Step, workload' = workload PROVE OrderInv'
    <2>1. ASSUME NEW t \in Thread, DropSnapshot(t) PROVE OrderInv'
      BY <1>2, <2>1, OrderQuiet DEF DropSnapshot
    <2>. QED BY <1>2, <2>1, OrderStart, OrderWriteTree, OrderWriteTtl, OrderProbe, OrderPurge,
                OrderIoError, OrderTxn, OrderClear, OrderSnap, OrderTick DEF Step, Progress
  <1>. QED BY <1>1, <1>2 DEF Next

\* The order between the two trees, for every workload.
LEMMA Ordered == Spec => []OrderInv
  BY OrderInit, NextOrder, Invariance, PTL DEF Spec

\* In an orderly workload the two trees agree whenever no call is under way: a
\* value written without a TTL is not evicted at an older expiry.
THEOREM TreesStayInAgreement ==
    ASSUME \A w \in Workloads : Orderly(w)
    PROVE  Spec => []TreesAgree
  <1>1. ASSUME IInv, OrderInv PROVE TreesAgree
    <2>1. Orderly(workload) /\ TypeOK
      BY <1>1 DEF IInv
    <2>2. ASSUME \A t \in Thread : call[t] = Idle, NEW k \in fresh PROVE ttl_tree[k] = NoExpiry
      <3>1. CASE NoTtl(workload)
        BY <1>1, <2>1, <3>1 DEF IInv, TypeOK
      <3>2. CASE OneWriter(workload) /\ ~workload.fails
        <4>1. PICK a \in Thread : Writer(a, workload)
          BY <3>2 DEF OneWriter
        <4>2. FreshOK(Idle, ttl_tree, fresh)
          BY <1>1, <2>1, <2>2, <3>2, <4>1 DEF OrderInv
        <4>. QED BY <4>2, <2>2, IdleFacts DEF FreshOK, Clears
      <3>. QED BY <2>1, <3>1, <3>2 DEF Orderly
    <2>. QED BY <2>1, <2>2 DEF TreesAgree, NoStaleExpiry
  <1>. QED BY <1>1, Invariance, Ordered, PTL

-----------------------------------------------------------------------------
(***************************************************************************)
(* Snapshots, which are captured key by key while the store is in use.     *)
(***************************************************************************)
\* The workloads whose snapshots are honest: no expiry is ever set, or nobody
\* else is using the store.
Captures(w) == NoTtl(w) \/ Lone(w)

\* A capture has seen what it has decided about each key: the current state,
\* the absence of the keys it has found expired, the entries of the others as
\* they still are, and what it has copied.
Capturing(c, sn, sees, tb, time) ==
    /\ Visible(tb, time) \in sees
    /\ \A k \in c.keys : \E m \in sees : m[k] = Absent
    /\ \A k \in Key : k \notin c.keys /\ (c.pc = "snap_data" \/ k \notin c.rest)
                         => \E m \in sees : m[k] = tb.data[k]
    /\ \A k \in Key : c.pc = "snap_data" /\ k \notin c.rest => \E m \in sees : sn.data[k] = m[k]

SeenOK(c, sn, sees, tb, time) ==
    /\ c.op = "snapshot" => ~sn.held /\ Capturing(c, sn, sees, tb, time)
    /\ sn.held => \A k \in Key : \E m \in sees : sn.data[k] = m[k]

SeenInv == \A t \in Thread : SeenOK(call[t], snap[t], seen[t], Stored, now)

\* What a capture sees only grows, and what has been copied stays.
LEMMA CapturingGrows ==
    ASSUME NEW c, NEW sn, NEW sees, NEW sees2, NEW tb, NEW tb2, NEW time, NEW time2,
           Capturing(c, sn, sees, tb, time), sees \subseteq sees2,
           Visible(tb2, time2) \in sees2,
           \A k \in Key : tb2.data[k] = tb.data[k] \/ Visible(tb2, time2)[k] = tb2.data[k]
    PROVE  Capturing(c, sn, sees2, tb2, time2)
  <1>1. \A k \in c.keys : \E m \in sees2 : m[k] = Absent
    BY DEF Capturing
  <1>2. \A k \in Key : c.pc = "snap_data" /\ k \notin c.rest => \E m \in sees2 : sn.data[k] = m[k]
    BY DEF Capturing
  <1>3. ASSUME NEW k \in Key, k \notin c.keys /\ (c.pc = "snap_data" \/ k \notin c.rest)
        PROVE  \E m \in sees2 : m[k] = tb2.data[k]
    <2>1. CASE tb2.data[k] = tb.data[k]
      BY <1>3, <2>1 DEF Capturing
    <2>2. CASE Visible(tb2, time2)[k] = tb2.data[k]
      BY <2>2
    <2>. QED BY <2>1, <2>2
  <1>. QED BY <1>1, <1>2, <1>3 DEF Capturing

\* Without expiries everything stored is visible.
LEMMA NoTtlVisible ==
    ASSUME IInv, NoTtl(workload), NEW k \in Key
    PROVE  Visible(Stored, now)[k] = Stored.data[k]
  <1>1. Stored.ttl[k] = NoExpiry
    BY DEF IInv, Stored
  <1>. QED BY <1>1, VisibleAt DEF is_expired

\* What thread t's step shows the captures of the others: nothing, or the trees
\* it leaves behind, which only a thread that writes changes.
Watched(t) ==
    \/ UNCHANGED <<tree, ttl_tree, now>> /\ \A u \in Thread \ {t} : seen'[u] = seen[u]
    \/ Observe(Stored', now') /\ Mutator(t, workload)

\* A step of one thread keeps what the snapshot of another claims.
LEMMA SeenOthers ==
    ASSUME IInv, IInv', Captures(workload), workload' = workload, NEW t \in Thread,
           Watched(t), NEW u \in Thread, u # t, call'[u] = call[u], snap'[u] = snap[u],
           SeenOK(call[u], snap[u], seen[u], Stored, now)
    PROVE  SeenOK(call'[u], snap'[u], seen'[u], Stored', now')
  <1>1. CASE UNCHANGED <<tree, ttl_tree, now>> /\ \A v \in Thread \ {t} : seen'[v] = seen[v]
    <2>1. seen'[u] = seen[u] /\ Stored' = Stored
      BY <1>1 DEF Stored
    <2>. QED BY <1>1, <2>1
  <1>2. CASE Observe(Stored', now') /\ Mutator(t, workload)
    <2>1. seen'[u] = IF call[u].op = "snapshot" THEN seen[u] \cup {Visible(Stored', now')}
                     ELSE seen[u]
      BY <1>2 DEF Observe
    <2>2. CASE call[u].op # "snapshot"
      BY <2>1, <2>2 DEF SeenOK
    <2>3. CASE call[u].op = "snapshot"
      <3>1. NoTtl(workload)
        <4>1. "snapshot" \in workload.ops[u]
          BY <2>3, IdleFacts DEF IInv, CallsOK
        <4>. QED BY <1>2, <4>1 DEF Captures, Lone, Mutator
      <3>2. \A k \in Key : Visible(Stored', now')[k] = Stored'.data[k]
        <4>1. NoTtl(workload')
          BY <3>1
        <4>2. \A k \in Key : Stored'.ttl[k] = NoExpiry
          BY <4>1 DEF IInv, Stored
        <4>. QED BY <4>2, VisibleAt DEF is_expired
      <3>3. Capturing(call[u], snap[u], seen'[u], Stored', now')
        BY <2>1, <2>3, <3>2, CapturingGrows DEF SeenOK
      <3>. QED BY <2>3, <3>3 DEF SeenOK
    <2>. QED BY <2>2, <2>3
  <1>. QED BY <1>1, <1>2 DEF Watched

\* A step of thread t keeps the invariant when it keeps t's own part.
LEMMA SeenStep ==
    ASSUME IInv, IInv', Captures(workload), workload' = workload, SeenInv, NEW t \in Thread,
           Watched(t), \A u \in Thread \ {t} : call'[u] = call[u] /\ snap'[u] = snap[u],
           SeenOK(call'[t], snap'[t], seen'[t], Stored', now')
    PROVE  SeenInv'
  <1>1. ASSUME NEW u \in Thread PROVE SeenOK(call'[u], snap'[u], seen'[u], Stored', now')
    BY <1>1, SeenOthers DEF SeenInv
  <1>. QED BY <1>1 DEF SeenInv

\* A step of a thread that is not capturing and leaves its snapshot alone.
LEMMA SeenAside ==
    ASSUME IInv, IInv', Captures(workload), workload' = workload, SeenInv, NEW t \in Thread,
           NEW d, Watched(t), call' = [call EXCEPT ![t] = d], snap' = snap,
           seen'[t] = seen[t], d.op # "snapshot"
    PROVE  SeenInv'
  <1>1. /\ \A u \in Thread \ {t} : call'[u] = call[u] /\ snap'[u] = snap[u]
        /\ call'[t] = d
    BY DEF IInv, TypeOK
  <1>2. SeenOK(call[t], snap[t], seen[t], Stored, now)
    BY DEF SeenInv
  <1>3. SeenOK(call'[t], snap'[t], seen'[t], Stored', now')
    BY <1>1, <1>2 DEF SeenOK
  <1>. QED BY <1>1, <1>3, SeenStep

\* The same for a step that writes neither tree.
LEMMA SeenQuiet ==
    ASSUME IInv, IInv', Captures(workload), workload' = workload, SeenInv, NEW t \in Thread,
           NEW d, call' = [call EXCEPT ![t] = d], d.op # "snapshot",
           UNCHANGED <<tree, ttl_tree, now, snap, seen>>
    PROVE  SeenInv'
  <1>1. Watched(t)
    BY DEF Watched
  <1>. QED BY <1>1, SeenAside

\* The same for a step that writes a tree.
LEMMA SeenWrite ==
    ASSUME IInv, IInv', Captures(workload), workload' = workload, SeenInv, NEW t \in Thread,
           NEW d, call' = [call EXCEPT ![t] = d], d.op # "snapshot",
           call[t].op # "snapshot", Mutator(t, workload), snap' = snap, now' = now,
           Observe([data |-> tree', ttl |-> ttl_tree'], now)
    PROVE  SeenInv'
  <1>1. Watched(t)
    BY DEF Watched, Stored
  <1>2. seen'[t] = seen[t]
    BY DEF Observe
  <1>. QED BY <1>1, <1>2, SeenAside

\* No snapshot is open at first.
LEMMA SeenInit == Init => SeenInv
  BY IdleFacts DEF Init, SeenInv, SeenOK, NoSnap

\* Beginning a call or a capture.
LEMMA SeenStart ==
    ASSUME IInv, IInv', Captures(workload), workload' = workload, SeenInv, NEW t \in Thread,
           Start(t)
    PROVE  SeenInv'
  <1>1. ASSUME NEW c \in Call, FirstStep(c), Begin(t, c) PROVE SeenInv'
    <2>1. c.op # "snapshot"
      BY <1>1 DEF FirstStep, CallShape
    <2>. QED BY <1>1, <2>1, SeenQuiet DEF Begin
  <1>2. ASSUME transaction(t) PROVE SeenInv'
    BY <1>2 DEF transaction, SeenInv, Stored
  <1>3. ASSUME snapshot(t) PROVE SeenInv'
    <2>. DEFINE d == Iterate("snapshot", "snap_ttl", Key)
    <2>1. /\ call' = [call EXCEPT ![t] = d] /\ UNCHANGED <<tree, ttl_tree, now, snap>>
          /\ seen' = [seen EXCEPT ![t] = {Visible(Stored, now)}] /\ ~snap[t].held
      BY <1>3 DEF snapshot
    <2>2. d.keys = {} /\ d.pc = "snap_ttl" /\ d.rest = Key
      BY DEF Iterate
    <2>. HIDE DEF d
    <2>3. /\ call'[t] = d /\ seen'[t] = {Visible(Stored, now)}
          /\ \A u \in Thread \ {t} : call'[u] = call[u] /\ snap'[u] = snap[u] /\ seen'[u] = seen[u]
      BY <2>1 DEF IInv, TypeOK
    <2>4. Stored' = Stored
      BY <2>1 DEF Stored
    <2>5. Capturing(d, snap[t], {Visible(Stored, now)}, Stored, now)
      BY <2>2 DEF Capturing
    <2>6. SeenOK(call'[t], snap'[t], seen'[t], Stored', now')
      BY <2>1, <2>3, <2>4, <2>5 DEF SeenOK
    <2>7. Watched(t)
      BY <2>1, <2>3 DEF Watched
    <2>. QED BY <2>3, <2>6, <2>7, SeenStep
  <1>. QED BY <1>1, <1>2, <1>3, StartShape

\* The call of a thread that writes is no capture, before or after.
LEMMA SeenWrites ==
    ASSUME IInv, IInv', Captures(workload), workload' = workload, SeenInv, NEW t \in Thread,
           WriteTree(t) \/ WriteTtlTree(t) \/ (\E k \in Key : ClearTtl(t, k))
    PROVE  SeenInv'
  <1>1. /\ call[t].pc \in {"data", "ttl", "ttl_each"} /\ snap' = snap /\ now' = now
        /\ Observe([data |-> tree', ttl |-> ttl_tree'], now)
    BY DEF WriteTree, WriteTtlTree, ClearTtl
  <1>2. Mutator(t, workload) /\ call[t].op # "snapshot"
    BY <1>1, CallMutates, CallFacts DEF CallShape
  <1>3. call \in [Thread -> Call] /\ call[t] \in Call
    BY DEF IInv, TypeOK
  <1>4. \E d : call' = [call EXCEPT ![t] = d] /\ d.op # "snapshot"
    <2>1. ASSUME WriteTree(t) PROVE call' = [call EXCEPT ![t] = [call[t] EXCEPT !.pc = "ttl"]]
      BY <2>1, <1>3 DEF WriteTree
    <2>2. [call[t] EXCEPT !.pc = "ttl"].op # "snapshot"
      BY <1>2, <1>3 DEF Call
    <2>3. CASE WriteTree(t)
      BY <2>1, <2>2, <2>3
    <2>4. CASE WriteTtlTree(t)
      <3>1. [call[t] EXCEPT !.pc = "purge", !.keys = {}].op # "snapshot"
        BY <1>2, <1>3 DEF Call
      <3>. QED BY <2>4, <3>1, IdleFacts DEF WriteTtlTree
    <2>5. ASSUME NEW k \in Key, ClearTtl(t, k)
          PROVE  \E d : call' = [call EXCEPT ![t] = d] /\ d.op # "snapshot"
      <3>1. [call[t] EXCEPT !.rest = @ \ {k}].op # "snapshot"
        BY <1>2, <1>3 DEF Call
      <3>. QED BY <2>5, <3>1, IdleFacts DEF ClearTtl, After
    <2>. QED BY <2>3, <2>4, <2>5
  <1>. QED BY <1>1, <1>2, <1>4, SeenWrite

\* Reading before a write.
LEMMA SeenReads ==
    ASSUME IInv, IInv', Captures(workload), workload' = workload, SeenInv, NEW t \in Thread,
           Probe(t) \/ CasRefused(t) \/ (\E k \in Key : PurgeVisit(t, k))
    PROVE  SeenInv'
  <1>1. call[t].pc \in {"probe", "data", "purge"} /\ UNCHANGED <<tree, ttl_tree, now, snap, seen>>
    BY DEF Probe, CasRefused, PurgeVisit
  <1>2. call[t].op # "snapshot" /\ call[t] \in Call
    BY <1>1, CallFacts DEF CallShape
  <1>3. \E d : call' = [call EXCEPT ![t] = d] /\ d.op # "snapshot"
    <2>1. CASE CasRefused(t)
      BY <2>1, IdleFacts DEF CasRefused
    <2>2. CASE Probe(t)
      <3>1. [call[t] EXCEPT !.pc = "data"].op # "snapshot"
        BY <1>2 DEF Call
      <3>. QED BY <2>2, <3>1, IdleFacts DEF Probe
    <2>3. ASSUME NEW k \in Key, PurgeVisit(t, k)
          PROVE  \E d : call' = [call EXCEPT ![t] = d] /\ d.op # "snapshot"
      <3>1. /\ [call[t] EXCEPT !.rest = @ \ {k}].op # "snapshot"
            /\ [call[t] EXCEPT !.pc = "data", !.keys = {k}, !.rest = @ \ {k},
                               !.since = now].op # "snapshot"
        BY <1>2 DEF Call
      <3>. QED BY <2>3, <3>1, IdleFacts DEF PurgeVisit, After
    <2>. QED BY <2>1, <2>2, <2>3
  <1>. QED BY <1>1, <1>3, SeenQuiet

\* The steps of a transaction, among them the data batch of commit.
LEMMA SeenTxn ==
    ASSUME IInv, IInv', Captures(workload), workload' = workload, SeenInv, NEW t \in Thread,
           TxnStep(t)
    PROVE  SeenInv'
  <1>1. ASSUME TxnCommit(t) PROVE SeenInv'
    <2>. DEFINE d == IF Touched(t) = {} THEN Idle ELSE Iterate("commit", "ttl_each", Touched(t))
    <2>1. /\ call' = [call EXCEPT ![t] = d] /\ snap' = snap /\ now' = now /\ InTxn(t)
          /\ Observe([data |-> tree', ttl |-> ttl_tree'], now)
      BY <1>1 DEF TxnCommit
    <2>2. d.op # "snapshot"
      BY IdleFacts DEF Iterate
    <2>3. Mutator(t, workload) /\ call[t].op # "snapshot"
      BY <2>1, IdleFacts DEF InTxn, IInv, TxnsOK, Mutator
    <2>. HIDE DEF d
    <2>. QED BY <2>1, <2>2, <2>3, SeenWrite
  <1>2. ASSUME TxnRollback(t) \/ (\E k \in Key, val \in MaybeValue : TxnWrite(t, k, val))
        PROVE  SeenInv'
    BY <1>2 DEF TxnRollback, TxnWrite, SeenInv, Stored
  <1>. QED BY <1>1, <1>2 DEF TxnStep

\* A failing operation ends the call, and with it the capture.
LEMMA SeenError ==
    ASSUME IInv, IInv', Captures(workload), workload' = workload, SeenInv, NEW t \in Thread,
           IoError(t)
    PROVE  SeenInv'
  <1>1. /\ call' = [call EXCEPT ![t] = Idle] /\ UNCHANGED <<tree, ttl_tree, now, seen>>
        /\ snap' = [snap EXCEPT ![t] = IF call[t].op = "snapshot" THEN NoSnap ELSE @]
    BY DEF IoError
  <1>2. /\ \A u \in Thread \ {t} : call'[u] = call[u] /\ snap'[u] = snap[u]
        /\ call'[t] = Idle /\ (snap'[t] = NoSnap \/ snap'[t] = snap[t])
    BY <1>1 DEF IInv, TypeOK
  <1>3. SeenOK(call[t], snap[t], seen[t], Stored, now)
    BY DEF SeenInv
  <1>4. SeenOK(call'[t], snap'[t], seen'[t], Stored', now')
    BY <1>1, <1>2, <1>3, IdleFacts DEF SeenOK, NoSnap
  <1>5. Watched(t)
    BY <1>1 DEF Watched
  <1>. QED BY <1>2, <1>4, <1>5, SeenStep

\* A dropped snapshot claims nothing.
LEMMA SeenDrop ==
    ASSUME IInv, IInv', Captures(workload), workload' = workload, SeenInv, NEW t \in Thread,
           DropSnapshot(t)
    PROVE  SeenInv'
  <1>1. /\ UNCHANGED <<tree, ttl_tree, now, call>> /\ call[t] = Idle
        /\ snap' = [snap EXCEPT ![t] = NoSnap] /\ seen' = [seen EXCEPT ![t] = {}]
    BY DEF DropSnapshot
  <1>2. /\ \A u \in Thread \ {t} : call'[u] = call[u] /\ snap'[u] = snap[u] /\ seen'[u] = seen[u]
        /\ call'[t] = Idle /\ snap'[t] = NoSnap
    BY <1>1 DEF IInv, TypeOK
  <1>3. SeenOK(call'[t], snap'[t], seen'[t], Stored', now')
    BY <1>2, IdleFacts DEF SeenOK, NoSnap
  <1>4. Watched(t)
    BY <1>1, <1>2 DEF Watched
  <1>. QED BY <1>2, <1>3, <1>4, SeenStep

\* The clock shows every capture what it leaves visible.
LEMMA SeenTick ==
    ASSUME IInv, workload' = workload, SeenInv, Tick
    PROVE  SeenInv'
  <1>1. UNCHANGED <<tree, ttl_tree, call, snap>> /\ Observe(Stored, now')
    BY DEF Tick
  <1>2. Stored' = Stored
    BY <1>1 DEF Stored
  <1>3. ASSUME NEW u \in Thread PROVE SeenOK(call'[u], snap'[u], seen'[u], Stored', now')
    <2>1. seen'[u] = IF call[u].op = "snapshot" THEN seen[u] \cup {Visible(Stored, now')}
                     ELSE seen[u]
      BY <1>1 DEF Observe
    <2>2. SeenOK(call[u], snap[u], seen[u], Stored, now)
      BY DEF SeenInv
    <2>3. CASE call[u].op # "snapshot"
      BY <1>1, <2>1, <2>2, <2>3 DEF SeenOK
    <2>4. CASE call[u].op = "snapshot"
      <3>1. Capturing(call[u], snap[u], seen'[u], Stored, now')
        BY <2>1, <2>2, <2>4, CapturingGrows DEF SeenOK
      <3>. QED BY <1>1, <1>2, <2>2, <2>4, <3>1 DEF SeenOK
    <2>. QED BY <2>3, <2>4
  <1>. QED BY <1>3 DEF SeenInv

\* A capture visits the expiry of a key: elapsed, and the key is absent now, or
\* not, and the entry is visible now.
LEMMA SeenSnapTtl ==
    ASSUME IInv, IInv', Captures(workload), workload' = workload, SeenInv, NEW t \in Thread,
           NEW k \in Key, SnapTtl(t, k)
    PROVE  SeenInv'
  <1>. DEFINE c == call[t]
              sees == seen[t]
              hit == {k} \cap ExpiredKeys(Stored, now)
  <1>1. UNCHANGED <<tree, ttl_tree, now, snap, seen>> /\ c.pc = "snap_ttl" /\ k \in c.rest
    BY DEF SnapTtl
  <1>2. PICK d \in Call :
           /\ d.op = "snapshot" /\ call' = [call EXCEPT ![t] = d] /\ d.keys = c.keys \cup hit
           /\ \/ c.rest = {k} /\ d.pc = "snap_data" /\ d.rest = Key
              \/ c.rest # {k} /\ d.pc = "snap_ttl" /\ d.rest = c.rest \ {k}
    BY SnapTtlIs
  <1>3. c.op = "snapshot" /\ c.rest \in SUBSET Key /\ c.keys \in SUBSET Key
    BY <1>1, CallFacts DEF CallShape
  <1>4. ~snap[t].held /\ Capturing(c, snap[t], sees, Stored, now)
    BY <1>3 DEF SeenInv, SeenOK
  <1>5. /\ k \in hit => Visible(Stored, now)[k] = Absent
        /\ k \notin hit => Visible(Stored, now)[k] = Stored.data[k]
    BY VisibleAt DEF ExpiredKeys
  <1>6. hit \subseteq {k}
    OBVIOUS
  <1>. HIDE DEF c, sees, hit
  <1>7. Visible(Stored, now) \in sees
    BY <1>4 DEF Capturing
  <1>8. \A l \in d.keys : \E m \in sees : m[l] = Absent
    BY <1>2, <1>4, <1>5, <1>6, <1>7 DEF Capturing
  <1>9. ASSUME NEW l \in Key, l \notin d.keys, d.pc = "snap_data" \/ l \notin d.rest
        PROVE  \E m \in sees : m[l] = Stored.data[l]
    <2>1. CASE l = k
      BY <1>2, <1>5, <1>7, <1>9, <2>1
    <2>2. CASE l # k
      <3>1. l \notin c.keys /\ l \notin c.rest
        BY <1>2, <1>9, <2>2
      <3>. QED BY <1>4, <3>1 DEF Capturing
    <2>. QED BY <2>1, <2>2
  <1>10. Capturing(d, snap[t], sees, Stored, now)
    BY <1>2, <1>7, <1>8, <1>9 DEF Capturing
  <1>11. /\ call'[t] = d /\ Stored' = Stored
         /\ \A u \in Thread \ {t} : call'[u] = call[u] /\ snap'[u] = snap[u]
    BY <1>1, <1>2 DEF IInv, TypeOK, Stored
  <1>12. SeenOK(call'[t], snap'[t], seen'[t], Stored', now')
    BY <1>1, <1>4, <1>10, <1>11 DEF SeenOK, sees
  <1>13. Watched(t)
    BY <1>1 DEF Watched
  <1>. QED BY <1>11, <1>12, <1>13, SeenStep

\* A capture copies a key: as absent or as its entry, which it has seen.
LEMMA SeenSnapData ==
    ASSUME IInv, IInv', Captures(workload), workload' = workload, SeenInv, NEW t \in Thread,
           NEW k \in Key, SnapData(t, k)
    PROVE  SeenInv'
  <1>. DEFINE c == call[t]
              sees == seen[t]
              v == IF k \in c.keys THEN Absent ELSE tree[k]
              b == (c.rest = {k})
  <1>1. /\ UNCHANGED <<tree, ttl_tree, now, seen>>
        /\ snap' = [snap EXCEPT ![t].data[k] = v, ![t].held = b]
    BY DEF SnapData
  <1>2. /\ c.pc = "snap_data" /\ c.op = "snapshot" /\ k \in c.rest
        /\ \E d \in Call :
              /\ call' = [call EXCEPT ![t] = d]
              /\ \/ c.rest = {k} /\ d = Idle
                 \/ /\ c.rest # {k} /\ d.op = "snapshot" /\ d.pc = "snap_data"
                    /\ d.keys = c.keys /\ d.rest = c.rest \ {k}
    BY SnapDataIs
  <1>3. PICK d \in Call :
           /\ call' = [call EXCEPT ![t] = d]
           /\ \/ c.rest = {k} /\ d = Idle
              \/ /\ c.rest # {k} /\ d.op = "snapshot" /\ d.pc = "snap_data"
                 /\ d.keys = c.keys /\ d.rest = c.rest \ {k}
    BY <1>2
  <1>4. ~snap[t].held /\ Capturing(c, snap[t], sees, Stored, now) /\ c.rest \in SUBSET Key
    BY <1>2, CallFacts DEF SeenInv, SeenOK
  <1>5. \E m \in sees : v = m[k]
    <2>1. Stored.data = tree
      BY DEF Stored
    <2>. QED BY <1>2, <1>4, <2>1 DEF Capturing
  <1>6. b \in BOOLEAN
    OBVIOUS
  <1>b. b <=> c.rest = {k}
    OBVIOUS
  <1>. HIDE DEF v, b
  <1>7. /\ snap'[t].held = b /\ snap'[t].data[k] = v
        /\ \A l \in Key : l # k => snap'[t].data[l] = snap[t].data[l]
        /\ \A u \in Thread \ {t} : snap'[u] = snap[u]
    BY <1>1, <1>6 DEF IInv, TypeOK
  <1>8. /\ call'[t] = d /\ Stored' = Stored
        /\ \A u \in Thread \ {t} : call'[u] = call[u]
    BY <1>1, <1>3 DEF IInv, TypeOK, Stored
  <1>. HIDE DEF c, sees
  <1>9. ASSUME NEW l \in Key, l = k \/ l \notin c.rest
        PROVE  \E m \in sees : snap'[t].data[l] = m[l]
    BY <1>2, <1>4, <1>5, <1>7, <1>9 DEF Capturing
  <1>10. SeenOK(call'[t], snap'[t], seen'[t], Stored', now')
    <2>1. CASE c.rest = {k} /\ d = Idle
      <3>1. \A l \in Key : \E m \in sees : snap'[t].data[l] = m[l]
        BY <1>9, <2>1
      <3>. QED BY <1>1, <1>8, <2>1, <3>1, IdleFacts DEF SeenOK, sees
    <2>2. CASE /\ c.rest # {k} /\ d.op = "snapshot" /\ d.pc = "snap_data"
               /\ d.keys = c.keys /\ d.rest = c.rest \ {k}
      <3>1. \A l \in Key : l \notin d.rest => \E m \in sees : snap'[t].data[l] = m[l]
        BY <1>9, <2>2
      <3>2. Capturing(d, snap'[t], sees, Stored, now)
        BY <1>2, <1>4, <2>2, <3>1 DEF Capturing
      <3>3. ~snap'[t].held
        BY <1>7, <1>b, <2>2
      <3>. QED BY <1>1, <1>8, <3>2, <3>3 DEF SeenOK, sees
    <2>. QED BY <1>3, <2>1, <2>2
  <1>11. Watched(t)
    BY <1>1 DEF Watched
  <1>. QED BY <1>7, <1>8, <1>10, <1>11, SeenStep

\* Every step keeps SeenInv when the workload captures consistently.
LEMMA NextSeen == IInv /\ IInv' /\ Captures(workload) /\ SeenInv /\ [Next]_vars => SeenInv'
  <1>. SUFFICES ASSUME IInv, IInv', Captures(workload), SeenInv, [Next]_vars PROVE SeenInv'
    OBVIOUS
  <1>1. ASSUME UNCHANGED vars PROVE SeenInv'
    BY <1>1 DEF vars, SeenInv, Stored
  <1>2. ASSUME Step, workload' = workload PROVE SeenInv'
    BY <1>2, SeenStart, SeenWrites, SeenReads, SeenTxn, SeenError, SeenDrop, SeenTick,
       SeenSnapTtl, SeenSnapData DEF Step, Progress
  <1>. QED BY <1>1, <1>2 DEF Next

\* Where no expiry is set, or nobody else uses the store, each value of a
\* snapshot was visible under its key while the snapshot was being captured,
\* even when operations fail.
THEOREM SnapshotsAreHonest ==
    ASSUME \A w \in Workloads : Captures(w)
    PROVE  Spec => []SnapshotHonest
  <1>1. IInv => Captures(workload)
    BY DEF IInv
  <1>2. SeenInv => SnapshotHonest
    BY DEF SeenInv, SeenOK, SnapshotHonest
  <1>. QED BY <1>1, <1>2, SeenInit, NextSeen, Invariance, PTL DEF Spec

-----------------------------------------------------------------------------
(***************************************************************************)
(* Refinement, for orderly workloads.  A call counts as done once the data *)
(* tree has its write, so the expiries as the clients see them are those   *)
(* of the TTL tree overlaid with the updates still owed.                   *)
(***************************************************************************)
BarOf(cs, ttl) ==
    [k \in Key |->
        IF \E t \in Thread : k \in Owed(cs[t])
        THEN cs[CHOOSE t \in Thread : k \in Owed(cs[t])].exp
        ELSE ttl[k]]

\* Some entries of a map overwritten.
Marked(f, keys, exp) == [k \in Key |-> IF k \in keys THEN exp ELSE f[k]]
Written(f, keys, pairs) == [k \in Key |-> IF k \in keys THEN pairs[k] ELSE f[k]]

\* The same when a single call may owe something.
Overlaid(c, ttl) == [k \in Key |-> IF k \in Owed(c) THEN c.exp ELSE ttl[k]]

\* The expiries of the abstract store, as a function of the calls and the tree.
LEMMA TtlBarIs == TtlBar = BarOf(call, ttl_tree) /\ TtlBar' = BarOf(call', ttl_tree')
  BY DEF TtlBar, BarOf, Owed, SidecarOnly

\* With no expiry anywhere none is seen.
LEMMA BarNone ==
    ASSUME NEW cs, NEW ttl, NEW w, CallsOK(cs, w), NoTtl(w), \A k \in Key : ttl[k] = NoExpiry,
           NEW k \in Key
    PROVE  BarOf(cs, ttl)[k] = NoExpiry
  <1>1. \A t \in Thread : cs[t].exp = NoExpiry
    BY IdleFacts DEF CallsOK, CallShape, NoTtl
  <1>2. CASE \E t \in Thread : k \in Owed(cs[t])
    <2>1. (CHOOSE t \in Thread : k \in Owed(cs[t])) \in Thread
      BY <1>2
    <2>. QED BY <1>1, <1>2, <2>1 DEF BarOf
  <1>3. CASE ~\E t \in Thread : k \in Owed(cs[t])
    BY <1>3 DEF BarOf
  <1>. QED BY <1>2, <1>3

\* With one writer what is owed is owed by it.
LEMMA BarOne ==
    ASSUME NEW cs, NEW ttl, NEW w, CallsOK(cs, w), NEW a \in Thread, Writer(a, w),
           NEW k \in Key
    PROVE  BarOf(cs, ttl)[k] = Overlaid(cs[a], ttl)[k]
  <1>1. ASSUME NEW t \in Thread, t # a PROVE Owed(cs[t]) = {}
    <2>1. cs[t].op \in {"none", "snapshot"} /\ CallShape(cs[t])
      BY <1>1, IdleFacts DEF CallsOK, Writer
    <2>2. cs[t].pc \notin {"ttl", "ttl_each"}
      BY <2>1, IdleFacts DEF CallShape, WritesData, Erases, SidecarOnly
    <2>. QED BY <2>2 DEF Owed
  <1>2. CASE k \in Owed(cs[a])
    <2>1. (CHOOSE t \in Thread : k \in Owed(cs[t])) = a
      BY <1>1, <1>2
    <2>. QED BY <1>2, <2>1 DEF BarOf, Overlaid
  <1>3. CASE k \notin Owed(cs[a])
    BY <1>1, <1>3 DEF BarOf, Overlaid
  <1>. QED BY <1>2, <1>3

\* What a step of one thread does to the expiries the clients see.
LEMMA BarStep ==
    ASSUME IInv, IInv', Orderly(workload), workload' = workload, NEW t \in Thread,
           NEW keys, NEW exp, \A u \in Thread \ {t} : call'[u] = call[u],
           keys = {} \/ (NoTtl(workload) => exp = NoExpiry),
           (ttl_tree' = ttl_tree /\ keys = {}) \/ Mutator(t, workload),
           \/ workload.fails
           \/ \A k \in Key : Overlaid(call'[t], ttl_tree')[k] =
                                IF k \in keys THEN exp ELSE Overlaid(call[t], ttl_tree)[k]
    PROVE  TtlBar' = Marked(TtlBar, keys, exp)
  <1>1. CallsOK(call, workload) /\ CallsOK(call', workload)
    BY DEF IInv
  <1>2. ASSUME NEW k \in Key
        PROVE  BarOf(call', ttl_tree')[k] = IF k \in keys THEN exp ELSE BarOf(call, ttl_tree)[k]
    <2>1. CASE NoTtl(workload)
      <3>1. \A l \in Key : ttl_tree[l] = NoExpiry /\ ttl_tree'[l] = NoExpiry
        BY <2>1 DEF IInv
      <3>2. BarOf(call', ttl_tree')[k] = NoExpiry /\ BarOf(call, ttl_tree)[k] = NoExpiry
        BY <1>1, <2>1, <3>1, BarNone
      <3>. QED BY <2>1, <3>2
    <2>2. CASE OneWriter(workload) /\ ~workload.fails
      <3>1. PICK a \in Thread : Writer(a, workload)
        BY <2>2 DEF OneWriter
      <3>2. /\ BarOf(call', ttl_tree')[k] = Overlaid(call'[a], ttl_tree')[k]
            /\ BarOf(call, ttl_tree)[k] = Overlaid(call[a], ttl_tree)[k]
        BY <1>1, <3>1, BarOne
      <3>3. CASE a = t
        BY <2>2, <3>2, <3>3
      <3>4. CASE a # t
        <4>1. ttl_tree' = ttl_tree /\ keys = {} /\ call'[a] = call[a]
          BY <3>1, <3>4 DEF Mutator, Writer
        <4>. QED BY <3>2, <4>1
      <3>. QED BY <3>3, <3>4
    <2>. QED BY <2>1, <2>2 DEF Orderly
  <1>3. BarOf(call', ttl_tree') = [k \in Key |-> BarOf(call', ttl_tree')[k]]
    BY DEF BarOf
  <1>. QED BY <1>2, <1>3, TtlBarIs DEF Marked

\* While the writer owes nothing, the clients see the TTL tree as it is.
LEMMA BarAt ==
    ASSUME IInv, Orderly(workload), NEW t \in Thread, Mutator(t, workload),
           Owed(call[t]) = {}, NEW k \in Key
    PROVE  TtlBar[k] = ttl_tree[k]
  <1>1. CallsOK(call, workload)
    BY DEF IInv
  <1>2. CASE NoTtl(workload)
    BY <1>1, <1>2, BarNone, TtlBarIs DEF IInv
  <1>3. CASE OneWriter(workload)
    <2>1. Writer(t, workload)
      BY <1>3 DEF OneWriter, Writer, Mutator
    <2>. QED BY <1>1, <2>1, BarOne, TtlBarIs DEF Overlaid
  <1>. QED BY <1>2, <1>3 DEF Orderly

\* The operators on tables are those of the abstract specification.
LEMMA AbsInsert ==
    /\ \A tb, keys, pairs, exp : Abs!Insert(tb, keys, pairs, exp) = Insert(tb, keys, pairs, exp)
    /\ \A tb, keys : Abs!Remove(tb, keys) = Remove(tb, keys)
    /\ \A tb, keys, exp : Abs!SetTtl(tb, keys, exp) = SetTtl(tb, keys, exp)
    /\ \A tb, k, old, since, time :
          Abs!CasMatches(tb, k, old, since, time) = CasMatches(tb, k, old, since, time)
    /\ \A tb, time : Abs!Visible(tb, time) = Visible(tb, time)
    /\ \A tb, time : Abs!ExpiredKeys(tb, time) = ExpiredKeys(tb, time)
    /\ Abs!NoExpiry = NoExpiry
  BY DEF Abs!Insert, Insert, Abs!Remove, Remove, Abs!SetTtl, SetTtl, Abs!SetData, SetData,
         Abs!NoPairs, NoPairs, Abs!NoExpiry, NoExpiry, Abs!CasMatches, CasMatches,
         Abs!Visible, Visible, Abs!is_expired, is_expired, Abs!ExpiredKeys, ExpiredKeys

\* An idle thread has no request pending, and nothing staged is nothing staged.
LEMMA AbsNothing == Pending(Idle) = NoReq /\ Abs!NoReq = NoReq /\ Abs!NothingStaged = NoTouch
  BY DEF Pending, Idle, NoReq, Abs!NoReq, NoPairs, Abs!NoPairs, NoExpiry, Abs!NoExpiry,
         Abs!NothingStaged, NoTouch

TablesOf(data, ttl) == [data |-> data, ttl |-> ttl]

\* The abstract store is the data tree with those expiries.
LEMMA KvBarIs == KvBar = TablesOf(tree, TtlBar) /\ KvBar' = TablesOf(tree', TtlBar')
  BY DEF KvBar, TablesOf

\* Tables overwritten, field by field.
LEMMA TablesAt ==
    ASSUME NEW data, NEW ttl, NEW keys, NEW pairs, NEW exp
    PROVE  /\ Insert(TablesOf(data, ttl), keys, pairs, exp) =
                 TablesOf(Written(data, keys, pairs), Marked(ttl, keys, exp))
           /\ SetTtl(TablesOf(data, ttl), keys, exp) = TablesOf(data, Marked(ttl, keys, exp))
  <1>1. ASSUME NEW a, NEW b
        PROVE  SetTtl(TablesOf(a, b), keys, exp) = TablesOf(a, Marked(b, keys, exp))
    BY DEF SetTtl, Marked, TablesOf
  <1>2. SetData(TablesOf(data, ttl), keys, pairs) = TablesOf(Written(data, keys, pairs), ttl)
    BY DEF SetData, Written, TablesOf
  <1>. QED BY <1>1, <1>2 DEF Insert

\* The initial states are initial states of the abstract specification.
LEMMA AbsInitial == Init => Abs!Init
  <1>. SUFFICES ASSUME Init PROVE Abs!Init
    OBVIOUS
  <1>1. TtlBar = [k \in Key |-> NoExpiry]
    <2>1. \A t \in Thread : Owed(call[t]) = {}
      BY IdleFacts DEF Init, Owed
    <2>. QED BY <2>1 DEF Init, TtlBar
  <1>2. KvBar = Abs!EmptyTables
    BY <1>1 DEF Init, KvBar, NoPairs, Abs!EmptyTables, NoExpiry, Abs!NoExpiry
  <1>3. ReqBar = [t \in Thread |-> Abs!NoReq]
    BY AbsNothing DEF Init, ReqBar
  <1>4. OpenBar = {} /\ StagedBar = [t \in Thread |-> Abs!NothingStaged]
    BY AbsNothing DEF Init, OpenBar, StagedBar, NoTxn
  <1>. QED BY <1>2, <1>3, <1>4 DEF Abs!Init, Init

\* What the clients see of a change of one thread's call.
LEMMA CallBar ==
    ASSUME TypeOK, NEW t \in Thread, NEW d, call' = [call EXCEPT ![t] = d]
    PROVE  /\ ReqBar' = [ReqBar EXCEPT ![t] = Pending(d)] /\ ReqBar[t] = Pending(call[t])
           /\ ReqBar'[t] = Pending(d)
           /\ \A u \in Thread \ {t} : call'[u] = call[u]
           /\ call'[t] = d
           /\ Pending(d) = Pending(call[t]) => ReqBar' = ReqBar
  <1>1. \A u \in Thread : Pending(call'[u]) = IF u = t THEN Pending(d) ELSE Pending(call[u])
    BY DEF TypeOK
  <1>2. ReqBar' = [u \in Thread |-> Pending(call'[u])]
    BY DEF ReqBar, Pending, NoReq, SidecarOnly
  <1>3. ReqBar' = [ReqBar EXCEPT ![t] = Pending(d)] /\ ReqBar[t] = Pending(call[t])
    BY <1>1, <1>2 DEF ReqBar
  <1>. QED BY <1>1, <1>2, <1>3 DEF ReqBar, TypeOK

\* Transactions are the clients' own.
LEMMA TxnBar ==
    ASSUME txn' = txn
    PROVE  OpenBar' = OpenBar /\ StagedBar' = StagedBar
  BY DEF OpenBar, StagedBar

\* Finishing a call, with its effect or without, is an abstract Respond.
LEMMA RespondStep ==
    ASSUME TypeOK, NEW t \in Thread, NEW d, call' = [call EXCEPT ![t] = d],
           Pending(call[t]) # NoReq, Pending(d) = NoReq, UNCHANGED <<now, txn>>,
           KvBar' = KvBar \/ Abs!IsEffect(KvBar', Pending(call[t]))
    PROVE  Abs!Respond(t)
  <1>1. /\ ReqBar' = [ReqBar EXCEPT ![t] = Abs!NoReq] /\ ReqBar[t] = Pending(call[t])
        /\ ReqBar[t] # Abs!NoReq
    BY CallBar, AbsNothing
  <1>2. OpenBar' = OpenBar /\ StagedBar' = StagedBar
    BY TxnBar
  <1>. QED BY <1>1, <1>2 DEF Abs!Respond

\* Steps invisible to the clients.
LEMMA StutterStep ==
    ASSUME TypeOK, NEW t \in Thread, NEW d, call' = [call EXCEPT ![t] = d],
           Pending(call[t]) = Pending(d), UNCHANGED <<now, txn>>, KvBar' = KvBar
    PROVE  UNCHANGED Abs!vars
  <1>1. ReqBar' = ReqBar
    BY CallBar
  <1>2. OpenBar' = OpenBar /\ StagedBar' = StagedBar
    BY TxnBar
  <1>. QED BY <1>1, <1>2 DEF Abs!vars

\* A request becomes pending: an abstract Invoke.
LEMMA InvokeStep ==
    ASSUME TypeOK, NEW t \in Thread, NEW d \in Call, call' = [call EXCEPT ![t] = d],
           Pending(call[t]) = NoReq,
           d.op \in WritesData \cup SidecarOnly,
           d.pc \in {"probe", "data"} \/ (d.pc = "ttl" /\ d.op \in SidecarOnly),
           d.since = now, UNCHANGED <<now, txn>>, KvBar' = KvBar
    PROVE  Abs!Invoke(t)
  <1>1. /\ ReqBar' = [ReqBar EXCEPT ![t] = Pending(d)] /\ ReqBar[t] = Abs!NoReq
        /\ ReqBar'[t] = Pending(d)
    BY CallBar, AbsNothing
  <1>2. Pending(d) = [op |-> d.op, keys |-> d.keys, pairs |-> d.pairs, exp |-> d.exp,
                    old |-> d.old, since |-> d.since]
    BY DEF Pending
  <1>3. Pending(d) \in Abs!Request /\ Pending(d).since = now
    BY <1>2 DEF Call, WritesData, Erases, SidecarOnly, Abs!Request, Abs!OpName,
                Abs!MaybeValue, MaybeValue, Abs!Expiry, Expiry, Abs!NoExpiry, NoExpiry
  <1>4. OpenBar' = OpenBar /\ StagedBar' = StagedBar
    BY TxnBar
  <1>. QED BY <1>1, <1>3, <1>4 DEF Abs!Invoke

\* The tables as the clients see them, when nothing is owed more or less.
LEMMA SameKv ==
    ASSUME IInv, IInv', Orderly(workload), workload' = workload, NEW t \in Thread, NEW d,
           call' = [call EXCEPT ![t] = d], tree' = tree, 
           ttl_tree' = ttl_tree \/ Mutator(t, workload),
           \/ workload.fails
           \/ \A k \in Key : Overlaid(d, ttl_tree')[k] = Overlaid(call[t], ttl_tree)[k]
    PROVE  KvBar' = KvBar
  <1>1. call'[t] = d /\ \A u \in Thread \ {t} : call'[u] = call[u]
    BY DEF IInv, TypeOK
  <1>2. TtlBar' = Marked(TtlBar, {}, NoExpiry)
    <2>1. \/ workload.fails
          \/ \A k \in Key : Overlaid(call'[t], ttl_tree')[k] =
                               IF k \in {} THEN NoExpiry ELSE Overlaid(call[t], ttl_tree)[k]
      BY <1>1
    <2>. QED BY <1>1, <2>1, BarStep
  <1>3. TtlBar = [k \in Key |-> TtlBar[k]]
    BY DEF TtlBar
  <1>4. TtlBar' = TtlBar
    BY <1>2, <1>3 DEF Marked
  <1>. QED BY <1>4 DEF KvBar

\* Steps that write neither tree, of calls that owe nothing.
LEMMA SameKvQuiet ==
    ASSUME IInv, IInv', Orderly(workload), workload' = workload, NEW t \in Thread, NEW d,
           call' = [call EXCEPT ![t] = d], UNCHANGED <<tree, ttl_tree>>,
           workload.fails \/ (Owed(call[t]) = {} /\ Owed(d) = {})
    PROVE  KvBar' = KvBar
  <1>1. \/ workload.fails
        \/ \A k \in Key : Overlaid(d, ttl_tree')[k] = Overlaid(call[t], ttl_tree)[k]
    BY DEF Overlaid
  <1>. QED BY <1>1, SameKv

-----------------------------------------------------------------------------
\* What a call owes and has pending, by its step.
LEMMA StepFacts ==
    ASSUME NEW c
    PROVE  /\ c.pc \notin {"ttl", "ttl_each"} => Owed(c) = {}
           /\ c.pc \in {"purge", "ttl_each", "snap_ttl", "snap_data"} => Pending(c) = NoReq
           /\ c.pc = "ttl" /\ c.op \notin SidecarOnly => Owed(c) = c.keys /\ Pending(c) = NoReq
           /\ c.pc = "ttl" /\ c.op \in SidecarOnly => Owed(c) = {}
           /\ c.pc = "ttl_each" => Owed(c) = c.rest
  BY DEF Owed, Pending

\* What is pending of a call.
LEMMA PendingFacts ==
    ASSUME NEW c, c.op # "none",
           c.pc \in {"probe", "data"} \/ (c.pc = "ttl" /\ c.op \in SidecarOnly)
    PROVE  /\ Pending(c) # NoReq
           /\ Pending(c).op = c.op /\ Pending(c).keys = c.keys /\ Pending(c).pairs = c.pairs
           /\ Pending(c).exp = c.exp /\ Pending(c).old = c.old
           /\ Pending(c).since = c.since
  BY DEF Pending, NoReq

\* A thread that runs no call owes nothing and stands for no request.
LEMMA IdleBar == Owed(Idle) = {} /\ Pending(Idle) = NoReq
  BY IdleFacts, AbsNothing DEF Owed

\* Starting a call is an Invoke; a purge has yet to find something to do.
LEMMA StartRefines ==
    ASSUME IInv, IInv', Orderly(workload), workload' = workload, NEW t \in Thread, Start(t)
    PROVE  Abs!Invoke(t) \/ Abs!BeginTxn(t) \/ UNCHANGED Abs!vars
  <1>0. TypeOK
    BY DEF IInv
  <1>1. ASSUME NEW c \in Call, FirstStep(c), Begin(t, c)
        PROVE  Abs!Invoke(t) \/ UNCHANGED Abs!vars
    <2>1. /\ call' = [call EXCEPT ![t] = c] /\ call[t] = Idle
          /\ UNCHANGED <<tree, ttl_tree, now, txn>>
      BY <1>1 DEF Begin
    <2>2. Owed(c) = {}
      BY <1>1, StepFacts DEF FirstStep
    <2>3. KvBar' = KvBar
      BY <2>1, <2>2, IdleBar, SameKvQuiet
    <2>4. CASE c.pc = "purge"
      BY <1>0, <2>1, <2>3, <2>4, IdleBar, StepFacts, StutterStep
    <2>5. CASE c.pc # "purge"
      <3>1. c.op \in WritesData \cup SidecarOnly
        BY <1>1, <2>5 DEF FirstStep, CallShape, WritesData, Erases
      <3>2. c.pc \in {"probe", "data"} \/ (c.pc = "ttl" /\ c.op \in SidecarOnly)
        BY <1>1, <2>5 DEF FirstStep
      <3>3. c.since = now
        BY <1>1 DEF FirstStep
      <3>. QED BY <1>0, <2>1, <2>3, <3>1, <3>2, <3>3, IdleBar, InvokeStep
    <2>. QED BY <2>4, <2>5
  <1>2. ASSUME transaction(t) PROVE Abs!BeginTxn(t)
    <2>1. /\ UNCHANGED <<tree, ttl_tree, now, call>> /\ call[t] = Idle /\ ~txn[t].open
          /\ txn' = [txn EXCEPT ![t].open = TRUE]
      BY <1>2 DEF transaction
    <2>2. call \in [Thread -> Call] /\ txn \in [Thread -> [open : BOOLEAN, overlay : [Key -> MaybeValue \cup {Untouched}]]]
      BY <1>0 DEF TypeOK
    <2>3. \A u \in Thread : /\ txn'[u].open = IF u = t THEN TRUE ELSE txn[u].open
                            /\ txn'[u].overlay = txn[u].overlay
      BY <2>1, <2>2
    <2>4. OpenBar' = OpenBar \cup {t} /\ t \notin OpenBar /\ StagedBar' = StagedBar
      BY <2>1, <2>3 DEF OpenBar, StagedBar
    <2>5. call' = [call EXCEPT ![t] = Idle]
      BY <2>1, <2>2
    <2>6. KvBar' = KvBar
      BY <2>1, <2>5, IdleBar, SameKvQuiet
    <2>7. ReqBar' = [ReqBar EXCEPT ![t] = Abs!NoReq] /\ ReqBar[t] = Abs!NoReq
      BY <1>0, <2>1, <2>5, CallBar, AbsNothing
    <2>. QED BY <2>1, <2>4, <2>6, <2>7 DEF Abs!BeginTxn
  <1>3. ASSUME snapshot(t) PROVE UNCHANGED Abs!vars
    <2>. DEFINE d == Iterate("snapshot", "snap_ttl", Key)
    <2>1. /\ call' = [call EXCEPT ![t] = d] /\ call[t] = Idle
          /\ UNCHANGED <<tree, ttl_tree, now, txn>>
      BY <1>3 DEF snapshot
    <2>2. d.pc = "snap_ttl"
      BY DEF Iterate
    <2>. HIDE DEF d
    <2>3. Owed(d) = {} /\ Pending(d) = NoReq
      BY <2>2, StepFacts
    <2>4. KvBar' = KvBar
      BY <2>1, <2>3, IdleBar, SameKvQuiet
    <2>. QED BY <1>0, <2>1, <2>3, <2>4, IdleBar, StutterStep
  <1>. QED BY <1>1, <1>2, <1>3, StartShape

\* The effect of a write on the tables as the clients see them.
LEMMA WriteEffect ==
    ASSUME IInv, OrderInv, Orderly(workload), ~Careless, NEW t \in Thread, WriteTree(t)
    PROVE  Abs!IsEffect(Insert(KvBar, call[t].keys, call[t].pairs, call[t].exp), Pending(call[t]))
  <1>. DEFINE c == call[t]
              r == Pending(c)
              tb == Insert(KvBar, c.keys, c.pairs, c.exp)
  <1>1. c.pc = "data" /\ (c.op = "compare_and_swap" => \A k \in c.keys : tree[k] = c.old)
    BY DEF WriteTree
  <1>2. c \in Call /\ CallShape(c) /\ c.keys \in SUBSET Key /\ Mutator(t, workload)
        /\ Holding(c, tree, ttl_tree, now) /\ c.since \in Nat /\ now \in Nat
    BY <1>1, CallFacts, CallMutates DEF OrderInv, IInv, TypeOK
  <1>3. \A k \in Key : TtlBar[k] = ttl_tree[k]
    BY <1>1, <1>2, StepFacts, BarAt
  <1>4. KvBar.data = tree /\ KvBar.ttl = TtlBar
    BY DEF KvBar
  <1>. HIDE DEF c
  <1>5. /\ c.op \in WritesData /\ (c.op \in Erases => c.pairs = NoPairs)
        /\ (c.op \in SetsTtl <=> c.exp # NoExpiry)
    BY <1>1, <1>2 DEF CallShape
  <1>6. /\ r.op = c.op /\ r.keys = c.keys /\ r.pairs = c.pairs /\ r.exp = c.exp /\ r.old = c.old
        /\ r.since = c.since
    BY <1>1, <1>5, PendingFacts DEF WritesData, Erases
  <1>. HIDE DEF r, tb
  <1>7. tb = Insert(KvBar, c.keys, c.pairs, c.exp)
    BY DEF tb
  <1>8. CASE c.op \in {"put", "batch_write"}
    <2>1. c.exp = NoExpiry
      BY <1>5, <1>8 DEF SetsTtl
    <2>. QED BY <1>6, <1>7, <1>8, <2>1, AbsInsert DEF Abs!IsEffect, c, r, tb
  <1>9. CASE c.op = "put_with_ttl"
    BY <1>6, <1>7, <1>9, AbsInsert DEF Abs!IsEffect, c, r, tb
  <1>10. CASE c.op \in Erases
    <2>1. c.exp = NoExpiry /\ c.pairs = NoPairs
      BY <1>5, <1>10 DEF SetsTtl, Erases
    <2>2. tb = Remove(KvBar, c.keys)
      BY <1>7, <2>1 DEF Remove
    <2>3. c.op \in Evicts => c.keys \subseteq ExpiredKeys(KvBar, now)
      BY <1>1, <1>2, <1>3, <1>4 DEF Holding, ExpiredKeys
    <2>4. Abs!IsEffect(tb, r)
      BY <1>6, <1>10, <2>2, <2>3, AbsInsert DEF Abs!IsEffect, Erases, Evicts
    <2>. QED BY <2>4 DEF c, r, tb
  <1>11. CASE c.op = "compare_and_swap"
    <2>1. c.exp = NoExpiry
      BY <1>5, <1>11 DEF SetsTtl
    <2>2. \A k \in c.keys : CasMatches(KvBar, k, c.old, c.since, now)
      <3>1. ASSUME NEW k \in c.keys PROVE CasMatches(KvBar, k, c.old, c.since, now)
        <4>1. k \in Key /\ KvBar.data[k] = c.old /\ ~is_expired(KvBar.ttl[k], c.since)
          BY <1>1, <1>2, <1>3, <1>4, <1>11 DEF Holding
        <4>2. c.since \in c.since .. now
          BY <1>1, <1>2, <1>11 DEF Holding
        <4>. QED BY <4>1, <4>2, VisibleAt DEF CasMatches
      <3>. QED BY <3>1
    <2>3. Abs!IsEffect(tb, r)
      BY <1>6, <1>7, <1>11, <2>1, <2>2, AbsInsert DEF Abs!IsEffect
    <2>. QED BY <2>3 DEF c, r, tb
  <1>. QED BY <1>5, <1>8, <1>9, <1>10, <1>11 DEF WritesData

\* The write of the data tree is the instant at which a call takes effect.
LEMMA WriteTreeRefines ==
    ASSUME IInv, IInv', OrderInv, Orderly(workload), ~Careless, workload' = workload,
           NEW t \in Thread, WriteTree(t)
    PROVE  Abs!Respond(t)
  <1>. DEFINE c == call[t]
              d == [c EXCEPT !.pc = "ttl"]
  <1>0. TypeOK
    BY DEF IInv
  <1>1. /\ c.pc = "data" /\ UNCHANGED <<ttl_tree, now, txn>>
        /\ tree' = SetData(Stored, c.keys, c.pairs).data
    BY DEF WriteTree
  <1>2. call' = [call EXCEPT ![t] = d]
    BY <1>0 DEF WriteTree, TypeOK
  <1>3. c \in Call /\ CallShape(c) /\ Mutator(t, workload) /\ (NoTtl(workload) => c.exp = NoExpiry)
    BY <1>1, CallFacts, CallMutates
  <1>4. d.pc = "ttl" /\ d.op = c.op /\ d.keys = c.keys /\ d.exp = c.exp
    BY <1>3 DEF Call
  <1>5. tree' = Written(tree, c.keys, c.pairs)
    BY <1>0, <1>1, StoredFacts DEF SetData, Tables, Written
  <1>6. Abs!IsEffect(Insert(KvBar, c.keys, c.pairs, c.exp), Pending(c))
    BY WriteEffect
  <1>7. call'[t] = d /\ \A u \in Thread \ {t} : call'[u] = call[u]
    BY <1>0, <1>2, CallBar
  <1>. HIDE DEF c, d
  <1>8. c.op \in WritesData
    BY <1>1, <1>3 DEF CallShape
  <1>9. c.op \notin SidecarOnly /\ c.op # "none"
    BY <1>8 DEF WritesData, Erases, SidecarOnly
  <1>10. Owed(c) = {} /\ Owed(d) = c.keys /\ Pending(d) = NoReq /\ Pending(c) # NoReq
    BY <1>1, <1>4, <1>9, StepFacts, PendingFacts
  <1>11. \A k \in Key : Overlaid(d, ttl_tree')[k] =
                           IF k \in c.keys THEN c.exp ELSE Overlaid(c, ttl_tree)[k]
    BY <1>1, <1>4, <1>10 DEF Overlaid
  <1>12. TtlBar' = Marked(TtlBar, c.keys, c.exp)
    <2>1. \A k \in Key : Overlaid(call'[t], ttl_tree')[k] =
                            IF k \in c.keys THEN c.exp ELSE Overlaid(call[t], ttl_tree)[k]
      BY <1>7, <1>11 DEF c
    <2>. QED BY <1>3, <1>7, <2>1, BarStep
  <1>13. KvBar' = Insert(KvBar, c.keys, c.pairs, c.exp)
    BY <1>5, <1>12, KvBarIs, TablesAt
  <1>. QED BY <1>0, <1>1, <1>2, <1>6, <1>10, <1>13, RespondStep DEF c

\* The write of the TTL tree is invisible, except in expire and persist, which
\* have nothing else to write.
LEMMA WriteTtlRefines ==
    ASSUME IInv, IInv', OrderInv, Orderly(workload), ~Careless, workload' = workload,
           NEW t \in Thread, WriteTtlTree(t)
    PROVE  Abs!Respond(t) \/ UNCHANGED Abs!vars
  <1>. DEFINE c == call[t]
              d == IF c.rest # {} THEN [c EXCEPT !.pc = "purge", !.keys = {}] ELSE Idle
  <1>0. TypeOK
    BY DEF IInv
  <1>1. /\ c.pc = "ttl" /\ UNCHANGED <<tree, now, txn>> /\ call' = [call EXCEPT ![t] = d]
        /\ ttl_tree' = SetTtl(Stored, c.keys, c.exp).ttl
    BY DEF WriteTtlTree
  <1>2. /\ c \in Call /\ CallShape(c) /\ Mutator(t, workload) /\ c.keys \in SUBSET Key
        /\ (NoTtl(workload) => c.exp = NoExpiry) /\ Holding(c, tree, ttl_tree, now)
    BY <1>1, CallFacts, CallMutates DEF OrderInv
  <1>3. \A k \in Key : ttl_tree'[k] = IF k \in c.keys THEN c.exp ELSE ttl_tree[k]
    BY <1>0, <1>1, StoredFacts, SetTtlAt
  <1>4. Owed(d) = {} /\ Pending(d) = NoReq
    <2>1. [c EXCEPT !.pc = "purge", !.keys = {}].pc = "purge"
      BY <1>2 DEF Call
    <2>. QED BY <2>1, StepFacts, IdleBar
  <1>5. call'[t] = d /\ \A u \in Thread \ {t} : call'[u] = call[u]
    BY <1>0, <1>1, CallBar
  <1>. HIDE DEF c, d
  <1>6. CASE c.op \notin SidecarOnly
    <2>1. Owed(c) = c.keys /\ Pending(c) = NoReq
      BY <1>1, <1>6, StepFacts
    <2>2. \A k \in Key : Overlaid(d, ttl_tree')[k] = Overlaid(c, ttl_tree)[k]
      BY <1>3, <1>4, <2>1 DEF Overlaid
    <2>3. KvBar' = KvBar
      BY <1>1, <1>2, <2>2, SameKv DEF c
    <2>. QED BY <1>0, <1>1, <1>4, <2>1, <2>3, StutterStep DEF c
  <1>7. CASE c.op \in SidecarOnly
    <2>1. Owed(c) = {} /\ Pending(c) # NoReq /\ Pending(c).op = c.op
          /\ Pending(c).keys = c.keys /\ Pending(c).exp = c.exp /\ Pending(c).since = c.since
      BY <1>1, <1>7, StepFacts, PendingFacts DEF SidecarOnly
    <2>2. \A k \in Key : Overlaid(d, ttl_tree')[k] =
                            IF k \in c.keys THEN c.exp ELSE Overlaid(c, ttl_tree)[k]
      BY <1>3, <1>4, <2>1 DEF Overlaid
    <2>3. TtlBar' = Marked(TtlBar, c.keys, c.exp)
      <3>1. \A k \in Key : Overlaid(call'[t], ttl_tree')[k] =
                              IF k \in c.keys THEN c.exp ELSE Overlaid(call[t], ttl_tree)[k]
        BY <1>5, <2>2 DEF c
      <3>. QED BY <1>2, <1>5, <3>1, BarStep
    <2>4. KvBar' = SetTtl(KvBar, c.keys, c.exp)
      BY <1>1, <2>3, KvBarIs, TablesAt
    <2>b. \A k \in Key : TtlBar[k] = ttl_tree[k]
      BY <1>2, <2>1, BarAt DEF c
    <2>5. \A k \in c.keys : ~is_expired(TtlBar[k], c.since)
      BY <1>2, <1>7, <2>b DEF Holding, SidecarOnly
    <2>6. c.op = "persist" => c.exp = NoExpiry
      BY <1>2 DEF CallShape, SetsTtl
    <2>l. CASE c.op = "persist" /\ \A k \in c.keys : ttl_tree[k] = NoExpiry
      <3>1. KvBar' = KvBar
        <4>1. TtlBar = [k \in Key |-> TtlBar[k]]
          BY DEF TtlBar
        <4>2. TtlBar' = TtlBar
          BY <1>2, <2>3, <2>6, <2>b, <2>l, <4>1 DEF Marked
        <4>. QED BY <1>1, <4>2, KvBarIs
      <3>. QED BY <1>0, <1>1, <1>4, <2>1, <3>1, RespondStep DEF c
    <2>m. CASE \A k \in c.keys : tree[k] # Absent
      <3>1. \A k \in c.keys : Visible(KvBar, c.since)[k] # Absent
        BY <1>2, <2>5, <2>m, VisibleAt DEF KvBar
      <3>. DEFINE r == Pending(c)
                  tb == SetTtl(KvBar, c.keys, c.exp)
      <3>2. /\ r.op = c.op /\ r.keys = c.keys /\ r.exp = c.exp /\ r.since = c.since
            /\ tb = SetTtl(KvBar, c.keys, c.exp)
        BY <2>1
      <3>. HIDE DEF r, tb
      <3>3. \A k \in r.keys : Abs!WasLive(k, r)
        BY <3>1, <3>2, AbsInsert DEF Abs!WasLive
      <3>4. Abs!IsEffect(tb, r)
        BY <1>7, <2>6, <3>2, <3>3, AbsInsert DEF Abs!IsEffect, SidecarOnly
      <3>5. Abs!IsEffect(KvBar', Pending(c))
        BY <2>4, <3>4 DEF r, tb
      <3>. QED BY <1>0, <1>1, <1>4, <2>1, <3>5, RespondStep DEF c
    <2>. QED BY <1>2, <1>7, <2>l, <2>m DEF Holding, SidecarOnly
  <1>. QED BY <1>6, <1>7

\* Calls that end without a write return without an effect.
LEMMA ReadRefines ==
    ASSUME IInv, IInv', Orderly(workload), workload' = workload, NEW t \in Thread,
           Probe(t) \/ CasRefused(t)
    PROVE  Abs!Respond(t) \/ UNCHANGED Abs!vars
  <1>. DEFINE c == call[t]
              d == [c EXCEPT !.pc = "data"]
  <1>0. TypeOK
    BY DEF IInv
  <1>1. UNCHANGED <<tree, ttl_tree, now, txn>> /\ c.pc \in {"probe", "data"}
    BY DEF Probe, CasRefused
  <1>2. c \in Call /\ CallShape(c) /\ c # Idle
    BY <1>1, CallFacts
  <1>3. c.op # "none"
    BY <1>2 DEF CallShape
  <1>4. Owed(c) = {} /\ Pending(c) # NoReq
    BY <1>1, <1>3, StepFacts, PendingFacts
  <1>5. ASSUME call' = [call EXCEPT ![t] = Idle] PROVE Abs!Respond(t)
    <2>1. KvBar' = KvBar
      BY <1>1, <1>4, <1>5, IdleBar, SameKvQuiet
    <2>. QED BY <1>0, <1>1, <1>4, <1>5, <2>1, IdleBar, RespondStep
  <1>6. ASSUME call' = [call EXCEPT ![t] = d] PROVE UNCHANGED Abs!vars
    <2>1. /\ d.pc = "data" /\ d.op = c.op /\ d.keys = c.keys /\ d.pairs = c.pairs
          /\ d.exp = c.exp /\ d.old = c.old /\ d.since = c.since
      BY <1>2 DEF Call
    <2>. HIDE DEF c, d
    <2>2. Owed(d) = {} /\ Pending(d) = Pending(c)
      BY <1>1, <2>1, StepFacts DEF Pending
    <2>3. KvBar' = KvBar
      BY <1>1, <1>4, <1>6, <2>2, SameKvQuiet DEF c
    <2>. QED BY <1>0, <1>1, <1>6, <2>2, <2>3, StutterStep DEF c
  <1>. QED BY <1>5, <1>6 DEF Probe, CasRefused

\* A purge that finds an expired key asks for its eviction.
LEMMA PurgeRefines ==
    ASSUME IInv, IInv', Orderly(workload), workload' = workload, NEW t \in Thread,
           NEW k \in Key, PurgeVisit(t, k)
    PROVE  Abs!Invoke(t) \/ UNCHANGED Abs!vars
  <1>. DEFINE c == call[t]
              hit == [c EXCEPT !.pc = "data", !.keys = {k}, !.rest = c.rest \ {k},
                                 !.since = now]
              miss == [c EXCEPT !.rest = c.rest \ {k}]
  <1>0. TypeOK
    BY DEF IInv
  <1>1. UNCHANGED <<tree, ttl_tree, now, txn>> /\ c.pc = "purge" /\ k \in c.rest
    BY DEF PurgeVisit
  <1>2. c \in Call /\ c.op = "purge_expired"
    BY <1>1, CallFacts DEF CallShape
  <1>3. /\ hit \in Call /\ hit.pc = "data" /\ hit.op = c.op /\ hit.since = now
        /\ miss.pc = "purge"
    BY <1>0, <1>1, <1>2 DEF Call, TypeOK
  <1>4. \/ call' = [call EXCEPT ![t] = hit] \/ call' = [call EXCEPT ![t] = miss]
        \/ call' = [call EXCEPT ![t] = Idle]
    <2>1. CASE is_expired(ttl_tree[k], now)
      BY <2>1 DEF PurgeVisit
    <2>2. CASE ~is_expired(ttl_tree[k], now)
      BY <2>2 DEF PurgeVisit, After
    <2>. QED BY <2>1, <2>2
  <1>. HIDE DEF c, hit, miss
  <1>5. /\ Owed(c) = {} /\ Pending(c) = NoReq /\ Owed(hit) = {}
        /\ Owed(miss) = {} /\ Pending(miss) = NoReq
    BY <1>1, <1>3, StepFacts
  <1>6. KvBar' = KvBar
    BY <1>1, <1>4, <1>5, IdleBar, SameKvQuiet DEF c
  <1>7. ASSUME call' = [call EXCEPT ![t] = hit] PROVE Abs!Invoke(t)
    <2>1. hit.op \in WritesData \cup SidecarOnly
      BY <1>2, <1>3 DEF WritesData, Erases
    <2>. QED BY <1>0, <1>1, <1>3, <1>5, <1>6, <1>7, <2>1, InvokeStep DEF c
  <1>8. ASSUME call' = [call EXCEPT ![t] = miss] \/ call' = [call EXCEPT ![t] = Idle]
        PROVE  UNCHANGED Abs!vars
    BY <1>0, <1>1, <1>5, <1>6, <1>8, IdleBar, StutterStep DEF c
  <1>. QED BY <1>4, <1>7, <1>8

\* A failing call returns without an effect, or has had it already.
LEMMA ErrorRefines ==
    ASSUME IInv, IInv', Orderly(workload), workload' = workload, NEW t \in Thread, IoError(t)
    PROVE  Abs!Respond(t) \/ UNCHANGED Abs!vars
  <1>0. TypeOK
    BY DEF IInv
  <1>1. /\ workload.fails /\ call' = [call EXCEPT ![t] = Idle]
        /\ UNCHANGED <<tree, ttl_tree, now, txn>>
    BY DEF IoError
  <1>2. KvBar' = KvBar
    BY <1>1, SameKvQuiet
  <1>3. CASE Pending(call[t]) = NoReq
    BY <1>0, <1>1, <1>2, <1>3, IdleBar, StutterStep
  <1>4. CASE Pending(call[t]) # NoReq
    BY <1>0, <1>1, <1>2, <1>4, IdleBar, RespondStep
  <1>. QED BY <1>3, <1>4

\* A commit is applied as a whole when the data tree has it.
LEMMA CommitRefines ==
    ASSUME IInv, IInv', Orderly(workload), workload' = workload, NEW t \in Thread, TxnCommit(t)
    PROVE  Abs!Commit(t)
  <1>. DEFINE keys == Touched(t)
              d == IF keys = {} THEN Idle ELSE Iterate("commit", "ttl_each", keys)
  <1>0. TypeOK
    BY DEF IInv
  <1>1. /\ call' = [call EXCEPT ![t] = d] /\ InTxn(t) /\ UNCHANGED <<ttl_tree, now>>
        /\ txn' = [txn EXCEPT ![t] = NoTxn]
        /\ tree' = SetData(Stored, keys, txn[t].overlay).data
    BY DEF TxnCommit
  <1>2. Owed(d) = keys /\ Pending(d) = NoReq /\ d.exp = NoExpiry
    <2>1. CASE keys = {}
      BY <2>1, IdleBar, IdleFacts
    <2>2. CASE keys # {}
      <3>. DEFINE e == Iterate("commit", "ttl_each", keys)
      <3>1. e.pc = "ttl_each" /\ e.rest = keys /\ e.exp = NoExpiry
        BY DEF Iterate
      <3>. HIDE DEF e
      <3>2. Owed(e) = keys /\ Pending(e) = NoReq
        BY <3>1, StepFacts
      <3>. QED BY <2>2, <3>1, <3>2 DEF e
    <2>. QED BY <2>1, <2>2
  <1>3. tree' = Written(tree, keys, txn[t].overlay)
    BY <1>0, <1>1, CommitTree DEF Written
  <1>4. /\ call[t] = Idle /\ txn[t].open /\ Mutator(t, workload)
    BY <1>1 DEF InTxn, IInv, TxnsOK, Mutator
  <1>5. call'[t] = d /\ \A u \in Thread \ {t} : call'[u] = call[u]
    BY <1>0, <1>1, CallBar
  <1>6. keys = {k \in Key : txn[t].overlay[k] # Untouched}
    BY DEF Touched
  <1>. HIDE DEF keys, d
  <1>7. TtlBar' = Marked(TtlBar, keys, NoExpiry)
    <2>1. \A k \in Key : Overlaid(call'[t], ttl_tree')[k] =
                            IF k \in keys THEN NoExpiry ELSE Overlaid(call[t], ttl_tree)[k]
      BY <1>1, <1>2, <1>4, <1>5, IdleBar DEF Overlaid
    <2>. QED BY <1>4, <1>5, <2>1, BarStep
  <1>8. KvBar' = Insert(KvBar, keys, txn[t].overlay, NoExpiry)
    BY <1>3, <1>7, KvBarIs, TablesAt
  <1>9. StagedBar[t] = txn[t].overlay
    BY DEF StagedBar
  <1>10. KvBar' = Abs!Applied(KvBar, StagedBar[t])
    BY <1>6, <1>8, <1>9, AbsInsert DEF Abs!Applied
  <1>11. /\ OpenBar' = OpenBar \ {t} /\ t \in OpenBar
         /\ StagedBar' = [StagedBar EXCEPT ![t] = Abs!NothingStaged]
    <2>1. \A u \in Thread : txn'[u] = IF u = t THEN NoTxn ELSE txn[u]
      BY <1>0, <1>1 DEF TypeOK
    <2>2. NoTxn.open = FALSE /\ NoTxn.overlay = Abs!NothingStaged
      BY AbsNothing DEF NoTxn
    <2>. QED BY <1>4, <2>1, <2>2 DEF OpenBar, StagedBar
  <1>12. ReqBar' = ReqBar
    BY <1>0, <1>1, <1>2, <1>4, IdleBar, CallBar
  <1>. QED BY <1>1, <1>10, <1>11, <1>12 DEF Abs!Commit, Abs!EndTxn

\* The steps of SledTxn are those of the contract's transaction.
LEMMA TxnRefines ==
    ASSUME IInv, IInv', Orderly(workload), workload' = workload, NEW t \in Thread, TxnStep(t)
    PROVE  Abs!Stage(t) \/ Abs!Commit(t) \/ Abs!Rollback(t)
  <1>0. TypeOK
    BY DEF IInv
  <1>1. ASSUME UNCHANGED <<tree, ttl_tree, call>>
        PROVE  KvBar' = KvBar /\ ReqBar' = ReqBar
    <2>1. TtlBar' = TtlBar
      BY <1>1, TtlBarIs
    <2>2. KvBar' = KvBar
      BY <1>1, <2>1, KvBarIs
    <2>3. call' = [call EXCEPT ![t] = call[t]]
      BY <1>0, <1>1 DEF TypeOK
    <2>. QED BY <1>0, <2>2, <2>3, CallBar
  <1>2. ASSUME NEW k \in Key, NEW val \in MaybeValue, TxnWrite(t, k, val) PROVE Abs!Stage(t)
    <2>1. /\ InTxn(t) /\ txn' = [txn EXCEPT ![t].overlay[k] = val]
          /\ UNCHANGED <<tree, ttl_tree, now, call>>
      BY <1>2 DEF TxnWrite
    <2>2. \A u \in Thread :
             /\ txn'[u].open = txn[u].open
             /\ txn'[u].overlay = IF u = t THEN [txn[t].overlay EXCEPT ![k] = val]
                                  ELSE txn[u].overlay
      BY <1>0, <2>1 DEF TypeOK
    <2>3. OpenBar' = OpenBar /\ t \in OpenBar
      BY <2>1, <2>2 DEF OpenBar, InTxn
    <2>4. StagedBar' = [StagedBar EXCEPT ![t] = [StagedBar[t] EXCEPT ![k] = val]]
      BY <2>2 DEF StagedBar
    <2>5. val \in Abs!MaybeValue
      BY DEF Abs!MaybeValue, MaybeValue
    <2>. QED BY <1>1, <2>1, <2>3, <2>4, <2>5 DEF Abs!Stage
  <1>3. ASSUME TxnRollback(t) PROVE Abs!Rollback(t)
    <2>1. InTxn(t) /\ txn' = [txn EXCEPT ![t] = NoTxn] /\ UNCHANGED <<tree, ttl_tree, now, call>>
      BY <1>3 DEF TxnRollback
    <2>2. \A u \in Thread : txn'[u] = IF u = t THEN NoTxn ELSE txn[u]
      BY <1>0, <2>1 DEF TypeOK
    <2>3. NoTxn.open = FALSE /\ NoTxn.overlay = Abs!NothingStaged
      BY AbsNothing DEF NoTxn
    <2>4. txn[t].open
      BY <2>1 DEF InTxn
    <2>5. OpenBar' = OpenBar \ {t} /\ t \in OpenBar
      BY <2>2, <2>3, <2>4 DEF OpenBar
    <2>6. StagedBar' = [StagedBar EXCEPT ![t] = Abs!NothingStaged]
      BY <2>2, <2>3 DEF StagedBar
    <2>. QED BY <1>1, <2>1, <2>5, <2>6 DEF Abs!Rollback, Abs!EndTxn
  <1>. QED BY <1>2, <1>3, CommitRefines DEF TxnStep

\* Clearing the expiries of a committed transaction is invisible.
LEMMA ClearRefines ==
    ASSUME IInv, IInv', Orderly(workload), workload' = workload, NEW t \in Thread,
           NEW k \in Key, ClearTtl(t, k)
    PROVE  UNCHANGED Abs!vars
  <1>. DEFINE c == call[t]
              more == [c EXCEPT !.rest = c.rest \ {k}]
              d == IF c.rest = {k} THEN Idle ELSE more
  <1>0. TypeOK
    BY DEF IInv
  <1>1. /\ c.pc = "ttl_each" /\ k \in c.rest /\ UNCHANGED <<tree, now, txn>>
        /\ ttl_tree' = SetTtl(Stored, {k}, NoExpiry).ttl /\ call' = [call EXCEPT ![t] = d]
    BY DEF ClearTtl, After
  <1>2. c \in Call /\ CallShape(c) /\ Mutator(t, workload)
    BY <1>1, CallFacts, CallMutates
  <1>3. c.exp = NoExpiry
    BY <1>1, <1>2 DEF CallShape, SetsTtl
  <1>4. more.pc = "ttl_each" /\ more.rest = c.rest \ {k} /\ more.exp = c.exp
    BY <1>1, <1>2 DEF Call
  <1>5. \A l \in Key : ttl_tree'[l] = IF l \in {k} THEN NoExpiry ELSE ttl_tree[l]
    BY <1>0, <1>1, StoredFacts, SetTtlAt
  <1>. HIDE DEF c, more
  <1>6. Owed(d) = c.rest \ {k} /\ Pending(d) = NoReq /\ d.exp = NoExpiry
    BY <1>3, <1>4, StepFacts, IdleBar, IdleFacts
  <1>7. Owed(c) = c.rest /\ Pending(c) = NoReq
    BY <1>1, StepFacts
  <1>. HIDE DEF d
  <1>8. \A l \in Key : Overlaid(d, ttl_tree')[l] = Overlaid(c, ttl_tree)[l]
    BY <1>1, <1>3, <1>5, <1>6, <1>7 DEF Overlaid
  <1>9. KvBar' = KvBar
    BY <1>1, <1>2, <1>8, SameKv DEF c
  <1>. QED BY <1>0, <1>1, <1>6, <1>7, <1>9, StutterStep DEF c

\* So is taking a snapshot.
LEMMA SnapRefines ==
    ASSUME IInv, IInv', Orderly(workload), workload' = workload, NEW t \in Thread,
           NEW k \in Key, SnapTtl(t, k) \/ SnapData(t, k)
    PROVE  UNCHANGED Abs!vars
  <1>0. TypeOK
    BY DEF IInv
  <1>1. UNCHANGED <<tree, ttl_tree, now, txn>> /\ call[t].pc \in {"snap_ttl", "snap_data"}
    BY DEF SnapTtl, SnapData
  <1>2. PICK d \in Call : /\ call' = [call EXCEPT ![t] = d]
                          /\ d.pc \in {"snap_ttl", "snap_data"} \/ d = Idle
    BY SnapTtlIs, SnapDataIs
  <1>3. Owed(d) = {} /\ Pending(d) = NoReq /\ Owed(call[t]) = {} /\ Pending(call[t]) = NoReq
    BY <1>1, <1>2, StepFacts, IdleBar
  <1>4. KvBar' = KvBar
    BY <1>1, <1>2, <1>3, SameKvQuiet
  <1>. QED BY <1>0, <1>1, <1>2, <1>3, <1>4, StutterStep

\* Every step of SledStore is a step of KvStore or invisible.
LEMMA StepRefines ==
    ASSUME IInv, IInv', OrderInv, Orderly(workload), ~Careless, [Next]_vars
    PROVE  [Abs!Next]_(Abs!vars)
  <1>1. ASSUME NEW t \in Thread, workload' = workload,
               Start(t) \/ Progress(t) \/ TxnStep(t) \/ IoError(t)
        PROVE  [Abs!Next]_(Abs!vars)
    <2>1. ASSUME Start(t) PROVE [Abs!Next]_(Abs!vars)
      BY <1>1, <2>1, StartRefines DEF Abs!Next
    <2>2. ASSUME Progress(t) PROVE [Abs!Next]_(Abs!vars)
      BY <1>1, <2>2, WriteTreeRefines, WriteTtlRefines, ReadRefines, PurgeRefines, ClearRefines,
         SnapRefines DEF Progress, Abs!Next
    <2>3. ASSUME TxnStep(t) PROVE [Abs!Next]_(Abs!vars)
      BY <1>1, <2>3, TxnRefines DEF Abs!Next
    <2>4. ASSUME IoError(t) PROVE [Abs!Next]_(Abs!vars)
      BY <1>1, <2>4, ErrorRefines DEF Abs!Next
    <2>. QED BY <1>1, <2>1, <2>2, <2>3, <2>4
  <1>2. ASSUME UNCHANGED <<tree, ttl_tree, call, txn>>
        PROVE  /\ KvBar' = KvBar /\ ReqBar' = ReqBar /\ OpenBar' = OpenBar
               /\ StagedBar' = StagedBar
    <2>0. TtlBar' = TtlBar
      BY <1>2, TtlBarIs
    <2>1. KvBar' = KvBar
      BY <1>2, <2>0, KvBarIs
    <2>2. ReqBar' = ReqBar
      BY <1>2 DEF ReqBar, Pending, NoReq, SidecarOnly
    <2>. QED BY <1>2, <2>1, <2>2, TxnBar
  <1>3. ASSUME (\E t \in Thread : DropSnapshot(t)) \/ UNCHANGED vars PROVE [Abs!Next]_(Abs!vars)
    <2>1. UNCHANGED <<tree, ttl_tree, call, txn, now>>
      BY <1>3 DEF DropSnapshot, vars
    <2>. QED BY <1>2, <2>1 DEF Abs!vars
  <1>4. ASSUME Tick PROVE [Abs!Next]_(Abs!vars)
    <2>1. UNCHANGED <<tree, ttl_tree, call, txn>> /\ now' = now + 1
      BY <1>4 DEF Tick
    <2>. QED BY <1>2, <2>1 DEF Abs!Tick, Abs!Next
  <1>. QED BY <1>1, <1>3, <1>4 DEF Next, Step

\* In an orderly workload sled's store is the store the documentation promises,
\* although its calls write two trees one after the other: every call takes
\* effect at one instant or not at all, an eviction removes only what has
\* expired, and every transaction is applied as a whole; unless calls are Careless,
\* that is, expire, persist and compare_and_swap are called on expired keys.
THEOREM Refinement ==
    ASSUME ~Careless, \A w \in Workloads : Orderly(w)
    PROVE  Spec => Refines
  <1>1. IInv => Orderly(workload)
    BY DEF IInv
  <1>2. IInv /\ IInv' /\ OrderInv /\ [Next]_vars => [Abs!Next]_(Abs!vars)
    BY <1>1, StepRefines
  <1>. QED BY <1>2, AbsInitial, Invariance, Ordered, PTL DEF Spec, Refines, Abs!Spec
=============================================================================
