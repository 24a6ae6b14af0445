------------------------------- MODULE KvScan --------------------------------
(***************************************************************************)
(* Scans of the key-value stores: range, prefix_scan, iter, keys, count    *)
(* and their relatives on the store, on a transaction and on a snapshot.   *)
(*                                                                         *)
(* A key is a byte string.  MaxByte plays 0xFF: the byte that cannot be    *)
(* incremented.  One client scans, opens transactions and takes snapshots; *)
(* another one writes.  A scan is a loop: fetch the next item of the data  *)
(* table, look its expiry up, keep it or skip it.  The backends differ in  *)
(* what the loop reads: redb reads both tables in one read transaction,    *)
(* fjall iterates a frozen view of the data and looks expiries up live,    *)
(* sled reads both trees live.  A range in a transaction is such a loop,   *)
(* collecting into a map, and then a second one that lays the staged       *)
(* writes over the map; a scan of a snapshot reads the snapshot.           *)
(***************************************************************************)
EXTENDS KvCore, ByteOrder, Ascending, FiniteSetsExt

Seqs == INSTANCE SequencesExt

CONSTANTS MaxByte,    \* the largest byte
          KeysInOrder,\* the keys, in the order in which every backend iterates
          MaxLen,     \* bound on the length of bounds and prefixes
          Unbounded,  \* no upper bound
          Untouched,  \* a key a transaction has not written
          Ttl,        \* the durations passed to put_with_ttl
          MaxTime,    \* bound on the clock
          Backend,    \* the backends to consider
          MaxStaged,  \* bound on the writes staged in one transaction
          OldValue,   \* the values among the initial contents
          NewValue,   \* the values written after them
          MaxExpiring,\* bound on the initial entries with an expiry
          MaxWrites   \* bound on the writes after the initial contents

Byte == 0..MaxByte
ByteString == UNION {[1..n -> Byte] : n \in 0..MaxLen}

ASSUME ScanAssumption ==
    /\ MaxByte \in Nat /\ MaxLen \in Nat /\ MaxTime \in Nat /\ MaxStaged \in Nat
    /\ MaxWrites \in Nat /\ MaxExpiring \in Nat
    /\ Key \subseteq ByteString
    /\ KeysInOrder \in Seq(Key) /\ Key \subseteq {KeysInOrder[i] : i \in DOMAIN KeysInOrder}
    /\ \A i, j \in DOMAIN KeysInOrder : i < j => Before(KeysInOrder[i], KeysInOrder[j])
    /\ Ttl \subseteq Nat /\ OldValue \subseteq Value /\ NewValue \subseteq Value
    /\ Untouched \notin MaybeValue
    /\ Unbounded \notin ByteString
    /\ Backend \subseteq {"redb", "sled", "fjall"}

VARIABLES
    backend,  \* which backend this is
    tb,       \* its data table and its TTL table
    now,      \* wall clock
    pending,  \* sled: the TTL write a call has still to make
    writes,   \* the writes made so far
    scan,     \* the scan under way
    txn,      \* the transaction the scanning client has open
    snap      \* the snapshot it holds

vars == <<backend, tb, now, pending, writes, scan, txn, snap>>

-----------------------------------------------------------------------------
(***************************************************************************)
(* Byte order, bounds and prefixes.                                        *)
(***************************************************************************)
StartsWith(k, prefix) == Seqs!IsPrefix(prefix, k)

\* Drop trailing 0xFF bytes and increment the last byte left, if any.
prefix_upper_bound(prefix) ==
    LET live == {i \in DOMAIN prefix : prefix[i] # MaxByte}
    IN  IF live = {} THEN Unbounded
        ELSE [SubSeq(prefix, 1, Max(live)) EXCEPT ![Max(live)] = @ + 1]

\* The half-open interval [lo, hi).
Within(lo, hi) ==
    {k \in Key : ~Before(k, lo) /\ (hi = Unbounded \/ Before(k, hi))}

Everything == Key

\* Mutant: a prefix without an upper bound is scanned from <<>> to <<>>.
RedbPrefixEmpty(prefix) ==
    LET hi == prefix_upper_bound(prefix)
    IN  IF hi # Unbounded THEN Within(prefix, hi) ELSE Within(<<>>, <<>>)

\* The keys each way of scanning a prefix visits.
RedbPrefix(prefix) ==
    LET hi == prefix_upper_bound(prefix)
    IN  IF hi # Unbounded THEN Within(prefix, hi)
        ELSE IF prefix = <<>> THEN Everything ELSE Within(prefix, Unbounded)

NativePrefix(prefix) == {k \in Key : StartsWith(k, prefix)}

\* The trait's default.
DefaultPrefix(prefix) ==
    LET hi == prefix_upper_bound(prefix)
    IN  IF prefix = <<>> THEN Everything
        ELSE IF hi # Unbounded THEN Within(prefix, hi)
        ELSE {k \in Everything : StartsWith(k, prefix)}

-----------------------------------------------------------------------------
(***************************************************************************)
(* State.                                                                  *)
(***************************************************************************)
NoItem == <<>>

\* of: what is scanned, the store, a txn or a snap; phase: none, loop, merge
\* (the second loop of a transaction's range) or done; reversed: range_rev;
\* want: the keys asked for; keys: the ones the code's bounds select; filtered:
\* does it skip expired keys; view: the tables when the scan began; at: how far
\* the loop has come; item: fetched, expiry not yet looked up; merged: the map a
\* transaction's range collects; out: the result.  History: ever and always,
\* the pairs the scanned object's get shows at some, respectively every, instant
\* since the scan began; raced: the keys written since, as far as that get tells.
NoScan == [of |-> "store", phase |-> "none", reversed |-> FALSE, want |-> {}, keys |-> {},
           filtered |-> TRUE, view |-> EmptyTables, at |-> 0, item |-> NoItem,
           merged |-> NoPairs, out |-> <<>>, ever |-> {}, always |-> {}, raced |-> {}]

NoTouch == [k \in Key |-> Untouched]
NoTxn == [open |-> FALSE, overlay |-> NoTouch]

\* shown: history, what the store's get showed at the capture.
NoSnap == [held |-> FALSE, tables |-> EmptyTables, captured_at |-> 0, shown |-> {}]
NoPending == [key |-> <<>>, exp |-> NoExpiry, busy |-> FALSE]

\* Any contents earlier writes can have left.
Contents ==
    {t \in [data : [Key -> OldValue \cup {Absent}], ttl : [Key -> Ttl \cup {NoExpiry}]] :
        /\ \A k \in Key : t.data[k] = Absent => t.ttl[k] = NoExpiry
        /\ Cardinality({k \in Key : t.ttl[k] # NoExpiry}) <= MaxExpiring}

Init ==
    /\ backend \in Backend
    /\ tb \in Contents
    /\ writes = 0
    /\ now = 0
    /\ pending = NoPending
    /\ scan = NoScan
    /\ txn = NoTxn
    /\ snap = NoSnap

\* The keys a transaction has written.
Written == {k \in Key : txn.overlay[k] # Untouched}

\* redb applies a transaction's writes to its own tables as well.
TxnTables(tables) ==
    IF backend = "redb" THEN Insert(tables, Written, txn.overlay, NoExpiry) ELSE tables

\* The get of a transaction: the overlay first, then the committed state.
TxnGet(tables, time) ==
    [k \in Key |-> IF k \in Written THEN txn.overlay[k] ELSE Visible(TxnTables(tables), time)[k]]

Pairs(map) == {<<k, map[k]>> : k \in {x \in Key : map[x] # Absent}}

\* What get shows of the scanned object, given the tables and the time.
Shown(of, tables, time) ==
    CASE of = "store" -> Pairs(Visible(tables, time))
      [] of = "txn"   -> Pairs(TxnGet(tables, time))
      [] of = "snap"  -> snap.shown

\* The writes of others that this get can tell.
Told(of, written) ==
    CASE of = "store" -> written
      [] of = "txn"   -> written \ Written
      [] of = "snap"  -> {}

\* The history part of a scan, after a step to tables and time.
Observe(tables, time, written) ==
    scan' = IF scan.phase = "none" THEN scan
            ELSE [scan EXCEPT !.ever = @ \cup Shown(scan.of, tables, time),
                              !.always = @ \cap Shown(scan.of, tables, time),
                              !.raced = @ \cup Told(scan.of, written)]

-----------------------------------------------------------------------------
(***************************************************************************)
(* The writer: put, put_with_ttl and delete.  redb and fjall write both    *)
(* tables at once, sled first the data tree and then the TTL tree.  redb   *)
(* has one write transaction at a time.                                    *)
(***************************************************************************)
\* Once the loop is over nothing the others do reaches the scan: they go on when
\* its result has been dropped.
Going == scan.phase \in {"none", "loop"}

Write(k, v, exp) ==
    /\ Going
    /\ ~pending.busy
    /\ writes < MaxWrites
    /\ writes' = writes + 1
    /\ backend = "redb" => ~txn.open
    /\ LET pairs == [NoPairs EXCEPT ![k] = v]
           tables == IF backend = "sled" THEN SetData(tb, {k}, pairs)
                     ELSE Insert(tb, {k}, pairs, exp)
       IN  /\ tb' = tables
           /\ pending' = IF backend = "sled"
                         THEN [key |-> k, exp |-> exp, busy |-> TRUE] ELSE NoPending
           /\ Observe(tables, now, {k})
    /\ UNCHANGED <<backend, now, txn, snap>>

WriteTtlTree ==
    /\ Going
    /\ pending.busy
    /\ LET tables == SetTtl(tb, {pending.key}, pending.exp)
       IN  /\ tb' = tables
           /\ Observe(tables, now, {pending.key})
    /\ pending' = NoPending
    /\ UNCHANGED <<backend, now, writes, txn, snap>>

Tick ==
    /\ Going
    /\ now < MaxTime
    /\ now' = now + 1
    /\ Observe(tb, now + 1, {})
    /\ UNCHANGED <<backend, tb, pending, writes, txn, snap>>

-----------------------------------------------------------------------------
(***************************************************************************)
(* Beginning a scan of the store.                                          *)
(***************************************************************************)
Free == scan = NoScan /\ txn = NoTxn /\ snap = NoSnap

\* What is frozen when the iterator is made.
IterView(of) ==
    CASE of = "snap" -> snap.tables
      [] of # "snap" /\ backend = "sled" -> EmptyTables
      [] of = "store" /\ backend # "sled" -> tb
      [] of = "txn" /\ backend # "sled" -> TxnTables(tb)

Loop(of, want, keys, filtered, reversed) ==
    /\ scan' = [NoScan EXCEPT !.of = of, !.phase = "loop", !.reversed = reversed,
                              !.want = want, !.keys = keys, !.filtered = filtered,
                              !.view = IterView(of), !.ever = Shown(of, tb, now),
                              !.always = Shown(of, tb, now)]
    /\ UNCHANGED <<backend, tb, now, pending, writes, txn, snap>>

BeginScan(b, want, keys, filtered) ==
    backend = b /\ Free /\ Loop("store", want, keys, filtered, FALSE)

redb_range(lo, hi) == BeginScan("redb", Within(lo, hi), Within(lo, hi), TRUE)
redb_prefix_scan(p) == BeginScan("redb", NativePrefix(p), RedbPrefix(p), TRUE)
redb_iter == BeginScan("redb", Key, Everything, TRUE)
redb_keys == BeginScan("redb", Key, Everything, TRUE)
redb_count == BeginScan("redb", Key, Everything, TRUE)

\* The concrete iterators do not look at the TTL table.
redb_range_iter(lo, hi) ==
    BeginScan("redb", Within(lo, hi), Within(lo, hi), FALSE)
redb_iter_collected == BeginScan("redb", Key, Everything, FALSE)
redb_prefix_iter(p) ==
    BeginScan("redb", NativePrefix(p), RedbPrefix(p), FALSE)

sled_range(lo, hi) == BeginScan("sled", Within(lo, hi), Within(lo, hi), TRUE)
sled_prefix_scan(p) == BeginScan("sled", NativePrefix(p), NativePrefix(p), TRUE)
sled_iter == BeginScan("sled", Key, Everything, TRUE)
sled_keys == BeginScan("sled", Key, Everything, TRUE)
sled_count == BeginScan("sled", Key, Everything, TRUE)

fjall_range(lo, hi) == BeginScan("fjall", Within(lo, hi), Within(lo, hi), TRUE)
fjall_prefix_scan(p) ==
    BeginScan("fjall", NativePrefix(p), NativePrefix(p), TRUE)
fjall_iter == BeginScan("fjall", Key, Everything, TRUE)
fjall_keys == BeginScan("fjall", Key, Everything, TRUE)
fjall_count == BeginScan("fjall", Key, Everything, TRUE)

\* The trait's defaults, inherited by every store that does not override them.
range_rev(lo, hi) == Free /\ Loop("store", Within(lo, hi), Within(lo, hi), TRUE, TRUE)

default_prefix_scan(p) ==
    BeginScan(backend, NativePrefix(p), DefaultPrefix(p), TRUE)

-----------------------------------------------------------------------------
(***************************************************************************)
(* Transactions and snapshots of the scanning client, and their scans.     *)
(* What they are scanned through is borrowed until the result is dropped.  *)
(***************************************************************************)
BeginTxn ==
    /\ Free
    /\ txn' = [open |-> TRUE, overlay |-> NoTouch]
    /\ UNCHANGED <<backend, tb, now, pending, writes, scan, snap>>

\* put, and delete with v = Absent.
TxnWrite(k, v) ==
    /\ txn.open /\ scan = NoScan
    /\ Cardinality(Written \cup {k}) <= MaxStaged
    /\ txn' = [txn EXCEPT !.overlay[k] = v]
    /\ UNCHANGED <<backend, tb, now, pending, writes, scan, snap>>

EndTxn ==
    /\ txn.open /\ scan = NoScan
    /\ txn' = NoTxn
    /\ UNCHANGED <<backend, tb, now, pending, writes, scan, snap>>

BeginTxnRange(b, lo, hi) ==
    /\ backend = b
    /\ txn.open /\ scan = NoScan
    /\ Loop("txn", Within(lo, hi), Within(lo, hi), TRUE, FALSE)

redb_txn_range(lo, hi) == BeginTxnRange("redb", lo, hi)
sled_txn_range(lo, hi) == BeginTxnRange("sled", lo, hi)
fjall_txn_range(lo, hi) == BeginTxnRange("fjall", lo, hi)

\* A SledSnapshot holds what has not expired; how its copy is built, key by
\* key, is in SledStore.
TakeSnapshot ==
    /\ Free
    /\ snap' = [held |-> TRUE, captured_at |-> now, shown |-> Pairs(Visible(tb, now)),
                tables |-> IF backend = "sled"
                           THEN [EmptyTables EXCEPT !.data = Visible(tb, now)] ELSE tb]
    /\ UNCHANGED <<backend, tb, now, pending, writes, scan, txn>>

DropSnapshot ==
    /\ snap.held /\ scan = NoScan
    /\ snap' = NoSnap
    /\ UNCHANGED <<backend, tb, now, pending, writes, scan, txn>>

BeginSnapScan(b, want, keys) ==
    /\ backend = b
    /\ snap.held /\ scan = NoScan
    /\ Loop("snap", want, keys, TRUE, FALSE)

redb_snap_range(lo, hi) == BeginSnapScan("redb", Within(lo, hi), Within(lo, hi))
sled_snap_range(lo, hi) == BeginSnapScan("sled", Within(lo, hi), Within(lo, hi))
fjall_snap_range(lo, hi) == BeginSnapScan("fjall", Within(lo, hi), Within(lo, hi))

\* KvSnapshot::prefix_scan: without an upper bound it asks for [<<>>, <<>>).
SnapPrefix(prefix) ==
    LET hi == prefix_upper_bound(prefix)
    IN  IF hi # Unbounded THEN Within(prefix, hi) ELSE Within(<<>>, <<>>)

\* Called with prefixes that have an upper bound: nothing is found otherwise.
snap_prefix_scan(p) ==
    /\ prefix_upper_bound(p) # Unbounded
    /\ BeginSnapScan(backend, NativePrefix(p), SnapPrefix(p))

-----------------------------------------------------------------------------
(***************************************************************************)
(* The loop of a scan.                                                     *)
(***************************************************************************)
\* What the loop's iterator and its expiry lookups read.
ScanData == IF backend = "sled" /\ scan.of # "snap" THEN tb.data ELSE scan.view.data
ScanTtl == IF backend = "redb" \/ scan.of = "snap" THEN scan.view.ttl ELSE tb.ttl

\* The clock an expiry is compared with.
JudgedAt == IF scan.of = "snap" THEN snap.captured_at ELSE now

Ahead == {i \in DOMAIN KeysInOrder :
             /\ i > scan.at
             /\ KeysInOrder[i] \in scan.keys
             /\ ScanData[KeysInOrder[i]] # Absent}

FetchItem ==
    /\ scan.phase = "loop"
    /\ scan.item = NoItem
    /\ Ahead # {}
    /\ LET i == Min(Ahead)
           k == KeysInOrder[i]
       IN  scan' = [scan EXCEPT !.at = i, !.item = <<k, ScanData[k]>>]
    /\ UNCHANGED <<backend, tb, now, pending, writes, txn, snap>>

FilterItem ==
    /\ scan.item # NoItem
    /\ LET k == scan.item[1]
           expired == scan.filtered /\ is_expired(ScanTtl[k], JudgedAt)
           kept == [scan EXCEPT !.item = NoItem]
       IN  scan' = IF expired THEN kept
                   ELSE IF scan.of = "txn" THEN [kept EXCEPT !.merged[k] = scan.item[2]]
                   ELSE [kept EXCEPT !.out = Append(@, scan.item)]
    /\ UNCHANGED <<backend, tb, now, pending, writes, txn, snap>>

\* The end of the loop; a transaction's range goes on with the overlay.
FinishScan ==
    /\ scan.phase = "loop"
    /\ scan.item = NoItem
    /\ Ahead = {}
    /\ scan' = IF scan.of = "txn" THEN [scan EXCEPT !.phase = "merge", !.at = 0]
               ELSE [scan EXCEPT !.phase = "done",
                                 !.out = IF scan.reversed THEN Seqs!Reverse(@) ELSE @]
    /\ UNCHANGED <<backend, tb, now, pending, writes, txn, snap>>

StagedAhead == {i \in DOMAIN KeysInOrder :
                   i > scan.at /\ KeysInOrder[i] \in scan.keys \cap Written}

\* Mutant: a staged delete leaves the committed entry in the map.
ApplyStagedPuts ==
    /\ scan.phase = "merge"
    /\ StagedAhead # {}
    /\ LET i == Min(StagedAhead)
           k == KeysInOrder[i]
       IN  scan' = [scan EXCEPT !.at = i, !.merged[k] = IF txn.overlay[k] = Absent THEN @
                                                        ELSE txn.overlay[k]]
    /\ UNCHANGED <<backend, tb, now, pending, writes, txn, snap>>

\* The next entry of the overlay: a put inserts, a delete removes.
ApplyStaged ==
    /\ scan.phase = "merge"
    /\ StagedAhead # {}
    /\ LET i == Min(StagedAhead)
           k == KeysInOrder[i]
       IN  scan' = [scan EXCEPT !.at = i, !.merged[k] = txn.overlay[k]]
    /\ UNCHANGED <<backend, tb, now, pending, writes, txn, snap>>

\* A BTreeMap as it is iterated.
Listing(map) ==
    LET places == Sorted({i \in DOMAIN KeysInOrder : map[KeysInOrder[i]] # Absent})
    IN  [n \in DOMAIN places |-> <<KeysInOrder[places[n]], map[KeysInOrder[places[n]]]>>]

FinishMerge ==
    /\ scan.phase = "merge"
    /\ StagedAhead = {}
    /\ scan' = [scan EXCEPT !.phase = "done", !.out = Listing(scan.merged)]
    /\ UNCHANGED <<backend, tb, now, pending, writes, txn, snap>>

\* The client is done with the result.
DropResult ==
    /\ scan.phase = "done"
    /\ scan' = NoScan
    /\ UNCHANGED <<backend, tb, now, pending, writes, txn, snap>>

-----------------------------------------------------------------------------
StartScan ==
    /\ scan = NoScan
    /\ \/ redb_iter \/ redb_keys \/ redb_count \/ redb_iter_collected
       \/ sled_iter \/ sled_keys \/ sled_count
       \/ fjall_iter \/ fjall_keys \/ fjall_count
       \/ \E p \in ByteString :
           \/ redb_prefix_scan(p) \/ redb_prefix_iter(p) \/ sled_prefix_scan(p)
           \/ fjall_prefix_scan(p) \/ default_prefix_scan(p) \/ snap_prefix_scan(p)
       \/ \E lo, hi \in ByteString :
           /\ Before(lo, hi)
           /\ \/ redb_range(lo, hi) \/ redb_range_iter(lo, hi) \/ sled_range(lo, hi)
              \/ fjall_range(lo, hi) \/ range_rev(lo, hi)
              \/ redb_txn_range(lo, hi) \/ sled_txn_range(lo, hi) \/ fjall_txn_range(lo, hi)
              \/ redb_snap_range(lo, hi) \/ sled_snap_range(lo, hi) \/ fjall_snap_range(lo, hi)

ScanStep == FetchItem \/ FilterItem \/ FinishScan \/ ApplyStaged \/ FinishMerge

Next ==
    \/ \E k \in Key :
        \/ \E v \in NewValue \cup {Absent} : Write(k, v, NoExpiry) \/ TxnWrite(k, v)
        \/ \E v \in NewValue, d \in Ttl : Write(k, v, now + d)
    \/ WriteTtlTree \/ Tick
    \/ StartScan \/ ScanStep \/ DropResult
    \/ BeginTxn \/ EndTxn \/ TakeSnapshot \/ DropSnapshot

Spec == Init /\ [][Next]_vars

-----------------------------------------------------------------------------
(***************************************************************************)
(* Properties.                                                             *)
(***************************************************************************)
Result == {scan.out[i] : i \in DOMAIN scan.out}
Wanted(pairs) == {p \in pairs : p[1] \in scan.want}

\* Ascending, each key once; descending from range_rev.
InOrder ==
    \A i, j \in DOMAIN scan.out : i < j =>
        IF scan.phase = "done" /\ scan.reversed THEN Before(scan.out[j][1], scan.out[i][1])
        ELSE Before(scan.out[i][1], scan.out[j][1])

\* However the writer interferes, a finished scan has every pair that was
\* asked for, shown by get from its beginning to its end and not rewritten
\* meanwhile, no key that was not asked for, and the keys in order: the bounds
\* computed from a prefix lose nothing and admit nothing else, and a
\* transaction's range has its staged writes.
ScanComplete ==
    /\ InOrder
    /\ scan.phase = "done" =>
          /\ \A p \in Wanted(scan.always) : p[1] \notin scan.raced => p \in Result
          /\ \A p \in Result : p[1] \in scan.want

\* A filtering scan shows only pairs that get showed at some instant of it:
\* never an expired value, in a transaction never one it has deleted or
\* overwritten, of a snapshot nothing later than the capture.  On sled and
\* fjall the exception is a key written during the scan.
ScanHonest ==
    scan.filtered =>
        \A p \in Result : p \in scan.ever \/ (backend # "redb" /\ p[1] \in scan.raced)
=============================================================================
