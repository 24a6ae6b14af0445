# A formal model of OxiStore

OxiStore is a workspace of Rust crates: a key-value trait with three embedded
backends, caches, blob stores, encryption, compression and a columnar store.
This directory holds TLA+ modules that model its stateful core, TLC
configurations that check them on small instances, and TLAPS proofs about the
three backends and their scans, encryption, the self-filling caches and the
sketch, the blob stores, the clients of object services and the pruning of row
groups. `PROJECT.json` is the
machine-readable index: which lines each definition models, which run checks
which property, which change of the code would break it, and what can go wrong
where.

## 1. The system

### Inventory

| Part | State | Operations | What makes it correct | Modelled in |
|---|---|---|---|---|
| `oxistore-core` traits `KvStore`, `KvTxn`, `KvSnapshot` | none: a contract | point, range, batch, compare_and_swap, TTL, transaction, snapshot | calls atomic; expired keys absent; a transaction applied as a whole; a snapshot frozen; scans complete and in order | `KvCore`, `KvStore`, `ByteOrder`, `KvScan`, `ScanProofs` |
| `oxistore-kv-redb` | data table, TTL table, `write_lock`, redb's write transaction | all of the trait, `*_returning_old`, backup, restore, collected iterators | implements the contract; locks released | `RedbStore`, `KvScan`, `RedbStoreProofs` |
| `oxistore-kv-sled` | data tree and TTL tree, written one after the other, no lock | all of the trait | implements the contract | `SledStore`, `KvScan`, `SledStoreProofs` |
| `oxistore-kv-fjall` | data and TTL keyspaces written in one batch, `txn_lock` | all of the trait, `put_returning`, `batch_write_across` | implements the contract; lock released | `FjallStore`, `KvScan`, `FjallStoreProofs` |
| cache policies LRU, LFU, ARC, W-TinyLFU | ordered key lists, counts, index, ghosts | `Cache` trait | bounded; bookkeeping consistent; never stale; right victim | `CacheCore`, `LruCache`, `LfuCache`, `ArcCache`, `WTinyLfuCache`, `Cache` |
| `CountMinSketch`, `Doorkeeper` | packed 4-bit counters, a bit set | record, estimate, age, clear | an estimate is never below the true count since the last ageing | `FrequencySketch`, `CachingProofs` |
| `BoundedCache` | byte count, insertion order, inner cache | `Cache` trait under a byte budget | the count covers what is held; the budget is kept | `BoundedCache` |
| write-through, write-back adapters | cache, store, dirty set | get, put, remove, flush | the last acknowledged write is what is read; nothing lost to eviction | `CacheAdapters` |
| `CacheableKvStore`, `BlobCache`, `get_or_insert_async`, `ColumnarRowGroupCache` | cache behind a mutex | get, put, delete, load, invalidate | no stale fill; the first fill wins | `ReadThrough`, `CachingProofs` |
| `oxistore-blob` local, memory, content-addressed | files and temporary files, map and quota | put, get, delete, list, copy, rename, conditional put and delete, `put_cas` | a reader sees a whole blob; listings right; quota exact | `BlobStores`, `BlobsProofs` |
| `oxistore-blob-s3`, `-azure`, `-gcs` | retry counter, multipart handle, shared bearer token | requests, paged listing, multipart upload | acknowledged writes stay; errors mean what they say; pages complete | `RemoteBlobs`, `RemoteBlobsProofs` |
| `oxistore-encrypt` | key cache, keyring of KEK versions | encrypting stores, transactions, snapshots, rotation | every value stays readable across rotation and reopening; never another cell's value | `EncryptCore`, `CellStore`, `EnvelopeStore`, `Encryption`, `EncryptionProofs` |
| `oxistore-columnar` | tables, files of row groups, partition files, manifest | write, stream, read with projection, predicate or schema; partitioned write and read | reads return what was written; pruning drops no match | `RowGroupStats`, `ScanProofs`, `ColumnarTable`, `PartitionedDataset` |
| `SyncCache`, `ShardedCache`, `StatsCache`, `oxistore-compress`, typed wrappers, facade | a mutex, counters, none | wrappers, conversions, re-exports | | not modelled |

### How the parts interact

The three backends implement the traits; the adapters of `oxistore-cache` and
the decorators of `oxistore-encrypt` wrap any of them; the default
`compare_and_swap` of the trait is a call of `transaction()` on the backend, so
its atomicity is inherited from the backend's locking. The derived operations of
the `BlobStore` trait (`rename`, `copy`, `put_if_absent`, `put_cas`,
`list_meta`) are sequences of the basic ones, on any store. W-TinyLFU owns a
sketch. A partitioned dataset writes one columnar file per group. The modules
compose in the same way: `CacheAdapters` and `BoundedCache` take any policy,
`BlobStores` and `RemoteBlobs` give the derived operations as sequences of calls,
and `Caching`, `Blobs`, `Encryption` and `Columnar` put the ways to use a crate
under one specification.

### What is hard

* **Two tables for one fact.** Every backend keeps values in one table and
  expiry instants in another. A write that reaches only one of them (because of
  another thread, a failure, or a method that forgot) gives a fresh value an
  old expiry or leaves an expiry for nobody.
* **Look, then act.** `get`, `ttl`, `expire`, `persist`, `purge_expired`,
  `put_if_absent`, `delete_if_matches`, every self-filling cache and key rotation
  decide on one read and act in a later write.
* **Locks handed over.** redb's `transaction()` releases the store's own lock
  while the engine's write transaction stays open; fjall's transactions hold
  `txn_lock`, which plain writes never take.
* **Scans without a snapshot.** sled's scans read two live trees, fjall's look
  expiries up live; snapshots outlive TTLs, and sled's is copied from a live tree.
* **Evictions nobody is told about.** Write-back and `BoundedCache` must
  account for entries a policy drops by itself.
* **Bookkeeping in several lists** (ARC's four, LFU's buckets, W-TinyLFU's index
  and segments) that must agree after any sequence of calls.
* **Crashes between steps**: temporary file and rename, partition files and
  manifest, a rotation half-way with a keyring that lives in memory.
* **A network** that serves an abandoned request late or loses its answer.

## 2. The modules

`KvCore` holds the tables and what the backends do to them. `KvStore` is the
**abstract specification**: a call is invoked, takes effect at one instant or
fails without effect, and a transaction commits as a whole. It leaves open when
expired entries are physically dropped, and nothing else: as the documentation of
the traits has it, a key whose TTL has elapsed is absent to `expire`, `persist` and
`compare_and_swap` as it is to `get`, and no write gives a value the expiry of an
earlier one (core lib.rs:331-332, 358-388; fjall store.rs:538-540, 595). A call may
judge an expiry by the clock of any instant between its invocation and its return.

Each backend has calls that do not keep to that. `Overlooks` names them: `expire`
and `persist` of an elapsed key everywhere, `compare_and_swap` of one on sled,
redb's `*_returning_old` and fjall's `batch_write_across` on a key that has an
expiry. The constant `Careless` says whether a client makes them. With
`Careless = FALSE` the refinements are checked and proved; with `Careless = TRUE` TLC
refutes `Refines` on all three backends, and `NoOrphanTtl` on redb.

`RedbStore`: `db` is the committed root, `write_lock` the store's mutex, `writer`
the thread that owns redb's exclusive write transaction through an open
`RedbTxn`, `inner` and `overlay` what that transaction has written so far, `call`
the program counter of each thread. A one-shot write is three steps: take the
lock, begin the engine's transaction (which blocks), commit; deciding reads are a
step before these. A `put` or `delete` inside a transaction may fail before it has
written, or after the data table alone (`TxnWriteError`); the transaction is then
`Spoiled` and its owner, who has the error in hand, rolls it back. `Reentrant` says whether a thread may call the store inside
its own transaction. redb itself (one writer, readers see one committed root) is
external.

`SledStore`: `tree` and `ttl_tree`; every call is the sequence of its atomic tree
operations, any of which may fail when the workload says so; `snapshot` visits
one key at a time. `fresh` and `seen` are ghosts: the keys last written without
a TTL, and the states seen during a capture. A transaction's buffered writes
reach the data tree in one sled transaction and the TTL tree key by key.

`FjallStore`: like redb with a batch in place of the write transaction and
`txn_lock` in place of both locks; plain writes take no lock. In `SledStore` and
`FjallStore` the variable `workload`, fixed in `Init`, says which thread calls
what, so that one run covers several settings; it is also what the theorems'
hypotheses speak of. Each backend's refinement mapping (`ReqBar`, `OpenBar`,
`StagedBar`, in sled also `KvBar`) reads the abstract state off the concrete one:
a call is pending until the step in which it takes effect, and on sled the
expiries that a call in progress has still to set or clear are shown as if it had.

`KvScan` has keys that are byte strings and, per backend, `range`, `prefix_scan`,
`iter`, `keys`, `count`, `range_rev` and redb's collected iterators, the `range` of
transactions, and `range` and `prefix_scan` of snapshots. `scan` is the loop under
way: one step fetches an item, one looks its expiry up; what each reads (a frozen
view, a live tree) depends on `backend` and on what is scanned. A writer and the
clock run between the steps. A transaction's range collects the committed entries
in a map, goes over the overlay in a second loop, one entry a step, and lists the
map; a snapshot's judges expiry at the capture. What `get` of the same store,
transaction or snapshot shows meanwhile is recorded apart from the loop, in the
history `ever` and `always`, and is what the properties compare with.
`ByteOrder` is the order of byte strings; the keys in that order are a constant,
`KeysInOrder`, and an assumption says that they are. `Ascending` sorts a finite
set of numbers, such as positions in an order of keys.

`CacheCore` has entries and the ordered map. One module per policy gives its
operations as operators over a record; `Cache` dispatches on the policy and
turns the trait's methods into actions. `resize` is a loop whose iterations are
steps. `CacheAdapters` chooses, in `Init`, a policy and whether it is used
directly, under write-through or under write-back; the store under an adapter
may fail with or without effect. The comparison of two frequency estimates in
W-TinyLFU is a free choice, and both answers are explored; the estimator has a
module of its own, `FrequencySketch`, down to the nibbles of a byte.
`BoundedCache` wraps a policy and counts bytes. `ReadThrough` cuts a call of a
self-filling cache where it gives the mutex up: look-up, fetch, fill; a ghost
marks the keys a write overlapped. `Caching` is the four together.

`BlobStores`: `task` holds each task's operation as the calls it has still to
make. On the memory store a call is one step; on the local store it is the
system calls: create the temporary file, write block by block, rename, open,
read. `dir` maps paths to inodes, so a file that is open survives being
replaced. Any system call may fail (`FailCall`); a put then leaves its temporary
file. `cleanup_temp_files`, `Crash` and `Reopen` are actions.
`RemoteBlobs`: `net` is the set of requests on their way, `client` the
call and attempt of each client, `handle` its multipart upload, `token` the bearer
token the GCS handles share. The service serves a request at most once, at any
time or never, and may refuse it: with 500 or 503, S3 also with a 404 that is not
about the key, and a copy or completion with an error under the status 200. A page
may be empty and go on, from every service. `Blobs` chooses between them.

`EncryptCore` makes ciphertexts terms: what was sealed, under which key and
associated data. `CellStore` is `EncryptedKv`: `cached` is the `OnceLock` of the
key provider, `entry` the operating system's keyring entry, and an operation is
cut where it fetches the key; a snapshot of the store below is taken before that.
`EnvelopeStore` is `EncryptedKvEnvelope`: a
rotation is a step for the collection, one for the new KEK and one per entry,
while another handle (`other`) writes; `log` is what the owner of the KEKs can
rebuild the in-memory keyring from.

`RowGroupStats` compares a value with a cell and with a row group's minimum and
maximum. Cells are compared in the order of Arrow's kernels (-0.0 below 0.0, `NaN`
above every number), statistics as Rust's operators do it (the zeros equal).
`ColumnarTable` builds a table, writes it at once or as a stream, and
reads it in each of the ways the crate offers. `PartitionedDataset` replaces
the files of the groups one by one and the manifest line by line, and may crash
anywhere; a line cut short parses if a digit of its row count is left.

`MC*` modules only name sets of operations, keys, capacities and symmetries.

## 3. The runs

| Run | Shows | Bounds |
|---|---|---|
| `redb_txn` | isolation of transactions, read-your-writes, atomic `compare_and_swap`, and that `write_lock` is always given up, with writes failing, in a transaction also half-way | 2 threads, 1 key, 2 values: enough for any two calls to overlap anywhere; 72,993 states |
| `redb_sequential` | refinement of `KvStore`, stable snapshots, no orphaned expiry, with TTLs elapsing at any moment | 1 thread, 2 keys, clock 0..2, TTL 1: an expiry can be set, elapse, and be outlived; every operation (`put` and `delete` as batches of one key), `Careless = FALSE`; 2,077,057 states |
| `sled` | refinement of `KvStore`, trees that agree, honest snapshots, in three workloads: one thread calling everything; two threads writing without TTLs while operations fail; two threads with batches and snapshots | 2 threads, 2 keys, clock 0..1 with TTL 1: an expiry can be set, elapse and be overwritten; `Careless = FALSE`; 747,927 states |
| `fjall` | refinement, stable snapshots, no orphaned expiry; atomic transactions and swaps; `txn_lock` given up; workloads: one thread calling everything, three threads writing through transactions | 3 threads, 2 keys, clock 0..1, `Careless = FALSE`; 173,469 states |
| `scans` | `ScanComplete`: in order, and everything that stayed live during the scan is in it; `ScanHonest`: nothing in it that `get` showed at no time; of stores, transactions and snapshots | keys `0`, `01`, `1` over bytes 0..1, where 1 plays 0xFF: one key is a prefix of another, one has no upper bound; one write during a scan, two keys staged in a transaction, clock 0..1; 1,998,779 states |
| `caches` | the policies, the adapters, the byte budget, self-filling caches, the sketch | 4 keys, 2 values, clock 0..1, counts up to 3, capacities 1–2 (W-TinyLFU 3–4) so that every list overflows; budget 3 with entries of size 1, 2 and 4; 2 tasks; a sketch for 2 keys with all pairs of colliding hashes, aged once; 317,841 states |
| `blobs` | the local and memory stores; clients of the three services | 2 tasks with 2 operations in all and 1 crash, two keys sharing a temporary file, blobs of 1 and 2 blocks; 2 clients with 2 calls, 2 faults (GCS 1), pages of one key or none, 0 or 2 attempts; clock 0..2, a first token that outlives the margin of 1 and refreshed ones that do not; 1,244,571 states |
| `encryption` | both decorators | 2 keys, 2 secrets, 2 threads, 3 operations; up to 3 KEK versions out of 2 KEKs, so that one may be added again; 1,192,335 states |
| `columnar` | tables and partitioned datasets | 2 rows, 2 batches, row groups of 1 and 2, every predicate over 3 numbers; 2 writes, one or two partition columns, values `/`, `_`, null, empty and one with a tab; floats with `NaN`, -0.0 and 0.0; 408,110 states |
| `redb_eviction_race` | **disagreement**: `get` evicts a value written after it looked | 2 threads, 1 key |
| `blob_cache_stale` | **disagreement**: `BlobCache` serves old bytes after a `put` has returned | 2 tasks |
| `partition_collision` | **disagreement**: two partition values share one file | 1 write |

The violation runs each check what a comment or doc of the code says; `findings`
in `PROJECT.json` quotes the line. Every bound is a named constant (`MaxTime`,
`MaxFreq`, `Caps`, `MaxOps`, `MaxCrashes`, `MaxFaults`, `MaxVersions`, ...). A
clock of 1 or 2 with a TTL of 1 has every order of write, elapse, read and
rewrite; more keys or threads only repeat the pairs already explored. The
abstract clock has no bound. Symmetry is used only where no liveness is checked.
Operations that end (`blobs`, `columnar`) may leave nothing to do, which is not a
deadlock.

Several properties are conjunctions of named parts, defined in the composing
module: `Bookkeeping` is types, capacity and consistency of the lists;
`BlobsWhole` is `NeverTorn`, `CasReadable` and `RenameKeepsBlob`;
`RotationSound` is that a rotation keeps values and reaches every envelope; and
so on. Each part is stated with its comment in the component's module.

### Exceptions the properties make

Some properties hold except where the code does not promise, or does not keep,
more. The exceptions are written into them, with ghosts that say when they
apply: a blob whose temporary file two puts had open at once (`shared`), a key
another task changed between the look and the act of a conditional operation
(`ConditionsHonoured`, which for `delete_if_matches` also leaves a blob out that
was written into through a shared temporary file), an entry written between its collection and rewriting
by a rotation (`raced`), a fill that a write overlapped (`FillsAreCurrent`), a key
an abandoned request can still reach, or whose write was answered by an error under
the status 200 (`AckedWritesStay`), an empty page of GCS (`PagesComplete`), `Ne`
within `EPSILON`, `Lt` and `Gt` between the two zeros, and `NaN` on float columns
(`PruningSound`), partition
values with a tab or colliding encodings (`ReadsWhatWasWritten`), one entry over
capacity for ARC (`Bounded`).

### Fairness

`LockReleased` is checked under weak fairness of each thread's own steps, because
the operating system keeps scheduling threads, and fairness of ending an open
transaction (weak on redb, strong on fjall, where the thread may make other
calls while its transaction is open), because a client that drops its `KvTxn` ends
it and one that keeps it for ever keeps the lock in the code too. No fairness is
assumed for calls that have not been made. The runs that check it have
`Reentrant = FALSE`: a thread that writes inside its own transaction blocks
itself, in the code as in the model.

### Disagreements and edge cases without a run of their own

Key-value stores:

* redb `put_returning_old` and `delete_returning_old` (lib.rs:300, 345) skip the
  TTL table: the new value keeps the old expiry, or an expiry is orphaned
  (`Careless`).
* redb and fjall `expire` check existence and set the TTL in separate
  transactions; a delete in between orphans an expiry. `expire` and `persist` on
  a key whose TTL has elapsed bring it back, on all three backends, where core
  lib.rs:358-388 has the key absent and the call `KeyNotFound` (`Careless`). `restore`
  of redb brings entries
  that had expired back without a TTL (lib.rs:826); `backup` copies the file
  while others may commit (lib.rs:817).
* redb `range_iter`, `iter_collected` and `prefix_iter` return expired entries
  that `range`, `iter` and `prefix_scan` skip (lib.rs:1632, 1657, 1680).
* sled's snapshot is not of one point in time, although lib.rs:50 says so: a
  batch written during the copy shows in part (lib.rs:593).
* sled `put` racing `put_with_ttl`, or failing between its two trees, leaves a
  TTL-less value with an expiry; its lazy eviction, like fjall's, has redb's race.
* sled `compare_and_swap` compares with expired entries (lib.rs:514), which core
  lib.rs:331-332 with 358-359 does not allow (`Careless`); `SledTxn`
  reads are not validated at commit, so read-modify-write loses updates although
  lib.rs:20 claims serialisable isolation.
* fjall: a plain `put` between the read and the commit of `compare_and_swap`
  is lost (store.rs:537), although the trait calls it atomic (core lib.rs:327);
  `batch_write_across` leaves the TTL keyspace alone, so a TTL-less write inherits
  an expiry, against store.rs:538-540 (`Careless`).
* A redb transaction whose `put` or `delete` failed after the data table was written
  can still be committed by a client that ignores the error, with the old expiry.
* `KvSnapshot::prefix_scan` finds nothing for the empty prefix or one of 0xFF
  bytes only (core lib.rs:506), where its comment says "scan everything"; `scans`
  calls it with other prefixes. A range of a `SledTxn` or `FjallTxn` with bounds in
  the wrong order panics in `BTreeMap::range`; the store's own range is empty.

Caches:

* ARC inserts without evicting in one constellation and grows past its capacity
  (arc.rs:204, against arc.rs:42). A `get` that hits a ghost evicts a live entry
  (arc.rs:253); under write-back that entry may be dirty and is lost, so the
  `caches` run leaves write-back over ARC out.
* LFU: after removals have left `min_freq` stale, shrinking by `resize` loops for
  ever (lfu.rs:254, against 250). The run therefore has one capacity for LFU, to which
  it resizes as well. With capacity 0 `get_or_insert` panics.
* W-TinyLFU with capacity 2 has no protected area: `get` answers `None` for a
  probation key it holds. LRU with capacity 0 never evicts.
* Write-back `remove` forgets the cached value before the store has deleted the
  key; when that fails the key reads as an older value. The adapters' properties
  promise nothing for a key whose last operation failed (`unsure`).
* `BoundedCache` never gives back the bytes of entries the inner cache evicted
  or expired, and inserts an entry larger than the budget, although bounded.rs:3
  calls the cap hard.
* The doorkeeper is not cleared when the counters are aged.
  `CountMinSketch::new` with capacity 0 or 1 allocates too little and the first
  increment is out of bounds; W-TinyLFU never asks for less than 2.
* `CacheableKvStore` can cache a value that a concurrent `put` has replaced; its
  batches, transactions and TTL calls do not invalidate (write_adapter.rs:262
  announces it).
* `load_row_group_with_ttl` with a TTL of zero returns nothing, since the entry
  has expired when it is read back.

Blobs:

* The local store's temporary file is named after the key without its
  extension (local.rs:134): overlapping puts of one key, or of keys that differ in
  the extension only, can leave a torn blob, although local.rs:5-6 says writes are
  atomic. `validate_key` (local.rs:109-122) admits keys ending in `.tmp`, which are never
  listed and which `cleanup_temp_files` removes; that clients do not use such keys is
  an assumption (`BlobAssumption`).
  Nothing is synced to disk before the rename.
* `rename` of a key onto itself deletes the blob. `put_if_absent` and
  `delete_if_matches` are a look and an act: two can both succeed.
* S3: an abandoned attempt served late overwrites a newer acknowledged write.
  With `max_attempts` 0 a call fails without a request. An error that S3 sends under
  the status 200 in answer to a completion or a copy is taken for success
  (multipart.rs:141, lib.rs:301).
* GCS: a page without items ends a listing even if it carries a token; one bearer
  token serves all pages and may expire between them.

Encryption:

* A rotation writes back what it collected at its start (envelope.rs:424): a value
  put meanwhile by another handle is overwritten, a deleted key comes back, and
  the TTL of every entry is dropped. A `put` that sealed its value before the
  rotation and stored it after leaves an envelope under the old KEK.
* Transactions and snapshots of `EncryptedKv` guess the cipher from the length of
  its nonce; right for the two built-in ciphers, the only ones modelled (`KindByNonce`),
  although `Aead` is a public trait.

Columnar:

* `Ne` on floats prunes groups whose values lie within `EPSILON` of the one asked
  for but differ from it (predicate.rs:460). Statistics know nothing of NaN,
  which the row filter orders above all numbers: such groups are pruned. A group
  whose least value is -0.0 is pruned for `Lt` 0.0 and one whose greatest is 0.0 for
  `Gt` -0.0, because Rust's `<` and `>` take the zeros for equal (predicate.rs:464, 466,
  483, 485) and the row filter does not. (A `NaN` with the sign bit set, which the
  kernels order below every number, is left out.)
* Asked for columns none of which exists, the reader returns a table without columns;
  reader.rs:119-121 promises `SchemaMismatch`.
* An `And` inside an `And` panics in partition matching (partition.rs:125). A tab
  in a partition value corrupts its line of the manifest, and so does a newline, which
  is left out of the model. A last line cut within its row count is read as complete,
  with a smaller count, which nothing uses.
* A table's file and the manifest are truncated before they are rewritten: a
  crash leaves neither the old nor the new one. Reads report it as an error.

## 4. The proofs

All theorems hold for any sets of threads, keys, values and other constants that
satisfy the named assumptions, and any bounds. Each proof module proves that an
inductive invariant holds, with one step per action, and derives the properties
from it. The refinements show that initial states map to initial states and every
step to a step or a stutter of `KvStore`.

The proof modules of the backends and of scans each begin with the facts they need
about the data and the TTL table: what `Insert`, `Remove`, `SetTtl` and overlays do
to the two, and that they are the abstract ones.

**`RedbStoreProofs`**, any set `Op` of operations.

* `Invariance`: `TxnIsolation` and `CasAtomic` are not inductive: that nobody else
  commits while a transaction is open follows only from which program counters
  can coexist with an owner of `writer` and of `write_lock`. `IInv` therefore joins
  `TypeOK`, `Ownership` (the locks belong to the thread whose program counter says
  so, and a swap reaches its commit only on a match), `TxnIsolation`,
  `ReadYourWrites` (but for a `Spoiled` transaction) and which calls can be in progress. `TypeCorrect`,
  `OwnershipHolds`, `IsolationHolds`, `ReadYourWritesHolds` and the action property
  `CasIsAtomic` follow; `SnapshotsAreStable` needs only that a snapshot judges
  expiry at its capture.
* `SidecarStaysClean` (`NoOrphanTtl`): for any number of threads if none calls
  `expire`, and for one thread if it does; `delete_returning_old` only on keys without
  an expiry, as it leaves an orphan. The strengthening says that a pending `expire` still finds its
  key.
* `Refinement`: for clients that are not `Careless` and, with several threads, call
  nothing that decides in one transaction and acts in another (`AtomicUse`). With
  two threads `redb_eviction_race` shows why the evicting reads must be excluded.

**`FjallStoreProofs`**, any workloads. `Seen` says that what a call has read and
will act on still holds; it is inductive where nobody else writes meanwhile: one
writer, or all writers through transactions and swaps (`Exclusive`), because plain
writes never take `txn_lock`. It also has what not being `Careless` gives: a pending
`expire` or `persist` was called on a live key, a `batch_write_across` on keys without
expiry. From it `CasIsAtomic` and, for such clients and workloads that are
`Exclusive` or in which no call decides on an earlier read, `Refinement`.
`KeyspacesStayInAgreement` needs only that `expire` is not raced;
`SnapshotsAreStable` needs nothing.

**`SledStoreProofs`**, any workloads. Every call writes two trees in turn, so the
trees agree only between calls. `IInv` has the types, what each call in progress
carries, and an empty TTL tree while nobody sets an expiry; `OrderInv` says that a
key last written without a TTL has no expiry or one that the call in progress is
about to remove; `SeenInv` that a capture copies only what its ghost has seen.
`TreesStayInAgreement` and `Refinement` are about workloads that set no TTL, with
any number of threads and failures anywhere, or have one writer that does not
fail (`Orderly`), `Refinement` also about clients that are not `Careless`;
`SnapshotsAreHonest` about workloads that set no TTL or have one
thread. Outside these the code does not keep the properties (section 3).

**`EncryptionProofs`**. `CellInv`: every stored, buffered or captured value is
sealed for its own key, and those of the handle under the secret it has cached,
whatever becomes of the keyring entry; each operation in progress carries
ciphertexts with the same property. `EnvInv`: every envelope anywhere is wrapped
by the KEK of the version it names, the owner's notes contain every version,
collected entries still hold the value of their key unless it was written since,
and what a rotation has passed is under its newest KEK. From these `TypeCorrect`,
`HandlesRead`, `ReadsHonest`, `RotationIsSound` and `ReopenIsSafe`: all properties
of the run `encryption`.

**`CachingProofs`**.

* `EstimatesCover`: the invariant is about each counter, not the smallest
  (`Covers`): all of a key's counters cover its accesses, one that no other key
  shares equals them. Below it lie facts about nibbles (writing one leaves its
  neighbour in the byte alone, halving a byte with a mask halves both) and that
  the width is even and at least 2, from the least power of two at or above the
  capacity.
* `FillsCurrent`: `FillsAreCurrent` is joined by: a get that no write overlapped
  carries the value of the store; `BlobCache` holds nothing untainted of a key
  while a write of it is under way; the order of the asynchronous cache lists every
  entry.
* `FirstFill` (action property `FirstFillWins`) needs the same facts of one step.

**`RemoteBlobsProofs`**, the clients of S3, Azure and GCS, any clients, names, parts,
faults and attempts.

* `AckedWritesStay` is a prediction: after an acknowledged write the history expects
  its effect. `RemoteInv` adds when it may: while a write is in progress or on its
  way nothing is predicted of its key (`Claims`); a request on its way belongs to the
  call whose number it bears, and if that call is still in progress it is that
  call's request; an answer of success that no other write has overtaken describes
  the object (`Confirmed`). `AcknowledgedStays` follows.
* `Errors` (`ErrorsHonest`) has three parts. `NotFound` and a denied token follow from
  `Missed` and `Denied` of `RemoteInv` (an error that has arrived has its reason;
  theorem `ErrorsHaveReasons`). `CompleteSucceeds` is about a whole upload:
  `UploadModes` says that clients that upload have one call at a time under way, and
  `UploadClean` that, as long as nothing was given up or refused, the only request on
  its way is that call's, the upload of the handle exists and holds every part the
  handle lists, and a `complete` under way has parts that the service accepts or a
  part number twice. That the sorted list is accepted is `SortFacts`: `sort_by_key` is
  stable, so a part's place in it is the number of parts before it; it is a
  permutation, and its numbers do not descend.
* `PagesInv`, for the pages of a listing: the markers of its requests only grow, and
  between its requests `out` holds, in order, every key up to the marker that was
  there all along; a page that has been served goes on where its request said and
  leaves nothing out before the next one starts. A GCS page without items is the one
  exception, as in the property.
* `KeptOK` has the types of objects, uploads, the handle and requests.

**`BlobsProofs`**, the local and memory stores, and both kinds of store together.
What `BlobsWhole` says of finished calls is not inductive: it depends on what is in
every file, also in temporary ones and in those that only a descriptor still reaches.

* `BlobInv` has the types; `FilesOK`: no two paths share an inode, an open file
  belongs to the call that opened it, and the temporary file of a put under way, if
  it was never shared, holds the blocks written up to its position; `StoredOK`: what
  is stored, or being read, is as some put of the key had it, or the temporary file
  was shared, and an acknowledged digest is there; `TaskOK`: the calls a task has left
  are the end of its operation's plan; `SeenOK`: what a task that has looked still
  knows unless another task changed the key. `Whole` and the action property
  `Conditions` follow. Sweeps and crashes only remove temporary files and
  descriptors, which is why they disturb nothing.
* `StateOK` (`BlobStateOK`): types, and the exact quota. The bytes in use are the
  cardinality of the set `Taken` of pairs of a key and a block number, so an
  overwrite replaces a part of a finite set and needs no induction over a sum.
* `Listings` (`ListingsRight`): `Listing` follows a task through its three stages.
  While it walks the directory, every entry passed that was there all along has been
  seen; while it looks at the keys found, those left are in order and come after
  those handed out; when it is done nothing is missing up to where a full page
  stops. With `PagesInv` that is the whole property.

**`ScanProofs`**. The order of byte strings is shown to be a strict total order, and
from it `PrefixBoundsExact`: dropping trailing 0xFF bytes and incrementing the
last one left bounds exactly the keys with the prefix. A scan is a loop, so
`ScanInv` says at each of its positions: the keys it visits are those asked for;
what it has put out is in order and lies before its position (`OutOK`); the item
it holds was in its table (`ItemOK`); the frozen views of redb and fjall are what
was visible at the start (`ViewOK`); and a pair that was visible all along is in
the output, in hand, or ahead (`NothingMissed`). A transaction's range has two loops:
at each position of the second one the map agrees with the overlay before it and with
the first loop's result after it, and listing the map keeps both. `ScansComplete` and
`ScansHonest` follow, for scans of stores, transactions and snapshots, any keys, any
staged writes and any number of writes.

The module ends with the pruning of row groups, for all integers where the run
`columnar` has three: `OrdPruningSound` (a row group that holds a cell matching
the predicate is not pruned, for the ordered types), `BoolPruningSound`, and
`FloatPruningSound` for the comparisons with an epsilon, over the numbers with both
zeros in the order of Arrow's kernels: apart from `Ne` with a cell closer than `EPSILON`
and from `Lt` and `Gt` between -0.0 and 0.0, statistics never prove too much. `PruningSound` of the run connects them with files
and predicates.

TLC checks every property these invariants yield on the instances of the runs.

Assumed, and evaluated by TLC on every run of the modules: `RedbAssumption`,
`SledAssumption`, `FjallAssumption`, `AbsentAssumption`, `CacheConstants`,
`CellAssumption`, `EnvelopeAssumption`, `RemoteAssumption`, `FloatAssumption` (markers
such as `Absent` are not values, bounds are naturals), `BlobAssumption` (also: no key
is named like a temporary file, digests are injective, `KeyOrder` and `DirOrder` are
sequences that list every key and path once; `RemoteAssumption` says the same of
`Names`, and that the marker `Missing` is no upload), `ScanAssumption` (also: `KeysInOrder` lists the keys in byte order), the two
`WorkloadAssumption`s (a workload gives each thread a set of operations),
`ReadThroughAssumption` (there is a task) and `SketchAssumption` (a sketch is for at
least two keys, as its only user asks).

Only model-checked:

* `LockReleased`, on both backends that lock: liveness is out of this prover's
  reach;
* the cache policies and adapters over them (`Bookkeeping`, `ReadsRight`,
  `EvictsRightly`, `WritesKept`, `BytesAccounted`): they are about several lists
  that are filtered and rebuilt by every call;
* tables and datasets (`TableReadsRight`, `PruningSound`, `DatasetReadsRight`), whose
  predicates are trees read by a `RECURSIVE` operator.

## 5. Not modelled

Opening, repair and compaction of database files; what a file copied during a
commit contains (`backup`); sled's merge operators, watchers and extra trees;
fjall's partitions other than the default one; the hash functions of the sketch;
`SyncCache`, `ShardedCache` and `StatsCache` (a mutex, an array of caches,
counters); streaming bodies of blobs; cryptography, key derivation and PKCS#11,
compression codecs, the Parquet encoding, HTTP, XML, JSON and request signing,
which are external or pure conversions; typed wrappers and the facade, which
forward calls.

## 6. What could come next

1. Proofs: `WritesKept` of the adapters from what they need of a policy ("an insert
   evicts only at capacity, a get never"); reads of tables with predicates as
   recursive functions. A least counterexample (as for the width of the sketch) can
   stand in for an induction, a cardinality (as for the quota) for a sum.
2. The encrypting decorators composed with `KvStore` including TTLs.
3. The TTL variants of `ColumnarRowGroupCache`; fjall's named partitions.
