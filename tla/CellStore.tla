----------------------------- MODULE CellStore -----------------------------
(***************************************************************************)
(* EncryptedKv: every value is sealed under one key with the hash of its   *)
(* storage key (or an explicit CellId) as associated data.  The key comes  *)
(* from a KeyProvider that reads the operating system's keyring, or a      *)
(* PKCS#11 token, on first use and caches it in a OnceLock.  Threads share *)
(* the handle; each operation is cut where it fetches the key: looking at  *)
(* the cache and the keyring, settling the cache, and running.  Meanwhile  *)
(* the keyring entry may be replaced or deleted.                           *)
(***************************************************************************)
EXTENDS EncryptCore

CONSTANTS
    CellValues,     \* the plaintexts put through EncryptedKv
    Cells,          \* explicit CellIds
    Secrets,        \* the 32-byte keys the OS keyring may hold
    Threads,        \* threads sharing one handle
    MaxCellOps      \* bound on the operations begun

\* A value sealed under one of the keys, as a value of its key or of a cell.
Sealed == [alg : AeadKind, key : Secrets, pt : CellValues,
           aad : {derive_cell_id(k) : k \in Keys} \cup {to_aad_bytes(c) : c \in Cells}]

\* The special values are none of the bytes and keys.
ASSUME CellAssumption ==
    /\ MaxCellOps \in Nat
    /\ None \notin Secrets /\ Failed \notin CellValues
    /\ Absent \notin Sealed \cup Secrets /\ NoWrite \notin Sealed /\ NoWrite # Absent

VARIABLES
    aead,       \* the cipher of the handle, fixed when it is built
    entry,      \* the OS keyring entry, Absent when there is none (external)
    cached,     \* KeyringKey.cached
    cells,      \* the inner store: key -> sealed value
    thread,     \* thread -> None, or the operation it is in
    cellOps,    \* operations begun
    expect,     \* history: what get should give for each key
    mine        \* history: keys last written since the handle was opened

cellVars == <<aead, entry, cached, cells, thread, cellOps, expect, mine>>

CellInit ==
    /\ aead \in AeadKind
    /\ entry \in Secrets
    /\ cached = None
    /\ cells = [k \in Keys |-> Absent]
    /\ expect = [k \in Keys |-> Absent]
    /\ thread = [t \in Threads |-> None]
    /\ cellOps = 0 /\ mine = {}

\* EncryptedKv::get's view of a sealed value under a given secret.
cell_get(secret, k, data) == open_cell(aead, secret, k, data[k])

\* range and iter decrypt everything before returning: one bad item fails all.
cell_iter_skipping(secret) == [k \in Keys |-> cell_get(secret, k, cells)]
cell_iter(secret) ==
    LET got == [k \in Keys |-> cell_get(secret, k, cells)]
    IN  IF \E k \in Keys : got[k] = Failed THEN Failed ELSE got

---------------------------------------------------------------------------
(* Beginning an operation.  get, get_cell, transaction and snapshot use    *)
(* the inner store before they ask for the key; put, put_cell and iter ask *)
(* first.  What an inner transaction reads is the store's at each get.     *)

Call(t, op) ==
    /\ thread[t] = None /\ cellOps < MaxCellOps
    /\ cellOps' = cellOps + 1
    /\ thread' = [thread EXCEPT ![t] = op]
    /\ UNCHANGED <<aead, entry, cached, cells, expect, mine>>

BeginPut(t, k, v) ==
    Call(t, [name |-> "put", stage |-> "look", secret |-> None, key |-> k, val |-> v])
BeginPutCell(t, k, c, v) ==
    Call(t, [name |-> "put_cell", stage |-> "look", secret |-> None, key |-> k, val |-> v,
             cell |-> c])
BeginGet(t, k) ==
    /\ cells[k] # Absent
    /\ Call(t, [name |-> "get", stage |-> "look", secret |-> None, key |-> k,
                ct |-> cells[k], want |-> expect[k], own |-> k \in mine])
BeginGetCell(t, k, c) ==
    /\ cells[k] # Absent
    /\ Call(t, [name |-> "get_cell", stage |-> "look", secret |-> None, key |-> k,
                ct |-> cells[k], cell |-> c])
BeginSession(t, name) ==
    Call(t, [name |-> name, stage |-> "look", secret |-> None])
BeginSnapshot(t) ==
    Call(t, [name |-> "snapshot", stage |-> "look", secret |-> None,
             data |-> cells, want |-> expect, own |-> mine])

\* KeyProvider::get_key, first half: the cached key, else the keyring's;
\* with neither, the operation returns the error.
LookUpKey(t) ==
    /\ thread[t] # None /\ thread[t].stage = "look"
    /\ thread' = [thread EXCEPT ![t] =
          IF cached # None THEN [@ EXCEPT !.stage = "run", !.secret = cached]
          ELSE IF entry # Absent THEN [@ EXCEPT !.stage = "settle", !.secret = entry]
          ELSE None]
    /\ UNCHANGED <<aead, entry, cached, cells, cellOps, expect, mine>>

\* Second half: get_or_init keeps the first key, and that one is returned.
SettleKeyOwn(t) ==
    /\ thread[t] # None /\ thread[t].stage = "settle"
    /\ cached' = IF cached = None THEN thread[t].secret ELSE cached
    /\ thread' = [thread EXCEPT ![t].stage = "run"]
    /\ UNCHANGED <<aead, entry, cells, cellOps, expect, mine>>
SettleKey(t) ==
    /\ thread[t] # None /\ thread[t].stage = "settle"
    /\ cached' = IF cached = None THEN thread[t].secret ELSE cached
    /\ thread' = [thread EXCEPT ![t].stage = "run", ![t].secret = cached']
    /\ UNCHANGED <<aead, entry, cells, cellOps, expect, mine>>

---------------------------------------------------------------------------
(* Running it, the key in hand.                                            *)

Runs(t, names) == thread[t] # None /\ thread[t].stage = "run" /\ thread[t].name \in names
Done(t) == thread' = [thread EXCEPT ![t] = None]

WriteCell(k, ct, want) ==
    /\ cells' = [cells EXCEPT ![k] = ct]
    /\ expect' = [expect EXCEPT ![k] = want]
    /\ mine' = mine \cup {k}

\* encrypt_value and inner.put.
RunPut(t) ==
    /\ Runs(t, {"put"})
    /\ LET o == thread[t]
       IN  WriteCell(o.key, encrypt_with_aead(aead, o.secret, derive_cell_id(o.key), o.val),
                     o.val)
    /\ Done(t)
    /\ UNCHANGED <<aead, entry, cached, cellOps>>

\* A value stored under an explicit CellId is not a value of its key.
RunPutCell(t) ==
    /\ Runs(t, {"put_cell"})
    /\ LET o == thread[t]
       IN  WriteCell(o.key, encrypt_cell(o.secret, o.cell, o.val), Failed)
    /\ Done(t)
    /\ UNCHANGED <<aead, entry, cached, cellOps>>

\* What the read in progress returns.
ReadResult(t) ==
    LET o == thread[t]
    IN  CASE o.name = "get" ->
                decrypt_with_aead(aead, o.secret, derive_cell_id(o.key), o.ct)
          [] o.name = "get_cell" -> decrypt_cell(o.secret, o.cell, o.ct)
          [] o.name = "iter" -> cell_iter(o.secret)

RunRead(t) ==
    /\ Runs(t, {"get", "get_cell", "iter"})
    /\ Done(t)
    /\ UNCHANGED <<aead, entry, cached, cells, cellOps, expect, mine>>

\* EncryptedTxn carries a copy of the key and the cipher its nonce suggests.
RunTransaction(t) ==
    /\ Runs(t, {"transaction"})
    /\ thread' = [thread EXCEPT ![t] =
          [stage |-> "txn", name |-> "txn", secret |-> @.secret,
           kind |-> KindByNonce(aead), buf |-> [k \in Keys |-> NoWrite],
           vals |-> [k \in Keys |-> NoWrite]]]
    /\ UNCHANGED <<aead, entry, cached, cells, cellOps, expect, mine>>

InTxn(t) == thread[t] # None /\ thread[t].name = "txn"

CellTxnPut(t, k, v) ==
    /\ InTxn(t)
    /\ thread' = [thread EXCEPT
          ![t].buf[k] = encrypt_with_aead(thread[t].kind, thread[t].secret,
                                          derive_cell_id(k), v),
          ![t].vals[k] = v]
    /\ UNCHANGED <<aead, entry, cached, cells, cellOps, expect, mine>>

CellTxnDelete(t, k) ==
    /\ InTxn(t)
    /\ thread' = [thread EXCEPT ![t].buf[k] = Absent, ![t].vals[k] = Absent]
    /\ UNCHANGED <<aead, entry, cached, cells, cellOps, expect, mine>>

CellTxnGet(t, k) ==
    LET o == thread[t]
    IN  open_cell(o.kind, o.secret, k, IF o.buf[k] = NoWrite THEN cells[k] ELSE o.buf[k])

CellTxnCommit(t) ==
    /\ InTxn(t)
    /\ LET o == thread[t]
           wrote == {k \in Keys : o.buf[k] # NoWrite}
       IN  /\ cells' = [k \in Keys |-> IF k \in wrote THEN o.buf[k] ELSE cells[k]]
           /\ expect' = [k \in Keys |-> IF k \in wrote THEN o.vals[k] ELSE expect[k]]
           /\ mine' = mine \cup wrote
    /\ Done(t)
    /\ UNCHANGED <<aead, entry, cached, cellOps>>

CellTxnRollback(t) ==
    /\ InTxn(t)
    /\ Done(t)
    /\ UNCHANGED <<aead, entry, cached, cells, cellOps, expect, mine>>

RunSnapshot(t) ==
    /\ Runs(t, {"snapshot"})
    /\ thread' = [thread EXCEPT ![t] =
          [stage |-> "snap", name |-> "snap", secret |-> @.secret,
           kind |-> KindByNonce(aead), data |-> @.data, want |-> @.want, own |-> @.own]]
    /\ UNCHANGED <<aead, entry, cached, cells, cellOps, expect, mine>>

CellSnapshotGet(t, k) ==
    LET o == thread[t]
    IN  open_cell(o.kind, o.secret, k, o.data[k])

CellDropSnapshot(t) ==
    /\ thread[t] # None /\ thread[t].name = "snap"
    /\ Done(t)
    /\ UNCHANGED <<aead, entry, cached, cells, cellOps, expect, mine>>

---------------------------------------------------------------------------
(* Around the handle.                                                      *)

\* delete and contains need no key.
cell_delete(k) ==
    /\ cells[k] # Absent
    /\ cells' = [cells EXCEPT ![k] = Absent]
    /\ expect' = [expect EXCEPT ![k] = Absent]
    /\ mine' = mine \cup {k}
    /\ UNCHANGED <<aead, entry, cached, thread, cellOps>>

\* inner_ref hands out the raw store: a sealed value copied to another key.
CopyCell(k, l) ==
    /\ k # l /\ cells[k] # Absent /\ cells[k].aad = derive_cell_id(k)
    /\ cells' = [cells EXCEPT ![l] = cells[k]]
    /\ expect' = [expect EXCEPT ![l] = Failed]
    /\ mine' = mine \cup {l}
    /\ UNCHANGED <<aead, entry, cached, thread, cellOps>>

store_key(s) ==
    /\ entry' = s /\ entry' # entry
    /\ UNCHANGED <<aead, cached, cells, thread, cellOps, expect, mine>>
delete_entry ==
    /\ entry # Absent /\ entry' = Absent
    /\ UNCHANGED <<aead, cached, cells, thread, cellOps, expect, mine>>

\* The handle is dropped and built again (KeyringKey's Clone also starts
\* with an empty cache): the next operation fetches the key anew.
ReopenHandle ==
    /\ cached # None /\ \A t \in Threads : thread[t] = None
    /\ cached' = None /\ mine' = {}
    /\ UNCHANGED <<aead, entry, cells, thread, cellOps, expect>>

CellNext ==
    \/ \E t \in Threads :
        \/ \E k \in Keys, v \in CellValues : BeginPut(t, k, v)
        \/ \E k \in Keys, c \in Cells, v \in CellValues : BeginPutCell(t, k, c, v)
        \/ \E k \in Keys : BeginGet(t, k)
        \/ \E k \in Keys, c \in Cells : BeginGetCell(t, k, c)
        \/ \E n \in {"iter", "transaction"} : BeginSession(t, n)
        \/ BeginSnapshot(t)
        \/ LookUpKey(t) \/ SettleKey(t)
        \/ RunPut(t) \/ RunPutCell(t) \/ RunRead(t) \/ RunTransaction(t) \/ RunSnapshot(t)
        \/ \E k \in Keys, v \in CellValues : CellTxnPut(t, k, v)
        \/ \E k \in Keys : CellTxnDelete(t, k)
        \/ CellTxnCommit(t) \/ CellTxnRollback(t) \/ CellDropSnapshot(t)
    \/ \E k \in Keys : cell_delete(k)
    \/ \E k, l \in Keys : CopyCell(k, l)
    \/ \E s \in Secrets : store_key(s)
    \/ delete_entry
    \/ ReopenHandle

---------------------------------------------------------------------------
(* The operations a thread may be in, by what they carry.                  *)
Fetching == {"look", "settle", "run"}
Wanted == CellValues \cup {Absent, Failed}

PutOp == [name : {"put"}, stage : Fetching, secret : Secrets \cup {None}, key : Keys,
          val : CellValues]
PutCellOp == [name : {"put_cell"}, stage : Fetching, secret : Secrets \cup {None}, key : Keys,
              val : CellValues, cell : Cells]
GetOp == [name : {"get"}, stage : Fetching, secret : Secrets \cup {None}, key : Keys,
          ct : Sealed, want : Wanted, own : BOOLEAN]
GetCellOp == [name : {"get_cell"}, stage : Fetching, secret : Secrets \cup {None}, key : Keys,
              ct : Sealed, cell : Cells]
SessionOp == [name : {"iter", "transaction"}, stage : Fetching, secret : Secrets \cup {None}]
SnapshotOp == [name : {"snapshot"}, stage : Fetching, secret : Secrets \cup {None},
               data : [Keys -> Sealed \cup {Absent}], want : [Keys -> Wanted], own : SUBSET Keys]
TxnOp == [name : {"txn"}, stage : {"txn"}, secret : Secrets, kind : AeadKind,
          buf : [Keys -> Sealed \cup {Absent, NoWrite}],
          vals : [Keys -> CellValues \cup {Absent, NoWrite}]]
SnapOp == [name : {"snap"}, stage : {"snap"}, secret : Secrets, kind : AeadKind,
           data : [Keys -> Sealed \cup {Absent}], want : [Keys -> Wanted], own : SUBSET Keys]

\* Every variable has its type, and a thread past the key fetch holds a key,
\* never the lack of one.
CellTypeOK ==
    /\ aead \in AeadKind
    /\ cached \in Secrets \cup {None}
    /\ entry \in Secrets \cup {Absent}
    /\ cells \in [Keys -> Sealed \cup {Absent}]
    /\ expect \in [Keys -> Wanted]
    /\ thread \in [Threads -> {None} \cup PutOp \cup PutCellOp \cup GetOp \cup GetCellOp
                                \cup SessionOp \cup SnapshotOp \cup TxnOp \cup SnapOp]
    /\ cellOps \in Nat /\ mine \subseteq Keys
    /\ \A t \in Threads : thread[t] # None /\ thread[t].stage # "look" =>
          thread[t].secret \in Secrets

\* What this handle wrote, it reads: whichever threads raced to fill the
\* key cache, and however the keyring entry changed since, every value
\* written through the handle, directly or by a transaction, opens under
\* the handle's key and cipher; a value moved to another key, or stored
\* under an explicit CellId, does not open as a value of that key.
HandleReadsItsWrites ==
    cached # None => \A k \in mine : cell_get(cached, k, cells) = expect[k]

\* A read in progress returns what was stored when it looked, or an error;
\* never a value of another key, another cell or another time.
NeverForeign ==
    \A t \in Threads :
        /\ Runs(t, {"get"}) => ReadResult(t) \in {Failed, thread[t].want}
        /\ Runs(t, {"get"}) /\ thread[t].own /\ thread[t].ct.key = cached =>
              ReadResult(t) = thread[t].want
        /\ Runs(t, {"get_cell"}) /\ ReadResult(t) # Failed =>
              thread[t].ct.aad = to_aad_bytes(thread[t].cell)

\* iter and range return every stored entry with its own value, or fail as
\* a whole: an entry they cannot open is never left out in silence.
IterAllOrNothing ==
    \A t \in Threads :
        Runs(t, {"iter"}) => ReadResult(t) \in {Failed, expect}

\* Transactions and snapshots of the handle read what the handle would have
\* read, their own writes first: the cipher guessed from the nonce length is
\* the handle's.
SessionsAgree ==
    \A t \in Threads : thread[t] # None =>
        /\ thread[t].name = "txn" => \A k \in Keys :
              IF thread[t].buf[k] = NoWrite
              THEN CellTxnGet(t, k) = cell_get(thread[t].secret, k, cells)
              ELSE CellTxnGet(t, k) = thread[t].vals[k]
        /\ thread[t].name = "snap" => \A k \in thread[t].own :
              CellSnapshotGet(t, k) = thread[t].want[k]
=============================================================================
