-------------------------- MODULE EncryptionProofs --------------------------
(***************************************************************************)
(* Proofs about the two decorators of oxistore-encrypt, for every set of   *)
(* keys, values, secrets, KEKs and threads and without the bounds of the   *)
(* model checker: what a handle wrote it reads, a read never returns       *)
(* another key's value, a rotation changes no value and reaches all, and a *)
(* keyring rebuilt after a crash opens everything.  The state of the two   *)
(* decorators is disjoint, so each has an inductive invariant of its own.  *)
(***************************************************************************)
EXTENDS Encryption, TLAPS

---------------------------------------------------------------------------
(* EncryptedKv.                                                            *)

\* Opened under its own key by cipher a, the sealed value ct stored at k gives
\* want: a value of another key or of a CellId does not open there, and a
\* value of k was sealed with a.
SealedFor(ct, k, want, a) ==
    IF ct = Absent THEN want = Absent
    ELSE IF ct.aad = derive_cell_id(k) THEN ct.alg = a /\ ct.pt = want
    ELSE want = Failed

\* A value of k is sealed under the given secret.
SealedBy(ct, k, secret) ==
    ct # Absent /\ ct.aad = derive_cell_id(k) => ct.key = secret

\* What a transaction has buffered for k.
Buffered(ct, val, k, a, secret) ==
    \/ ct = NoWrite
    \/ ct = Absent /\ val = Absent
    \/ /\ ct \in Sealed
       /\ ct.aad = derive_cell_id(k) /\ ct.key = secret /\ ct.alg = a /\ ct.pt = val

AnyOp == PutOp \cup PutCellOp \cup GetOp \cup GetCellOp \cup SessionOp \cup SnapshotOp \cup TxnOp \cup SnapOp

\* An operation past the key fetch holds the cached key, and what it read or
\* buffered opens under that key to what it should.
OpInv(o, secret, a) ==
    /\ o.stage # "look" => o.secret \in Secrets
    /\ o.stage \notin {"look", "settle"} => o.secret = secret
    /\ o.name = "get" => SealedFor(o.ct, o.key, o.want, a)
    /\ o.name = "txn" =>
          o.kind = a /\ \A k \in Keys : Buffered(o.buf[k], o.vals[k], k, a, o.secret)
    /\ o.name = "snap" =>
          /\ o.kind = a
          /\ \A k \in Keys : SealedFor(o.data[k], k, o.want[k], a)
          /\ \A k \in o.own : SealedBy(o.data[k], k, o.secret)
    /\ o.name = "snapshot" =>
          /\ \A k \in Keys : SealedFor(o.data[k], k, o.want[k], a)
          /\ \A k \in o.own : SealedBy(o.data[k], k, secret)

StoreInv(data, want, own, secret, a) ==
    /\ \A k \in Keys : SealedFor(data[k], k, want[k], a)
    /\ \A k \in own : SealedBy(data[k], k, secret)

\* The inductive invariant of EncryptedKv: every stored value opens to what
\* the history expects, the handle's own writes under the cached key.
CellInv ==
    /\ CellTypeOK
    /\ StoreInv(cells, expect, mine, cached, aead)
    /\ \A t \in Threads : thread[t] # None => OpInv(thread[t], cached, aead)

\* The location of a key is neither that of another key nor that of a CellId.
LEMMA LocationsDiffer ==
    /\ \A k, l : derive_cell_id(k) = derive_cell_id(l) => k = l
    /\ \A k, c : derive_cell_id(k) # to_aad_bytes(c)
BY DEF derive_cell_id, to_aad_bytes

\* The nonce length tells the two ciphers apart: transactions and snapshots
\* run with the cipher of their handle.
LEMMA NonceTellsCipher == \A a \in AeadKind : KindByNonce(a) = a
BY DEF AeadKind, KindByNonce, nonce_len

\* What is sealed for a key under one of the secrets has the type of the
\* inner store's values.
LEMMA SealType ==
    ASSUME NEW a \in AeadKind, NEW s \in Secrets, NEW v \in CellValues
    PROVE  /\ \A k \in Keys : encrypt_with_aead(a, s, derive_cell_id(k), v) \in Sealed
           /\ \A c \in Cells : encrypt_cell(s, c, v) \in Sealed
BY DEF encrypt_with_aead, encrypt_cell, Sealed, AeadKind

\* Sealing a value of a key gives a term that opens to it.
LEMMA SealOpens ==
    ASSUME NEW a \in AeadKind, NEW s \in Secrets, NEW v \in CellValues, NEW k \in Keys
    PROVE  LET ct == encrypt_with_aead(a, s, derive_cell_id(k), v)
           IN  /\ ct # Absent /\ ct # NoWrite
               /\ SealedFor(ct, k, v, a) /\ SealedBy(ct, k, s)
               /\ Buffered(ct, v, k, a, s)
<1> DEFINE ct == encrypt_with_aead(a, s, derive_cell_id(k), v)
<1>1. ct \in Sealed
  BY SealType
<1>2. ct # Absent /\ ct # NoWrite
  BY <1>1, CellAssumption
<1>3. ct.alg = a /\ ct.key = s /\ ct.aad = derive_cell_id(k) /\ ct.pt = v
  BY DEF encrypt_with_aead
<1> HIDE DEF ct
<1> QED
  BY <1>1, <1>2, <1>3 DEF SealedFor, SealedBy, Buffered, ct

\* A value stored under an explicit CellId does not open as a value of a key.
LEMMA CellSealOpensNowhere ==
    ASSUME NEW s \in Secrets, NEW v \in CellValues, NEW c \in Cells, NEW k \in Keys,
           NEW a, NEW secret
    PROVE  LET ct == encrypt_cell(s, c, v)
           IN  SealedFor(ct, k, Failed, a) /\ SealedBy(ct, k, secret)
<1> DEFINE ct == encrypt_cell(s, c, v)
<1>1. ct \in Sealed
  BY SealType DEF AeadKind
<1>2. ct # Absent
  BY <1>1, CellAssumption
<1>3. ct.aad = to_aad_bytes(c)
  BY DEF encrypt_cell, encrypt_with_aead
<1> HIDE DEF ct
<1> QED
  BY <1>1, <1>2, <1>3, LocationsDiffer DEF SealedFor, SealedBy, ct

\* Opening what SealedFor describes gives the wanted value or an error, and
\* the wanted value when the secret is the one it was sealed under.
LEMMA OpeningIsHonest ==
    ASSUME NEW ct \in Sealed \cup {Absent}, NEW k \in Keys, NEW want, NEW a, NEW s,
           SealedFor(ct, k, want, a)
    PROVE  /\ open_cell(a, s, k, ct) \in {want, Failed}
           /\ SealedBy(ct, k, s) => open_cell(a, s, k, ct) = want
BY DEF SealedFor, SealedBy, open_cell, decrypt_with_aead

\* What a transaction buffered opens to the value it buffered.
LEMMA BufferOpens ==
    ASSUME NEW ct, NEW val, NEW k \in Keys, NEW a, NEW s,
           Buffered(ct, val, k, a, s), ct # NoWrite
    PROVE  open_cell(a, s, k, ct) = val
BY CellAssumption DEF Buffered, open_cell, decrypt_with_aead

---------------------------------------------------------------------------
(* The steps of an operation, on the record the thread holds.              *)

\* Which record a thread holds by its name.
LEMMA OpByName ==
    ASSUME NEW o \in AnyOp
    PROVE  /\ o.name = "put" => o \in PutOp
           /\ o.name = "put_cell" => o \in PutCellOp
           /\ o.name = "get" => o \in GetOp
           /\ o.name = "get_cell" => o \in GetCellOp
           /\ o.name \in {"iter", "transaction"} => o \in SessionOp
           /\ o.name = "snapshot" => o \in SnapshotOp
           /\ o.name = "txn" => o \in TxnOp
           /\ o.name = "snap" => o \in SnapOp
           /\ o.stage \in Fetching => o \notin TxnOp \cup SnapOp
BY DEF AnyOp, PutOp, PutCellOp, GetOp, GetCellOp, SessionOp, SnapshotOp, TxnOp, SnapOp, Fetching

\* While no key is cached, the handle has sealed nothing.
LEMMA NotYetSealed ==
    ASSUME NEW ct \in Sealed \cup {Absent}, NEW k, SealedBy(ct, k, None), NEW s
    PROVE  SealedBy(ct, k, s)
BY CellAssumption DEF SealedBy, Sealed

\* Storing the secret and the next stage in an operation that fetches its key
\* keeps everything else of it.
LEMMA FetchStep ==
    ASSUME NEW o \in AnyOp, o.stage \in Fetching, NEW s \in Secrets,
           NEW st \in {"settle", "run"}, NEW c, NEW d, NEW a, OpInv(o, c, a),
           st = "run" => s = d, c = d \/ c = None
    PROVE  LET p == [o EXCEPT !.stage = st, !.secret = s]
           IN  p \in AnyOp /\ OpInv(p, d, a)
<1> DEFINE p == [o EXCEPT !.stage = st, !.secret = s]
<1>0. st \in Fetching
  BY DEF Fetching
<1>1. CASE o \in PutOp
  <2>1. p \in PutOp
    BY <1>0, <1>1 DEF PutOp
  <2>2. p.stage = st /\ p.secret = s /\ p.name = "put"
    BY <1>1 DEF PutOp
  <2> QED
    BY <2>1, <2>2 DEF AnyOp, OpInv
<1>2. CASE o \in PutCellOp
  <2>1. p \in PutCellOp
    BY <1>0, <1>2 DEF PutCellOp
  <2>2. p.stage = st /\ p.secret = s /\ p.name = "put_cell"
    BY <1>2 DEF PutCellOp
  <2> QED
    BY <2>1, <2>2 DEF AnyOp, OpInv
<1>3. CASE o \in GetOp
  <2>1. p \in GetOp
    BY <1>0, <1>3 DEF GetOp
  <2>2. p.stage = st /\ p.secret = s /\ p.name = "get" /\ p.ct = o.ct /\ p.key = o.key
        /\ p.want = o.want /\ o.name = "get"
    BY <1>3 DEF GetOp
  <2> HIDE DEF p
  <2> QED
    BY <2>1, <2>2 DEF AnyOp, OpInv, p
<1>4. CASE o \in GetCellOp
  <2>1. p \in GetCellOp
    BY <1>0, <1>4 DEF GetCellOp
  <2>2. p.stage = st /\ p.secret = s /\ p.name = "get_cell"
    BY <1>4 DEF GetCellOp
  <2> QED
    BY <2>1, <2>2 DEF AnyOp, OpInv
<1>5. CASE o \in SessionOp
  <2>1. p \in SessionOp
    BY <1>0, <1>5 DEF SessionOp
  <2>2. p.stage = st /\ p.secret = s /\ p.name \in {"iter", "transaction"}
    BY <1>5 DEF SessionOp
  <2> QED
    BY <2>1, <2>2 DEF AnyOp, OpInv
<1>6. CASE o \in SnapshotOp
  <2>1. p \in SnapshotOp
    BY <1>0, <1>6 DEF SnapshotOp
  <2>2. p.stage = st /\ p.secret = s /\ p.name = "snapshot" /\ p.data = o.data /\ p.own = o.own
        /\ p.want = o.want /\ o.name = "snapshot" /\ o.own \subseteq Keys
        /\ o.data \in [Keys -> Sealed \cup {Absent}]
    BY <1>6 DEF SnapshotOp
  <2>3. \A k \in o.own : SealedBy(o.data[k], k, d)
    BY <2>2, NotYetSealed DEF OpInv
  <2> HIDE DEF p
  <2> QED
    BY <2>1, <2>2, <2>3 DEF AnyOp, OpInv, p
<1> QED
  BY <1>1, <1>2, <1>3, <1>4, <1>5, <1>6, OpByName DEF AnyOp

\* OpInv does not depend on the cached key before the key is fetched, and no
\* operation is past the fetch while nothing is cached.
LEMMA OpInvFilled ==
    ASSUME NEW o \in AnyOp, NEW c \in Secrets, NEW a, OpInv(o, None, a)
    PROVE  OpInv(o, c, a)
<1>1. ASSUME o.name = "snapshot" PROVE \A k \in o.own : SealedBy(o.data[k], k, c)
  <2>1. o \in SnapshotOp
    BY <1>1, OpByName
  <2>2. o.own \subseteq Keys /\ o.data \in [Keys -> Sealed \cup {Absent}]
    BY <2>1 DEF SnapshotOp
  <2> QED
    BY <1>1, <2>2, NotYetSealed DEF OpInv
<1> QED
  BY <1>1, CellAssumption DEF OpInv

\* Replacing what one thread holds keeps what CellInv says of all of them.
LEMMA ThreadSet ==
    ASSUME CellInv, NEW t \in Threads, NEW o \in AnyOp \cup {None},
           thread' = [thread EXCEPT ![t] = o], o # None => OpInv(o, cached', aead),
           cached' = cached \/ (cached = None /\ cached' \in Secrets), aead' = aead
    PROVE  /\ thread' \in [Threads -> {None} \cup PutOp \cup PutCellOp \cup GetOp
                             \cup GetCellOp \cup SessionOp \cup SnapshotOp \cup TxnOp \cup SnapOp]
           /\ \A u \in Threads : thread'[u] # None => OpInv(thread'[u], cached', aead')
           /\ \A u \in Threads : thread'[u] # None /\ thread'[u].stage # "look" =>
                 thread'[u].secret \in Secrets
<1>1. thread \in [Threads -> AnyOp \cup {None}]
  BY DEF CellInv, CellTypeOK, AnyOp
<1>2. thread' \in [Threads -> AnyOp \cup {None}]
  BY <1>1
<1>3. ASSUME NEW u \in Threads, thread'[u] # None
      PROVE  OpInv(thread'[u], cached', aead')
  <2>1. CASE u = t
    BY <2>1, <1>1, <1>3
  <2>2. CASE u # t
    <3>1. thread'[u] = thread[u] /\ OpInv(thread[u], cached, aead)
      BY <2>2, <1>1, <1>3 DEF CellInv
    <3>2. thread[u] \in AnyOp
      BY <1>1, <1>3, <3>1
    <3> QED
      BY <3>1, <3>2, OpInvFilled
  <2> QED
    BY <2>1, <2>2
<1>4. \A u \in Threads : thread'[u] # None /\ thread'[u].stage # "look" =>
          thread'[u].secret \in Secrets
  BY <1>3 DEF OpInv
<1> QED
  BY <1>2, <1>3, <1>4 DEF AnyOp

\* A step of one thread that leaves the inner store alone.
LEMMA ThreadStep ==
    ASSUME CellInv, NEW t \in Threads, NEW o \in AnyOp \cup {None},
           thread' = [thread EXCEPT ![t] = o], o # None => OpInv(o, cached, aead),
           cellOps' \in Nat, UNCHANGED <<aead, entry, cached, cells, expect, mine>>
    PROVE  CellInv'
<1> USE DEF CellInv
<1>1. thread' \in [Threads -> {None} \cup PutOp \cup PutCellOp \cup GetOp
                             \cup GetCellOp \cup SessionOp \cup SnapshotOp \cup TxnOp \cup SnapOp]
      /\ (\A u \in Threads : thread'[u] # None => OpInv(thread'[u], cached', aead'))
      /\ (\A u \in Threads : thread'[u] # None /\ thread'[u].stage # "look" =>
             thread'[u].secret \in Secrets)
  BY ThreadSet
<1>2. CellTypeOK'
  BY <1>1 DEF CellTypeOK
<1>3. StoreInv(cells, expect, mine, cached, aead)'
  OBVIOUS
<1> QED
  BY <1>1, <1>2, <1>3

\* A write of one thread through the handle, which ends its operation.
LEMMA WriteStep ==
    ASSUME CellInv, NEW t \in Threads, Done(t), cellOps' = cellOps,
           UNCHANGED <<aead, entry, cached>>,
           cells' \in [Keys -> Sealed \cup {Absent}], expect' \in [Keys -> Wanted],
           mine' \subseteq Keys, StoreInv(cells', expect', mine', cached, aead)
    PROVE  CellInv'
<1> USE DEF CellInv
<1>1. thread' \in [Threads -> {None} \cup PutOp \cup PutCellOp \cup GetOp
                             \cup GetCellOp \cup SessionOp \cup SnapshotOp \cup TxnOp \cup SnapOp]
      /\ (\A u \in Threads : thread'[u] # None => OpInv(thread'[u], cached', aead'))
      /\ (\A u \in Threads : thread'[u] # None /\ thread'[u].stage # "look" =>
             thread'[u].secret \in Secrets)
  BY ThreadSet DEF Done
<1>2. CellTypeOK'
  BY <1>1 DEF CellTypeOK
<1> QED
  BY <1>1, <1>2

\* Writing one key through WriteCell keeps the invariant of the inner store.
LEMMA StoreOne ==
    ASSUME CellInv, NEW k \in Keys, NEW ct \in Sealed \cup {Absent}, NEW want \in Wanted,
           SealedFor(ct, k, want, aead), SealedBy(ct, k, cached),
           cells' = [cells EXCEPT ![k] = ct], expect' = [expect EXCEPT ![k] = want],
           mine' = mine \cup {k}
    PROVE  /\ cells' \in [Keys -> Sealed \cup {Absent}] /\ expect' \in [Keys -> Wanted]
           /\ mine' \subseteq Keys /\ StoreInv(cells', expect', mine', cached, aead)
<1>1. cells \in [Keys -> Sealed \cup {Absent}] /\ expect \in [Keys -> Wanted] /\ mine \subseteq Keys
  BY DEF CellInv, CellTypeOK
<1>2. StoreInv(cells, expect, mine, cached, aead)
  BY DEF CellInv
<1>3. \A l \in Keys : /\ l = k => cells'[l] = ct /\ expect'[l] = want
                      /\ l # k => cells'[l] = cells[l] /\ expect'[l] = expect[l]
  BY <1>1
<1> QED
  BY <1>1, <1>2, <1>3 DEF StoreInv

\* A fresh EncryptedKv: no key fetched, nothing stored.
LEMMA CellInitInv == CellInit => CellInv
<1> SUFFICES ASSUME CellInit PROVE CellInv
  OBVIOUS
<1> USE DEF CellInit
<1>1. CellTypeOK
  BY DEF CellTypeOK, Wanted
<1>2. StoreInv(cells, expect, mine, cached, aead)
  BY DEF StoreInv, SealedFor
<1> QED
  BY <1>1, <1>2 DEF CellInv

\* Beginning an operation.
LEMMA CallStep ==
    ASSUME CellInv, NEW t \in Threads, NEW op \in AnyOp, Call(t, op), OpInv(op, cached, aead)
    PROVE  CellInv'
<1>1. cellOps' \in Nat
  BY DEF Call, CellInv, CellTypeOK
<1> QED
  BY <1>1, ThreadStep DEF Call

\* Entering put, get, put_cell, get_cell and the other calls records the
\* request and leaves the store, the cache and the keyring alone.
LEMMA BeginSteps ==
    ASSUME CellInv, NEW t \in Threads
    PROVE  /\ \A k \in Keys, v \in CellValues : BeginPut(t, k, v) => CellInv'
           /\ \A k \in Keys, c \in Cells, v \in CellValues : BeginPutCell(t, k, c, v) => CellInv'
           /\ \A k \in Keys : BeginGet(t, k) => CellInv'
           /\ \A k \in Keys, c \in Cells : BeginGetCell(t, k, c) => CellInv'
           /\ \A n \in {"iter", "transaction"} : BeginSession(t, n) => CellInv'
           /\ BeginSnapshot(t) => CellInv'
<1>0. /\ "look" \in Fetching /\ None \in Secrets \cup {None}
      /\ cells \in [Keys -> Sealed \cup {Absent}] /\ expect \in [Keys -> Wanted]
  BY DEF Fetching, CellInv, CellTypeOK
<1>1. ASSUME NEW k \in Keys, NEW v \in CellValues, BeginPut(t, k, v) PROVE CellInv'
  <2> DEFINE op == [name |-> "put", stage |-> "look", secret |-> None, key |-> k, val |-> v]
  <2>1. op \in PutOp
    BY <1>0 DEF PutOp
  <2>2. op \in AnyOp /\ OpInv(op, cached, aead)
    BY <2>1 DEF AnyOp, OpInv
  <2>3. Call(t, op)
    BY <1>1 DEF BeginPut
  <2> HIDE DEF op
  <2> QED
    BY <2>2, <2>3, CallStep
<1>2. ASSUME NEW k \in Keys, NEW c \in Cells, NEW v \in CellValues, BeginPutCell(t, k, c, v)
      PROVE  CellInv'
  <2> DEFINE op == [name |-> "put_cell", stage |-> "look", secret |-> None, key |-> k,
                    val |-> v, cell |-> c]
  <2>1. op \in PutCellOp
    BY <1>0 DEF PutCellOp
  <2>2. op \in AnyOp /\ OpInv(op, cached, aead)
    BY <2>1 DEF AnyOp, OpInv
  <2>3. Call(t, op)
    BY <1>2 DEF BeginPutCell
  <2> HIDE DEF op
  <2> QED
    BY <2>2, <2>3, CallStep
<1>3. ASSUME NEW k \in Keys, BeginGet(t, k) PROVE CellInv'
  <2> DEFINE op == [name |-> "get", stage |-> "look", secret |-> None, key |-> k,
                    ct |-> cells[k], want |-> expect[k], own |-> k \in mine]
  <2>0. cells[k] \in Sealed /\ expect[k] \in Wanted /\ SealedFor(cells[k], k, expect[k], aead)
    BY <1>0, <1>3 DEF BeginGet, CellInv, StoreInv
  <2>5. (k \in mine) \in BOOLEAN
    OBVIOUS
  <2>1. op \in GetOp
    BY <1>0, <2>0, <2>5 DEF GetOp
  <2>2. op \in AnyOp /\ OpInv(op, cached, aead)
    BY <2>0, <2>1 DEF AnyOp, OpInv
  <2>3. Call(t, op)
    BY <1>3 DEF BeginGet
  <2> HIDE DEF op
  <2> QED
    BY <2>2, <2>3, CallStep
<1>4. ASSUME NEW k \in Keys, NEW c \in Cells, BeginGetCell(t, k, c) PROVE CellInv'
  <2> DEFINE op == [name |-> "get_cell", stage |-> "look", secret |-> None, key |-> k,
                    ct |-> cells[k], cell |-> c]
  <2>0. cells[k] \in Sealed
    BY <1>0, <1>4 DEF BeginGetCell
  <2>1. op \in GetCellOp
    BY <1>0, <2>0 DEF GetCellOp
  <2>2. op \in AnyOp /\ OpInv(op, cached, aead)
    BY <2>1 DEF AnyOp, OpInv
  <2>3. Call(t, op)
    BY <1>4 DEF BeginGetCell
  <2> HIDE DEF op
  <2> QED
    BY <2>2, <2>3, CallStep
<1>5. ASSUME NEW n \in {"iter", "transaction"}, BeginSession(t, n) PROVE CellInv'
  <2> DEFINE op == [name |-> n, stage |-> "look", secret |-> None]
  <2>1. op \in SessionOp
    BY <1>0 DEF SessionOp
  <2>2. op \in AnyOp /\ OpInv(op, cached, aead)
    BY <2>1 DEF AnyOp, OpInv
  <2>3. Call(t, op)
    BY <1>5 DEF BeginSession
  <2> HIDE DEF op
  <2> QED
    BY <2>2, <2>3, CallStep
<1>6. ASSUME BeginSnapshot(t) PROVE CellInv'
  <2> DEFINE op == [name |-> "snapshot", stage |-> "look", secret |-> None,
                    data |-> cells, want |-> expect, own |-> mine]
  <2>0. mine \subseteq Keys /\ StoreInv(cells, expect, mine, cached, aead)
    BY DEF CellInv, CellTypeOK
  <2>1. op \in SnapshotOp
    BY <1>0, <2>0 DEF SnapshotOp
  <2>2. op \in AnyOp /\ OpInv(op, cached, aead)
    BY <2>0, <2>1 DEF AnyOp, OpInv, StoreInv
  <2>3. Call(t, op)
    BY <1>6 DEF BeginSnapshot
  <2> HIDE DEF op
  <2> QED
    BY <2>2, <2>3, CallStep
<1> QED
  BY <1>1, <1>2, <1>3, <1>4, <1>5, <1>6

\* Fetching the key.
LEMMA LookUpStep ==
    ASSUME CellInv, NEW t \in Threads, LookUpKey(t) PROVE CellInv'
<1> DEFINE o == thread[t]
           p == IF cached # None THEN [o EXCEPT !.stage = "run", !.secret = cached]
                ELSE IF entry # Absent THEN [o EXCEPT !.stage = "settle", !.secret = entry]
                ELSE None
<1>1. o \in AnyOp /\ OpInv(o, cached, aead) /\ o.stage \in Fetching
  BY DEF CellInv, CellTypeOK, LookUpKey, AnyOp, Fetching
<1>2. (cached # None => cached \in Secrets) /\ (entry # Absent => entry \in Secrets)
  BY DEF CellInv, CellTypeOK
<1>3. thread' = [thread EXCEPT ![t] = p]
  BY DEF LookUpKey
<1>4. p \in AnyOp \cup {None} /\ (p # None => OpInv(p, cached, aead))
  BY <1>1, <1>2, FetchStep
<1>5. cellOps' \in Nat
  BY DEF LookUpKey, CellInv, CellTypeOK
<1> HIDE DEF p
<1> QED
  BY <1>3, <1>4, <1>5, ThreadStep DEF LookUpKey

\* get_key's last lines: the first thread to settle fixes the handle's key,
\* and every later one takes the key that is there.
LEMMA SettleStep ==
    ASSUME CellInv, NEW t \in Threads, SettleKey(t) PROVE CellInv'
<1> DEFINE o == thread[t]
           p == [o EXCEPT !.stage = "run", !.secret = cached']
<1>1. o \in AnyOp /\ OpInv(o, cached, aead) /\ o.stage \in Fetching /\ o.secret \in Secrets
  BY DEF CellInv, CellTypeOK, SettleKey, AnyOp, Fetching
<1>2. cached' \in Secrets /\ (cached' = cached \/ cached = None)
  BY <1>1 DEF CellInv, CellTypeOK, SettleKey
<1>3. thread' = [thread EXCEPT ![t] = p]
  BY DEF SettleKey, CellInv, CellTypeOK
<1>4. p \in AnyOp /\ OpInv(p, cached', aead)
  BY <1>1, <1>2, FetchStep
<1>5. UNCHANGED <<aead, entry, cells, cellOps, expect, mine>>
  BY DEF SettleKey
<1> HIDE DEF p
<1>6. thread' \in [Threads -> {None} \cup PutOp \cup PutCellOp \cup GetOp
                             \cup GetCellOp \cup SessionOp \cup SnapshotOp \cup TxnOp \cup SnapOp]
      /\ (\A u \in Threads : thread'[u] # None => OpInv(thread'[u], cached', aead'))
      /\ (\A u \in Threads : thread'[u] # None /\ thread'[u].stage # "look" =>
             thread'[u].secret \in Secrets)
  BY <1>2, <1>3, <1>4, <1>5, ThreadSet
<1>7. CellTypeOK'
  BY <1>2, <1>5, <1>6 DEF CellTypeOK, CellInv
<1>8. \A k \in mine : SealedBy(cells[k], k, cached')
  <2>1. CASE cached' = cached
    BY <2>1 DEF CellInv, StoreInv
  <2>2. CASE cached = None
    <3>1. ASSUME NEW k \in mine, cells[k] # Absent, cells[k].aad = derive_cell_id(k) PROVE FALSE
      <4>1. cells[k] \in Sealed /\ cells[k].key = None
        BY <2>2, <3>1 DEF CellInv, CellTypeOK, StoreInv, SealedBy
      <4> QED
        BY <4>1, CellAssumption DEF Sealed
    <3> QED
      BY <3>1 DEF SealedBy
  <2> QED
    BY <1>2, <2>1, <2>2
<1>9. StoreInv(cells, expect, mine, cached, aead)'
  BY <1>5, <1>8 DEF StoreInv, CellInv
<1> QED
  BY <1>6, <1>7, <1>9 DEF CellInv

\* Running an operation with the key in hand.
LEMMA RunFacts ==
    ASSUME CellInv, NEW t \in Threads, thread[t] # None
    PROVE  /\ thread[t] \in AnyOp /\ OpInv(thread[t], cached, aead)
           /\ thread[t].stage \in {"run", "txn", "snap"} =>
                 thread[t].secret \in Secrets /\ thread[t].secret = cached
BY DEF CellInv, CellTypeOK, AnyOp, OpInv

\* put and put_cell seal under the cached key, for their key or their cell.
LEMMA RunWriteSteps ==
    ASSUME CellInv, NEW t \in Threads PROVE (RunPut(t) => CellInv') /\ (RunPutCell(t) => CellInv')
<1> DEFINE o == thread[t]
<1>0. aead \in AeadKind
  BY DEF CellInv, CellTypeOK
<1>1. ASSUME RunPut(t) PROVE CellInv'
  <2>1. o \in PutOp /\ o.secret \in Secrets /\ o.secret = cached
    BY <1>1, RunFacts, OpByName DEF RunPut, Runs
  <2>2. o.key \in Keys /\ o.val \in CellValues /\ o.val \in Wanted
    BY <2>1 DEF PutOp, Wanted
  <2> DEFINE ct == encrypt_with_aead(aead, o.secret, derive_cell_id(o.key), o.val)
  <2>3. ct \in Sealed \cup {Absent} /\ SealedFor(ct, o.key, o.val, aead) /\ SealedBy(ct, o.key, cached)
    BY <1>0, <2>1, <2>2, SealOpens, SealType
  <2>4. cells' = [cells EXCEPT ![o.key] = ct] /\ expect' = [expect EXCEPT ![o.key] = o.val]
        /\ mine' = mine \cup {o.key}
    BY <1>1 DEF RunPut, WriteCell
  <2> HIDE DEF ct, o
  <2>5. /\ cells' \in [Keys -> Sealed \cup {Absent}] /\ expect' \in [Keys -> Wanted]
        /\ mine' \subseteq Keys /\ StoreInv(cells', expect', mine', cached, aead)
    BY <2>2, <2>3, <2>4, StoreOne
  <2> QED
    BY <1>1, <2>5, WriteStep DEF RunPut
<1>2. ASSUME RunPutCell(t) PROVE CellInv'
  <2>1. o \in PutCellOp /\ o.secret \in Secrets /\ o.secret = cached
    BY <1>2, RunFacts, OpByName DEF RunPutCell, Runs
  <2>2. o.key \in Keys /\ o.val \in CellValues /\ o.cell \in Cells /\ Failed \in Wanted
    BY <2>1 DEF PutCellOp, Wanted
  <2> DEFINE ct == encrypt_cell(o.secret, o.cell, o.val)
  <2>3. ct \in Sealed \cup {Absent} /\ SealedFor(ct, o.key, Failed, aead) /\ SealedBy(ct, o.key, cached)
    BY <1>0, <2>1, <2>2, CellSealOpensNowhere, SealType
  <2>4. cells' = [cells EXCEPT ![o.key] = ct] /\ expect' = [expect EXCEPT ![o.key] = Failed]
        /\ mine' = mine \cup {o.key}
    BY <1>2 DEF RunPutCell, WriteCell
  <2> HIDE DEF ct, o
  <2>5. /\ cells' \in [Keys -> Sealed \cup {Absent}] /\ expect' \in [Keys -> Wanted]
        /\ mine' \subseteq Keys /\ StoreInv(cells', expect', mine', cached, aead)
    BY <2>2, <2>3, <2>4, StoreOne
  <2> QED
    BY <1>2, <2>5, WriteStep DEF RunPutCell
<1> QED
  BY <1>1, <1>2

\* Reads, rollbacks and dropped snapshots leave everything but the thread.
LEMMA EndSteps ==
    ASSUME CellInv, NEW t \in Threads,
           RunRead(t) \/ CellTxnRollback(t) \/ CellDropSnapshot(t)
    PROVE  CellInv'
<1>1. thread' = [thread EXCEPT ![t] = None] /\ cellOps' \in Nat
      /\ UNCHANGED <<aead, entry, cached, cells, expect, mine>>
  BY DEF RunRead, CellTxnRollback, CellDropSnapshot, Done, CellInv, CellTypeOK
<1> QED
  BY <1>1, ThreadStep

\* Opening a transaction or a snapshot.
LEMMA OpenSteps ==
    ASSUME CellInv, NEW t \in Threads
    PROVE  (RunTransaction(t) => CellInv') /\ (RunSnapshot(t) => CellInv')
<1>0. /\ aead \in AeadKind /\ cellOps \in Nat /\ mine \subseteq Keys
      /\ cells \in [Keys -> Sealed \cup {Absent}] /\ expect \in [Keys -> Wanted]
      /\ StoreInv(cells, expect, mine, cached, aead)
  BY DEF CellInv, CellTypeOK
<1>1. ASSUME RunTransaction(t) PROVE CellInv'
  <2> DEFINE p == [stage |-> "txn", name |-> "txn", secret |-> thread[t].secret,
                   kind |-> KindByNonce(aead), buf |-> [k \in Keys |-> NoWrite],
                   vals |-> [k \in Keys |-> NoWrite]]
  <2>1. thread[t].secret \in Secrets /\ thread[t].secret = cached
    BY <1>1, RunFacts DEF RunTransaction, Runs
  <2>2. KindByNonce(aead) = aead
    BY <1>0, NonceTellsCipher
  <2>3. p \in TxnOp
    BY <1>0, <2>1, <2>2 DEF TxnOp
  <2>4. p \in AnyOp /\ OpInv(p, cached, aead)
    BY <2>1, <2>2, <2>3 DEF AnyOp, OpInv, Buffered
  <2>5. thread' = [thread EXCEPT ![t] = p]
    BY <1>1 DEF RunTransaction
  <2> HIDE DEF p
  <2> QED
    BY <1>0, <1>1, <2>4, <2>5, ThreadStep DEF RunTransaction
<1>2. ASSUME RunSnapshot(t) PROVE CellInv'
  <2> DEFINE p == [stage |-> "snap", name |-> "snap", secret |-> thread[t].secret,
                   kind |-> KindByNonce(aead), data |-> thread[t].data, want |-> thread[t].want,
                   own |-> thread[t].own]
  <2>1. /\ thread[t].secret \in Secrets /\ thread[t].secret = cached
        /\ thread[t].name = "snapshot" /\ thread[t] \in SnapshotOp /\ OpInv(thread[t], cached, aead)
    BY <1>2, RunFacts, OpByName DEF RunSnapshot, Runs
  <2>2. KindByNonce(aead) = aead
    BY <1>0, NonceTellsCipher
  <2>3. p \in SnapOp
    BY <1>0, <2>1, <2>2 DEF SnapOp, SnapshotOp
  <2>4. p \in AnyOp /\ OpInv(p, cached, aead)
    BY <1>0, <2>1, <2>2, <2>3 DEF AnyOp, OpInv
  <2>5. thread' = [thread EXCEPT ![t] = p]
    BY <1>2 DEF RunSnapshot
  <2> HIDE DEF p
  <2> QED
    BY <1>0, <1>2, <2>4, <2>5, ThreadStep DEF RunSnapshot
<1> QED
  BY <1>1, <1>2

\* Writing one key of a transaction's buffer.
LEMMA BufferStep ==
    ASSUME CellInv, NEW t \in Threads, InTxn(t), NEW k \in Keys,
           NEW ct \in Sealed \cup {Absent}, NEW val \in CellValues \cup {Absent},
           Buffered(ct, val, k, aead, thread[t].secret),
           thread' = [thread EXCEPT ![t].buf[k] = ct, ![t].vals[k] = val],
           UNCHANGED <<aead, entry, cached, cells, cellOps, expect, mine>>
    PROVE  CellInv'
<1> DEFINE o == thread[t]
           p == [o EXCEPT !.buf[k] = ct, !.vals[k] = val]
<1>1. o \in TxnOp /\ OpInv(o, cached, aead)
  BY RunFacts, OpByName DEF InTxn
<1>2. thread' = [thread EXCEPT ![t] = p]
  BY DEF CellInv, CellTypeOK
<1>3. p \in TxnOp /\ p.stage = "txn" /\ p.name = "txn" /\ p.secret = o.secret /\ p.kind = o.kind
      /\ o.stage = "txn" /\ o.name = "txn"
      /\ p.buf = [o.buf EXCEPT ![k] = ct] /\ p.vals = [o.vals EXCEPT ![k] = val]
      /\ o.buf \in [Keys -> Sealed \cup {Absent, NoWrite}]
      /\ o.vals \in [Keys -> CellValues \cup {Absent, NoWrite}]
  BY <1>1 DEF TxnOp
<1> HIDE DEF p, o
<1>4. \A l \in Keys : Buffered(p.buf[l], p.vals[l], l, aead, p.secret)
  BY <1>1, <1>3 DEF OpInv, o
<1>5. p \in AnyOp /\ OpInv(p, cached, aead)
  BY <1>1, <1>3, <1>4 DEF AnyOp, OpInv
<1>6. cellOps' \in Nat
  BY DEF CellInv, CellTypeOK
<1> QED
  BY <1>2, <1>5, <1>6, ThreadStep

\* put and delete of an EncryptedTxn touch its buffer only, with cells sealed
\* under the secret the transaction was opened with.
LEMMA TxnWriteSteps ==
    ASSUME CellInv, NEW t \in Threads, NEW k \in Keys
    PROVE  /\ \A v \in CellValues : CellTxnPut(t, k, v) => CellInv'
           /\ CellTxnDelete(t, k) => CellInv'
<1>1. ASSUME NEW v \in CellValues, CellTxnPut(t, k, v) PROVE CellInv'
  <2> DEFINE ct == encrypt_with_aead(thread[t].kind, thread[t].secret, derive_cell_id(k), v)
  <2>1. InTxn(t) /\ thread[t] \in TxnOp /\ OpInv(thread[t], cached, aead)
    BY <1>1, RunFacts, OpByName DEF CellTxnPut, InTxn
  <2>2. thread[t].kind = aead /\ thread[t].secret \in Secrets /\ aead \in AeadKind
    BY <2>1 DEF OpInv, InTxn, TxnOp
  <2>3. ct \in Sealed \cup {Absent} /\ Buffered(ct, v, k, aead, thread[t].secret)
    BY <2>2, SealOpens, SealType
  <2>4. thread' = [thread EXCEPT ![t].buf[k] = ct, ![t].vals[k] = v]
        /\ UNCHANGED <<aead, entry, cached, cells, cellOps, expect, mine>>
    BY <1>1 DEF CellTxnPut
  <2> HIDE DEF ct
  <2> QED
    BY <2>1, <2>3, <2>4, BufferStep
<1>2. ASSUME CellTxnDelete(t, k) PROVE CellInv'
  BY <1>2, BufferStep DEF CellTxnDelete, Buffered
<1> QED
  BY <1>1, <1>2

\* A commit stores what was buffered, all of it sealed under the cached key.
LEMMA CommitStep ==
    ASSUME CellInv, NEW t \in Threads, CellTxnCommit(t) PROVE CellInv'
<1> DEFINE o == thread[t]
           wrote == {k \in Keys : o.buf[k] # NoWrite}
<1>0. /\ cells \in [Keys -> Sealed \cup {Absent}] /\ expect \in [Keys -> Wanted]
      /\ mine \subseteq Keys /\ StoreInv(cells, expect, mine, cached, aead)
  BY DEF CellInv, CellTypeOK
<1>1. o \in TxnOp /\ OpInv(o, cached, aead)
  BY RunFacts, OpByName DEF CellTxnCommit, InTxn
<1>2. o.secret = cached /\ (\A k \in Keys : Buffered(o.buf[k], o.vals[k], k, aead, cached))
  BY <1>1 DEF OpInv, TxnOp
<1>3. cells' = [k \in Keys |-> IF k \in wrote THEN o.buf[k] ELSE cells[k]]
      /\ expect' = [k \in Keys |-> IF k \in wrote THEN o.vals[k] ELSE expect[k]]
      /\ mine' = mine \cup wrote
  BY DEF CellTxnCommit
<1>4. o.buf \in [Keys -> Sealed \cup {Absent, NoWrite}]
  BY <1>1 DEF TxnOp
<1> HIDE DEF o
<1>5. ASSUME NEW k \in Keys, k \in wrote
      PROVE  /\ o.buf[k] \in Sealed \cup {Absent} /\ o.vals[k] \in Wanted
             /\ SealedFor(o.buf[k], k, o.vals[k], aead) /\ SealedBy(o.buf[k], k, cached)
  BY <1>2, <1>5, CellAssumption DEF Buffered, SealedFor, SealedBy, Sealed, Wanted
<1>6. cells' \in [Keys -> Sealed \cup {Absent}] /\ expect' \in [Keys -> Wanted] /\ mine' \subseteq Keys
  BY <1>0, <1>3, <1>5
<1>7. StoreInv(cells', expect', mine', cached, aead)
  <2>1. ASSUME NEW k \in Keys PROVE SealedFor(cells'[k], k, expect'[k], aead)
    BY <1>0, <1>3, <1>5 DEF StoreInv
  <2>2. ASSUME NEW k \in mine' PROVE SealedBy(cells'[k], k, cached)
    BY <1>0, <1>3, <1>5 DEF StoreInv
  <2> QED
    BY <2>1, <2>2 DEF StoreInv
<1> QED
  BY <1>6, <1>7, WriteStep DEF CellTxnCommit

\* delete and a copy by the raw handle change one key; neither needs the key.
LEMMA RawWriteSteps ==
    ASSUME CellInv
    PROVE  /\ \A k \in Keys : cell_delete(k) => CellInv'
           /\ \A k, l \in Keys : CopyCell(k, l) => CellInv'
<1>0. cells \in [Keys -> Sealed \cup {Absent}] /\ Absent \in Wanted /\ Failed \in Wanted
  BY DEF CellInv, CellTypeOK, Wanted
<1>1. ASSUME cells' \in [Keys -> Sealed \cup {Absent}], expect' \in [Keys -> Wanted],
             mine' \subseteq Keys, StoreInv(cells', expect', mine', cached, aead),
             UNCHANGED <<aead, entry, cached, thread, cellOps>>
      PROVE  CellInv'
  BY <1>1 DEF CellInv, CellTypeOK
<1>2. ASSUME NEW k \in Keys, cell_delete(k) PROVE CellInv'
  <2>1. SealedFor(Absent, k, Absent, aead) /\ SealedBy(Absent, k, cached)
    BY DEF SealedFor, SealedBy
  <2> QED
    BY <1>0, <1>1, <1>2, <2>1, StoreOne DEF cell_delete
<1>3. ASSUME NEW k \in Keys, NEW l \in Keys, CopyCell(k, l) PROVE CellInv'
  <2>1. SealedFor(cells[k], l, Failed, aead) /\ SealedBy(cells[k], l, cached)
    BY <1>3, LocationsDiffer DEF CopyCell, SealedFor, SealedBy
  <2> QED
    BY <1>0, <1>1, <1>3, <2>1, StoreOne DEF CopyCell
<1> QED
  BY <1>2, <1>3

\* The keyring entry changes, and the handle is built again.
LEMMA KeyringSteps ==
    ASSUME CellInv
    PROVE  /\ \A s \in Secrets : store_key(s) => CellInv'
           /\ delete_entry => CellInv'
           /\ ReopenHandle => CellInv'
<1>1. ASSUME NEW s \in Secrets, store_key(s) PROVE CellInv'
  BY <1>1 DEF store_key, CellInv, CellTypeOK
<1>2. ASSUME delete_entry PROVE CellInv'
  BY <1>2 DEF delete_entry, CellInv, CellTypeOK
<1>3. ASSUME ReopenHandle PROVE CellInv'
  BY <1>3 DEF ReopenHandle, CellInv, CellTypeOK, StoreInv
<1> QED
  BY <1>1, <1>2, <1>3

\* Every step of EncryptedKv keeps its invariant.
LEMMA CellStep == CellInv /\ [CellNext]_cellVars => CellInv'
<1> SUFFICES ASSUME CellInv, [CellNext]_cellVars PROVE CellInv'
  OBVIOUS
<1>1. CASE UNCHANGED cellVars
  BY <1>1 DEF cellVars, CellInv, CellTypeOK
<1>2. CASE CellNext
  BY <1>2, BeginSteps, LookUpStep, SettleStep, RunWriteSteps, EndSteps, OpenSteps,
     TxnWriteSteps, CommitStep, RawWriteSteps, KeyringSteps DEF CellNext
<1> QED
  BY <1>1, <1>2

---------------------------------------------------------------------------
(* What the invariant of EncryptedKv gives.                                *)

\* The invariant says that the handle opens what it sealed.
LEMMA CellReadsWrites == CellInv => HandleReadsItsWrites
<1> SUFFICES ASSUME CellInv, NEW k \in mine
             PROVE  cell_get(cached, k, cells) = expect[k]
  BY DEF HandleReadsItsWrites
<1>1. k \in Keys /\ cells[k] \in Sealed \cup {Absent} /\ SealedFor(cells[k], k, expect[k], aead)
      /\ SealedBy(cells[k], k, cached)
  BY DEF CellInv, CellTypeOK, StoreInv
<1> QED
  BY <1>1, OpeningIsHonest DEF cell_get

\* It says that a transaction reads its own buffer over the stored cells, and
\* a snapshot what its handle had written when it was taken.
LEMMA CellSessionsAgree == CellInv => SessionsAgree
<1> SUFFICES ASSUME CellInv, NEW t \in Threads, thread[t] # None
             PROVE  /\ thread[t].name = "txn" => \A k \in Keys :
                          IF thread[t].buf[k] = NoWrite
                          THEN CellTxnGet(t, k) = cell_get(thread[t].secret, k, cells)
                          ELSE CellTxnGet(t, k) = thread[t].vals[k]
                    /\ thread[t].name = "snap" => \A k \in thread[t].own :
                          CellSnapshotGet(t, k) = thread[t].want[k]
  BY DEF SessionsAgree
<1>1. OpInv(thread[t], cached, aead) /\ thread[t] \in AnyOp
  BY RunFacts
<1>2. ASSUME thread[t].name = "txn", NEW k \in Keys, thread[t].buf[k] = NoWrite
      PROVE  CellTxnGet(t, k) = cell_get(thread[t].secret, k, cells)
  BY <1>1, <1>2 DEF OpInv, CellTxnGet, cell_get
<1>3. ASSUME thread[t].name = "txn", NEW k \in Keys, thread[t].buf[k] # NoWrite
      PROVE  CellTxnGet(t, k) = thread[t].vals[k]
  <2>1. Buffered(thread[t].buf[k], thread[t].vals[k], k, aead, thread[t].secret)
        /\ thread[t].kind = aead
    BY <1>1, <1>3 DEF OpInv
  <2>2. open_cell(aead, thread[t].secret, k, thread[t].buf[k]) = thread[t].vals[k]
    BY <1>3, <2>1, BufferOpens
  <2> QED
    BY <1>3, <2>1, <2>2 DEF CellTxnGet
<1>4. ASSUME thread[t].name = "snap", NEW k \in thread[t].own
      PROVE  CellSnapshotGet(t, k) = thread[t].want[k]
  <2>1. thread[t] \in SnapOp
    BY <1>1, <1>4, OpByName
  <2>2. k \in Keys /\ thread[t].data[k] \in Sealed \cup {Absent}
    BY <2>1 DEF SnapOp
  <2>3. SealedFor(thread[t].data[k], k, thread[t].want[k], aead)
        /\ SealedBy(thread[t].data[k], k, thread[t].secret) /\ thread[t].kind = aead
    BY <1>1, <1>4, <2>2 DEF OpInv
  <2> QED
    BY <2>2, <2>3, OpeningIsHonest DEF CellSnapshotGet
<1> QED
  BY <1>2, <1>3, <1>4

\* No read yields the value of another cell or one sealed under another key:
\* the associated data and the secret have to match for decrypt to succeed.
LEMMA CellNeverForeign == CellInv => NeverForeign
<1> SUFFICES ASSUME CellInv, NEW t \in Threads
             PROVE  /\ Runs(t, {"get"}) => ReadResult(t) \in {Failed, thread[t].want}
                    /\ Runs(t, {"get"}) /\ thread[t].own /\ thread[t].ct.key = cached =>
                          ReadResult(t) = thread[t].want
                    /\ Runs(t, {"get_cell"}) /\ ReadResult(t) # Failed =>
                          thread[t].ct.aad = to_aad_bytes(thread[t].cell)
  BY DEF NeverForeign
<1> DEFINE o == thread[t]
<1>1. ASSUME Runs(t, {"get"})
      PROVE  /\ ReadResult(t) \in {Failed, o.want}
             /\ o.ct.key = cached => ReadResult(t) = o.want
  <2>1. o \in GetOp /\ o.secret = cached /\ OpInv(o, cached, aead)
    BY <1>1, RunFacts, OpByName DEF Runs
  <2>2. o.name = "get" /\ o.key \in Keys /\ o.ct \in Sealed /\ o.ct # Absent
    BY <2>1, CellAssumption DEF GetOp
  <2>3. SealedFor(o.ct, o.key, o.want, aead)
    BY <2>1, <2>2 DEF OpInv
  <2>4. ReadResult(t) = open_cell(aead, cached, o.key, o.ct)
    BY <2>1, <2>2 DEF ReadResult, open_cell
  <2> QED
    BY <2>2, <2>3, <2>4, OpeningIsHonest DEF SealedBy
<1>2. ASSUME Runs(t, {"get_cell"}), ReadResult(t) # Failed
      PROVE  o.ct.aad = to_aad_bytes(o.cell)
  BY <1>2 DEF Runs, ReadResult, decrypt_cell, decrypt_with_aead
<1> QED
  BY <1>1, <1>2

\* iter yields every cell or an error, never a part of them in silence.
LEMMA CellIterates == CellInv => IterAllOrNothing
<1> SUFFICES ASSUME CellInv, NEW t \in Threads, Runs(t, {"iter"})
             PROVE  ReadResult(t) \in {Failed, expect}
  BY DEF IterAllOrNothing
<1> DEFINE s == thread[t].secret
           got == [k \in Keys |-> cell_get(s, k, cells)]
<1>1. ReadResult(t) = IF \E k \in Keys : got[k] = Failed THEN Failed ELSE got
  BY DEF Runs, ReadResult, cell_iter
<1>2. ASSUME NEW k \in Keys PROVE got[k] \in {expect[k], Failed}
  <2>1. cells[k] \in Sealed \cup {Absent} /\ SealedFor(cells[k], k, expect[k], aead)
    BY DEF CellInv, CellTypeOK, StoreInv
  <2> QED
    BY <2>1, OpeningIsHonest DEF cell_get
<1>3. ASSUME ~ \E k \in Keys : got[k] = Failed PROVE got = expect
  BY <1>2, <1>3 DEF CellInv, CellTypeOK
<1> HIDE DEF got
<1> QED
  BY <1>1, <1>3

---------------------------------------------------------------------------
(* EncryptedKvEnvelope.                                                    *)

\* The wrapped DEK of e opens under the KEK of e's version in ring, and is
\* the key its data is sealed under.
WellWrapped(e, ring) ==
    /\ e \in Envelope /\ e.version \in 1..Len(ring)
    /\ e.wrapped.key = ring[e.version] /\ e.wrapped.aad = e.version
    /\ e.wrapped.pt = e.data.key

Kept(e, ring) == e = Absent \/ WellWrapped(e, ring)

\* What the data of e, or its absence, reads as at key k.
OpensTo(e, k, v) ==
    IF e = Absent THEN v = Absent
    ELSE v = IF e.data.aad = k THEN e.data.pt ELSE Failed

\* What the other handle holds is well wrapped and opens to what it should.
HeldInv(o, ring) ==
    /\ o.kind = "put" => WellWrapped(o.envelope, ring) /\ OpensTo(o.envelope, o.key, o.val)
    /\ o.kind = "txn" => \A k \in Keys : o.buf[k] # NoWrite =>
          Kept(o.buf[k], ring) /\ OpensTo(o.buf[k], k, o.vals[k])
    /\ o.kind = "snap" => \A k \in Keys :
          Kept(o.data[k], ring) /\ OpensTo(o.data[k], k, o.vals[k])

\* The stages of a rotation before its KEK is in the keyring.
BeforeAdd == rot.stage = "add" \/ (rot.stage = "collect" /\ rot.kind = "rotate_kek")

\* The owner's notes are the keyring, and the KEK of a rotation not yet added.
NotesFollow ==
    /\ BeforeAdd => rot.kek \in Keks /\ log = Append(keyring, rot.kek)
    /\ ~ BeforeAdd => log = keyring

\* Everything stored, collected or held is well wrapped in the keyring.
AllWrapped ==
    /\ \A k \in Keys : Kept(env[k], keyring)
    /\ \A k \in Keys : Kept(rot.entries[k], keyring)
    /\ other # None => HeldInv(other, keyring)

\* A key reads as it should unless its write was raced; a collected entry of
\* a key that was not raced is still what is stored, but for its wrapper.
ValuesKept ==
    /\ \A k \in Keys \ raced : OpensTo(env[k], k, plain[k])
    /\ \A k \in Pending \ raced : env[k] # Absent /\ env[k].data = rot.entries[k].data

\* How far the rotation is: what is neither pending nor written since it
\* began is absent, or wrapped under the new KEK.
RotationProgress ==
    /\ rot.stage = "add" /\ rot.kind = "rotate_all_keys" => Pending = {}
    /\ rot.stage = "add" /\ rot.kind = "rotate_kek" =>
          \A k \in Keys \ (since \cup Pending) : env[k] = Absent
    /\ rot.stage = "rewrite" => \A k \in Keys \ (since \cup Pending) :
          env[k] # Absent => env[k].version = Len(keyring)
    /\ rot.ok => rot.stage = "idle"
    /\ RotationReachesAll

\* The inductive invariant of EncryptedKvEnvelope.
EnvInv == EnvTypeOK /\ NotesFollow /\ AllWrapped /\ ValuesKept /\ RotationProgress

\* The two invariants together: no step of one decorator touches the other.
IInv == CellInv /\ EnvInv

\* A well-wrapped envelope decrypts to the value of its key, or fails at
\* every other key.
LEMMA DecryptsWell ==
    ASSUME NEW ring \in Seq(Keks), NEW e, WellWrapped(e, ring), NEW k \in Keys
    PROVE  /\ UnwrapDek(ring, e) = e.data.key /\ UnwrapDek(ring, e) # Failed
           /\ e # Absent /\ e # NoWrite
           /\ decrypt(ring, k, e) = IF e.data.aad = k THEN e.data.pt ELSE Failed
<1>1. e \in Envelope /\ e.version \in DOMAIN ring
  BY DEF WellWrapped
<1>2. e # Absent /\ e # NoWrite
  BY <1>1, EnvelopeAssumption
<1>3. ring[e.version] \in Keks /\ kek_for_version(ring, e.version) = ring[e.version]
      /\ ring[e.version] # Absent
  BY <1>1, EnvelopeAssumption DEF kek_for_version
<1>4. UnwrapDek(ring, e) = e.data.key
  BY <1>3 DEF UnwrapDek, XOpen, WellWrapped
<1>5. e.data.key \in Deks
  BY <1>1 DEF Envelope
<1>6. e.data.key # Failed
  BY <1>5, EnvelopeAssumption
<1> QED
  BY <1>2, <1>4, <1>6 DEF decrypt, XOpen

\* The read of a key gives what its stored entry opens to.
LEMMA ReadsWell ==
    ASSUME NEW ring \in Seq(Keks), NEW e, Kept(e, ring), NEW k \in Keys, NEW v
    PROVE  OpensTo(e, k, v) <=> open_envelope(ring, k, e) = v
BY DecryptsWell DEF Kept, OpensTo, open_envelope

\* Encrypting a value of a key gives a well-wrapped envelope of it.
LEMMA EncryptsWell ==
    ASSUME NEW ring \in Seq(Keks), Len(ring) >= 1, NEW k \in Keys, NEW v \in Values
    PROVE  WellWrapped(encrypt(ring, k, v), ring) /\ OpensTo(encrypt(ring, k, v), k, v)
<1> DEFINE e == encrypt(ring, k, v)
           dek == generate_dek(k, v)
<1>1. dek \in Deks
  BY DEF Deks
<1>2. Len(ring) \in Nat /\ Len(ring) \in 1..Len(ring) /\ ring[Len(ring)] \in Keks
  OBVIOUS
<1> HIDE DEF dek
<1>3. e = [version |-> Len(ring),
           wrapped |-> [key |-> ring[Len(ring)], aad |-> Len(ring), pt |-> dek],
           data |-> [key |-> dek, aad |-> k, pt |-> v]]
  BY DEF encrypt, active_version, active_kek, XSeal, dek
<1>4. e \in Envelope
  BY <1>1, <1>2, <1>3 DEF Envelope
<1>5. WellWrapped(e, ring)
  BY <1>2, <1>3, <1>4 DEF WellWrapped
<1>6. e # Absent
  BY <1>4, EnvelopeAssumption
<1> QED
  BY <1>3, <1>5, <1>6 DEF OpensTo

\* Re-wrapping keeps the data, and wraps under the active KEK.
LEMMA RewrapsWell ==
    ASSUME NEW ring \in Seq(Keks), Len(ring) >= 1, NEW e, WellWrapped(e, ring)
    PROVE  LET f == rewrap_envelope(ring, e)
           IN  /\ WellWrapped(f, ring) /\ f.data = e.data /\ f.version = Len(ring)
               /\ f # Absent /\ f \in Envelope
<1> DEFINE f == rewrap_envelope(ring, e)
<1>1. Len(ring) \in Nat /\ Len(ring) \in 1..Len(ring) /\ ring[Len(ring)] \in Keks
  OBVIOUS
<1>2. CASE Keys = {}
  <2>1. e \in Envelope
    BY DEF WellWrapped
  <2> QED
    BY <1>2, <2>1 DEF Envelope
<1>3. CASE Keys # {}
  <2>1. UnwrapDek(ring, e) = e.data.key /\ UnwrapDek(ring, e) # Failed
    BY <1>3, DecryptsWell
  <2>2. e.data \in [key : Deks, aad : Keys, pt : Values] /\ e.data.key \in Deks
    BY DEF WellWrapped, Envelope
  <2>3. f = [version |-> Len(ring),
             wrapped |-> [key |-> ring[Len(ring)], aad |-> Len(ring), pt |-> e.data.key],
             data |-> e.data]
    BY <2>1 DEF rewrap_envelope, active_version, active_kek, XSeal
  <2>4. f \in Envelope
    BY <1>1, <2>2, <2>3 DEF Envelope
  <2>5. WellWrapped(f, ring)
    BY <1>1, <2>2, <2>3, <2>4 DEF WellWrapped
  <2> QED
    BY <2>3, <2>4, <2>5, EnvelopeAssumption
<1> QED
  BY <1>2, <1>3

\* A new KEK leaves every well-wrapped envelope well wrapped.
LEMMA WrappedLater ==
    ASSUME NEW ring \in Seq(Keks), NEW kek \in Keks
    PROVE  /\ \A e : WellWrapped(e, ring) => WellWrapped(e, Append(ring, kek))
           /\ \A e : Kept(e, ring) => Kept(e, Append(ring, kek))
           /\ \A o : HeldInv(o, ring) => HeldInv(o, Append(ring, kek))
<1> DEFINE more == Append(ring, kek)
<1>1. Len(more) = Len(ring) + 1 /\ \A i \in 1..Len(ring) : more[i] = ring[i]
  OBVIOUS
<1>2. 1..Len(ring) \subseteq 1..Len(more)
  BY <1>1
<1> HIDE DEF more
<1>3. \A e : WellWrapped(e, ring) => WellWrapped(e, more)
  BY <1>1, <1>2 DEF WellWrapped
<1>4. \A e : Kept(e, ring) => Kept(e, more)
  BY <1>3 DEF Kept
<1>5. ASSUME NEW o, HeldInv(o, ring) PROVE HeldInv(o, more)
  BY <1>3, <1>4, <1>5 DEF HeldInv
<1> QED
  BY <1>3, <1>4, <1>5 DEF more

---------------------------------------------------------------------------
(* The steps of the envelope store.                                        *)

AnySession == {None} \cup PutSession \cup TxnSession \cup SnapSession

\* What the session of the second handle has to satisfy, by its kind.
LEMMA SessionByKind ==
    ASSUME NEW o \in AnySession, o # None
    PROVE  /\ o.kind = "put" => o \in PutSession
           /\ o.kind = "txn" => o \in TxnSession
           /\ o.kind = "snap" => o \in SnapSession
BY DEF AnySession, PutSession, TxnSession, SnapSession

\* A step that changes only what the other handle holds.
LEMMA HeldStep ==
    ASSUME EnvInv, other' \in AnySession, ops' \in Nat,
           other' # None => HeldInv(other', keyring),
           UNCHANGED <<keyring, log, env, rot, plain, raced, since>>
    PROVE  EnvInv'
<1> USE DEF EnvInv
<1>1. EnvTypeOK'
  BY DEF EnvTypeOK, Pending, AnySession
<1>2. NotesFollow'
  BY DEF NotesFollow, BeforeAdd
<1>3. AllWrapped'
  BY DEF AllWrapped
<1>4. ValuesKept'
  BY DEF ValuesKept, Pending
<1>5. RotationProgress'
  BY DEF RotationProgress, RotationReachesAll, active_version, Pending
<1> QED
  BY <1>1, <1>2, <1>3, <1>4, <1>5

\* A step that writes the keys ks, each with an entry that opens to its value.
LEMMA EnvWriteStep ==
    ASSUME EnvInv, NEW ks \in SUBSET Keys, NoteWrites(ks), other' \in {other, None}, ops' \in Nat,
           UNCHANGED <<keyring, log, rot>>,
           env' \in [Keys -> MaybeEnvelope], plain' \in [Keys -> Outcome],
           \A k \in ks : Kept(env'[k], keyring) /\ OpensTo(env'[k], k, plain'[k]),
           \A k \in Keys \ ks : env'[k] = env[k] /\ plain'[k] = plain[k]
    PROVE  EnvInv'
<1> USE DEF EnvInv
<1>0. \A k \in Keys : Kept(env'[k], keyring)
  BY DEF AllWrapped
<1>1. \A k \in Keys : env'[k] # Absent => env'[k].version \in DOMAIN keyring
  BY <1>0 DEF Kept, WellWrapped, EnvTypeOK
<1>2. EnvTypeOK'
  BY <1>1 DEF EnvTypeOK, Pending, NoteWrites
<1>3. NotesFollow'
  BY DEF NotesFollow, BeforeAdd
<1>4. AllWrapped'
  BY <1>0 DEF AllWrapped
<1>5. ValuesKept'
  BY DEF ValuesKept, Pending, NoteWrites
<1>6. RotationProgress'
  BY DEF RotationProgress, RotationReachesAll, active_version, Pending, NoteWrites
<1> QED
  BY <1>2, <1>3, <1>4, <1>5, <1>6

\* A fresh EncryptedKvEnvelope: one KEK version, no envelope.
LEMMA EnvInitInv == EnvInit => EnvInv
<1> SUFFICES ASSUME EnvInit PROVE EnvInv
  OBVIOUS
<1>0. PICK kek \in Keks : keyring = <<kek>> /\ log = <<kek>>
  BY DEF EnvInit, NewKeyring
<1>1. /\ env = [k \in Keys |-> Absent] /\ plain = [k \in Keys |-> Absent] /\ other = None
      /\ ops = 0 /\ raced = {} /\ since = {}
      /\ rot = NoRotation /\ rot.stage = "idle" /\ rot.ok = FALSE
      /\ \A k \in Keys : rot.entries[k] = Absent
  BY DEF EnvInit, NoRotation
<1>2. rot \in Rotation
  BY <1>1 DEF NoRotation, Rotation, MaybeEnvelope
<1>3. EnvTypeOK
  BY <1>0, <1>1, <1>2, EnvelopeAssumption DEF EnvTypeOK, Pending, Outcome, MaybeEnvelope
<1>4. NotesFollow
  BY <1>0, <1>1 DEF NotesFollow, BeforeAdd
<1>5. AllWrapped
  BY <1>1 DEF AllWrapped, Kept
<1>6. ValuesKept
  BY <1>1 DEF ValuesKept, Pending, OpensTo
<1>7. RotationProgress
  BY <1>1 DEF RotationProgress, RotationReachesAll
<1> QED
  BY <1>3, <1>4, <1>5, <1>6, <1>7 DEF EnvInv

\* Facts every step of the other handle uses.
LEMMA RingFacts ==
    ASSUME EnvInv
    PROVE  /\ keyring \in Seq(Keks) /\ Len(keyring) >= 1 /\ ops \in Nat
           /\ env \in [Keys -> MaybeEnvelope] /\ plain \in [Keys -> Outcome]
           /\ other \in AnySession /\ (other # None => HeldInv(other, keyring))
           /\ \A k \in Keys : Kept(env[k], keyring)
BY DEF EnvInv, EnvTypeOK, AllWrapped, AnySession

\* put: sealed under the active KEK, stored later.
LEMMA PutSteps ==
    ASSUME EnvInv
    PROVE  /\ \A k \in Keys, v \in Values : SealValue(k, v) => EnvInv'
           /\ StoreEnvelope => EnvInv'
<1>1. ASSUME NEW k \in Keys, NEW v \in Values, SealValue(k, v) PROVE EnvInv'
  <2> DEFINE e == encrypt(keyring, k, v)
             o == [kind |-> "put", key |-> k, val |-> v, envelope |-> e]
  <2>1. WellWrapped(e, keyring) /\ OpensTo(e, k, v)
    BY RingFacts, EncryptsWell
  <2> HIDE DEF e
  <2>2. o \in PutSession /\ HeldInv(o, keyring)
    BY <2>1 DEF PutSession, HeldInv, WellWrapped
  <2>3. other' = o /\ ops' = ops + 1 /\ UNCHANGED <<keyring, log, env, rot, plain, raced, since>>
    BY <1>1 DEF SealValue, Begin, e
  <2> HIDE DEF o
  <2> QED
    BY <2>2, <2>3, RingFacts, HeldStep DEF AnySession
<1>2. ASSUME StoreEnvelope PROVE EnvInv'
  <2>1. other \in PutSession /\ HeldInv(other, keyring) /\ other.kind = "put"
    BY <1>2, RingFacts, SessionByKind DEF StoreEnvelope, Holds
  <2>2. other.key \in Keys /\ other.val \in Outcome /\ other.envelope \in MaybeEnvelope
    BY <2>1 DEF PutSession, Outcome, MaybeEnvelope
  <2>3. Kept(other.envelope, keyring) /\ OpensTo(other.envelope, other.key, other.val)
    BY <2>1 DEF HeldInv, Kept
  <2>4. env' \in [Keys -> MaybeEnvelope] /\ plain' \in [Keys -> Outcome]
        /\ env'[other.key] = other.envelope /\ plain'[other.key] = other.val
        /\ (\A k \in Keys \ {other.key} : env'[k] = env[k] /\ plain'[k] = plain[k])
    BY <1>2, <2>2, RingFacts DEF StoreEnvelope
  <2> QED
    BY <1>2, <2>2, <2>3, <2>4, RingFacts, EnvWriteStep DEF StoreEnvelope
<1> QED
  BY <1>1, <1>2

\* delete, and a copy of the raw bytes to another key.
LEMMA EraseSteps ==
    ASSUME EnvInv
    PROVE  /\ \A k \in Keys : envelope_delete(k) => EnvInv'
           /\ \A k, l \in Keys : CopyRaw(k, l) => EnvInv'
<1>1. ASSUME NEW k \in Keys, envelope_delete(k) PROVE EnvInv'
  <2>1. env' \in [Keys -> MaybeEnvelope] /\ plain' \in [Keys -> Outcome]
        /\ env'[k] = Absent /\ plain'[k] = Absent
        /\ (\A l \in Keys \ {k} : env'[l] = env[l] /\ plain'[l] = plain[l])
    BY <1>1, RingFacts DEF envelope_delete, MaybeEnvelope, Outcome
  <2>2. Kept(Absent, keyring) /\ OpensTo(Absent, k, Absent)
    BY DEF Kept, OpensTo
  <2> QED
    BY <1>1, <2>1, <2>2, RingFacts, EnvWriteStep DEF envelope_delete
<1>2. ASSUME NEW k \in Keys, NEW l \in Keys, CopyRaw(k, l) PROVE EnvInv'
  <2>1. env' \in [Keys -> MaybeEnvelope] /\ plain' \in [Keys -> Outcome]
        /\ env'[l] = env[k] /\ plain'[l] = Failed
        /\ (\A m \in Keys \ {l} : env'[m] = env[m] /\ plain'[m] = plain[m])
    BY <1>2, RingFacts DEF CopyRaw, MaybeEnvelope, Outcome
  <2>2. Kept(env[k], keyring) /\ OpensTo(env[k], l, Failed)
    BY <1>2, RingFacts DEF CopyRaw, OpensTo
  <2> QED
    BY <1>2, <2>1, <2>2, RingFacts, EnvWriteStep DEF CopyRaw
<1> QED
  BY <1>1, <1>2

\* The other handle's transaction: its buffer, its commit and its rollback.
LEMMA EnvTxnBufferStep ==
    ASSUME EnvInv, Holds("txn"), NEW k \in Keys, NEW e \in MaybeEnvelope,
           NEW v \in Values \cup {Absent}, Kept(e, keyring), OpensTo(e, k, v),
           other' = [other EXCEPT !.buf[k] = e, !.vals[k] = v],
           UNCHANGED <<keyring, log, env, ops, rot, plain, raced, since>>
    PROVE  EnvInv'
<1>1. other \in TxnSession /\ HeldInv(other, keyring)
  BY RingFacts, SessionByKind DEF Holds
<1>2. /\ other' \in TxnSession /\ other'.kind = "txn" /\ other.kind = "txn"
      /\ other'.buf = [other.buf EXCEPT ![k] = e] /\ other'.vals = [other.vals EXCEPT ![k] = v]
      /\ other.buf \in [Keys -> MaybeEnvelope \cup {NoWrite}]
      /\ other.vals \in [Keys -> Values \cup {Absent, NoWrite}]
  BY <1>1 DEF TxnSession
<1>3. \A l \in Keys : other'.buf[l] # NoWrite =>
          Kept(other'.buf[l], keyring) /\ OpensTo(other'.buf[l], l, other'.vals[l])
  BY <1>1, <1>2 DEF HeldInv
<1>4. HeldInv(other', keyring)
  BY <1>2, <1>3 DEF HeldInv
<1> QED
  BY <1>2, <1>4, RingFacts, HeldStep DEF AnySession

\* put and delete of an EncryptedEnvelopeTxn touch its buffer only.
LEMMA EnvTxnSteps ==
    ASSUME EnvInv
    PROVE  /\ envelope_transaction => EnvInv'
           /\ \A k \in Keys, v \in Values : EnvelopeTxnPut(k, v) => EnvInv'
           /\ \A k \in Keys : EnvelopeTxnDelete(k) => EnvInv'
           /\ EnvelopeTxnCommit => EnvInv'
           /\ EnvelopeTxnRollback => EnvInv'
<1>1. ASSUME envelope_transaction PROVE EnvInv'
  <2> DEFINE o == [kind |-> "txn", buf |-> [k \in Keys |-> NoWrite],
                   vals |-> [k \in Keys |-> NoWrite]]
  <2>1. o \in TxnSession /\ HeldInv(o, keyring)
    BY DEF TxnSession, HeldInv
  <2>2. other' = o /\ ops' = ops + 1 /\ UNCHANGED <<keyring, log, env, rot, plain, raced, since>>
    BY <1>1 DEF envelope_transaction, Begin
  <2> HIDE DEF o
  <2> QED
    BY <2>1, <2>2, RingFacts, HeldStep DEF AnySession
<1>2. ASSUME NEW k \in Keys, NEW v \in Values, EnvelopeTxnPut(k, v) PROVE EnvInv'
  <2>1. WellWrapped(encrypt(keyring, k, v), keyring) /\ OpensTo(encrypt(keyring, k, v), k, v)
    BY RingFacts, EncryptsWell
  <2>2. encrypt(keyring, k, v) \in MaybeEnvelope /\ Kept(encrypt(keyring, k, v), keyring)
    BY <2>1 DEF WellWrapped, Kept, MaybeEnvelope
  <2> QED
    BY <1>2, <2>1, <2>2, EnvTxnBufferStep DEF EnvelopeTxnPut
<1>3. ASSUME NEW k \in Keys, EnvelopeTxnDelete(k) PROVE EnvInv'
  BY <1>3, EnvTxnBufferStep DEF EnvelopeTxnDelete, Kept, OpensTo, MaybeEnvelope
<1>4. ASSUME EnvelopeTxnCommit PROVE EnvInv'
  <2> DEFINE wrote == {k \in Keys : other.buf[k] # NoWrite}
  <2>1. other \in TxnSession /\ HeldInv(other, keyring) /\ other.kind = "txn"
    BY <1>4, RingFacts, SessionByKind DEF EnvelopeTxnCommit, Holds
  <2>2. env' = [k \in Keys |-> IF k \in wrote THEN other.buf[k] ELSE env[k]]
        /\ plain' = [k \in Keys |-> IF k \in wrote THEN other.vals[k] ELSE plain[k]]
        /\ NoteWrites(wrote) /\ other' = None /\ UNCHANGED <<keyring, log, ops, rot>>
    BY <1>4 DEF EnvelopeTxnCommit
  <2>3. ASSUME NEW k \in wrote
        PROVE  Kept(other.buf[k], keyring) /\ OpensTo(other.buf[k], k, other.vals[k])
    BY <2>1 DEF HeldInv
  <2>4. ASSUME NEW k \in wrote PROVE other.buf[k] \in MaybeEnvelope /\ other.vals[k] \in Outcome
    <3>1. other.buf[k] \in MaybeEnvelope
      BY <2>3 DEF Kept, WellWrapped, MaybeEnvelope
    <3>2. other.buf[k] # Absent => other.buf[k].data.pt \in Values
      BY <3>1 DEF MaybeEnvelope, Envelope
    <3> QED
      BY <2>3, <3>1, <3>2 DEF OpensTo, Outcome
  <2>5. env' \in [Keys -> MaybeEnvelope] /\ plain' \in [Keys -> Outcome]
    BY <2>2, <2>4, RingFacts
  <2>6. /\ \A k \in wrote : Kept(env'[k], keyring) /\ OpensTo(env'[k], k, plain'[k])
        /\ \A k \in Keys \ wrote : env'[k] = env[k] /\ plain'[k] = plain[k]
    BY <2>2, <2>3
  <2>7. wrote \in SUBSET Keys
    OBVIOUS
  <2> HIDE DEF wrote
  <2> QED
    BY <2>2, <2>5, <2>6, <2>7, RingFacts, EnvWriteStep
<1>5. ASSUME EnvelopeTxnRollback PROVE EnvInv'
  BY <1>5, RingFacts, HeldStep DEF EnvelopeTxnRollback, AnySession
<1> QED
  BY <1>1, <1>2, <1>3, <1>4, <1>5

\* A snapshot of the other handle.
LEMMA EnvSnapshotSteps ==
    ASSUME EnvInv
    PROVE  (envelope_snapshot => EnvInv') /\ (DropSnapshot => EnvInv')
<1>1. ASSUME envelope_snapshot PROVE EnvInv'
  <2> DEFINE vals == [k \in Keys |-> envelope_get(k)]
             o == [kind |-> "snap", data |-> env, vals |-> vals]
  <2>1. ASSUME NEW k \in Keys PROVE OpensTo(env[k], k, vals[k]) /\ vals[k] \in Outcome
    <3>1. vals[k] = open_envelope(keyring, k, env[k])
      BY DEF envelope_get
    <3>2. OpensTo(env[k], k, vals[k])
      BY <3>1, RingFacts, ReadsWell
    <3>3. env[k] # Absent => env[k].data.pt \in Values
      BY RingFacts DEF MaybeEnvelope, Envelope
    <3> QED
      BY <3>2, <3>3 DEF OpensTo, Outcome
  <2>2. vals \in [Keys -> Outcome]
    BY <2>1
  <2> HIDE DEF vals
  <2>3. o \in SnapSession
    BY <2>2, RingFacts DEF SnapSession
  <2>4. HeldInv(o, keyring)
    BY <2>1, RingFacts DEF HeldInv
  <2>5. other' = o /\ ops' = ops + 1 /\ UNCHANGED <<keyring, log, env, rot, plain, raced, since>>
    BY <1>1 DEF envelope_snapshot, Begin, vals
  <2> HIDE DEF o
  <2> QED
    BY <2>3, <2>4, <2>5, RingFacts, HeldStep DEF AnySession
<1>2. ASSUME DropSnapshot PROVE EnvInv'
  BY <1>2, RingFacts, HeldStep DEF DropSnapshot, AnySession
<1> QED
  BY <1>1, <1>2

---------------------------------------------------------------------------
(* The steps of a rotation.                                                *)

\* The fields of the record that stands for no rotation.
LEMMA NoRotationFacts ==
    /\ NoRotation \in Rotation /\ NoRotation.stage = "idle" /\ NoRotation.ok = FALSE
    /\ \A k \in Keys : NoRotation.entries[k] = Absent
BY DEF NoRotation, Rotation, MaybeEnvelope

\* rotate_kek starts by listing the keys; nothing is changed yet.
LEMMA BeginRotationStep ==
    ASSUME EnvInv, NEW kind \in {"rotate_kek", "rotate_all_keys"}, NEW kek \in Keks,
           BeginRotation(kind, kek)
    PROVE  EnvInv'
<1> USE DEF EnvInv
<1>1. /\ rot' \in Rotation /\ rot'.stage = FirstStage(kind) /\ rot'.kind = kind /\ rot'.kek = kek
      /\ rot'.ok = FALSE /\ \A k \in Keys : rot'.entries[k] = Absent
  BY DEF BeginRotation, NoRotation, Rotation, FirstStage, MaybeEnvelope
<1>2. log = keyring /\ log \in Seq(Keks)
  BY DEF NotesFollow, BeforeAdd, BeginRotation, EnvTypeOK
<1>3. log' = Append(keyring, kek) /\ log' \in Seq(Keks) /\ Len(log') <= MaxVersions
      /\ UNCHANGED <<keyring, env, other, ops, plain, raced>> /\ since' = {}
  BY <1>2, EnvelopeAssumption DEF BeginRotation
<1>4. EnvTypeOK'
  BY <1>1, <1>3 DEF EnvTypeOK, Pending
<1>5. NotesFollow'
  BY <1>1, <1>3 DEF NotesFollow, BeforeAdd, FirstStage
<1>6. AllWrapped'
  BY <1>1, <1>3 DEF AllWrapped, Kept
<1>7. ValuesKept'
  BY <1>1, <1>3 DEF ValuesKept, Pending
<1>8. RotationProgress'
  BY <1>1, <1>3 DEF RotationProgress, RotationReachesAll, Pending, FirstStage
<1> QED
  BY <1>4, <1>5, <1>6, <1>7, <1>8

\* Collecting one envelope copies it as it is stored at that moment.
LEMMA CollectStep ==
    ASSUME EnvInv, CollectEntries PROVE EnvInv'
<1> USE DEF EnvInv
<1>1. /\ rot \in Rotation /\ rot.stage = "collect" /\ env \in [Keys -> MaybeEnvelope]
      /\ UNCHANGED <<keyring, log, env, other, ops, plain, raced, since>>
      /\ rot.kind \in {"rotate_kek", "rotate_all_keys"}
  BY DEF CollectEntries, EnvTypeOK, Rotation
<1>2. /\ rot' \in Rotation /\ rot'.stage = AfterCollect(rot.kind) /\ rot'.kind = rot.kind
      /\ rot'.kek = rot.kek /\ rot'.entries = env /\ rot'.ok = rot.ok
  BY <1>1 DEF CollectEntries, Rotation, AfterCollect
<1>3. rot.ok = FALSE
  BY <1>1 DEF RotationProgress, Rotation
<1>4. EnvTypeOK'
  BY <1>1, <1>2 DEF EnvTypeOK, Pending, AfterCollect
<1>5. NotesFollow'
  BY <1>1, <1>2 DEF NotesFollow, BeforeAdd, AfterCollect
<1>6. AllWrapped'
  BY <1>1, <1>2 DEF AllWrapped
<1>7. ValuesKept'
  BY <1>1, <1>2 DEF ValuesKept, Pending
<1>8. RotationProgress'
  BY <1>1, <1>2, <1>3 DEF RotationProgress, RotationReachesAll, Pending, AfterCollect
<1> QED
  BY <1>4, <1>5, <1>6, <1>7, <1>8

\* The new KEK becomes the next version of the keyring; the old ones stay.
LEMMA AddKekStep ==
    ASSUME EnvInv, add_kek_version PROVE EnvInv'
<1> USE DEF EnvInv
<1>1. /\ rot \in Rotation /\ rot.stage = "add" /\ keyring \in Seq(Keks) /\ Len(keyring) >= 1
      /\ UNCHANGED <<log, env, other, ops, plain, raced, since>>
      /\ rot.kind \in {"rotate_kek", "rotate_all_keys"}
  BY DEF add_kek_version, EnvTypeOK, Rotation
<1>2. rot.kek \in Keks /\ log = Append(keyring, rot.kek) /\ keyring' = log
  BY <1>1 DEF NotesFollow, BeforeAdd, add_kek_version, rotate
<1>3. /\ rot' \in Rotation /\ rot'.stage = AfterAdd(rot.kind) /\ rot'.kind = rot.kind
      /\ rot'.kek = rot.kek /\ rot'.entries = rot.entries /\ rot'.ok = rot.ok
  BY <1>1 DEF add_kek_version, Rotation, AfterAdd
<1>4. rot.ok = FALSE
  BY <1>1 DEF RotationProgress, Rotation
<1>5. keyring' \in Seq(Keks) /\ Len(keyring') >= 1
  BY <1>1, <1>2
<1>6. AllWrapped'
  BY <1>1, <1>2, <1>3, WrappedLater DEF AllWrapped
<1>7. \A k \in Keys : env'[k] # Absent => env'[k].version \in DOMAIN keyring'
  BY <1>5, <1>6 DEF AllWrapped, Kept, WellWrapped
<1>8. EnvTypeOK'
  BY <1>1, <1>2, <1>3, <1>5, <1>7 DEF EnvTypeOK, Pending, AfterAdd, RotationProgress
<1>9. NotesFollow'
  BY <1>1, <1>2, <1>3 DEF NotesFollow, BeforeAdd, AfterAdd
<1>10. ValuesKept'
  BY <1>1, <1>3 DEF ValuesKept, Pending
<1>11. RotationProgress'
  BY <1>1, <1>3, <1>4 DEF RotationProgress, RotationReachesAll, Pending, AfterAdd
<1> QED
  BY <1>6, <1>8, <1>9, <1>10, <1>11

\* Writing one rewrapped envelope back: it opens to the value that was
\* collected, under the new version.
LEMMA RewriteStep ==
    ASSUME EnvInv, NEW k \in Keys, RewriteEntry(k) PROVE EnvInv'
<1> USE DEF EnvInv
<1> DEFINE f == rewrap_envelope(keyring, rot.entries[k])
<1>1. /\ rot \in Rotation /\ rot.stage = "rewrite" /\ keyring \in Seq(Keks) /\ Len(keyring) >= 1
      /\ UNCHANGED <<keyring, log, other, ops, plain, raced, since>> /\ k \in Pending
      /\ env \in [Keys -> MaybeEnvelope]
  BY DEF RewriteEntry, EnvTypeOK
<1>2. WellWrapped(rot.entries[k], keyring)
  BY <1>1 DEF AllWrapped, Kept, Pending
<1>3. /\ WellWrapped(f, keyring) /\ f.data = rot.entries[k].data /\ f.version = Len(keyring)
      /\ f # Absent /\ f \in MaybeEnvelope
  BY <1>1, <1>2, RewrapsWell DEF MaybeEnvelope
<1>4. env' = [env EXCEPT ![k] = f]
  BY DEF RewriteEntry
<1> HIDE DEF f
<1>5. /\ env' \in [Keys -> MaybeEnvelope] /\ env'[k] = f
      /\ \A l \in Keys \ {k} : env'[l] = env[l]
  BY <1>1, <1>3, <1>4
<1>6. /\ rot' \in Rotation /\ rot'.stage = "rewrite" /\ rot'.kind = rot.kind
      /\ rot'.kek = rot.kek /\ rot'.entries = [rot.entries EXCEPT ![k] = Absent]
      /\ rot'.ok = rot.ok /\ rot.entries \in [Keys -> MaybeEnvelope]
  BY <1>1 DEF RewriteEntry, Rotation, MaybeEnvelope
<1>7. rot'.entries[k] = Absent /\ \A l \in Keys \ {k} : rot'.entries[l] = rot.entries[l]
  BY <1>6
<1>8. rot.ok = FALSE
  BY <1>1 DEF RotationProgress, Rotation
<1>9. Pending' = Pending \ {k}
  BY <1>7 DEF Pending
<1>10. AllWrapped'
  <2>1. \A l \in Keys : Kept(env'[l], keyring)
    BY <1>3, <1>5 DEF AllWrapped, Kept
  <2>2. \A l \in Keys : Kept(rot'.entries[l], keyring)
    BY <1>7 DEF AllWrapped, Kept
  <2> QED
    BY <1>1, <2>1, <2>2 DEF AllWrapped
<1>11. \A l \in Keys : env'[l] # Absent => env'[l].version \in DOMAIN keyring'
  BY <1>1, <1>10 DEF AllWrapped, Kept, WellWrapped
<1>12. EnvTypeOK'
  BY <1>1, <1>5, <1>6, <1>11 DEF EnvTypeOK
<1>13. NotesFollow'
  BY <1>1, <1>6 DEF NotesFollow, BeforeAdd
<1>14. ValuesKept'
  <2>1. ASSUME NEW l \in Keys \ raced PROVE OpensTo(env'[l], l, plain[l])
    <3>1. CASE l = k
      <4>1. env[k] # Absent /\ env[k].data = f.data /\ OpensTo(env[k], k, plain[k])
        BY <1>1, <1>3, <2>1, <3>1 DEF ValuesKept
      <4> QED
        BY <1>3, <1>5, <3>1, <4>1 DEF OpensTo
    <3>2. CASE l # k
      BY <1>5, <2>1, <3>2 DEF ValuesKept
    <3> QED
      BY <3>1, <3>2
  <2>2. ASSUME NEW l \in Pending' \ raced
        PROVE  env'[l] # Absent /\ env'[l].data = rot'.entries[l].data
    <3>1. l \in Keys \ {k} /\ l \in Pending \ raced
      BY <1>9, <2>2 DEF Pending
    <3> QED
      BY <1>5, <1>7, <3>1 DEF ValuesKept
  <2> QED
    BY <1>1, <2>1, <2>2 DEF ValuesKept
<1>15. RotationProgress'
  <2>1. \A l \in Keys \ (since \cup Pending') : env'[l] # Absent => env'[l].version = Len(keyring)
    BY <1>1, <1>3, <1>5, <1>9 DEF RotationProgress
  <2> QED
    BY <1>1, <1>6, <1>8, <2>1 DEF RotationProgress, RotationReachesAll
<1> QED
  BY <1>10, <1>12, <1>13, <1>14, <1>15

\* A rotation that ends without an error has rewritten every envelope it
\* collected.
LEMMA FinishStep ==
    ASSUME EnvInv, FinishRotation PROVE EnvInv'
<1> USE DEF EnvInv
<1>1. /\ rot.stage = "rewrite" /\ Pending = {}
      /\ UNCHANGED <<keyring, log, env, other, ops, plain, raced, since>>
  BY DEF FinishRotation
<1>2. rot' \in Rotation /\ rot'.stage = "idle" /\ \A k \in Keys : rot'.entries[k] = Absent
  BY DEF FinishRotation, NoRotation, Rotation, MaybeEnvelope
<1>3. EnvTypeOK'
  BY <1>1, <1>2 DEF EnvTypeOK, Pending
<1>4. NotesFollow'
  BY <1>1, <1>2 DEF NotesFollow, BeforeAdd
<1>5. AllWrapped'
  BY <1>1, <1>2 DEF AllWrapped, Kept
<1>6. ValuesKept'
  BY <1>1, <1>2 DEF ValuesKept, Pending
<1>7. \A k \in Keys \ since : env[k] # Absent => env[k].version = Len(keyring)
  BY <1>1 DEF RotationProgress
<1>8. RotationProgress'
  BY <1>1, <1>2, <1>7 DEF RotationProgress, RotationReachesAll, active_version
<1> QED
  BY <1>3, <1>4, <1>5, <1>6, <1>8

\* A rotation that ends without Ok, or is forgotten by a crash: nothing is
\* collected any more, and the keyring is what the owner has noted.
LEMMA ForgetRotation ==
    ASSUME EnvInv, rot' = NoRotation, UNCHANGED <<env, ops, plain, raced, since>>,
           other' \in {other, None}, keyring' \in Seq(Keks), Len(keyring') >= 1,
           log' = keyring', Len(log') <= MaxVersions,
           keyring' = keyring \/ \E kek \in Keks : keyring' = Append(keyring, kek)
    PROVE  EnvInv'
<1> USE DEF EnvInv
<1>1. keyring \in Seq(Keks)
  BY DEF EnvTypeOK
<1>2. AllWrapped'
  <2>1. \A e : Kept(e, keyring) => Kept(e, keyring')
    BY <1>1, WrappedLater
  <2>2. \A o : HeldInv(o, keyring) => HeldInv(o, keyring')
    BY <1>1, WrappedLater
  <2> QED
    BY <2>1, <2>2, NoRotationFacts DEF AllWrapped, Kept
<1>3. \A k \in Keys : env'[k] # Absent => env'[k].version \in DOMAIN keyring'
  BY <1>2 DEF AllWrapped, Kept, WellWrapped
<1>4. EnvTypeOK'
  BY <1>3, NoRotationFacts DEF EnvTypeOK, Pending
<1>5. NotesFollow'
  BY NoRotationFacts DEF NotesFollow, BeforeAdd
<1>6. ValuesKept'
  BY NoRotationFacts DEF ValuesKept, Pending
<1>7. RotationProgress'
  BY NoRotationFacts DEF RotationProgress, RotationReachesAll
<1> QED
  BY <1>2, <1>4, <1>5, <1>6, <1>7

\* What the owner keeps of its notes is the keyring in memory.
LEMMA NotesSettle ==
    ASSUME EnvInv PROVE NotedVersions = keyring
<1>1. keyring \in Seq(Keks)
  BY DEF EnvInv, EnvTypeOK
<1>2. CASE BeforeAdd
  <2>1. rot.kek \in Keks /\ log = Append(keyring, rot.kek)
    BY <1>2 DEF EnvInv, NotesFollow
  <2>2. Len(log) = Len(keyring) + 1 /\ Len(keyring) \in Nat
    BY <1>1, <2>1
  <2>3. SubSeq(log, 1, Len(keyring)) = keyring
    BY <1>1, <2>1
  <2> QED
    BY <2>2, <2>3 DEF NotedVersions, active_version
<1>3. CASE ~ BeforeAdd
  <2>1. log = keyring /\ Len(keyring) \in Nat
    BY <1>1, <1>3 DEF EnvInv, NotesFollow
  <2> QED
    BY <2>1 DEF NotedVersions, active_version
<1> QED
  BY <1>2, <1>3

\* A failed rotation leaves a keyring that opens the old and the new envelopes.
LEMMA FailStep ==
    ASSUME EnvInv, FailRotation PROVE EnvInv'
<1>1. rot' = NoRotation /\ log' = keyring /\ UNCHANGED <<keyring, env, other, ops, plain, raced, since>>
  BY NotesSettle DEF FailRotation
<1>2. keyring \in Seq(Keks) /\ Len(keyring) >= 1
  BY DEF EnvInv, EnvTypeOK
<1>3. Len(keyring) <= MaxVersions
  <2>1. CASE BeforeAdd
    <3>1. rot.kek \in Keks /\ log = Append(keyring, rot.kek) /\ Len(log) <= MaxVersions
      BY <2>1 DEF EnvInv, NotesFollow, EnvTypeOK
    <3>2. Len(log) = Len(keyring) + 1 /\ Len(keyring) \in Nat
      BY <1>2, <3>1
    <3> QED
      BY <3>1, <3>2, EnvelopeAssumption
  <2>2. CASE ~ BeforeAdd
    BY <2>2 DEF EnvInv, NotesFollow, EnvTypeOK
  <2> QED
    BY <2>1, <2>2
<1> QED
  BY <1>1, <1>2, <1>3, ForgetRotation

\* Reopening rebuilds the keyring from the recorded KEKs, in their order, so
\* that every version number means what it meant.
LEMMA ReopenStep ==
    ASSUME EnvInv, Reopen PROVE EnvInv'
<1>1. /\ rot' = NoRotation /\ keyring' = log /\ log' = log /\ other' = None
      /\ UNCHANGED <<env, ops, plain, raced, since>>
  BY DEF Reopen
<1>2. keyring \in Seq(Keks) /\ Len(keyring) >= 1 /\ log \in Seq(Keks) /\ Len(log) <= MaxVersions
  BY DEF EnvInv, EnvTypeOK
<1>3. log = keyring \/ \E kek \in Keks : log = Append(keyring, kek)
  BY DEF EnvInv, NotesFollow
<1>4. Len(log) >= 1
  BY <1>2, <1>3
<1> QED
  BY <1>1, <1>2, <1>3, <1>4, ForgetRotation

\* Every step of EncryptedKvEnvelope keeps its invariant.
LEMMA EnvStep == EnvInv /\ [EnvNext]_envVars => EnvInv'
<1> SUFFICES ASSUME EnvInv, [EnvNext]_envVars PROVE EnvInv'
  OBVIOUS
<1>1. CASE UNCHANGED envVars
  BY <1>1, RingFacts, HeldStep DEF envVars
<1>2. CASE EnvNext
  <2>1. ASSUME NEW kek \in Keks, rotate_kek(kek) \/ rotate_all_keys(kek) PROVE EnvInv'
    BY <2>1, BeginRotationStep DEF rotate_kek, rotate_all_keys
  <2> QED
    BY <1>2, <2>1, PutSteps, EraseSteps, EnvTxnSteps, EnvSnapshotSteps, CollectStep, AddKekStep,
       RewriteStep, FinishStep, FailStep, ReopenStep DEF EnvNext
<1> QED
  BY <1>1, <1>2

---------------------------------------------------------------------------
(* What the invariant of EncryptedKvEnvelope gives.                        *)

\* The invariant says that rotation keeps the values it did not race with.
LEMMA EnvValuesKept == EnvInv => RotationKeepsValues
<1> SUFFICES ASSUME EnvInv, NEW k \in Keys \ raced PROVE envelope_get(k) = plain[k]
  BY DEF RotationKeepsValues
<1>1. OpensTo(env[k], k, plain[k])
  BY DEF EnvInv, ValuesKept
<1> QED
  BY <1>1, RingFacts, ReadsWell DEF envelope_get

\* The invariant says that the recorded KEKs open every stored envelope.
LEMMA EnvReopens == EnvInv => ReopenLosesNothing
<1> SUFFICES ASSUME EnvInv, NEW k \in Keys, env[k] # Absent
             PROVE  /\ decrypt(log, k, env[k]) = envelope_get(k)
                    /\ envelope_get(k) = Failed => plain[k] = Failed \/ k \in raced
  BY DEF ReopenLosesNothing
<1>1. WellWrapped(env[k], keyring) /\ keyring \in Seq(Keks) /\ log \in Seq(Keks)
  BY RingFacts DEF Kept, EnvInv, EnvTypeOK
<1>2. WellWrapped(env[k], log)
  BY <1>1, WrappedLater DEF EnvInv, NotesFollow
<1>3. decrypt(log, k, env[k]) = decrypt(keyring, k, env[k])
  BY <1>1, <1>2, DecryptsWell
<1>4. envelope_get(k) = decrypt(keyring, k, env[k])
  BY DEF envelope_get, open_envelope
<1> QED
  BY <1>3, <1>4, EnvValuesKept DEF RotationKeepsValues

\* The invariant says that the open handles read every stored envelope.
LEMMA EnvHandlesReadable == EnvInv => OpenHandlesReadable
<1> SUFFICES ASSUME EnvInv PROVE OpenHandlesReadable
  OBVIOUS
<1>1. ASSUME Holds("txn"), NEW k \in Keys, other.buf[k] # NoWrite
      PROVE  EnvelopeTxnGet(k) = other.vals[k]
  <2>1. Kept(other.buf[k], keyring) /\ OpensTo(other.buf[k], k, other.vals[k])
    BY <1>1, RingFacts DEF Holds, HeldInv
  <2> QED
    BY <1>1, <2>1, RingFacts, ReadsWell DEF EnvelopeTxnGet
<1>2. ASSUME Holds("snap"), NEW k \in Keys
      PROVE  /\ EnvelopeSnapshotGet(k) = other.vals[k]
             /\ other.data[k] # Absent => envelope_iter(other.data)[k] = other.vals[k]
  <2>1. Kept(other.data[k], keyring) /\ OpensTo(other.data[k], k, other.vals[k])
    BY <1>2, RingFacts DEF Holds, HeldInv
  <2>2. open_envelope(keyring, k, other.data[k]) = other.vals[k]
    BY <2>1, RingFacts, ReadsWell
  <2> QED
    BY <2>2 DEF EnvelopeSnapshotGet, envelope_iter, open_envelope
<1> QED
  BY <1>1, <1>2 DEF OpenHandlesReadable

---------------------------------------------------------------------------
(* The theorems.                                                           *)

\* The inductive invariant of both decorators holds.
THEOREM Invariance == Spec => []IInv
<1>1. Init => IInv
  BY CellInitInv, EnvInitInv DEF Init, IInv
<1>2. IInv /\ [Next]_vars => IInv'
  <2> SUFFICES ASSUME IInv, [Next]_vars PROVE IInv'
    OBVIOUS
  <2>1. [CellNext]_cellVars /\ [EnvNext]_envVars
    BY DEF Next, vars
  <2> QED
    BY <2>1, CellStep, EnvStep DEF IInv
<1> QED
  BY <1>1, <1>2, PTL DEF Spec

\* Every variable keeps its shape; no stored envelope names a version the
\* keyring does not have, and only a rotation in progress has entries left.
THEOREM TypeCorrect == Spec => []TypeOK
<1>1. IInv => TypeOK
  BY DEF IInv, CellInv, EnvInv, TypeOK
<1> QED
  BY <1>1, Invariance, PTL

\* Whichever threads raced for the key cache, however the OS keyring changed
\* and whatever rotations ran, a handle, its transactions and its snapshots
\* read what was written through it.
THEOREM HandlesRead == Spec => []HandlesReadTheirWrites
<1>1. IInv => HandlesReadTheirWrites
  BY CellReadsWrites, CellSessionsAgree, EnvHandlesReadable DEF IInv, HandlesReadTheirWrites
<1> QED
  BY <1>1, Invariance, PTL

\* A read in progress returns the value of its own key and time or an error,
\* and a scan all entries with their own values or an error.
THEOREM ReadsHonest == Spec => []ReadsOwnOrFails
<1>1. IInv => ReadsOwnOrFails
  BY CellNeverForeign, CellIterates DEF IInv, ReadsOwnOrFails
<1> QED
  BY <1>1, Invariance, PTL

\* No order of rotation steps, writers, failures and crashes changes what a
\* key reads as, but for a write between collection and rewrite; a rotation
\* that returned Ok left nothing under an older KEK that was not written since.
THEOREM RotationIsSound == Spec => []RotationSound
<1>1. IInv => RotationSound
  BY EnvValuesKept DEF IInv, EnvInv, RotationProgress, RotationSound
<1> QED
  BY <1>1, Invariance, PTL

\* A crash anywhere in a rotation makes no value unreadable.
THEOREM ReopenIsSafe == Spec => []ReopenLosesNothing
<1>1. IInv => ReopenLosesNothing
  BY EnvReopens DEF IInv
<1> QED
  BY <1>1, Invariance, PTL
=============================================================================
