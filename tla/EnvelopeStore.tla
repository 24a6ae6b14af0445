--------------------------- MODULE EnvelopeStore ---------------------------
(***************************************************************************)
(* EncryptedKvEnvelope over one inner store, and the rotation of its       *)
(* key-encrypting keys.  The stores are cheap clones and the cipher shares *)
(* its keyring behind an Arc<RwLock>, so while one handle rotates, another *)
(* handle over the same store keeps putting, deleting and committing.      *)
(* Rotation is modelled step by step: the collection of the entries, the   *)
(* new KEK, and one rewrite per entry; between any two of them the process *)
(* may crash, an operation of the store may fail, or a writer may run.     *)
(*                                                                         *)
(* The keyring lives in memory only.  Its owner notes a KEK before handing *)
(* it to a rotation and, when a rotation returns an error, forgets it      *)
(* again unless active_version shows that it was added: log is what the    *)
(* owner rebuilds the keyring from after a crash.                          *)
(***************************************************************************)
EXTENDS EncryptCore

CONSTANTS
    Values,         \* the plaintexts
    Keks,           \* the KEKs rotations may be given (the same one again too)
    MaxVersions,    \* bound on the length of the keyring
    MaxOps          \* bound on the operations begun on the other handle

Deks == {generate_dek(k, v) : k \in Keys, v \in Values}

Envelope == [version : Nat,
             wrapped : [key : Keks, aad : Nat, pt : Deks],
             data    : [key : Deks, aad : Keys, pt : Values]]

\* The special values are none of the bytes the store holds.
ASSUME EnvelopeAssumption ==
    /\ MaxVersions \in Nat \ {0} /\ MaxOps \in Nat
    /\ Absent \notin Keks \cup Envelope /\ NoWrite \notin Envelope /\ NoWrite # Absent
    /\ Failed \notin Values \cup Deks

VARIABLES
    keyring,    \* Keyring.versions, shared by every handle
    log,        \* the KEKs the owner has noted (external)
    env,        \* the inner store: key -> envelope
    other,      \* what the other handle's thread holds: None, an envelope
                \* sealed and not yet stored, an EnvelopeTxn, a snapshot
    ops,        \* operations begun on the other handle
    rot,        \* the rotation in progress
    plain,      \* history: what a read of each key should give
    raced,      \* history: keys written between their collection and rewrite
    since       \* history: keys written since the last rotation began

envVars == <<keyring, log, env, other, ops, rot, plain, raced, since>>

NoRotation == [stage |-> "idle", kind |-> "rotate_kek", kek |-> None,
               entries |-> [k \in Keys |-> Absent], ok |-> FALSE]

\* Keys of the rotation that are collected and not yet rewritten.
Pending == {k \in Keys : rot.entries[k] # Absent}

EnvInit ==
    /\ \E kek \in Keks : keyring = NewKeyring(kek) /\ log = keyring
    /\ env = [k \in Keys |-> Absent]
    /\ plain = [k \in Keys |-> Absent]
    /\ other = None /\ ops = 0
    /\ rot = NoRotation
    /\ raced = {} /\ since = {}

\* The history of a write to the keys ks.
NoteWrites(ks) ==
    /\ raced' = (raced \ ks) \cup (ks \cap Pending)
    /\ since' = since \cup ks

---------------------------------------------------------------------------
(* The other handle, used by one thread, one operation at a time.  put     *)
(* seals under a snapshot of the active KEK, then stores: a rotation may   *)
(* run between the two.                                                    *)

Holds(kind) == other # None /\ other.kind = kind

Begin(session) ==
    /\ other = None /\ ops < MaxOps
    /\ other' = session /\ ops' = ops + 1
    /\ UNCHANGED <<keyring, log, env, rot, plain, raced, since>>

SealValue(k, v) ==
    Begin([kind |-> "put", key |-> k, val |-> v, envelope |-> encrypt(keyring, k, v)])

StoreEnvelope ==
    /\ Holds("put")
    /\ env' = [env EXCEPT ![other.key] = other.envelope]
    /\ plain' = [plain EXCEPT ![other.key] = other.val]
    /\ NoteWrites({other.key})
    /\ other' = None
    /\ UNCHANGED <<keyring, log, ops, rot>>

envelope_delete(k) ==
    /\ other = None /\ ops < MaxOps /\ env[k] # Absent
    /\ env' = [env EXCEPT ![k] = Absent]
    /\ plain' = [plain EXCEPT ![k] = Absent]
    /\ NoteWrites({k})
    /\ ops' = ops + 1
    /\ UNCHANGED <<keyring, log, other, rot>>

\* A raw handle copies the bytes of one key to another: the copy must not
\* open there, before or after a rotation.
CopyRaw(k, l) ==
    /\ other = None /\ ops < MaxOps
    /\ k # l /\ env[k] # Absent /\ env[k].data.aad = k
    /\ env' = [env EXCEPT ![l] = env[k]]
    /\ plain' = [plain EXCEPT ![l] = Failed]
    /\ NoteWrites({l})
    /\ ops' = ops + 1
    /\ UNCHANGED <<keyring, log, other, rot>>

envelope_get(k) == open_envelope(keyring, k, env[k])

\* range and iter decrypt item by item: one bad item does not hide another.
envelope_iter(data) ==
    [k \in {l \in Keys : data[l] # Absent} |-> decrypt(keyring, k, data[k])]

---------------------------------------------------------------------------
(* EnvelopeTxn and EnvelopeSnapshot share the keyring of their store.      *)

envelope_transaction ==
    Begin([kind |-> "txn", buf |-> [k \in Keys |-> NoWrite],
           vals |-> [k \in Keys |-> NoWrite]])

EnvelopeTxnPut(k, v) ==
    /\ Holds("txn")
    /\ other' = [other EXCEPT !.buf[k] = encrypt(keyring, k, v), !.vals[k] = v]
    /\ UNCHANGED <<keyring, log, env, ops, rot, plain, raced, since>>

EnvelopeTxnDelete(k) ==
    /\ Holds("txn")
    /\ other' = [other EXCEPT !.buf[k] = Absent, !.vals[k] = Absent]
    /\ UNCHANGED <<keyring, log, env, ops, rot, plain, raced, since>>

EnvelopeTxnCommit ==
    /\ Holds("txn")
    /\ LET wrote == {k \in Keys : other.buf[k] # NoWrite}
       IN  /\ env' = [k \in Keys |-> IF k \in wrote THEN other.buf[k] ELSE env[k]]
           /\ plain' = [k \in Keys |-> IF k \in wrote THEN other.vals[k] ELSE plain[k]]
           /\ NoteWrites(wrote)
    /\ other' = None
    /\ UNCHANGED <<keyring, log, ops, rot>>

EnvelopeTxnRollback ==
    /\ Holds("txn") /\ other' = None
    /\ UNCHANGED <<keyring, log, env, ops, rot, plain, raced, since>>

\* A read inside the transaction: its own write, else the committed entry.
EnvelopeTxnGet(k) ==
    open_envelope(keyring, k, IF other.buf[k] = NoWrite THEN env[k] ELSE other.buf[k])

envelope_snapshot ==
    Begin([kind |-> "snap", data |-> env, vals |-> [k \in Keys |-> envelope_get(k)]])

DropSnapshot ==
    /\ Holds("snap") /\ other' = None
    /\ UNCHANGED <<keyring, log, env, ops, rot, plain, raced, since>>

EnvelopeSnapshotGet(k) == open_envelope(keyring, k, other.data[k])

---------------------------------------------------------------------------
(* Rotation.  rotate_kek collects the entries and then adds the KEK;       *)
(* rotate_all_keys adds the KEK and then collects.                         *)

FirstStage(kind) == IF kind = "rotate_kek" THEN "collect" ELSE "add"
AfterCollect(kind) == IF kind = "rotate_kek" THEN "add" ELSE "rewrite"
AfterAdd(kind) == IF kind = "rotate_kek" THEN "rewrite" ELSE "collect"

BeginRotation(kind, kek) ==
    /\ rot.stage = "idle" /\ Len(log) < MaxVersions
    /\ rot' = [NoRotation EXCEPT !.stage = FirstStage(kind), !.kind = kind, !.kek = kek]
    /\ log' = Append(log, kek)
    /\ since' = {}
    /\ UNCHANGED <<keyring, env, other, ops, plain, raced>>

CollectEntries ==
    /\ rot.stage = "collect"
    /\ rot' = [rot EXCEPT !.entries = env, !.stage = AfterCollect(rot.kind)]
    /\ UNCHANGED <<keyring, log, env, other, ops, plain, raced, since>>

add_kek_version_twice ==
    /\ rot.stage = "add"
    /\ keyring' = rotate(rotate(keyring, rot.kek), rot.kek)
    /\ rot' = [rot EXCEPT !.stage = AfterAdd(rot.kind)]
    /\ UNCHANGED <<log, env, other, ops, plain, raced, since>>

add_kek_version ==
    /\ rot.stage = "add"
    /\ keyring' = rotate(keyring, rot.kek)
    /\ rot' = [rot EXCEPT !.stage = AfterAdd(rot.kind)]
    /\ UNCHANGED <<log, env, other, ops, plain, raced, since>>

RewriteEntryKeepingWrapper(k) ==
    /\ rot.stage = "rewrite" /\ k \in Pending
    /\ env' = [env EXCEPT ![k] = rot.entries[k]]
    /\ rot' = [rot EXCEPT !.entries[k] = Absent]
    /\ UNCHANGED <<keyring, log, other, ops, plain, raced, since>>

\* The collected envelope, not the current one, is re-wrapped and stored.
RewriteEntry(k) ==
    /\ rot.stage = "rewrite" /\ k \in Pending
    /\ rewrap_envelope(keyring, rot.entries[k]) # Failed
    /\ env' = [env EXCEPT ![k] = rewrap_envelope(keyring, rot.entries[k])]
    /\ rot' = [rot EXCEPT !.entries[k] = Absent]
    /\ UNCHANGED <<keyring, log, other, ops, plain, raced, since>>

FinishRotation ==
    /\ rot.stage = "rewrite" /\ Pending = {}
    /\ rot' = [NoRotation EXCEPT !.ok = TRUE]
    /\ UNCHANGED <<keyring, log, env, other, ops, plain, raced, since>>

\* The notes of the owner once active_version has been compared with them.
NotedVersions ==
    IF active_version(keyring) < Len(log) THEN SubSeq(log, 1, active_version(keyring)) ELSE log

\* iter or put of the inner store fails: the error is returned at once, the
\* entries rewritten so far stay rewritten, an added KEK stays added.
FailRotationKeepingEntries ==
    /\ rot.stage \in {"collect", "rewrite"}
    /\ rot.stage = "rewrite" => Pending # {}
    /\ rot' = [rot EXCEPT !.stage = "idle"]
    /\ log' = NotedVersions
    /\ UNCHANGED <<keyring, env, other, ops, plain, raced, since>>

FailRotation ==
    /\ rot.stage \in {"collect", "rewrite"}
    /\ rot.stage = "rewrite" => Pending # {}
    /\ rot' = NoRotation
    /\ log' = NotedVersions
    /\ UNCHANGED <<keyring, env, other, ops, plain, raced, since>>

rotate_kek(kek) == BeginRotation("rotate_kek", kek)
rotate_all_keys(kek) == BeginRotation("rotate_all_keys", kek)

\* The process dies; the owner rebuilds the keyring with Keyring::new and
\* Keyring::rotate, and opens the store again.
Reopen ==
    /\ keyring' = log
    /\ other' = None
    /\ rot' = NoRotation
    /\ UNCHANGED <<log, env, ops, plain, raced, since>>

EnvNext ==
    \/ \E k \in Keys, v \in Values : SealValue(k, v)
    \/ StoreEnvelope
    \/ \E k \in Keys : envelope_delete(k)
    \/ \E k, l \in Keys : CopyRaw(k, l)
    \/ envelope_transaction \/ EnvelopeTxnCommit \/ EnvelopeTxnRollback
    \/ \E k \in Keys, v \in Values : EnvelopeTxnPut(k, v)
    \/ \E k \in Keys : EnvelopeTxnDelete(k)
    \/ envelope_snapshot \/ DropSnapshot
    \/ \E kek \in Keks : rotate_kek(kek) \/ rotate_all_keys(kek)
    \/ CollectEntries \/ add_kek_version \/ FinishRotation \/ FailRotation
    \/ \E k \in Keys : RewriteEntry(k)
    \/ Reopen

---------------------------------------------------------------------------
MaybeEnvelope == Envelope \cup {Absent}
Outcome == Values \cup {Absent, Failed}

Rotation == [stage : {"idle", "collect", "add", "rewrite"}, kind : {"rotate_kek", "rotate_all_keys"},
             kek : Keks \cup {None}, entries : [Keys -> MaybeEnvelope], ok : BOOLEAN]

\* What the other handle's thread may hold.
PutSession == [kind : {"put"}, key : Keys, val : Values, envelope : Envelope]
TxnSession == [kind : {"txn"}, buf : [Keys -> MaybeEnvelope \cup {NoWrite}],
               vals : [Keys -> Values \cup {Absent, NoWrite}]]
SnapSession == [kind : {"snap"}, data : [Keys -> MaybeEnvelope], vals : [Keys -> Outcome]]

\* Every variable has its type, every stored envelope names a version of the
\* keyring, and only a rewriting rotation has entries left.
EnvTypeOK ==
    /\ keyring \in Seq(Keks) /\ Len(keyring) >= 1
    /\ log \in Seq(Keks) /\ Len(log) <= MaxVersions
    /\ env \in [Keys -> MaybeEnvelope]
    /\ \A k \in Keys : env[k] # Absent => env[k].version \in DOMAIN keyring
    /\ other \in {None} \cup PutSession \cup TxnSession \cup SnapSession
    /\ ops \in Nat
    /\ rot \in Rotation
    /\ Pending # {} => rot.stage \in {"add", "rewrite"}
    /\ plain \in [Keys -> Outcome]
    /\ raced \subseteq Keys /\ since \subseteq Keys

\* Rotation never changes what a key reads as: whatever the order of the
\* rotation's steps, of writers, of failures and of crashes, a key reads as
\* its last write unless that write fell between the collection of the key
\* and its rewriting (rotate_kek and rotate_all_keys put back the collected
\* envelope without looking at the current one).
RotationKeepsValues ==
    \A k \in Keys \ raced : envelope_get(k) = plain[k]

\* A keyring rebuilt from the owner's notes opens exactly what the one in
\* memory opens: a crash anywhere in a rotation, also in one that follows a
\* failed rotation, makes no value unreadable.
ReopenLosesNothing ==
    \A k \in Keys : env[k] # Absent =>
        /\ decrypt(log, k, env[k]) = envelope_get(k)
        /\ envelope_get(k) = Failed => plain[k] = Failed \/ k \in raced

\* After a rotation that returned Ok every envelope is wrapped under the
\* active KEK, but for keys written since it began (a put may have sealed
\* its value under the previous KEK before the rotation and stored it after).
RotationReachesAll ==
    rot.ok => \A k \in Keys \ since :
        env[k] # Absent => env[k].version = active_version(keyring)

\* An open transaction reads its own writes and an open snapshot reads what
\* it saw when it was taken, whatever rotations ran in between.
OpenHandlesReadable ==
    /\ Holds("txn") => \A k \in Keys :
          other.buf[k] # NoWrite => EnvelopeTxnGet(k) = other.vals[k]
    /\ Holds("snap") => \A k \in Keys :
          /\ EnvelopeSnapshotGet(k) = other.vals[k]
          /\ other.data[k] # Absent => envelope_iter(other.data)[k] = other.vals[k]
=============================================================================
