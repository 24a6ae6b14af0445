----------------------------- MODULE Encryption -----------------------------
(***************************************************************************)
(* oxistore-encrypt offers two decorators over a KvStore: a client wraps   *)
(* its store with one of them, cell-level or envelope encryption.          *)
(***************************************************************************)
EXTENDS CellStore, EnvelopeStore

VARIABLE decorator   \* "EncryptedKv" or "EncryptedKvEnvelope"

vars == <<decorator, cellVars, envVars>>

\* The state of the other decorator is fixed.
Init ==
    /\ decorator \in {"EncryptedKv", "EncryptedKvEnvelope"}
    /\ CellInit
    /\ EnvInit
    /\ decorator = "EncryptedKvEnvelope" => aead = "XChaCha20Poly1305"

Next ==
    \/ decorator = "EncryptedKv" /\ CellNext /\ UNCHANGED <<decorator, envVars>>
    \/ decorator = "EncryptedKvEnvelope" /\ EnvNext /\ UNCHANGED <<decorator, cellVars>>

Spec == Init /\ [][Next]_vars

---------------------------------------------------------------------------
\* Every variable of both decorators holds a value of its shape.
TypeOK == CellTypeOK /\ EnvTypeOK

\* A handle, its transactions and its snapshots read what was written
\* through it.
HandlesReadTheirWrites == HandleReadsItsWrites /\ SessionsAgree /\ OpenHandlesReadable

\* A read returns the value of its own key, and all of what was asked for,
\* or fails.
ReadsOwnOrFails == NeverForeign /\ IterAllOrNothing

\* A rotation changes no value and reaches every one.
RotationSound == RotationKeepsValues /\ RotationReachesAll
=============================================================================
