---------------------------- MODULE EncryptCore ----------------------------
(***************************************************************************)
(* The two wire formats of oxistore-encrypt as symbolic terms.  A sealed   *)
(* term carries what the AEAD authenticates: the cipher, the key, the      *)
(* associated data and the plaintext.  Opening succeeds exactly when all   *)
(* of them agree, which is the promise of an authenticated cipher; nonces  *)
(* are random and never compared, so they are left out.                    *)
(***************************************************************************)
EXTENDS Naturals, Sequences

CONSTANTS
    Keys,       \* the keys of the inner store
    Absent,     \* what inner.get returns for a key that is not stored
    Failed,     \* an Err of the encryption layer
    None,       \* nothing: an idle thread, an empty cache
    NoWrite     \* a key a transaction has not touched

\* The two built-in ciphers and the length of their nonces (the field that
\* EncryptedKv::transaction and ::snapshot look at to guess the cipher).
AeadKind == {"XChaCha20Poly1305", "AesGcmSiv256"}
nonce_len(a) == IF a = "AesGcmSiv256" THEN 12 ELSE 24

\* The cipher a transaction or a snapshot of EncryptedKv carries.
KindByNonce(a) ==
    IF nonce_len(a) = 12 THEN "AesGcmSiv256" ELSE "XChaCha20Poly1305"

encrypt_with_aead(a, key, aad, pt) ==
    [alg |-> a, key |-> key, aad |-> aad, pt |-> pt]

\* A wire of another cipher is too short or cut at the wrong nonce length:
\* it fails like one of another key or another location.
decrypt_with_aead(a, key, aad, wire) ==
    IF wire.alg = a /\ wire.key = key /\ wire.aad = aad
    THEN wire.pt ELSE Failed

\* The associated data of a plain key: its BLAKE3 hash, which tells keys
\* apart, and never equals the 20 bytes of a CellId.
derive_cell_id(k) == <<"hash", k>>
to_aad_bytes(cell) == <<"cell", cell>>

\* encrypt_cell and decrypt_cell always use XChaCha20-Poly1305.
encrypt_cell(key, cell, pt) ==
    encrypt_with_aead("XChaCha20Poly1305", key, to_aad_bytes(cell), pt)
decrypt_cell(key, cell, wire) ==
    decrypt_with_aead("XChaCha20Poly1305", key, to_aad_bytes(cell), wire)

---------------------------------------------------------------------------
(* The keyring: version i of a keyring is its i-th KEK, the last is active. *)

NewKeyring(kek) == <<kek>>
active_version(ring) == Len(ring)
active_kek(ring) == ring[Len(ring)]
kek_for_version(ring, v) == IF v \in DOMAIN ring THEN ring[v] ELSE Absent
rotate(ring, kek) == Append(ring, kek)

(* Envelopes: a data encryption key sealed under a KEK with the version as *)
(* associated data, and the value sealed under that key with the raw key.  *)

XSeal(key, aad, pt) == [key |-> key, aad |-> aad, pt |-> pt]
XOpen(key, aad, term) ==
    IF term.key = key /\ term.aad = aad THEN term.pt ELSE Failed

\* A fresh DEK, named after what it protects: two of them are never
\* confused unless they protect the same value of the same key.
generate_dek(aad, pt) == <<"dek", aad, pt>>

encrypt(ring, aad, pt) ==
    LET dek == generate_dek(aad, pt)
    IN  [version |-> active_version(ring),
         wrapped |-> XSeal(active_kek(ring), active_version(ring), dek),
         data |-> XSeal(dek, aad, pt)]

UnwrapDek(ring, env) ==
    LET kek == kek_for_version(ring, env.version)
    IN  IF kek = Absent THEN Failed ELSE XOpen(kek, env.version, env.wrapped)

decrypt(ring, aad, env) ==
    LET dek == UnwrapDek(ring, env)
    IN  IF dek = Failed THEN Failed ELSE XOpen(dek, aad, env.data)

\* Re-wraps the DEK under the active KEK; the data is copied as it is.
rewrap_envelope(ring, env) ==
    LET dek == UnwrapDek(ring, env)
    IN  IF dek = Failed THEN Failed
        ELSE [version |-> active_version(ring),
              wrapped |-> XSeal(active_kek(ring), active_version(ring), dek),
              data |-> env.data]

\* What the decorators' get makes of an inner read.
open_cell(a, secret, k, ct) ==
    IF ct = Absent THEN Absent ELSE decrypt_with_aead(a, secret, derive_cell_id(k), ct)
open_envelope(ring, k, env) == IF env = Absent THEN Absent ELSE decrypt(ring, k, env)
=============================================================================
