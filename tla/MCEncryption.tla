---------------------------- MODULE MCEncryption ----------------------------
(***************************************************************************)
(* Two keys, values and secrets; keyrings of up to three versions.         *)
(***************************************************************************)
EXTENDS Encryption, TLC

\* Keys, values, KEKs, secrets and threads are interchangeable.
Symmetry ==
    Permutations(Keys) \cup Permutations(Values) \cup Permutations(Threads)
        \cup Permutations(Keks) \cup Permutations(Secrets)
=============================================================================
