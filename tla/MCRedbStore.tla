----------------------------- MODULE MCRedbStore -----------------------------
(***************************************************************************)
(* Small instances of RedbStore for TLC.                                   *)
(***************************************************************************)
EXTENDS RedbStore

\* The calls whose atomicity rests on the exclusive write transaction.
TxnOps == {"put", "delete", "put_with_ttl", "put_returning_old",
           "delete_returning_old", "get", "compare_and_swap", "transaction"}

\* Everything; put and delete are the batches of one key.
SequentialOps == (OneShot \cup Begins \cup {"backup", "snapshot"}) \ {"put", "delete"}

=============================================================================
