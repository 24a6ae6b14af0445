----------------------------- MODULE MCSledStore -----------------------------
(***************************************************************************)
(* Small instances of SledStore for TLC.                                   *)
(***************************************************************************)
EXTENDS SledStore, TLC

\* One thread calls everything, and no operation fails.
Alone(a) == [ops |-> [t \in Thread |-> IF t = a THEN OpName ELSE {}], fails |-> FALSE]

\* All threads write without TTLs, and operations fail at any point.
Plain == [ops |-> [t \in Thread |-> {"batch_write", "compare_and_swap", "commit"}],
          fails |-> TRUE]

\* Snapshots are taken while batches are written.
Copying == [ops |-> [t \in Thread |-> {"batch_write", "snapshot"}], fails |-> FALSE]

SomeWorkloads == {Alone(t) : t \in Thread} \cup {Plain, Copying}

Symmetry == Permutations(Thread)
=============================================================================
