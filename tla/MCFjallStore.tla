---------------------------- MODULE MCFjallStore -----------------------------
(***************************************************************************)
(* Small instances of FjallStore for TLC.                                  *)
(***************************************************************************)
EXTENDS FjallStore

CONSTANT t1

\* One thread calls everything.
Alone == [t \in Thread |-> IF t = t1 THEN OpName \cup {"snapshot"} ELSE {}]

\* All threads write, through transactions only.
Transactions == [t \in Thread |-> {"compare_and_swap", "transaction"}]

SomeWorkloads == {Alone, Transactions}
=============================================================================
