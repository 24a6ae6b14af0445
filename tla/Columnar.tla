------------------------------ MODULE Columnar -------------------------------
(***************************************************************************)
(* The two ways to use oxistore-columnar: a client works with tables and   *)
(* files of its own, or with a partitioned dataset.                        *)
(***************************************************************************)
EXTENDS ColumnarTable, PartitionedDataset

VARIABLE client   \* "table" or "dataset"

vars == <<client, tableVars, datasetVars>>

\* The state of the other one is fixed.
Init ==
    /\ client \in {"table", "dataset"}
    /\ TableInit
    /\ DatasetInit
    /\ client = "table" => width = 1
    /\ client = "dataset" => table = NewTable(CHOOSE s \in Schema : TRUE, FALSE)

Next ==
    \/ client = "table" /\ TableNext /\ UNCHANGED <<client, datasetVars>>
    \/ client = "dataset" /\ DatasetNext /\ UNCHANGED <<client, tableVars>>

Spec == Init /\ [][Next]_vars

-----------------------------------------------------------------------------
\* Whatever way a table is read, it is well formed and agrees with what was
\* written.
TableReadsRight == TableTypeOK /\ RoundTrip /\ ProjectionAgrees /\ EvolutionKeepsCells

\* A dataset reads as it was written, and honestly while it is being written
\* and after a crash.
DatasetReadsRight == ReadsWhatWasWritten /\ ReadsAreHonest
=============================================================================
