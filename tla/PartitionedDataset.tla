------------------------- MODULE PartitionedDataset --------------------------
(***************************************************************************)
(* PartitionedDataset of oxistore-columnar: rows grouped by the values of  *)
(* the partition columns, one file per group, and a manifest that lists    *)
(* the files.  A write replaces files one by one and then the manifest,    *)
(* line by line; the process may die anywhere.                             *)
(*                                                                         *)
(* A partition value is a string, a sequence of characters; a row is its   *)
(* values (perhaps null) and an identity.                                  *)
(***************************************************************************)
EXTENDS ByteOrder, FiniteSets

CONSTANTS Tab, Slash, Underscore, Letter,  \* the characters considered
          NullValue,   \* a null cell in a partition column
          PartValue(_), \* the values rows have in the i-th partition column
          RowId,       \* identities of rows
          Width,       \* the possible numbers of partition columns
          MaxJobs      \* bound on the calls of write_partitioned

ASSUME DatasetAssumption ==
    /\ {Tab, Slash, Underscore, Letter} \subseteq Nat
    /\ \A v \in PartValue(1) \cup PartValue(2) :
          v = NullValue \/ v \in Seq({Tab, Slash, Underscore, Letter})
    /\ Width \subseteq {1, 2} /\ MaxJobs \in Nat

VARIABLES
    width,     \* the number of partition columns
    files,     \* the Parquet files: a function from relative paths
    manifest,  \* manifest.tsv
    job,       \* the call of write_partitioned under way
    jobs,      \* the calls made so far
    stored,    \* the rows of the last call that returned
    intact,    \* has no call failed since?
    seen       \* the groups of all calls

datasetVars == <<width, files, manifest, job, jobs, stored, intact, seen>>

-----------------------------------------------------------------------------
(***************************************************************************)
(* Values, paths and rows.                                                 *)
(***************************************************************************)
\* The other characters stay as they are.
UnsafeChar == {Tab, Slash}

encode_partition_value(value) ==
    [i \in DOMAIN value |-> IF value[i] \in UnsafeChar THEN Underscore ELSE value[i]]

\* StringArray::value of a null cell is the empty string.
ValueOf(cell) == IF cell = NullValue THEN <<>> ELSE cell

Cells(n) ==
    {c \in [1..n -> UNION {PartValue(i) : i \in 1..n}] : \A i \in 1..n : c[i] \in PartValue(i)}
TupleOf(row) == [i \in DOMAIN row.cells |-> ValueOf(row.cells[i])]
PathOf(tuple) == [i \in DOMAIN tuple |-> encode_partition_value(tuple[i])]

\* What a caller may write: some rows, each of its own identity.
Batches ==
    UNION {{{[id |-> i, cells |-> cells[i]] : i \in ids} : cells \in [ids -> Cells(width)]} :
              ids \in SUBSET RowId \ {{}}}

Groups(rows) == {TupleOf(r) : r \in rows}
GroupRows(rows, tuple) == {r \in rows : TupleOf(r) = tuple}

NoContent == {}
\* A file that was created and not finished.
TornFileMark == [torn |-> TRUE, rows |-> NoContent]
FileOf(rows) == [torn |-> FALSE, rows |-> rows]

\* One line: the values, joined by tabs, the path and the row count.
Entry(rows, tuple) ==
    [values |-> tuple, path |-> PathOf(tuple), row_count |-> Cardinality(GroupRows(rows, tuple))]

\* header: are the heading lines written; partial: does it end inside a line.
NoManifest == [exists |-> FALSE, header |-> FALSE, lines |-> <<>>, partial |-> FALSE]

Idle == [phase |-> "idle", rows |-> {}, todo |-> {}, current |-> <<>>, entries |-> <<>>]

DatasetInit ==
    /\ width \in Width
    /\ files = <<>>
    /\ manifest = NoManifest
    /\ job = Idle
    /\ jobs = 0
    /\ stored = {}
    /\ intact = TRUE
    /\ seen = {}

-----------------------------------------------------------------------------
(***************************************************************************)
(* write_partitioned.                                                      *)
(***************************************************************************)
\* Group the rows; a schema without the partition columns fails here, before
\* anything is written.
write_partitioned(rows) ==
    /\ job.phase = "idle"
    /\ jobs < MaxJobs
    /\ jobs' = jobs + 1
    /\ job' = [Idle EXCEPT !.phase = "files", !.rows = rows, !.todo = Groups(rows)]
    /\ intact' = FALSE
    /\ seen' = seen \cup Groups(rows)
    /\ UNCHANGED <<width, files, manifest, stored>>

PutFile(path, content) ==
    files' = [p \in DOMAIN files \cup {path} |-> IF p = path THEN content ELSE files[p]]

\* Creating the file truncates it.  A HashMap is iterated in any order.
CreateGroupFile(tuple) ==
    /\ job.phase = "files"
    /\ tuple \in job.todo
    /\ PutFile(PathOf(tuple), TornFileMark)
    /\ job' = [job EXCEPT !.phase = "file", !.current = tuple, !.todo = @ \ {tuple}]
    /\ UNCHANGED <<width, manifest, jobs, stored, intact, seen>>

write_group_to_file ==
    /\ job.phase = "file"
    /\ PutFile(PathOf(job.current), FileOf(GroupRows(job.rows, job.current)))
    /\ job' = [job EXCEPT !.phase = "files", !.current = <<>>,
                          !.entries = Append(@, Entry(job.rows, job.current))]
    /\ UNCHANGED <<width, manifest, jobs, stored, intact, seen>>

CreateManifest ==
    /\ job.phase = "files"
    /\ job.todo = {}
    /\ manifest' = [NoManifest EXCEPT !.exists = TRUE]
    /\ job' = [job EXCEPT !.phase = "manifest"]
    /\ UNCHANGED <<width, files, jobs, stored, intact, seen>>

WriteHeader ==
    /\ job.phase = "manifest"
    /\ ~manifest.header
    /\ manifest' = [manifest EXCEPT !.header = TRUE]
    /\ UNCHANGED <<width, files, job, jobs, stored, intact, seen>>

WriteLine ==
    /\ job.phase = "manifest"
    /\ manifest.header
    /\ job.entries # <<>>
    /\ manifest' = [manifest EXCEPT !.lines = Append(@, Head(job.entries))]
    /\ job' = [job EXCEPT !.entries = Tail(@)]
    /\ UNCHANGED <<width, files, jobs, stored, intact, seen>>

\* Mutant: the last line may be missing.
FinishWriteEarly ==
    /\ job.phase = "manifest"
    /\ manifest.header
    /\ Len(job.entries) <= 1
    /\ stored' = job.rows
    /\ intact' = TRUE
    /\ job' = Idle
    /\ UNCHANGED <<width, files, manifest, jobs, seen>>

FinishWrite ==
    /\ job.phase = "manifest"
    /\ manifest.header
    /\ job.entries = <<>>
    /\ stored' = job.rows
    /\ intact' = TRUE
    /\ job' = Idle
    /\ UNCHANGED <<width, files, manifest, jobs, seen>>

\* What is left of a row count when its last digits are cut off.
LeadingDigits(n) == {n \div 10^i : i \in 0..n} \ {0}

\* The process dies, or a filesystem call fails and the error is returned; a
\* line may be cut short, and one that keeps a digit of its row count parses.
\* (A cut heading fails to parse or reads as one without lines.)
Crash ==
    /\ job.phase # "idle"
    /\ \/ UNCHANGED manifest
       \/ /\ job.phase = "manifest" /\ manifest.header /\ job.entries # <<>>
          /\ \/ manifest' = [manifest EXCEPT !.partial = TRUE]
             \/ \E n \in LeadingDigits(Head(job.entries).row_count) :
                   manifest' = [manifest EXCEPT !.lines =
                                   Append(@, [Head(job.entries) EXCEPT !.row_count = n])]
    /\ job' = Idle
    /\ UNCHANGED <<width, files, jobs, stored, intact, seen>>

-----------------------------------------------------------------------------
(***************************************************************************)
(* read_partitioned.                                                       *)
(***************************************************************************)
\* A tab in a value moves the later fields of its line by one, so that the
\* row count is not a number.
Parses(line) ==
    \A i \in DOMAIN line.values : \A j \in DOMAIN line.values[i] : line.values[i][j] # Tab

read_manifest_ok ==
    /\ manifest.exists
    /\ manifest.header
    /\ ~manifest.partial
    /\ \A i \in DOMAIN manifest.lines : Parses(manifest.lines[i])

\* Eq, In, and Range over [lo, hi).
matches_single(p, value) ==
    CASE p.kind = "Eq"    -> value = p.value
      [] p.kind = "In"    -> value \in p.values
      [] p.kind = "Range" -> ~Before(value, p.lo) /\ Before(value, p.hi)

\* A column the manifest does not have matches nothing.
matches_multi(p, values) ==
    IF p.kind = "And"
    THEN \A c \in DOMAIN p.on : c \in DOMAIN values /\ matches_single(p.on[c], values[c])
    ELSE matches_single(p, values[1])

AllPartitions == [kind |-> "all"]
Chosen(p) ==
    {i \in DOMAIN manifest.lines : p = AllPartitions \/ matches_multi(p, manifest.lines[i].values)}

read_partitioned_ok(p) ==
    /\ read_manifest_ok
    /\ \A i \in Chosen(p) : manifest.lines[i].path \in DOMAIN files /\ ~files[manifest.lines[i].path].torn

\* The rows with the lines that returned them.
read_partitioned(p) ==
    UNION {{i} \X files[manifest.lines[i].path].rows : i \in Chosen(p)}

-----------------------------------------------------------------------------
DatasetNext ==
    \/ \E rows \in Batches : write_partitioned(rows)
    \/ \E tuple \in job.todo : CreateGroupFile(tuple)
    \/ write_group_to_file \/ CreateManifest \/ WriteHeader \/ WriteLine \/ FinishWrite \/ Crash

-----------------------------------------------------------------------------
(***************************************************************************)
(* Properties.                                                             *)
(***************************************************************************)
\* The predicates considered.
Texts == {ValueOf(v) : v \in PartValue(1) \cup PartValue(2)}
SinglePredicates ==
    [kind : {"Eq"}, value : Texts] \cup [kind : {"In"}, values : SUBSET Texts]
    \cup [kind : {"Range"}, lo : Texts, hi : Texts]
PartPredicates ==
    {AllPartitions} \cup SinglePredicates
    \cup {[kind |-> "And", on |-> <<[kind |-> "Eq", value |-> v], [kind |-> "Eq", value |-> w]>>] :
             v, w \in Texts}

\* What a predicate is to select.
Selects(p, row) ==
    CASE p.kind = "all" -> TRUE
      [] p.kind = "And" -> Len(row.cells) = 2 /\ \A c \in 1..2 : matches_single(p.on[c], TupleOf(row)[c])
      [] OTHER -> matches_single(p, TupleOf(row)[1])

\* Do two groups share a directory?
Collide(groups) == \E s, t \in groups : s # t /\ PathOf(s) = PathOf(t)
Readable(rows) == \A t \in Groups(rows) : Parses([values |-> t])

\* After a call that returned, a read with any predicate returns the rows it
\* selects, each once, provided no two groups share a directory and no value
\* breaks the manifest; whatever files earlier calls have left behind.
ReadsWhatWasWritten ==
    (job.phase = "idle" /\ intact /\ jobs > 0 /\ ~Collide(Groups(stored)) /\ Readable(stored)) =>
        \A p \in PartPredicates :
            /\ read_partitioned_ok(p)
            /\ {x[2] : x \in read_partitioned(p)} = {r \in stored : Selects(p, r)}
            /\ Cardinality(read_partitioned(p)) = Cardinality({r \in stored : Selects(p, r)})

\* Each combination of values gets a file of its own: after a call that
\* returned, every row is read back once.
EveryPartitionKept ==
    (job.phase = "idle" /\ intact /\ jobs > 0 /\ Readable(stored)) =>
        /\ {x[2] : x \in read_partitioned(AllPartitions)} = stored
        /\ Cardinality(read_partitioned(AllPartitions)) = Cardinality(stored)

\* At any moment of a call, and after a crash, a read fails or returns rows
\* that satisfy the predicate, no row twice; unless two groups, perhaps of
\* different calls, share a directory.
ReadsAreHonest ==
    ~Collide(seen) => \A p \in PartPredicates : read_partitioned_ok(p) =>
        \A x, y \in read_partitioned(p) : Selects(p, x[2]) /\ (x[2] = y[2] => x = y)
=============================================================================
