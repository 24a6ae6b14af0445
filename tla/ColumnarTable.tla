---------------------------- MODULE ColumnarTable ----------------------------
(***************************************************************************)
(* ColumnarTable of oxistore-columnar: building a table, writing it as a   *)
(* Parquet file (at once or as a stream) and reading it back whole,        *)
(* projected, pruned by a predicate or adapted to another schema.          *)
(*                                                                         *)
(* A schema maps column names to types, a type is the sequence of its      *)
(* constructors, outermost first.  A batch is a sequence of rows, a row    *)
(* maps column names to cells.  A file is a schema and a sequence of row   *)
(* groups.                                                                 *)
(***************************************************************************)
EXTENDS RowGroupStats, Sequences, FiniteSets

LOCAL INSTANCE FiniteSetsExt
LOCAL INSTANCE SequencesExt

CONSTANTS Null,        \* the null cell
          Schema,      \* the schemas a table is built with
          Target,      \* the schemas a file is read with
          Cell(_),     \* the cells that are considered of a type
          Number,      \* the values predicates compare with
          GroupSize,   \* the values of WriterConfig's max_row_group_size
          BatchSize,   \* rows per batch the Parquet reader returns
          MaxBatches,  \* bound on the batches of a table
          MaxRows      \* bound on its rows

ASSUME TableAssumption ==
    /\ GroupSize \subseteq Nat \ {0} /\ BatchSize \in Nat \ {0} /\ MaxBatches \in Nat /\ MaxRows \in Nat
    /\ Number \subseteq Int
    /\ Null \notin Int /\ Null # NaN /\ Null # NegZero

VARIABLES
    phase,     \* "build", "stream", "file" or "read"
    table,     \* the table in memory
    streamed,  \* the batches a stream writer has taken
    file,      \* the bytes or the file that was written
    wrote,     \* the schema and the rows that were to be written
    query,     \* the read that was made
    result     \* its result

tableVars == <<phase, table, streamed, file, wrote, query, result>>

-----------------------------------------------------------------------------
(***************************************************************************)
(* Predicates.  A scalar is a type and a value.                            *)
(***************************************************************************)
IsFloat(type) == type \in {<<"f32">>, <<"f64">>}

Scalars == {[type |-> <<"null">>, value |-> 0]} \cup [type : {<<"f64">>}, value : {NaN, NegZero}]
           \cup [type : {<<"bool">>}, value : {0, 1}]
           \cup [type : {<<"i32">>, <<"i64">>, <<"f32">>, <<"f64">>, <<"utf8">>},
                 value : Number]

Leaf(columns) == [kind : {"Cmp"}, column : columns, op : CmpOp, value : Scalars]
\* The value of a row under a predicate: TRUE, FALSE or Null.  Arrow's and
\* and or are null as soon as one operand is.
RECURSIVE evaluate_batch(_, _)
evaluate_batch(p, row) ==
    CASE p.kind = "All"  -> TRUE
      [] p.kind = "None" -> FALSE
      [] p.kind = "Cmp"  -> IF row[p.column] = Null THEN Null
                            ELSE apply_cmp(p.op, row[p.column], p.value.value)
      [] p.kind = "Not"  -> LET m == evaluate_batch(p.pred, row)
                            IN  IF m = Null THEN Null ELSE ~m
      [] p.kind = "And"  -> LET m == {evaluate_batch(q, row) : q \in p.preds}
                            IN  IF Null \in m THEN Null ELSE FALSE \notin m
      [] p.kind = "Or"   -> LET m == {evaluate_batch(q, row) : q \in p.preds}
                            IN  IF Null \in m THEN Null ELSE TRUE \in m

RECURSIVE Leaves(_)
Leaves(p) ==
    CASE p.kind = "Cmp" -> {p}
      [] p.kind = "Not" -> Leaves(p.pred)
      [] p.kind \in {"And", "Or"} -> UNION {Leaves(q) : q \in p.preds}
      [] OTHER -> {}

\* The comparisons the row-level filter can make: on a column of the
\* batch, of the scalar's type, neither boolean nor null.
evaluate_cmp_column(p, schema) ==
    /\ p.column \in DOMAIN schema
    /\ schema[p.column] = p.value.type
    /\ p.value.type \in {<<"i32">>, <<"i64">>, <<"f32">>, <<"f64">>, <<"utf8">>}

\* What the Parquet writer keeps of a column chunk: NaN is left out.  It may
\* write a zero with either sign; no comparison with a statistic tells.
Statistics(group, column) ==
    LET cells == {Num(group[i][column]) : i \in DOMAIN group} \ {Null, NaN}
    IN  [none |-> cells = {},
         min |-> IF cells = {} THEN 0 ELSE Min(cells),
         max |-> IF cells = {} THEN 0 ELSE Max(cells),
         null_count |-> Cardinality({i \in DOMAIN group : group[i][column] = Null})]

evaluate_cmp(type, s, op, value) ==
    \/ s.none
    \/ value.type # type
    \/ LET v == value.value
       IN  CASE type = <<"bool">> -> apply_bool_op(op, s.min, s.max, v)
             [] type \in {<<"i32">>, <<"i64">>} ->
                    apply_ord_op(op, s.min, s.max, v, s.null_count)
             [] type = <<"f32">> -> apply_float_op_f32(op, s.min, s.max, v, s.null_count)
             [] type = <<"f64">> -> apply_float_op_f64(op, s.min, s.max, v, s.null_count)
             [] type = <<"utf8">> -> apply_bytes_op(op, s.min, s.max, v, s.null_count)
             [] OTHER -> TRUE

cmp_might_match(schema, group, p) ==
    \/ p.value.type = <<"null">>
    \/ p.column \notin DOMAIN schema
    \/ evaluate_cmp(schema[p.column], Statistics(group, p.column), p.op, p.value)

RECURSIVE row_group_might_match(_, _, _)
row_group_might_match(p, schema, group) ==
    CASE p.kind = "All"  -> TRUE
      [] p.kind = "None" -> FALSE
      [] p.kind = "Not"  -> TRUE
      [] p.kind = "And"  -> \A q \in p.preds : row_group_might_match(q, schema, group)
      [] p.kind = "Or"   -> \E q \in p.preds : row_group_might_match(q, schema, group)
      [] p.kind = "Cmp"  -> cmp_might_match(schema, group, p)

-----------------------------------------------------------------------------
(***************************************************************************)
(* Tables.                                                                 *)
(***************************************************************************)
EmptySchema == [c \in {} |-> <<>>]
NewTable(schema, oxia) == [schema |-> schema, batches |-> <<>>, oxia |-> oxia]
EmptyTable == NewTable(EmptySchema, FALSE)

RowsOf(batches) == FlattenSeq(batches)
RowSet(schema) == {r \in [DOMAIN schema -> UNION {Cell(schema[c]) : c \in DOMAIN schema}] :
                      \A c \in DOMAIN schema : r[c] \in Cell(schema[c])}

RestrictRow(row, columns) == [c \in columns |-> row[c]]
ProjectRows(rows, columns) == [i \in DOMAIN rows |-> RestrictRow(rows[i], columns)]

\* Names the schema does not have are ignored; without any left the result
\* is an empty table that has also lost its compression mode.
ProjectTable(t, columns) ==
    LET kept == columns \cap DOMAIN t.schema
    IN  IF kept = {} THEN EmptyTable
        ELSE [t EXCEPT !.schema = [c \in kept |-> t.schema[c]],
                       !.batches = [i \in DOMAIN @ |-> ProjectRows(@[i], kept)]]

\* Batches without rows left are dropped.
FilterRows(rows, p) == SelectSeq(rows, LAMBDA r : evaluate_batch(p, r) = TRUE)
FilterTable(t, p) ==
    [t EXCEPT !.batches = SelectSeq([i \in DOMAIN @ |-> FilterRows(@[i], p)],
                                    LAMBDA b : b # <<>>)]
FilterSucceeds(t, p) ==
    t.batches # <<>> => \A leaf \in Leaves(p) : evaluate_cmp_column(leaf, t.schema)

\* nulls_first, whichever the direction.
Sorted(rows, column, ascending) ==
    \A i \in 1..(Len(rows) - 1) :
        LET a == rows[i][column]
            b == rows[i + 1][column]
        IN  a # Null => b # Null /\ (IF ascending THEN ~Less(b, a) ELSE ~Less(a, b))

Reorderings(rows) == {[i \in DOMAIN rows |-> rows[f[i]]] : f \in Permutations(DOMAIN rows)}

-----------------------------------------------------------------------------
(***************************************************************************)
(* Files.                                                                  *)
(***************************************************************************)
check_datatype(type) == \A i \in DOMAIN type : type[i] # "union"
validate_schema_for_write(schema) == \A c \in DOMAIN schema : check_datatype(schema[c])

Chunks(rows, n) ==
    [i \in 1..((Len(rows) + n - 1) \div n) |->
        SubSeq(rows, (i - 1) * n + 1, Min({i * n, Len(rows)}))]

Parquet(schema, batches, n) ==
    [kind |-> "parquet", schema |-> schema, groups |-> Chunks(RowsOf(batches), n)]
NoFile == [kind |-> "none", schema |-> EmptySchema, groups |-> <<>>]
TornFile == [NoFile EXCEPT !.kind = "torn"]

\* A magic header and the deflated bytes.
compress_payload(f) == [f EXCEPT !.kind = "oxia"]
decompress_payload(f) == [f EXCEPT !.kind = "parquet"]

Decode(groups) == Chunks(RowsOf(groups), BatchSize)
Failure == [ok |-> FALSE, table |-> EmptyTable, num_rows |-> 0]
Success(schema, batches) ==
    [ok |-> TRUE, table |-> [schema |-> schema, batches |-> batches, oxia |-> FALSE],
     num_rows |-> 0]

\* Bytes that are neither torn nor compressed have a footer.
read_batches_from_bytes(f) ==
    IF f.kind # "parquet" THEN Failure ELSE Success(f.schema, Decode(f.groups))

read_from_bytes(f) ==
    read_batches_from_bytes(IF f.kind = "oxia" THEN decompress_payload(f) ELSE f)

\* The schema is taken from the first batch.
read_from(f) ==
    LET read == read_batches_from_bytes(f)
    IN  IF read.ok /\ read.table.batches = <<>> THEN [read EXCEPT !.table.schema = EmptySchema]
        ELSE read

read_metadata_from_bytes(f) ==
    IF f.kind \notin {"parquet", "oxia"} THEN Failure
    ELSE [Failure EXCEPT !.ok = TRUE, !.num_rows = Len(RowsOf(f.groups))]

\* The file's reader does not inflate.
read_metadata(f) == IF f.kind = "oxia" THEN Failure ELSE read_metadata_from_bytes(f)

Narrow(schema, columns) == [c \in DOMAIN schema \cap columns |-> schema[c]]
NarrowBatches(f, groups, columns) == 
    LET batches == Decode(groups)
    IN  [i \in DOMAIN batches |-> ProjectRows(batches[i], DOMAIN f.schema \cap columns)]

read_columns_from_bytes(f, columns) ==
    IF f.kind # "parquet" THEN Failure
    ELSE Success(Narrow(f.schema, columns), NarrowBatches(f, f.groups, columns))

Surviving(f, p) == SelectSeq(f.groups, LAMBDA g : row_group_might_match(p, f.schema, g))

read_with_predicate_from_bytes(f, p) ==
    IF f.kind # "parquet" THEN Failure ELSE Success(f.schema, Decode(Surviving(f, p)))

\* Mutant: only the first group that survives is read.
read_with_projection_and_predicate_first(f, columns, p) ==
    IF f.kind # "parquet" THEN Failure
    ELSE LET groups == Surviving(f, p)
             batches == NarrowBatches(f, SubSeq(groups, 1, Min({1, Len(groups)})), columns)
         IN  Success(IF batches = <<>> THEN EmptySchema ELSE Narrow(f.schema, columns), batches)

\* Without batches the result has no schema.
read_with_projection_and_predicate_from_bytes(f, columns, p) ==
    IF f.kind # "parquet" THEN Failure
    ELSE LET batches == NarrowBatches(f, Surviving(f, p), columns)
         IN  Success(IF batches = <<>> THEN EmptySchema ELSE Narrow(f.schema, columns), batches)

Adapt(rows, schema, target) ==
    [i \in DOMAIN rows |->
        [c \in DOMAIN target |-> IF c \in DOMAIN schema THEN rows[i][c] ELSE Null]]

read_with_schema_from_bytes(f, target) ==
    IF \/ f.kind # "parquet"
       \/ \E c \in DOMAIN target \cap DOMAIN f.schema : target[c] # f.schema[c]
    THEN Failure
    ELSE LET batches == Decode(f.groups)
         IN  Success(target, [i \in DOMAIN batches |-> Adapt(batches[i], f.schema, target)])

-----------------------------------------------------------------------------
(***************************************************************************)
(* The client: build a table, write it, read it.                           *)
(***************************************************************************)
NoPredicate == [kind |-> "All"]
NoQuery == [op |-> "none", pred |-> NoPredicate, columns |-> {}, target |-> EmptySchema]

NothingWritten == [schema |-> EmptySchema, rows |-> <<>>]

TableInit ==
    /\ phase = "build"
    /\ \E schema \in Schema, oxia \in BOOLEAN : table = NewTable(schema, oxia)
    /\ streamed = <<>>
    /\ file = NoFile
    /\ wrote = NothingWritten
    /\ query = NoQuery
    /\ result = Failure

Build(t) ==
    /\ phase = "build"
    /\ table' = t
    /\ UNCHANGED <<phase, streamed, file, wrote, query, result>>

Fits(batches) == Len(batches) <= MaxBatches /\ Len(RowsOf(batches)) <= MaxRows

\* push, or push_unchecked by a caller that has compared the schemas.
push(batch) ==
    LET batches == Append(table.batches, batch)
    IN  Fits(batches) /\ Build([table EXCEPT !.batches = batches])

\* With a clone.
merge ==
    LET batches == table.batches \o table.batches
    IN  Fits(batches) /\ Build([table EXCEPT !.batches = batches])

project(columns) == Build(ProjectTable(table, columns))
filter(p) == FilterSucceeds(table, p) /\ Build(FilterTable(table, p))

sort_by(column, ascending) ==
    /\ column \in DOMAIN table.schema
    /\ \E rows \in Reorderings(RowsOf(table.batches)) :
        /\ Sorted(rows, column, ascending)
        /\ Build([table EXCEPT !.batches = <<rows>>])

Written(f) ==
    /\ phase' = "file"
    /\ file' = f
    /\ wrote' = [schema |-> table.schema,
                 rows |-> RowsOf(IF phase = "stream" THEN streamed ELSE table.batches)]
    /\ table' = EmptyTable
    /\ streamed' = <<>>
    /\ UNCHANGED <<query, result>>

\* write_to_bytes and write_to_bytes_with_config; without a configuration
\* the row groups are larger than any table here.
write_to_bytes(n) ==
    /\ phase = "build"
    /\ validate_schema_for_write(table.schema)
    /\ LET f == Parquet(table.schema, table.batches, n)
       IN  Written(IF table.oxia THEN compress_payload(f) ELSE f)

\* write_to and write_to_with_config: never compressed.
write_to(n) ==
    /\ phase = "build"
    /\ validate_schema_for_write(table.schema)
    /\ Written(Parquet(table.schema, table.batches, n))

\* The file is created, and truncated, before anything is written.
write_to_fails ==
    /\ phase = "build"
    /\ validate_schema_for_write(table.schema)
    /\ Written(TornFile)

stream_new ==
    /\ phase = "build"
    /\ validate_schema_for_write(table.schema)
    /\ phase' = "stream"
    /\ UNCHANGED <<table, streamed, file, wrote, query, result>>

write_batch ==
    /\ phase = "stream"
    /\ table.batches # <<>>
    /\ streamed' = Append(streamed, Head(table.batches))
    /\ table' = [table EXCEPT !.batches = Tail(@)]
    /\ UNCHANGED <<phase, file, wrote, query, result>>

\* The client may finish before it has written every batch it has.
finish == phase = "stream" /\ \E n \in GroupSize : Written(Parquet(table.schema, streamed, n))

Read(q, r) ==
    /\ phase = "file"
    /\ phase' = "read"
    /\ query' = q
    /\ result' = r
    /\ UNCHANGED <<table, streamed, file, wrote>>

Columns == UNION {DOMAIN s : s \in Schema}
Plain(schema) ==
    {p \in Leaf(DOMAIN schema) : p.value.type \in {schema[p.column], <<"null">>}}

\* Every comparison, and some negations, conjunctions and disjunctions.
Predicates(schema) ==
    LET with(op) == {p \in Plain(schema) : p.op = op /\ p.value.type # <<"null">>}
    IN  {[kind |-> "All"], [kind |-> "None"]}
        \cup Plain(schema)
        \cup {[kind |-> "Not", pred |-> p] : p \in with("Eq")}
        \cup {[kind |-> k, preds |-> {p, q}] : k \in {"And", "Or"},
                  p \in {x \in with("Ne") : x.column = "x"},
                  q \in {x \in with("Gt") : x.column # "x"}}

ReadWhole ==
    \/ Read([NoQuery EXCEPT !.op = "read_from_bytes"], read_from_bytes(file))
    \/ Read([NoQuery EXCEPT !.op = "read_from"], read_from(file))
    \/ Read([NoQuery EXCEPT !.op = "stream_reader"], read_batches_from_bytes(file))
    \/ Read([NoQuery EXCEPT !.op = "metadata_from_bytes"], read_metadata_from_bytes(file))
    \/ Read([NoQuery EXCEPT !.op = "metadata"], read_metadata(file))

ReadPart ==
    \/ \E cs \in SUBSET Columns :
        Read([NoQuery EXCEPT !.op = "read_columns", !.columns = cs],
             read_columns_from_bytes(file, cs))
    \/ \E p \in Predicates(wrote.schema) :
        Read([NoQuery EXCEPT !.op = "read_with_predicate", !.pred = p],
             read_with_predicate_from_bytes(file, p))
    \/ \E cs \in SUBSET Columns, p \in {x \in Plain(wrote.schema) : x.op = "Le"} :
        Read([NoQuery EXCEPT !.op = "both", !.columns = cs, !.pred = p],
             read_with_projection_and_predicate_from_bytes(file, cs, p))
    \/ \E t \in Target :
        Read([NoQuery EXCEPT !.op = "read_with_schema", !.target = t],
             read_with_schema_from_bytes(file, t))

\* The client goes on to another table.
DropTable ==
    /\ phase = "read"
    /\ phase' = "build"
    /\ \E schema \in Schema, oxia \in BOOLEAN : table' = NewTable(schema, oxia)
    /\ file' = NoFile
    /\ wrote' = NothingWritten
    /\ query' = NoQuery
    /\ result' = Failure
    /\ UNCHANGED streamed

TableNext ==
    \/ \E b \in {<<>>} \cup {<<r>> : r \in RowSet(table.schema)} : push(b)
    \/ merge
    \/ \E cs \in SUBSET Columns : project(cs)
    \/ \E p \in Plain(table.schema) : filter(p)
    \/ \E c \in Columns, asc \in BOOLEAN : sort_by(c, asc)
    \/ \E n \in GroupSize : write_to_bytes(n) \/ write_to(n)
    \/ write_to_fails \/ stream_new \/ write_batch \/ finish
    \/ ReadWhole \/ ReadPart \/ DropTable

-----------------------------------------------------------------------------
(***************************************************************************)
(* Properties.                                                             *)
(***************************************************************************)
Conforms(t) ==
    \A i \in DOMAIN t.batches : \A j \in DOMAIN t.batches[i] :
        DOMAIN t.batches[i][j] = DOMAIN t.schema

\* Every variable has its shape: the rows of every table have the columns of
\* its schema, the result of a read included.
TableTypeOK ==
    /\ phase \in {"build", "stream", "file", "read"}
    /\ Conforms(table) /\ Conforms(result.table)
    /\ file.kind \in {"none", "parquet", "oxia", "torn"}
    /\ \A i \in DOMAIN file.groups : file.groups[i] # <<>>

Answered(ops) == phase = "read" /\ query.op \in ops /\ result.ok

\* What was written is what is read, compressed or not, at once or as a
\* stream, however it was cut into row groups: the same rows in the same
\* order under the same schema (which read_from forgets without rows).
RoundTrip ==
    /\ (phase = "read" /\ query.op \in {"read_from_bytes", "metadata_from_bytes"}
          /\ file.kind # "torn") => result.ok
    /\ Answered({"metadata_from_bytes", "metadata"}) => result.num_rows = Len(wrote.rows)
    /\ Answered({"read_from_bytes", "read_from", "stream_reader"}) =>
        /\ RowsOf(result.table.batches) = wrote.rows
        /\ \/ result.table.schema = wrote.schema
           \/ query.op = "read_from" /\ wrote.rows = <<>>

\* The three ways in which float statistics prove too much: for Ne, distinct
\* floats closer than EPSILON count as equal; for Lt and Gt, so do -0.0 and 0.0,
\* which the kernels tell apart; and NaN, which the kernels put above every
\* number, is not in the statistics.
FloatCase(p) ==
    \E leaf \in Leaves(p), i \in DOMAIN wrote.rows :
        /\ leaf.column \in DOMAIN wrote.schema
        /\ IsFloat(wrote.schema[leaf.column])
        /\ LET cell == wrote.rows[i][leaf.column]
               v == leaf.value.value
           IN  \/ cell = NaN
               \/ /\ leaf.op = "Ne" /\ Null \notin {cell, v} /\ v # NaN
                  /\ cell # v /\ Close(cell, v)
               \/ leaf.op \in {"Lt", "Gt"} /\ {cell, v} = {NegZero, 0}

Typed(p) == \A leaf \in Leaves(p) : wrote.schema[leaf.column] = leaf.value.type

\* Row groups are skipped only if statistics prove that no row matches: the
\* rows that satisfy the predicate are the same in the pruned read and in
\* the whole table.
PruningSound ==
    (Answered({"read_with_predicate"}) /\ Typed(query.pred) /\ ~FloatCase(query.pred)) =>
        FilterRows(RowsOf(result.table.batches), query.pred) =
        FilterRows(wrote.rows, query.pred)

\* Projecting at the source is projecting what would have been read: alone,
\* and together with pruning.
ProjectionAgrees ==
    /\ Answered({"read_columns"}) =>
        RowsOf(result.table.batches) =
            ProjectRows(wrote.rows, query.columns \cap DOMAIN wrote.schema)
    /\ Answered({"both"}) =>
        RowsOf(result.table.batches) =
            ProjectRows(RowsOf(read_with_predicate_from_bytes(file, query.pred).table.batches),
                        query.columns \cap DOMAIN wrote.schema)

\* A file read under another schema has no row more or less, keeps the cells
\* of the shared columns, and never passes a cell of one type as another.
EvolutionKeepsCells ==
    Answered({"read_with_schema"}) =>
        LET rows == RowsOf(result.table.batches)
            shared == DOMAIN wrote.schema \cap DOMAIN query.target
        IN  /\ result.table.schema = query.target
            /\ ProjectRows(rows, shared) = ProjectRows(wrote.rows, shared)
            /\ \A i \in DOMAIN rows, c \in DOMAIN query.target :
                  rows[i][c] \in Cell(query.target[c]) \cup {Null}
=============================================================================
