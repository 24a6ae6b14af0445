---------------------------- MODULE RowGroupStats ----------------------------
(***************************************************************************)
(* The leaf comparisons of oxistore-columnar's predicates: against a cell, *)
(* and against the minimum, the maximum and the null count a Parquet row   *)
(* group keeps of a column.                                                *)
(*                                                                         *)
(* Values are integers for every type: FALSE and TRUE are 0 and 1, a       *)
(* string is its place in the order, a float is a multiple of half the     *)
(* type's EPSILON, so that distinct floats may be closer than EPSILON.     *)
(* The float -0.0 is a value of its own: Arrow's kernels order floats as   *)
(* IEEE 754's totalOrder does, Rust's comparison operators, on the         *)
(* statistics, do not tell the zeros apart.                                *)
(***************************************************************************)
EXTENDS Integers

CONSTANTS NaN,      \* a float that is not a number
          NegZero   \* -0.0

ASSUME FloatAssumption == NaN \notin Int /\ NegZero \notin Int /\ NaN # NegZero

CmpOp == {"Eq", "Ne", "Lt", "Le", "Gt", "Ge"}

\* EPSILON, in the unit of float values.
Epsilon == 2
Abs(n) == IF n < 0 THEN -n ELSE n

\* A float as Rust's operators compare it and subtract from it.
Num(a) == IF a = NegZero THEN 0 ELSE a

Close(a, b) == Abs(Num(a) - Num(b)) < Epsilon

\* The order of Arrow's comparison kernels: NaN is equal to itself and
\* greater than every number, -0.0 is less than 0.0.
Less(a, b) == a # NaN /\ (b = NaN \/ Num(a) < Num(b) \/ (a = NegZero /\ b = 0))

\* A row-level comparison of a cell that is not null.
apply_cmp(op, cell, v) ==
    CASE op = "Eq" -> cell = v
      [] op = "Ne" -> cell # v
      [] op = "Lt" -> Less(cell, v)
      [] op = "Le" -> ~Less(v, cell)
      [] op = "Gt" -> Less(v, cell)
      [] op = "Ge" -> ~Less(cell, v)

\* Mutant: strictly between.
apply_ord_op_strict(op, min, max, v, null_count) ==
    CASE op = "Eq" -> min <= v /\ v <= max
      [] op = "Ne" -> ~(min = v /\ max = v /\ null_count = 0)
      [] op = "Lt" -> min < v
      [] op = "Le" -> min < v
      [] op = "Gt" -> max > v
      [] op = "Ge" -> max > v

\* May a row group with these statistics hold a cell that compares so with v?
apply_ord_op(op, min, max, v, null_count) ==
    CASE op = "Eq" -> min <= v /\ v <= max
      [] op = "Ne" -> ~(min = v /\ max = v /\ null_count = 0)
      [] op = "Lt" -> min < v
      [] op = "Le" -> min <= v
      [] op = "Gt" -> max > v
      [] op = "Ge" -> max >= v

apply_bytes_op(op, min, max, v, null_count) == apply_ord_op(op, min, max, v, null_count)

apply_bool_op(op, min, max, v) ==
    CASE op = "Eq" -> (min = 0 \/ v = 1) /\ (v = 0 \/ max = 1)
      [] op = "Ne" -> TRUE
      [] op = "Lt" -> min = 0 /\ v = 1
      [] op = "Le" -> min = 0 \/ v = 1
      [] op = "Gt" -> max = 1 /\ v = 0
      [] op = "Ge" -> max = 1 \/ v = 0

apply_float_op_f32(op, min, max, v, null_count) ==
    \/ v = NaN
    \/ IF op = "Ne"
       THEN ~(Close(min, v) /\ Close(max, v) /\ null_count = 0)
       ELSE apply_ord_op(op, Num(min), Num(max), Num(v), null_count)

apply_float_op_f64(op, min, max, v, null_count) ==
    \/ v = NaN
    \/ IF op = "Ne"
       THEN ~(Close(min, v) /\ Close(max, v) /\ null_count = 0)
       ELSE apply_ord_op(op, Num(min), Num(max), Num(v), null_count)
=============================================================================
