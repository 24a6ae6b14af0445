----------------------------- MODULE MCColumnar ------------------------------
(***************************************************************************)
(* Tables with a column x of each type predicates distinguish and a        *)
(* boolean column y, and one with a type Parquet cannot store; datasets    *)
(* with one and with two partition columns.                                *)
(***************************************************************************)
EXTENDS Columnar

Columns2(tx, ty) == [c \in {"x", "y"} |-> IF c = "x" THEN tx ELSE ty]
SomeSchemas ==
    {Columns2(<<t>>, <<"bool">>) : t \in {"i32", "i64", "f32", "f64", "utf8"}}
    \cup {Columns2(<<"i32">>, <<"list", "union">>)}
SomeTargets ==
    {Columns2(<<"i32">>, <<"bool">>), Columns2(<<"f64">>, <<"bool">>),
     [c \in {"y", "z"} |-> <<"bool">>]}

SomeCells(type) ==
    CASE type = <<"f64">> -> {Null, NegZero, 0, 1, NaN}
      [] type = <<"i32">> -> {Null, 0, 2}
      [] OTHER -> {0, 1}

SomeValues(i) == IF i = 1 THEN {NullValue, <<Slash>>, <<Underscore>>} ELSE {<<>>, <<Tab, Letter>>}
=============================================================================
