------------------------------ MODULE MCBlobs --------------------------------
(***************************************************************************)
(* Two tasks on two keys with the same temporary file, two values of one   *)
(* and two blocks and a memory store that holds one of each; two clients   *)
(* of a service with two keys and pages of one.                            *)
(***************************************************************************)
EXTENDS Blobs, TLC

K(s, e) == [stem |-> s, ext |-> e]
CONSTANTS doc, short, long
SomeKeys == {K(doc, "json"), K(doc, "txt")}
Keys == <<K(short, NoExt), K(long, NoExt), K(doc, "json"), K(doc, "txt")>>
Paths == <<K(doc, "txt"), K(long, NoExt), K(doc, "tmp"), K(doc, "json"), K(short, "tmp"), K(short, NoExt), K(long, "tmp")>>
SomePrefixes == {Key, SomeKeys}
Empty == [k \in Key |-> Absent]
SomeStocks == {Empty, [Empty EXCEPT ![K(doc, "txt")] = short],
               [Empty EXCEPT ![K(doc, "txt")] = long, ![K(short, NoExt)] = short]}
SizeOf(val) == IF val = short THEN 1 ELSE 2

CONSTANTS k1, k2
SomeNames == <<k1, k2>>
CONSTANTS x, y
SomeObjects == {[k \in {k1, k2} |-> IF k = k1 THEN Missing ELSE <<x>>]}
SomeFaults(s) == IF s = "gcs" THEN 1 ELSE 2

Symmetry == Permutations(Task) \cup Permutations(Client)
=============================================================================
