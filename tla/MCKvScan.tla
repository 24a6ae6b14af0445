------------------------------ MODULE MCKvScan -------------------------------
(***************************************************************************)
(* Three keys over the bytes 0 and 1: one a prefix of another, one whose   *)
(* bytes are all the largest.                                              *)
(***************************************************************************)
EXTENDS KvScan

InByteOrder == <<<<0>>, <<0, 1>>, <<1>>>>
ThreeKeys == {InByteOrder[i] : i \in DOMAIN InByteOrder}
=============================================================================
