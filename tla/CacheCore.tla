----------------------------- MODULE CacheCore -----------------------------
(***************************************************************************)
(* What the four eviction policies of oxistore-cache share: an entry with  *)
(* an optional deadline (`CacheEntry`, lib.rs) and the ordered map they    *)
(* are built from (hashlink's `LinkedHashMap`: front = least recently      *)
(* used, back = most recently used; inserting a key again moves it to the  *)
(* back).  A map is kept as the sequence of its keys; the entries of a     *)
(* cache are one function, because a key carries its entry along when it   *)
(* moves from one list of a policy to another.                             *)
(***************************************************************************)
EXTENDS Integers, SequencesExt

CONSTANTS
    Key,        \* cached keys
    Val,        \* cached values
    None        \* no value, no entry, no deadline

ASSUME CacheConstants == None \notin Key \cup Val

Entry == [val : Val, exp : Nat \cup {None}]

NoEntries == [k \in Key |-> None]

\* `CacheEntry::is_expired`: the deadline itself counts as expired.
is_expired(e, now) == e.exp # None /\ now >= e.exp

Holds(s, k) == k \in ToSet(s)

\* `LinkedHashMap::remove`, and `insert` (or `to_back`), on the key order.  A
\* key is in a map at most once.
Without(s, k) == IF Holds(s, k) THEN RemoveAt(s, CHOOSE i \in DOMAIN s : s[i] = k) ELSE s
ToBack(s, k)  == Append(Without(s, k), k)
=============================================================================
