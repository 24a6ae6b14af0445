------------------------------- MODULE KvCore -------------------------------
(***************************************************************************)
(* What the three key-value backends (redb, sled, fjall) have in common.   *)
(*                                                                         *)
(* Every backend keeps two maps: the primary data and a TTL "sidecar"      *)
(* holding one expiry instant per key.  A key is visible when its data is  *)
(* present and its sidecar entry, if any, has not elapsed.  Keys and       *)
(* values are opaque; time is a natural number of clock ticks.             *)
(***************************************************************************)
EXTENDS Integers, FiniteSets

CONSTANTS Key,      \* the keys clients use
          Value,    \* the values clients store
          Absent    \* no value under a key

ASSUME AbsentAssumption == Absent \notin Value

MaybeValue == Value \cup {Absent}

\* No entry in the TTL sidecar.
NoExpiry == -1
Expiry == Nat \cup {NoExpiry}

\* The primary map and its TTL sidecar.
Tables == [data : [Key -> MaybeValue], ttl : [Key -> Expiry]]

EmptyTables == [data |-> [k \in Key |-> Absent],
                ttl  |-> [k \in Key |-> NoExpiry]]

\* An entry is expired when the current time equals or exceeds its instant.
is_expired(exp, time) == exp # NoExpiry /\ exp <= time

\* What get returns for each key: expired keys are treated as absent.
Visible(tb, time) ==
    [k \in Key |-> IF is_expired(tb.ttl[k], time) THEN Absent ELSE tb.data[k]]

ExpiredKeys(tb, time) == {k \in Key : is_expired(tb.ttl[k], time)}

PresentKeys(tb) == {k \in Key : tb.data[k] # Absent}

\* Overwrite the data, respectively the sidecar entry, of a set of keys.
SetData(tb, keys, pairs) ==
    [tb EXCEPT !.data = [k \in Key |-> IF k \in keys THEN pairs[k] ELSE tb.data[k]]]

SetTtl(tb, keys, exp) ==
    [tb EXCEPT !.ttl = [k \in Key |-> IF k \in keys THEN exp ELSE tb.ttl[k]]]

NoPairs == [k \in Key |-> Absent]

\* Insert pairs, each with the same expiry; remove keys from both maps.
Insert(tb, keys, pairs, exp) == SetTtl(SetData(tb, keys, pairs), keys, exp)
Remove(tb, keys) == Insert(tb, keys, NoPairs, NoExpiry)

\* compare_and_swap's test: get gives `old`, Absent for an expired key, at some
\* instant of a call that began at since.
CasMatches(tb, k, old, since, time) ==
    \E instant \in since .. time : Visible(tb, instant)[k] = old
=============================================================================
