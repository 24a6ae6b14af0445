------------------------------ MODULE ScanProofs -----------------------------
(***************************************************************************)
(* Proofs about scans, for any keys, values, bounds and prefixes. First    *)
(* the byte order: the bounds computed from a prefix select exactly the    *)
(* keys that have it. Then the scans of stores, transactions and snapshots *)
(* under a concurrent writer. Last the pruning of a columnar scan:         *)
(* statistics never prove too much about integers, strings and booleans,   *)
(* nor about floats but for near-equal ones under Ne and zeros of opposite *)
(* signs under Lt and Gt.                                                  *)
(***************************************************************************)
EXTENDS KvScan, RowGroupStats, FiniteSetTheorems, NaturalsInduction,
        WellFoundedInduction, TLAPS

(***************************************************************************)
(* The data and TTL tables.                                                *)
(***************************************************************************)
\* The empty tables, the empty map and the absent expiry have their types.
LEMMA CoreTypes ==
    /\ EmptyTables \in Tables
    /\ NoPairs \in [Key -> MaybeValue]
    /\ NoExpiry \in Expiry
    /\ Absent \in MaybeValue
    /\ \A v \in Value : v \in MaybeValue
  BY DEF EmptyTables, Tables, NoPairs, MaybeValue, NoExpiry, Expiry

\* Writing pairs to the data table yields tables again.
LEMMA SetDataType ==
    ASSUME NEW tabs \in Tables, NEW keys \in SUBSET Key, NEW pairs \in [Key -> MaybeValue]
    PROVE  SetData(tabs, keys, pairs) \in Tables
  BY DEF SetData, Tables

\* Writing an expiry to the TTL table yields tables again.
LEMMA SetTtlType ==
    ASSUME NEW tabs \in Tables, NEW keys \in SUBSET Key, NEW exp \in Expiry
    PROVE  SetTtl(tabs, keys, exp) \in Tables
  BY DEF SetTtl, Tables

\* So do the combined writes of one transaction.
LEMMA InsertType ==
    ASSUME NEW tabs \in Tables, NEW keys \in SUBSET Key, NEW pairs \in [Key -> MaybeValue],
           NEW exp \in Expiry
    PROVE  /\ Insert(tabs, keys, pairs, exp) \in Tables
           /\ Remove(tabs, keys) \in Tables
  BY SetDataType, SetTtlType, CoreTypes DEF Insert, Remove

\* The value and the expiry of a key after a write to the data table.
LEMMA SetDataAt ==
    ASSUME NEW tabs \in Tables, NEW keys, NEW pairs, NEW k \in Key
    PROVE  /\ SetData(tabs, keys, pairs).data[k] = IF k \in keys THEN pairs[k] ELSE tabs.data[k]
           /\ SetData(tabs, keys, pairs).ttl[k] = tabs.ttl[k]
  BY DEF SetData, Tables

\* The same after a write to the TTL table.
LEMMA SetTtlAt ==
    ASSUME NEW tabs \in Tables, NEW keys, NEW exp, NEW k \in Key
    PROVE  /\ SetTtl(tabs, keys, exp).ttl[k] = IF k \in keys THEN exp ELSE tabs.ttl[k]
           /\ SetTtl(tabs, keys, exp).data[k] = tabs.data[k]
  BY DEF SetTtl, Tables

\* The same after an insert.
LEMMA InsertAt ==
    ASSUME NEW tabs \in Tables, NEW keys, NEW pairs, NEW exp, NEW k \in Key
    PROVE  /\ Insert(tabs, keys, pairs, exp).data[k] = IF k \in keys THEN pairs[k] ELSE tabs.data[k]
           /\ Insert(tabs, keys, pairs, exp).ttl[k] = IF k \in keys THEN exp ELSE tabs.ttl[k]
  BY DEF Insert, SetTtl, SetData, Tables

\* What it is to have a prefix.
LEMMA StartsFacts ==
    ASSUME NEW k \in Seq(Nat), NEW p \in Seq(Nat)
    PROVE  StartsWith(k, p) <=> Len(p) <= Len(k) /\ \A j \in 1..Len(p) : p[j] = k[j]
  <1>1. SubSeq(p, 1, Len(p)) = p
    OBVIOUS
  <1>2. ASSUME Len(p) <= Len(k), \A j \in 1..Len(p) : p[j] = k[j] PROVE SubSeq(k, 1, Len(p)) = p
    <2> DEFINE q == SubSeq(k, 1, Len(p))
    <2>1. q \in Seq(Nat) /\ Len(q) = Len(p) /\ \A j \in 1..Len(p) : q[j] = k[j]
      BY <1>2
    <2> HIDE DEF q
    <2>2. q = [j \in 1..Len(p) |-> q[j]] /\ p = [j \in 1..Len(p) |-> p[j]]
      BY <2>1
    <2>3. q = p
      BY <1>2, <2>1, <2>2, Zenon
    <2>. QED BY <2>3 DEF q
  <1>. QED BY <1>1, <1>2 DEF StartsWith, Seqs!IsPrefix

\* What Reverse does.
LEMMA ReverseFacts ==
    ASSUME NEW s
    PROVE  Seqs!Reverse(s) = [i \in 1..Len(s) |-> s[(Len(s) - i) + 1]]
  BY DEF Seqs!Reverse

\* A set of numbers has a least member ...
LEMMA LeastMember ==
    ASSUME NEW S \in SUBSET Nat, S # {}
    PROVE  Min(S) \in S /\ \A y \in S : Min(S) <= y
  <1> DEFINE R == {ss \in Nat \X Nat : ss[1] < ss[2]}
  <1>1. IsWellFoundedOn(R, Nat)
    BY NatLessThanWellFounded DEF OpToRel
  <1>2. PICK x \in S : \A y \in S : ~(<<y, x>> \in R)
    BY <1>1, WFMin
  <1>3. ASSUME NEW y \in S PROVE x <= y
    <2>1. x \in Nat /\ y \in Nat /\ ~(<<y, x>> \in R)
      BY <1>2
    <2>2. y < x => <<y, x>> \in R
      BY <2>1
    <2> HIDE DEF R
    <2>. QED BY <2>1, <2>2
  <1>. QED BY <1>2, <1>3 DEF Min

\* ... and a bounded one a greatest.
LEMMA GreatestMember ==
    ASSUME NEW n \in Nat, NEW S \in SUBSET (1..n), S # {}
    PROVE  Max(S) \in S /\ \A y \in S : y <= Max(S)
  <1> DEFINE T == {n - y : y \in S}
  <1>0. \A y \in S : y \in Nat /\ n - y \in Nat
    OBVIOUS
  <1>1. T \in SUBSET Nat /\ T # {}
    BY <1>0
  <1>2. Min(T) \in T /\ \A z \in T : Min(T) <= z
    BY <1>1, LeastMember
  <1>3. PICK x \in S : Min(T) = n - x
    BY <1>2
  <1>4. ASSUME NEW y \in S PROVE y <= x
    <2>1. n - y \in T /\ y \in Nat /\ x \in Nat
      BY <1>0, <1>3
    <2>2. n - x <= n - y
      BY <1>2, <1>3, <2>1
    <2>. QED BY <2>1, <2>2
  <1>. QED BY <1>4 DEF Max

\* How far two strings agree.
LEMMA FirstDifference ==
    ASSUME NEW a \in Seq(Nat), NEW b \in Seq(Nat)
    PROVE  \E i \in 0..Len(a) :
             /\ i <= Len(b) /\ \A j \in 1..i : a[j] = b[j]
             /\ i = Len(a) \/ i = Len(b) \/ a[i + 1] # b[i + 1]
  <1> DEFINE D == {i \in 1..Len(a) : i > Len(b) \/ a[i] # b[i]}
  <1>0. Len(a) \in Nat /\ Len(b) \in Nat
    OBVIOUS
  <1>1. CASE D = {}
    <2>1. ASSUME NEW j \in 1..Len(a) PROVE j <= Len(b) /\ a[j] = b[j]
      <3>1. ~(j > Len(b) \/ a[j] # b[j])
        BY <1>1
      <3>. QED BY <1>0, <3>1
    <2>2. Len(a) <= Len(b)
      BY <2>1, <1>0
    <2>. QED BY <1>0, <2>1, <2>2
  <1>2. CASE D # {}
    <2>1. D \in SUBSET Nat
      OBVIOUS
    <2>2. PICK m \in D : \A y \in D : m <= y
      BY <1>2, <2>1, LeastMember
    <2>3. /\ m \in Nat /\ m >= 1 /\ m <= Len(a) /\ m - 1 \in 0..Len(a)
          /\ m > Len(b) \/ a[m] # b[m]
      BY <1>0, <2>2
    <2> DEFINE i == m - 1
    <2>4. ASSUME NEW j \in 1..i PROVE j <= Len(b) /\ a[j] = b[j]
      <3>1. j \in 1..Len(a) /\ j < m
        BY <1>0, <2>3
      <3>2. j \notin D
        BY <2>2, <2>3, <3>1
      <3>. QED BY <1>0, <3>1, <3>2
    <2>5. i <= Len(b)
      <3>1. CASE i = 0
        BY <1>0, <3>1
      <3>2. CASE i # 0
        BY <2>3, <2>4, <3>2
      <3>. QED BY <3>1, <3>2
    <2>6. i = Len(b) \/ a[i + 1] # b[i + 1]
      <3>1. i + 1 = m
        BY <2>3
      <3>. QED BY <1>0, <2>3, <2>5, <3>1
    <2>7. i \in 0..Len(a)
      BY <2>3
    <2> HIDE DEF i
    <2>. QED BY <2>4, <2>5, <2>6, <2>7
  <1>. QED BY <1>1, <1>2

\* Byte strings are sequences of numbers up to MaxByte.
LEMMA StringFacts ==
    ASSUME NEW k \in ByteString
    PROVE  /\ k \in Seq(Nat) /\ Len(k) \in Nat /\ DOMAIN k = 1..Len(k)
           /\ \A j \in 1..Len(k) : k[j] \in Nat /\ k[j] <= MaxByte
           /\ k \in Seq(Byte) /\ Len(k) <= MaxLen
  <1>1. PICK n \in 0..MaxLen : k \in [1..n -> Byte]
    BY DEF ByteString
  <1>2. MaxByte \in Nat /\ n \in Nat
    BY ScanAssumption
  <1>3. \A j \in 1..n : k[j] \in Nat /\ k[j] <= MaxByte
    BY <1>1, <1>2 DEF Byte
  <1>4. k \in Seq(Nat) /\ k \in Seq(Byte) /\ Len(k) = n
    BY <1>1, <1>2, <1>3
  <1>. QED BY <1>1, <1>2, <1>3, <1>4, ScanAssumption

\* Before, at the first difference.
LEMMA BeforeAt ==
    ASSUME NEW a \in Seq(Nat), NEW b \in Seq(Nat), NEW i \in Nat, i < Len(b),
           i <= Len(a), \A j \in 1..i : a[j] = b[j],
           i = Len(a) \/ a[i + 1] < b[i + 1]
    PROVE  Before(a, b)
  <1>1. Len(a) \in Nat /\ Len(b) \in Nat
    OBVIOUS
  <1>2. i \in 0..Len(a) /\ i <= Len(b)
    BY <1>1
  <1>. QED BY <1>2 DEF Before

\* ... and the first difference of strings in this order.
LEMMA BeforeGives ==
    ASSUME NEW a \in Seq(Nat), NEW b \in Seq(Nat), Before(a, b)
    PROVE  \E i \in Nat :
             /\ i <= Len(a) /\ i < Len(b) /\ \A j \in 1..i : a[j] = b[j]
             /\ i = Len(a) \/ a[i + 1] < b[i + 1]
  <1>1. PICK i \in 0..Len(a) :
          /\ i <= Len(b)
          /\ \A j \in 1..i : a[j] = b[j]
          /\ IF i = Len(a) THEN i < Len(b) ELSE i < Len(b) /\ a[i + 1] < b[i + 1]
    BY DEF Before
  <1>2. i \in Nat /\ i <= Len(a)
    OBVIOUS
  <1>. QED BY <1>1, <1>2

\* A string is not before its own prefixes.
LEMMA NotBeforePrefix ==
    ASSUME NEW k \in ByteString, NEW p \in ByteString, StartsWith(k, p)
    PROVE  ~Before(k, p)
  <1>0. /\ k \in Seq(Nat) /\ p \in Seq(Nat) /\ Len(k) \in Nat /\ Len(p) \in Nat
        /\ \A j \in 1..Len(k) : k[j] \in Nat
    BY StringFacts
  <1>1. Len(p) <= Len(k) /\ \A j \in 1..Len(p) : p[j] = k[j]
    BY <1>0, StartsFacts
  <1>2. ASSUME Before(k, p) PROVE FALSE
    <2>1. PICK i \in Nat : /\ i <= Len(k) /\ i < Len(p) /\ \A j \in 1..i : k[j] = p[j]
                           /\ i = Len(k) \/ k[i + 1] < p[i + 1]
      BY <1>0, <1>2, BeforeGives
    <2>2. i + 1 \in 1..Len(p) /\ i + 1 \in 1..Len(k)
      BY <1>0, <1>1, <2>1
    <2>3. k[i + 1] = p[i + 1] /\ k[i + 1] \in Nat
      BY <1>0, <1>1, <2>2
    <2>. QED BY <1>0, <1>1, <2>1, <2>3
  <1>. QED BY <1>2

\* What prefix_upper_bound computes.
LEMMA BoundFacts ==
    ASSUME NEW p \in ByteString, prefix_upper_bound(p) # Unbounded
    PROVE  \E m \in 1..Len(p) :
             /\ p[m] # MaxByte /\ \A j \in 1..Len(p) : j > m => p[j] = MaxByte
             /\ LET hi == prefix_upper_bound(p)
                IN  /\ hi \in Seq(Nat) /\ Len(hi) = m /\ hi[m] = p[m] + 1
                    /\ \A j \in 1..m : j # m => hi[j] = p[j]
  <1> DEFINE live == {i \in DOMAIN p : p[i] # MaxByte}
             m == Max(live)
             q == SubSeq(p, 1, m)
             hi == [q EXCEPT ![m] = @ + 1]
  <1>0. /\ p \in Seq(Nat) /\ Len(p) \in Nat /\ DOMAIN p = 1..Len(p)
        /\ \A j \in 1..Len(p) : p[j] \in Nat
    BY StringFacts
  <1>1. live # {} /\ prefix_upper_bound(p) = hi
    BY DEF prefix_upper_bound
  <1>2. live \in SUBSET (1..Len(p))
    BY <1>0
  <1>3. m \in live /\ \A y \in live : y <= m
    BY <1>0, <1>1, <1>2, GreatestMember
  <1>4. m \in 1..Len(p) /\ p[m] # MaxByte
    BY <1>2, <1>3
  <1>5. \A j \in 1..Len(p) : j > m => p[j] = MaxByte
    <2>1. ASSUME NEW j \in 1..Len(p), j > m PROVE p[j] = MaxByte
      <3>1. j \notin live
        <4>1. j \in Nat /\ m \in Nat
          BY <1>4
        <4> HIDE DEF live, m
        <4>. QED BY <1>3, <2>1, <4>1
      <3>. QED BY <1>0, <3>1
    <2>. QED BY <2>1
  <1> HIDE DEF m
  <1>6. q \in Seq(Nat) /\ Len(q) = m /\ \A j \in 1..m : q[j] = p[j]
    BY <1>0, <1>4
  <1> HIDE DEF q
  <1>7. hi \in Seq(Nat) /\ Len(hi) = m /\ hi[m] = p[m] + 1 /\ \A j \in 1..m : j # m => hi[j] = p[j]
    <2>1. m \in 1..m /\ q[m] + 1 \in Nat
      BY <1>0, <1>4, <1>6
    <2>. QED BY <1>6, <2>1
  <1>. QED BY <1>1, <1>4, <1>5, <1>7

\* A string with the prefix is below the bound.
LEMMA BelowBound ==
    ASSUME NEW k \in ByteString, NEW p \in ByteString, prefix_upper_bound(p) # Unbounded,
           StartsWith(k, p)
    PROVE  Before(k, prefix_upper_bound(p))
  <1> DEFINE hi == prefix_upper_bound(p)
  <1>0. /\ k \in Seq(Nat) /\ p \in Seq(Nat) /\ Len(k) \in Nat /\ Len(p) \in Nat
        /\ \A j \in 1..Len(k) : k[j] \in Nat
    BY StringFacts
  <1>1. Len(p) <= Len(k) /\ \A j \in 1..Len(p) : p[j] = k[j]
    BY <1>0, StartsFacts
  <1>2. PICK m \in 1..Len(p) :
          hi \in Seq(Nat) /\ Len(hi) = m /\ hi[m] = p[m] + 1 /\ \A j \in 1..m : j # m => hi[j] = p[j]
    BY BoundFacts
  <1> HIDE DEF hi
  <1> DEFINE i == m - 1
  <1>3. i \in Nat /\ i < Len(hi) /\ i <= Len(k) /\ i + 1 = m
    BY <1>0, <1>1, <1>2
  <1>4. ASSUME NEW j \in 1..i PROVE k[j] = hi[j]
    <2>1. j \in 1..Len(p) /\ j \in 1..m /\ j # m
      BY <1>0, <1>2, <1>3
    <2>. QED BY <1>1, <1>2, <2>1
  <1>5. k[m] < hi[m]
    BY <1>0, <1>1, <1>2
  <1> HIDE DEF i
  <1>6. Before(k, hi)
    BY <1>0, <1>2, <1>3, <1>4, <1>5, BeforeAt
  <1>. QED BY <1>6 DEF hi

\* A string from the prefix on and below the bound has the prefix.
LEMMA BetweenHasPrefix ==
    ASSUME NEW k \in ByteString, NEW p \in ByteString, prefix_upper_bound(p) # Unbounded,
           ~Before(k, p), Before(k, prefix_upper_bound(p))
    PROVE  StartsWith(k, p)
  <1> DEFINE hi == prefix_upper_bound(p)
  <1>0. /\ k \in Seq(Nat) /\ p \in Seq(Nat) /\ Len(k) \in Nat /\ Len(p) \in Nat
        /\ \A j \in 1..Len(k) : k[j] \in Nat /\ k[j] <= MaxByte
        /\ \A j \in 1..Len(p) : p[j] \in Nat /\ p[j] <= MaxByte
        /\ MaxByte \in Nat
    BY StringFacts, ScanAssumption
  <1>1. PICK i \in 0..Len(k) :
             /\ i <= Len(p) /\ \A j \in 1..i : k[j] = p[j]
             /\ i = Len(k) \/ i = Len(p) \/ k[i + 1] # p[i + 1]
    BY <1>0, FirstDifference
  <1>2. CASE i = Len(p)
    BY <1>0, <1>1, <1>2, StartsFacts
  <1>3. CASE i # Len(p)
    <2>1. i \in Nat /\ i < Len(p) /\ i <= Len(k) /\ i + 1 \in 1..Len(p)
      BY <1>0, <1>1, <1>3
    <2>2. i # Len(k) /\ ~(k[i + 1] < p[i + 1])
      BY <1>0, <1>1, <2>1, BeforeAt
    <2>3. i + 1 \in 1..Len(k) /\ k[i + 1] # p[i + 1]
      BY <1>0, <1>1, <1>3, <2>1, <2>2
    <2>4. k[i + 1] > p[i + 1] /\ p[i + 1] # MaxByte
      BY <1>0, <2>1, <2>2, <2>3
    <2>5. PICK m \in 1..Len(p) :
             /\ \A j \in 1..Len(p) : j > m => p[j] = MaxByte
             /\ hi \in Seq(Nat) /\ Len(hi) = m /\ hi[m] = p[m] + 1
             /\ \A j \in 1..m : j # m => hi[j] = p[j]
      BY BoundFacts
    <2>6. i + 1 <= m
      <3>1. i + 1 > m => p[i + 1] = MaxByte
        BY <2>1, <2>5
      <3>. QED BY <2>1, <2>4, <2>5, <3>1
    <2>7. PICK h \in Nat : /\ h <= Len(k) /\ h < Len(hi) /\ \A j \in 1..h : k[j] = hi[j]
                           /\ h = Len(k) \/ k[h + 1] < hi[h + 1]
      BY <1>0, <2>5, BeforeGives
    <2> HIDE DEF hi
    <2>8. h + 1 \in 1..m
      BY <2>5, <2>7
    <2>9. CASE h > i
      <3>1. k[i + 1] = hi[i + 1] /\ i + 1 # m /\ i + 1 \in 1..m
        BY <2>1, <2>5, <2>7, <2>9
      <3>2. hi[i + 1] = p[i + 1] /\ p[i + 1] \in Nat
        BY <1>0, <2>1, <2>5, <3>1
      <3>. QED BY <2>4, <3>1, <3>2
    <2>10. CASE h = i
      <3>1. k[i + 1] < hi[i + 1]
        BY <2>2, <2>7, <2>10
      <3>2. hi[i + 1] \in {p[i + 1], p[i + 1] + 1}
        <4>1. CASE i + 1 = m
          BY <2>5, <4>1
        <4>2. CASE i + 1 # m
          <5>1. i + 1 \in 1..m
            BY <2>1, <2>5, <2>6
          <5>. QED BY <2>5, <4>2, <5>1
        <4>. QED BY <4>1, <4>2
      <3>3. k[i + 1] \in Nat /\ p[i + 1] \in Nat
        BY <1>0, <2>1, <2>3
      <3>. QED BY <2>4, <3>1, <3>2, <3>3
    <2>11. CASE h < i
      <3>1. k[h + 1] < hi[h + 1] /\ h + 1 # m /\ h + 1 \in 1..i /\ h + 1 \in 1..Len(k)
        BY <1>0, <2>1, <2>6, <2>7, <2>11
      <3>2. hi[h + 1] = p[h + 1] /\ k[h + 1] = p[h + 1] /\ k[h + 1] \in Nat
        BY <1>0, <1>1, <2>5, <2>8, <3>1
      <3>. QED BY <3>1, <3>2
    <2>. QED BY <2>1, <2>7, <2>9, <2>10, <2>11
  <1>. QED BY <1>2, <1>3

\* The bound is above the prefix.
LEMMA BoundAbove ==
    ASSUME NEW p \in ByteString, prefix_upper_bound(p) # Unbounded
    PROVE  ~Before(prefix_upper_bound(p), p)
  <1> DEFINE hi == prefix_upper_bound(p)
  <1>0. p \in Seq(Nat) /\ Len(p) \in Nat /\ \A j \in 1..Len(p) : p[j] \in Nat
    BY StringFacts
  <1>1. PICK m \in 1..Len(p) :
          hi \in Seq(Nat) /\ Len(hi) = m /\ hi[m] = p[m] + 1 /\ \A j \in 1..m : j # m => hi[j] = p[j]
    BY BoundFacts
  <1> HIDE DEF hi
  <1>2. ASSUME Before(hi, p) PROVE FALSE
    <2>1. PICK i \in Nat : /\ i <= Len(hi) /\ i < Len(p) /\ \A j \in 1..i : hi[j] = p[j]
                           /\ i = Len(hi) \/ hi[i + 1] < p[i + 1]
      BY <1>0, <1>1, <1>2, BeforeGives
    <2>2. CASE i >= m
      <3>1. m \in 1..i
        BY <1>0, <1>1, <2>1, <2>2
      <3>. QED BY <1>0, <1>1, <2>1, <3>1
    <2>3. CASE i < m
      <3>1. i + 1 \in 1..m /\ i + 1 \in 1..Len(p)
        BY <1>0, <1>1, <2>1, <2>3
      <3>2. hi[i + 1] = p[i + 1] \/ hi[i + 1] = p[i + 1] + 1
        BY <1>1, <3>1
      <3>. QED BY <1>0, <1>1, <2>1, <2>3, <3>1, <3>2
    <2>. QED BY <1>0, <1>1, <2>1, <2>2, <2>3
  <1>. QED BY <1>2 DEF hi

\* Without a bound, the strings from the prefix on are the ones that have it.
LEMMA UnboundedPrefix ==
    ASSUME NEW k \in ByteString, NEW p \in ByteString, prefix_upper_bound(p) = Unbounded,
           ~Before(k, p)
    PROVE  StartsWith(k, p)
  <1>0. /\ k \in Seq(Nat) /\ p \in Seq(Nat) /\ Len(k) \in Nat /\ Len(p) \in Nat
        /\ \A j \in 1..Len(k) : k[j] \in Nat /\ k[j] <= MaxByte
        /\ DOMAIN p = 1..Len(p)
    BY StringFacts
  <1>1. \A j \in 1..Len(p) : p[j] = MaxByte
    <2> DEFINE live == {i \in DOMAIN p : p[i] # MaxByte}
               m == Max(live)
               hi == [SubSeq(p, 1, m) EXCEPT ![m] = @ + 1]
    <2>1. CASE live = {}
      BY <1>0, <2>1
    <2>2. CASE live # {}
      <3>0. MaxByte \in Nat /\ MaxLen \in Nat /\ Unbounded \notin ByteString
        BY ScanAssumption
      <3>1. m \in live
        <4>1. live \in SUBSET (1..Len(p))
          BY <1>0
        <4>. QED BY <1>0, <2>2, <4>1, GreatestMember
      <3>2. m \in 1..Len(p) /\ p[m] # MaxByte /\ p \in Seq(Byte) /\ Len(p) <= MaxLen
        BY <1>0, <3>1, StringFacts
      <3>3. prefix_upper_bound(p) = hi
        BY <2>2 DEF prefix_upper_bound
      <3> HIDE DEF m
      <3> DEFINE q == SubSeq(p, 1, m)
      <3>4. q \in Seq(Byte) /\ Len(q) = m /\ q[m] = p[m]
        BY <1>0, <3>2
      <3>5. q[m] + 1 \in Byte
        <4>1. p[m] \in Byte
          BY <3>2
        <4>. QED BY <3>0, <3>2, <3>4, <4>1 DEF Byte
      <3> HIDE DEF q
      <3>6. [q EXCEPT ![m] = @ + 1] \in [1..m -> Byte]
        <4>1. q \in [1..m -> Byte]
          BY <3>4
        <4>2. m \in 1..m
          BY <1>0, <3>2
        <4>. QED BY <3>5, <4>1, <4>2
      <3>7. m \in 0..MaxLen
        BY <1>0, <3>0, <3>2
      <3>8. [q EXCEPT ![m] = @ + 1] \in ByteString
        BY <3>6, <3>7 DEF ByteString
      <3>. QED BY <3>0, <3>3, <3>8 DEF q
    <2>. QED BY <2>1, <2>2
  <1>2. PICK i \in 0..Len(k) :
             /\ i <= Len(p) /\ \A j \in 1..i : k[j] = p[j]
             /\ i = Len(k) \/ i = Len(p) \/ k[i + 1] # p[i + 1]
    BY <1>0, FirstDifference
  <1>3. CASE i = Len(p)
    BY <1>0, <1>2, <1>3, StartsFacts
  <1>4. CASE i # Len(p)
    <2>0. Len(k) \in Nat /\ Len(p) \in Nat
      BY <1>0
    <2>1. i \in Nat /\ i < Len(p) /\ i <= Len(k) /\ i + 1 \in 1..Len(p)
      BY <2>0, <1>2, <1>4
    <2>2. i # Len(k) /\ ~(k[i + 1] < p[i + 1])
      BY <1>0, <1>2, <2>1, BeforeAt
    <2>3. i + 1 \in 1..Len(k) /\ k[i + 1] # p[i + 1] /\ p[i + 1] = MaxByte
      <3>1. i + 1 \in 1..Len(k)
        BY <2>0, <2>1, <2>2
      <3>2. k[i + 1] # p[i + 1]
        BY <1>2, <1>4, <2>2
      <3>. QED BY <1>1, <2>1, <3>1, <3>2
    <2>. QED BY <1>0, <2>2, <2>3, ScanAssumption
  <1>. QED BY <1>3, <1>4

\* The bounds computed from a prefix select exactly the keys that have it,
\* whichever way the prefix is scanned, for every byte and every length.
THEOREM PrefixBoundsExact ==
    ASSUME NEW p \in ByteString
    PROVE  /\ prefix_upper_bound(p) # Unbounded =>
                Within(p, prefix_upper_bound(p)) = NativePrefix(p)
           /\ RedbPrefix(p) = NativePrefix(p) /\ DefaultPrefix(p) = NativePrefix(p)
  <1>1. Key \subseteq ByteString
    BY ScanAssumption
  <1>2. prefix_upper_bound(p) # Unbounded => Within(p, prefix_upper_bound(p)) = NativePrefix(p)
    BY <1>1, NotBeforePrefix, BelowBound, BetweenHasPrefix DEF Within, NativePrefix
  <1>3. prefix_upper_bound(p) = Unbounded => Within(p, Unbounded) = NativePrefix(p)
    BY <1>1, NotBeforePrefix, UnboundedPrefix DEF Within, NativePrefix
  <1>4. p = <<>> => NativePrefix(p) = Key
    <2>1. \A k \in Key : k \in Seq(Nat) /\ Len(k) \in Nat
      BY <1>1, StringFacts
    <2>2. p = <<>> => p \in Seq(Nat) /\ Len(p) = 0
      OBVIOUS
    <2>3. ASSUME p = <<>>, NEW k \in Key PROVE StartsWith(k, p)
      <3>1. Len(p) <= Len(k) /\ \A j \in 1..Len(p) : p[j] = k[j]
        BY <2>1, <2>2, <2>3
      <3>. QED BY <2>1, <2>2, <2>3, <3>1, StartsFacts
    <2>. QED BY <2>3 DEF NativePrefix
  <1>. QED BY <1>2, <1>3, <1>4 DEF RedbPrefix, DefaultPrefix, Everything, NativePrefix

-----------------------------------------------------------------------------
(***************************************************************************)
(* The invariant of a scan.  The keys its bounds select are the keys asked *)
(* for.  What it has put out, and then the item it holds, lie in order up  *)
(* to where it has come.  A pair that was there all along, asked for and   *)
(* not written meanwhile is ahead, held or put out, and the view the loop  *)
(* reads still has it.  A transaction's range says the same of the map it  *)
(* collects, for the keys the transaction has not written; in the second   *)
(* loop the map has the staged writes up to where it has come.             *)
(***************************************************************************)
\* The fields of a scan.
ScanShape ==
    scan \in [of : {"store", "txn", "snap"}, phase : {"none", "loop", "merge", "done"},
              reversed : BOOLEAN, want : SUBSET Key, keys : SUBSET Key, filtered : BOOLEAN,
              view : Tables, at : Nat, item : {NoItem} \cup (Key \X Value),
              merged : [Key -> MaybeValue], out : Seq(Key \X Value),
              ever : SUBSET (Key \X Value), always : SUBSET (Key \X Value), raced : SUBSET Key]

\* The types of the variables; a snapshot shows what get showed when it was taken.
ScanTypes ==
    /\ tb \in Tables /\ now \in Nat /\ backend \in {"redb", "sled", "fjall"}
    /\ pending \in [key : Seq(Nat), exp : Expiry, busy : BOOLEAN]
    /\ pending.busy => pending.key \in Key
    /\ txn \in [open : BOOLEAN, overlay : [Key -> MaybeValue \cup {Untouched}]]
    /\ snap \in [held : BOOLEAN, tables : Tables, captured_at : Nat, shown : SUBSET (Key \X Value)]
    /\ snap.shown = Pairs(Visible(snap.tables, snap.captured_at))

\* Places in the order of keys.
PlaceOf(k) == CHOOSE i \in DOMAIN KeysInOrder : KeysInOrder[i] = k

\* The keys the scan has the last word on: those its transaction has written.
Mine == IF scan.of = "txn" THEN Written ELSE {}

\* A pair is in the tables and has not expired.
Lives(tables, time, k, v) == tables.data[k] = v /\ ~is_expired(tables.ttl[k], time)

\* A pair shown although it was not in the view may be one of a key written since.
Excused(p) == p \in scan.ever \/ (backend # "redb" /\ p[1] \in scan.raced)

\* Which scans there are: only a transaction's merges, and it is never reversed.
ScanKinds ==
    /\ scan.keys = scan.want
    /\ scan.phase = "merge" => scan.of = "txn" /\ scan.item = NoItem
    /\ scan.of = "txn" => ~scan.reversed /\ (scan.phase # "done" => scan.out = <<>>)
    /\ scan.phase = "none" => scan.out = <<>> /\ scan.item = NoItem

\* The pairs put out are asked for, in order and behind the scan.
OutOK ==
    /\ \A i \in DOMAIN scan.out :
         scan.out[i][1] \in scan.want /\ (scan.phase = "loop" => PlaceOf(scan.out[i][1]) <= scan.at)
    /\ \A i, j \in DOMAIN scan.out : i < j =>
         IF scan.phase = "done" /\ scan.reversed THEN PlaceOf(scan.out[j][1]) < PlaceOf(scan.out[i][1])
         ELSE PlaceOf(scan.out[i][1]) < PlaceOf(scan.out[j][1])

\* The item held.
ItemOK ==
    scan.item # NoItem =>
        LET k == scan.item[1]
        IN  /\ scan.phase = "loop" /\ k \in scan.want /\ PlaceOf(k) = scan.at
            /\ \A i \in DOMAIN scan.out : PlaceOf(scan.out[i][1]) < scan.at
            /\ backend # "sled" \/ scan.of = "snap" \/ k \notin scan.raced \cup Mine
                 => scan.item[2] = ScanData[k]

\* The view and the histories.
ViewOK ==
    scan.phase # "none" =>
        /\ scan.always \subseteq Shown(scan.of, tb, now)
        /\ Shown(scan.of, tb, now) \subseteq scan.ever
        /\ scan.of = "snap" => scan.view = snap.tables
        /\ scan.of # "snap" /\ backend # "sled" =>
             \A k \in Key \ (scan.raced \cup Mine) :
                scan.view.data[k] = tb.data[k] /\ scan.view.ttl[k] = tb.ttl[k]
        /\ scan.of # "snap" /\ backend = "redb" =>
             \A k \in Key \ Mine, v \in Value : Lives(scan.view, now, k, v) => <<k, v>> \in scan.ever

\* The scan has the pair already.
Got(p) == IF scan.of = "txn" /\ scan.phase # "done" THEN scan.merged[p[1]] = p[2] ELSE p \in Result

\* Nothing is passed over.
NothingMissed ==
    scan.phase # "none" =>
        \A p \in Wanted(scan.always) : p[1] \notin scan.raced =>
            \/ Got(p)
            \/ scan.phase # "done" /\ p[1] \in Mine
            \/ scan.phase = "loop" /\ (scan.item = p \/ PlaceOf(p[1]) > scan.at)

\* The map of a transaction's range.
MapOK ==
    scan.of = "txn" /\ scan.phase \in {"loop", "merge"} =>
        \A k \in Key :
            /\ scan.merged[k] # Absent =>
                 k \in scan.want /\ (k \notin Mine /\ scan.filtered => Excused(<<k, scan.merged[k]>>))
            /\ scan.phase = "merge" /\ k \in Mine \cap scan.want /\ PlaceOf(k) <= scan.at =>
                 scan.merged[k] = txn.overlay[k]

\* All of it.
ScanInv ==
    /\ ScanTypes /\ ScanShape /\ ScanKinds
    /\ OutOK /\ ItemOK /\ ViewOK /\ NothingMissed /\ MapOK /\ ScanHonest

\* Places are found, and they are the order.
LEMMA PlaceFacts ==
    /\ KeysInOrder \in Seq(Key) /\ DOMAIN KeysInOrder \subseteq Nat
    /\ \A k \in Key : PlaceOf(k) \in DOMAIN KeysInOrder /\ KeysInOrder[PlaceOf(k)] = k
    /\ \A i \in DOMAIN KeysInOrder : PlaceOf(KeysInOrder[i]) = i
    /\ \A k, l \in Key : PlaceOf(k) < PlaceOf(l) => Before(k, l)
  <1>1. /\ KeysInOrder \in Seq(Key) /\ Key \subseteq {KeysInOrder[i] : i \in DOMAIN KeysInOrder}
        /\ \A i, j \in DOMAIN KeysInOrder : i < j => Before(KeysInOrder[i], KeysInOrder[j])
    BY ScanAssumption
  <1>2. DOMAIN KeysInOrder \subseteq Nat
    BY <1>1
  <1>3. \A k \in Key : PlaceOf(k) \in DOMAIN KeysInOrder /\ KeysInOrder[PlaceOf(k)] = k
    BY <1>1 DEF PlaceOf
  <1>4. ASSUME NEW i \in DOMAIN KeysInOrder PROVE PlaceOf(KeysInOrder[i]) = i
    <2> DEFINE j == PlaceOf(KeysInOrder[i])
               k == KeysInOrder[i]
    <2>1. k \in Key /\ k \in Seq(Nat)
      BY <1>1, ScanAssumption, StringFacts
    <2>2. j \in DOMAIN KeysInOrder /\ KeysInOrder[j] = k
      BY <1>3, <2>1
    <2>3. ~Before(k, k)
      <3>1. StartsWith(k, k)
        BY <2>1, StartsFacts
      <3>. QED BY <2>1, <3>1, NotBeforePrefix, ScanAssumption
    <2>. QED BY <1>1, <1>2, <2>2, <2>3
  <1>5. \A k, l \in Key : PlaceOf(k) < PlaceOf(l) => Before(k, l)
    BY <1>1, <1>3
  <1>. QED BY <1>1, <1>2, <1>3, <1>4, <1>5

\* A finite set of numbers can be sorted: the result ascends and is onto it.
LEMMA SortedFacts ==
    ASSUME NEW S \in SUBSET Nat, IsFiniteSet(S)
    PROVE  /\ Cardinality(S) \in Nat
           /\ Sorted(S) \in [1..Cardinality(S) -> S]
           /\ \A i, j \in 1..Cardinality(S) : i < j => Sorted(S)[i] < Sorted(S)[j]
           /\ \A x \in S : \E i \in 1..Cardinality(S) : Sorted(S)[i] = x
  <1> DEFINE n == Cardinality(S)
             Upto(x) == {y \in S : y <= x}
             rank == [x \in S |-> Cardinality(Upto(x))]
             q == [i \in 1..n |-> CHOOSE x \in S : rank[x] = i]
  <1>1. n \in Nat
    BY FS_CardinalityType
  <1>2. \A x \in S : IsFiniteSet(Upto(x)) /\ rank[x] \in 1..n
    <2>1. TAKE x \in S
    <2>2. IsFiniteSet(Upto(x)) /\ Cardinality(Upto(x)) <= n
      BY FS_Subset
    <2>3. Cardinality(Upto(x)) \in Nat /\ Upto(x) # {}
      BY <2>2, FS_CardinalityType
    <2>4. Cardinality(Upto(x)) # 0
      BY <2>2, <2>3, FS_EmptySet
    <2>. QED BY <1>1, <2>2, <2>3, <2>4
  <1>3. \A x, y \in S : x < y => rank[x] < rank[y]
    <2>1. TAKE x, y \in S
    <2>2. HAVE x < y
    <2>3. Upto(x) \subseteq Upto(y) /\ y \in Upto(y) /\ y \notin Upto(x)
      <3>1. \A z \in S : z \in Nat /\ (z <= x => z <= y)
        BY <2>2
      <3>2. x \in Nat /\ y \in Nat /\ y <= y /\ ~(y <= x)
        BY <2>2
      <3>. QED BY <3>1, <3>2
    <2>4. /\ Cardinality(Upto(x)) <= Cardinality(Upto(y))
          /\ Cardinality(Upto(x)) # Cardinality(Upto(y))
      BY <1>2, <2>3, FS_Subset
    <2>. QED BY <1>2, <2>4
  <1>4. rank \in Injection(S, 1..n)
    <2>1. \A x, y \in S : rank[x] = rank[y] => x = y
      <3>1. TAKE x, y \in S
      <3>2. x \in Nat /\ y \in Nat /\ rank[x] \in Nat /\ rank[y] \in Nat
        BY <1>1, <1>2
      <3>3. x < y \/ y < x \/ x = y
        BY <3>2
      <3> HIDE DEF rank
      <3>. QED BY <1>3, <3>2, <3>3
    <2>2. rank \in [S -> 1..n]
      BY <1>2
    <2>. QED BY <2>1, <2>2 DEF Injection, IsInjective
  <1> HIDE DEF rank
  <1>5. IsFiniteSet(1..n) /\ Cardinality(1..n) = n
    BY <1>1, FS_Interval
  <1>6. rank \in Surjection(S, 1..n)
    BY <1>4, <1>5, FS_Injection
  <1>7. \A i \in 1..n : q[i] \in S /\ rank[q[i]] = i
    BY <1>6 DEF Surjection
  <1>8. q \in [1..n -> S]
    BY <1>7
  <1> HIDE DEF q
  <1>9. \A i, j \in 1..n : i < j => q[i] < q[j]
    <2>1. TAKE i, j \in 1..n
    <2>2. HAVE i < j
    <2>3. q[i] \in Nat /\ q[j] \in Nat /\ rank[q[i]] = i /\ rank[q[j]] = j /\ q[i] \in S /\ q[j] \in S
      BY <1>7
    <2>4. ~(q[j] < q[i]) /\ q[i] # q[j]
      BY <1>1, <1>3, <2>2, <2>3
    <2>. QED BY <2>3, <2>4
  <1>10. /\ Sorted(S) \in [1..n -> S]
         /\ \A i, j \in 1..n : i < j => Sorted(S)[i] < Sorted(S)[j]
    BY <1>8, <1>9 DEF Sorted
  <1> DEFINE r == Sorted(S)
  <1>11. r \in Injection(1..n, S)
    <2>1. \A i, j \in 1..n : r[i] = r[j] => i = j
      <3>1. TAKE i, j \in 1..n
      <3>2. i \in Nat /\ j \in Nat /\ r[i] \in Nat /\ r[j] \in Nat
        <4>1. r[i] \in S /\ r[j] \in S
          BY <1>10
        <4>2. i \in Nat /\ j \in Nat
          BY <1>1
        <4> HIDE DEF r
        <4>. QED BY <4>1, <4>2
      <3>3. i < j \/ j < i \/ i = j
        BY <3>2
      <3>. QED BY <1>10, <3>2, <3>3
    <2>. QED BY <1>10, <2>1 DEF Injection, IsInjective
  <1>12. r \in Surjection(1..n, S)
    BY <1>5, <1>11, FS_Injection
  <1>. QED BY <1>1, <1>10, <1>12 DEF Surjection

\* A map as it is listed: each of its pairs once, in the order of the keys.
LEMMA ListingFacts ==
    ASSUME NEW map \in [Key -> MaybeValue]
    PROVE  /\ Listing(map) \in Seq(Key \X Value)
           /\ \A i \in DOMAIN Listing(map) :
                /\ Listing(map)[i][1] \in Key
                /\ map[Listing(map)[i][1]] = Listing(map)[i][2] /\ Listing(map)[i][2] # Absent
           /\ \A k \in Key : map[k] # Absent => \E i \in DOMAIN Listing(map) : Listing(map)[i] = <<k, map[k]>>
           /\ \A i, j \in DOMAIN Listing(map) : i < j =>
                PlaceOf(Listing(map)[i][1]) < PlaceOf(Listing(map)[j][1])
  <1> DEFINE S == {i \in DOMAIN KeysInOrder : map[KeysInOrder[i]] # Absent}
             places == Sorted(S)
             n == Cardinality(S)
             list == [i \in 1..n |-> <<KeysInOrder[places[i]], map[KeysInOrder[places[i]]]>>]
  <1>1. S \in SUBSET Nat /\ IsFiniteSet(S)
    <2>1. KeysInOrder \in Seq(Key) /\ Len(KeysInOrder) \in Nat /\ DOMAIN KeysInOrder = 1..Len(KeysInOrder)
      BY PlaceFacts
    <2>2. IsFiniteSet(1..Len(KeysInOrder))
      BY <2>1, FS_Interval
    <2>3. S \subseteq 1..Len(KeysInOrder)
      BY <2>1
    <2>. QED BY <2>2, <2>3, FS_Subset
  <1>2. /\ n \in Nat /\ places \in [1..n -> S]
        /\ \A i, j \in 1..n : i < j => places[i] < places[j]
        /\ \A x \in S : \E i \in 1..n : places[i] = x
    BY <1>1, SortedFacts
  <1> HIDE DEF n
  <1>3. Listing(map) = list
    BY <1>2 DEF Listing
  <1> HIDE DEF places
  <1>4. \A i \in S : KeysInOrder[i] \in Key /\ map[KeysInOrder[i]] \in Value /\ PlaceOf(KeysInOrder[i]) = i
    BY PlaceFacts DEF MaybeValue
  <1> HIDE DEF S
  <1>5. ASSUME NEW i \in 1..n
        PROVE  list[i] \in Key \X Value /\ map[list[i][1]] = list[i][2] /\ PlaceOf(list[i][1]) = places[i]
    <2>1. places[i] \in S
      BY <1>2
    <2>. QED BY <1>4, <2>1
  <1>6. list \in Seq(Key \X Value) /\ DOMAIN list = 1..n
    BY <1>2, <1>5
  <1>7. ASSUME NEW k \in Key, map[k] # Absent PROVE \E i \in 1..n : list[i] = <<k, map[k]>>
    <2>1. PlaceOf(k) \in S /\ KeysInOrder[PlaceOf(k)] = k
      BY <1>7, PlaceFacts DEF S
    <2>2. PICK i \in 1..n : places[i] = PlaceOf(k)
      BY <1>2, <2>1
    <2>. QED BY <2>1, <2>2
  <1> HIDE DEF list
  <1>8. \A i \in DOMAIN list :
          list[i][1] \in Key /\ map[list[i][1]] = list[i][2] /\ list[i][2] # Absent
    BY <1>5, <1>6, AbsentAssumption
  <1>9. \A i, j \in DOMAIN list : i < j => PlaceOf(list[i][1]) < PlaceOf(list[j][1])
    BY <1>2, <1>5, <1>6
  <1>10. \A k \in Key : map[k] # Absent => \E i \in DOMAIN list : list[i] = <<k, map[k]>>
    BY <1>6, <1>7
  <1>. QED BY <1>3, <1>6, <1>8, <1>9, <1>10, Zenon

\* The pairs of a map, one by one.
LEMMA PairFacts ==
    ASSUME NEW map \in [Key -> MaybeValue]
    PROVE  /\ Pairs(map) \in SUBSET (Key \X Value)
           /\ \A p \in Key \X Value : p \in Pairs(map) <=> map[p[1]] = p[2]
           /\ \A k \in Key, v \in Value : <<k, v>> \in Pairs(map) <=> map[k] = v
  <1>1. Absent \notin Value /\ \A k \in Key : map[k] \in Value \cup {Absent}
    BY AbsentAssumption DEF MaybeValue
  <1>2. \A p : p \in Pairs(map) <=> \E k \in Key : map[k] # Absent /\ p = <<k, map[k]>>
    BY DEF Pairs
  <1>3. \A k \in Key, v \in Value : <<k, v>> \in Pairs(map) <=> map[k] = v
    BY <1>1, <1>2
  <1>. QED BY <1>1, <1>2, <1>3

\* What tables show, key by key.
LEMMA VisibleFacts ==
    ASSUME NEW tables \in Tables, NEW time
    PROVE  /\ Visible(tables, time) \in [Key -> MaybeValue]
           /\ \A k \in Key, v \in Value : Visible(tables, time)[k] = v <=> Lives(tables, time, k, v)
  BY AbsentAssumption DEF Visible, Lives, Tables, MaybeValue

\* The tables of a transaction are tables, unchanged where it has not written.
LEMMA TxnTablesFacts ==
    ASSUME ScanTypes, NEW tables \in Tables
    PROVE  /\ TxnTables(tables) \in Tables
           /\ \A k \in Key \ Written : /\ TxnTables(tables).data[k] = tables.data[k]
                                       /\ TxnTables(tables).ttl[k] = tables.ttl[k]
           /\ \A k \in Written : k \in Key /\ txn.overlay[k] \in MaybeValue
  <1>1. \A k \in Written : k \in Key /\ txn.overlay[k] \in MaybeValue
    BY DEF ScanTypes, Written
  <1>2. Written \in SUBSET Key
    BY DEF Written
  <1>3. Insert(tables, Written, txn.overlay, NoExpiry) \in Tables
    <2> DEFINE data == [k \in Key |-> IF k \in Written THEN txn.overlay[k] ELSE tables.data[k]]
    <2>1. data \in [Key -> MaybeValue]
      BY <1>1 DEF Tables
    <2> HIDE DEF data
    <2>2. SetData(tables, Written, txn.overlay) = [tables EXCEPT !.data = data]
      BY DEF SetData, data
    <2>3. SetData(tables, Written, txn.overlay) \in Tables
      BY <2>1, <2>2 DEF Tables
    <2>. QED BY <1>2, <2>3, SetTtlType, CoreTypes DEF Insert
  <1>4. \A k \in Key \ Written :
          /\ Insert(tables, Written, txn.overlay, NoExpiry).data[k] = tables.data[k]
          /\ Insert(tables, Written, txn.overlay, NoExpiry).ttl[k] = tables.ttl[k]
    BY InsertAt
  <1>. QED BY <1>1, <1>3, <1>4 DEF TxnTables

\* What the scanned object's get shows: for a transaction what it has written,
\* and the tables beyond.
LEMMA ShownFacts ==
    ASSUME ScanTypes, NEW tables \in Tables, NEW time, NEW of \in {"store", "txn", "snap"}
    PROVE  /\ Shown(of, tables, time) \in SUBSET (Key \X Value)
           /\ of = "store" => \A k \in Key, v \in Value :
                <<k, v>> \in Shown(of, tables, time) <=> Lives(tables, time, k, v)
           /\ of = "txn" => \A k \in Key, v \in Value :
                <<k, v>> \in Shown(of, tables, time) <=>
                  IF k \in Written THEN txn.overlay[k] = v ELSE Lives(tables, time, k, v)
           /\ of = "snap" => \A k \in Key, v \in Value :
                <<k, v>> \in Shown(of, tables, time) <=> Lives(snap.tables, snap.captured_at, k, v)
  <1>1. CASE of = "store"
    <2>1. Shown(of, tables, time) = Pairs(Visible(tables, time))
      BY <1>1 DEF Shown
    <2>. QED BY <1>1, <2>1, VisibleFacts, PairFacts
  <1>2. CASE of = "snap"
    <2>1. Shown(of, tables, time) = Pairs(Visible(snap.tables, snap.captured_at)) /\ snap.tables \in Tables
      BY <1>2 DEF Shown, ScanTypes
    <2>. QED BY <1>2, <2>1, VisibleFacts, PairFacts
  <1>3. CASE of = "txn"
    <2> DEFINE inner == TxnTables(tables)
    <2>1. Shown(of, tables, time) = Pairs(TxnGet(tables, time))
      BY <1>3 DEF Shown
    <2>2. inner \in Tables /\ \A k \in Key \ Written, v \in Value :
                                  Lives(inner, time, k, v) <=> Lives(tables, time, k, v)
      BY TxnTablesFacts DEF Lives
    <2>3. Visible(inner, time) \in [Key -> MaybeValue] /\ \A k \in Written : txn.overlay[k] \in MaybeValue
      BY <2>2, VisibleFacts, TxnTablesFacts
    <2>4. TxnGet(tables, time) \in [Key -> MaybeValue]
      BY <2>3 DEF TxnGet
    <2>5. \A k \in Key : TxnGet(tables, time)[k] =
            IF k \in Written THEN txn.overlay[k] ELSE Visible(inner, time)[k]
      BY DEF TxnGet
    <2>6. \A k \in Key, v \in Value : TxnGet(tables, time)[k] = v <=>
            IF k \in Written THEN txn.overlay[k] = v ELSE Lives(tables, time, k, v)
      BY <2>2, <2>5, VisibleFacts
    <2>. QED BY <1>3, <2>1, <2>4, <2>6, PairFacts
  <1>. QED BY <1>1, <1>2, <1>3

\* What has not expired had not expired before.
LEMMA LivesShrink ==
    ASSUME NEW tables \in Tables, NEW time \in Nat, NEW k \in Key, NEW v, Lives(tables, time + 1, k, v)
    PROVE  Lives(tables, time, k, v)
  BY DEF Lives, Tables, is_expired, Expiry, NoExpiry

\* The invariant holds at first ...
LEMMA ScanInit ==
    ASSUME Init
    PROVE  ScanInv
  <1>1. tb \in Tables
    <2>1. tb \in [data : [Key -> OldValue \cup {Absent}], ttl : [Key -> Ttl \cup {NoExpiry}]]
      BY DEF Init, Contents
    <2>2. OldValue \cup {Absent} \subseteq MaybeValue /\ Ttl \cup {NoExpiry} \subseteq Expiry
      BY ScanAssumption DEF MaybeValue, Expiry
    <2>. QED BY <2>1, <2>2 DEF Tables
  <1>2. /\ scan = NoScan /\ txn = NoTxn /\ snap = NoSnap /\ pending = NoPending /\ now = 0
        /\ backend \in {"redb", "sled", "fjall"}
    BY ScanAssumption DEF Init
  <1>3. EmptyTables \in Tables /\ NoExpiry \in Expiry /\ NoPairs \in [Key -> MaybeValue]
    BY CoreTypes
  <1>4. Pairs(Visible(EmptyTables, 0)) = {}
    BY DEF Pairs, Visible, EmptyTables
  <1>5. ScanTypes
    BY <1>1, <1>2, <1>3, <1>4 DEF ScanTypes, NoTxn, NoSnap, NoPending, NoTouch
  <1>6. scan.phase = "none" /\ scan.out = <<>> /\ scan.item = NoItem /\ scan.keys = scan.want /\ scan.of = "store"
    BY <1>2 DEF NoScan
  <1>7. ScanShape
    BY <1>2, <1>3 DEF ScanShape, NoScan
  <1>8. Result = {}
    BY <1>6 DEF Result
  <1>. QED BY <1>5, <1>6, <1>7, <1>8 DEF ScanInv, ScanKinds, OutOK, ItemOK, ViewOK, NothingMissed, MapOK, ScanHonest

\* ... and whenever no scan is under way.
LEMMA IdleInv ==
    ASSUME ScanTypes', scan' = NoScan
    PROVE  ScanInv'
  <1>1. EmptyTables \in Tables /\ NoPairs \in [Key -> MaybeValue]
    BY CoreTypes
  <1>2. /\ scan'.phase = "none" /\ scan'.out = <<>> /\ scan'.item = NoItem /\ scan'.keys = scan'.want
        /\ scan'.of = "store"
    BY DEF NoScan
  <1>3. ScanShape'
    BY <1>1 DEF ScanShape, NoScan
  <1>4. Result' = {}
    BY <1>2 DEF Result
  <1>. QED BY <1>2, <1>3, <1>4 DEF ScanInv, ScanKinds, OutOK, ItemOK, ViewOK, NothingMissed, MapOK, ScanHonest

\* What get shows of the scanned object, and the keys that are its own, are
\* settled by the tables, the clock, the transaction and the snapshot.
LEMMA ShownNext ==
    ASSUME UNCHANGED <<backend, txn, snap>>, scan'.of = scan.of
    PROVE  Shown(scan.of, tb, now)' = Shown(scan.of, tb', now') /\ Mine' = Mine
  <1>1. Written' = Written
    BY DEF Written
  <1>2. TxnTables(tb)' = TxnTables(tb')
    BY <1>1 DEF TxnTables
  <1>3. TxnGet(tb, now)' = TxnGet(tb', now')
    BY <1>1, <1>2 DEF TxnGet
  <1>. QED BY <1>1, <1>3 DEF Mine, Shown

\* What the loop reads of a key not written since is what get shows of it.
LEMMA LoopReads ==
    ASSUME ScanInv, scan.phase # "none", NEW k \in Key \ Mine, NEW v \in Value,
           scan.of = "snap" \/ k \notin scan.raced
    PROVE  <<k, v>> \in Shown(scan.of, tb, now) <=>
             ScanData[k] = v /\ ~is_expired(ScanTtl[k], JudgedAt)
  <1>1. ScanTypes /\ tb \in Tables /\ scan.of \in {"store", "txn", "snap"} /\ backend \in {"redb", "sled", "fjall"}
    BY DEF ScanInv, ScanTypes, ScanShape
  <1>2. CASE scan.of = "snap"
    <2>1. ScanData = snap.tables.data /\ ScanTtl = snap.tables.ttl /\ JudgedAt = snap.captured_at
      BY <1>2 DEF ScanInv, ViewOK, ScanData, ScanTtl, JudgedAt
    <2>. QED BY <1>1, <1>2, <2>1, ShownFacts DEF Lives
  <1>3. CASE scan.of # "snap"
    <2>1. JudgedAt = now /\ ScanData[k] = tb.data[k] /\ ScanTtl[k] = tb.ttl[k]
      BY <1>1, <1>3 DEF ScanInv, ViewOK, ScanData, ScanTtl, JudgedAt
    <2>2. scan.of = "txn" => k \notin Written
      BY DEF Mine
    <2>. QED BY <1>1, <1>3, <2>1, <2>2, ShownFacts DEF Lives
  <1>. QED BY <1>2, <1>3

\* What is frozen when a scan begins.
LEMMA IterViewFacts ==
    ASSUME ScanTypes, NEW of \in {"store", "txn", "snap"}
    PROVE  /\ IterView(of) \in Tables
           /\ of = "snap" => IterView(of) = snap.tables
           /\ of # "snap" /\ backend # "sled" =>
                \A k \in Key \ (IF of = "txn" THEN Written ELSE {}) :
                    IterView(of).data[k] = tb.data[k] /\ IterView(of).ttl[k] = tb.ttl[k]
  <1>1. tb \in Tables /\ snap.tables \in Tables /\ EmptyTables \in Tables
    BY CoreTypes DEF ScanTypes
  <1>2. CASE of = "snap"
    BY <1>1, <1>2 DEF IterView
  <1>3. CASE of = "store"
    BY <1>1, <1>3 DEF IterView
  <1>4. CASE of = "txn"
    <2>1. IterView(of) = IF backend = "sled" THEN EmptyTables ELSE TxnTables(tb)
      BY <1>4 DEF IterView
    <2>. QED BY <1>1, <1>4, <2>1, TxnTablesFacts
  <1>. QED BY <1>2, <1>3, <1>4

\* A scan begins.
LEMMA BegunInv ==
    ASSUME ScanInv, scan = NoScan, NEW of \in {"store", "txn", "snap"}, NEW want \in SUBSET Key,
           NEW flt \in BOOLEAN, NEW rev \in BOOLEAN, of = "txn" => ~rev,
           Loop(of, want, want, flt, rev)
    PROVE  ScanInv'
  <1> DEFINE shown == Shown(of, tb, now)
             view == IterView(of)
  <1>1. /\ ScanTypes /\ tb \in Tables /\ now \in Nat /\ backend \in {"redb", "sled", "fjall"}
        /\ NoPairs \in [Key -> MaybeValue] /\ EmptyTables \in Tables
    BY CoreTypes DEF ScanInv, ScanTypes
  <1>2. view \in Tables /\ shown \in SUBSET (Key \X Value)
    BY <1>1, ShownFacts, IterViewFacts
  <1>3. /\ UNCHANGED <<backend, tb, now, pending, writes, txn, snap>>
        /\ scan' = [NoScan EXCEPT !.of = of, !.phase = "loop", !.reversed = rev, !.want = want,
                      !.keys = want, !.filtered = flt, !.view = view, !.ever = shown, !.always = shown]
    BY DEF Loop
  <1> HIDE DEF shown, view
  <1>4. /\ scan'.of = of /\ scan'.phase = "loop" /\ scan'.reversed = rev /\ scan'.want = want
        /\ scan'.keys = want /\ scan'.view = view /\ scan'.ever = shown /\ scan'.always = shown
        /\ scan'.at = 0 /\ scan'.item = NoItem /\ scan'.merged = NoPairs /\ scan'.out = <<>>
        /\ scan'.raced = {}
    BY <1>3 DEF NoScan
  <1>5. ScanShape'
    <2>1. scan' = [of |-> of, phase |-> "loop", reversed |-> rev, want |-> want, keys |-> want,
                   filtered |-> flt, view |-> view, at |-> 0, item |-> NoItem, merged |-> NoPairs,
                   out |-> <<>>, ever |-> shown, always |-> shown, raced |-> {}]
      BY <1>3 DEF NoScan
    <2>. QED BY <1>1, <1>2, <2>1 DEF ScanShape
  <1>6. ScanTypes'
    BY <1>1, <1>3 DEF ScanTypes, Pairs
  <1>7. ScanKinds' /\ OutOK' /\ ItemOK'
    BY <1>4 DEF ScanKinds, OutOK, ItemOK
  <1>8. /\ Shown(scan.of, tb, now)' = shown
        /\ Mine' = IF of = "txn" THEN Written ELSE {}
    <2>1. Written' = Written
      BY <1>3 DEF Written
    <2>2. TxnTables(tb)' = TxnTables(tb)
      BY <1>3, <2>1 DEF TxnTables
    <2>3. TxnGet(tb, now)' = TxnGet(tb, now)
      BY <1>3, <2>1, <2>2 DEF TxnGet
    <2>. QED BY <1>3, <1>4, <2>1, <2>3 DEF Mine, Shown, shown
  <1>9. ViewOK'
    <2>1. ASSUME of # "snap", backend = "redb", NEW k \in Key \ Mine', NEW v \in Value, Lives(view, now, k, v)
          PROVE  <<k, v>> \in shown
      <3>1. Lives(tb, now, k, v)
        BY <1>1, <1>8, <2>1, IterViewFacts DEF Lives, view
      <3>. QED BY <1>1, <1>8, <2>1, <3>1, ShownFacts DEF shown
    <2>2. \A k \in Key, v \in Value : Lives(scan.view, now, k, v)' <=> Lives(view, now, k, v)
      BY <1>3, <1>4 DEF Lives
    <2>3. of = "snap" => view = snap.tables
      BY <1>1, IterViewFacts DEF view
    <2>4. of # "snap" /\ backend # "sled" =>
             \A k \in Key \ (scan.raced \cup Mine)' : view.data[k] = tb.data[k] /\ view.ttl[k] = tb.ttl[k]
      BY <1>1, <1>4, <1>8, IterViewFacts DEF view
    <2>. QED BY <1>3, <1>4, <1>8, <2>1, <2>2, <2>3, <2>4 DEF ViewOK
  <1>10. NothingMissed'
    <2>1. ASSUME NEW p \in shown PROVE PlaceOf(p[1]) > 0
      BY <1>2, <2>1, PlaceFacts, ScanAssumption
    <2>. QED BY <1>4, <2>1 DEF NothingMissed, Wanted
  <1>11. MapOK'
    BY <1>4 DEF MapOK, NoPairs
  <1>12. ScanHonest'
    BY <1>4 DEF ScanHonest, Result
  <1>. QED BY <1>5, <1>6, <1>7, <1>9, <1>10, <1>11, <1>12 DEF ScanInv

\* Every way to begin one.
LEMMA StartInv ==
    ASSUME ScanInv, StartScan
    PROVE  ScanInv'
  <1>0. scan = NoScan
    BY DEF StartScan
  <1>1. ASSUME NEW b, NEW want \in SUBSET Key, NEW keys, NEW flt \in BOOLEAN, keys = want,
               BeginScan(b, want, keys, flt)
        PROVE  ScanInv'
    BY <1>0, <1>1, BegunInv DEF BeginScan
  <1>1a. ASSUME NEW b, NEW want \in SUBSET Key, NEW keys, keys = want, BeginSnapScan(b, want, keys)
         PROVE  ScanInv'
    BY <1>0, <1>1a, BegunInv DEF BeginSnapScan
  <1>2. \A lo, hi : Within(lo, hi) \in SUBSET Key
    BY DEF Within
  <1>3. \A p \in ByteString :
          /\ NativePrefix(p) \in SUBSET Key /\ RedbPrefix(p) = NativePrefix(p)
          /\ DefaultPrefix(p) = NativePrefix(p)
          /\ prefix_upper_bound(p) # Unbounded => SnapPrefix(p) = NativePrefix(p)
    BY PrefixBoundsExact DEF NativePrefix, SnapPrefix
  <1>4. CASE \/ redb_iter \/ redb_keys \/ redb_count \/ redb_iter_collected
             \/ sled_iter \/ sled_keys \/ sled_count
             \/ fjall_iter \/ fjall_keys \/ fjall_count
    BY <1>1, <1>4 DEF redb_iter, redb_keys, redb_count, redb_iter_collected, sled_iter, sled_keys,
         sled_count, fjall_iter, fjall_keys, fjall_count, Everything
  <1>5. ASSUME NEW p \in ByteString,
               \/ redb_prefix_scan(p) \/ redb_prefix_iter(p) \/ sled_prefix_scan(p)
               \/ fjall_prefix_scan(p) \/ default_prefix_scan(p)
        PROVE  ScanInv'
    BY <1>1, <1>3, <1>5 DEF redb_prefix_scan, redb_prefix_iter, sled_prefix_scan,
         fjall_prefix_scan, default_prefix_scan
  <1>6. ASSUME NEW p \in ByteString, snap_prefix_scan(p)
        PROVE  ScanInv'
    BY <1>1a, <1>3, <1>6 DEF snap_prefix_scan
  <1>7. ASSUME NEW lo, NEW hi,
               redb_range(lo, hi) \/ redb_range_iter(lo, hi) \/ sled_range(lo, hi) \/ fjall_range(lo, hi)
        PROVE  ScanInv'
    BY <1>1, <1>2, <1>7 DEF redb_range, redb_range_iter, sled_range, fjall_range
  <1>8. ASSUME NEW lo, NEW hi, range_rev(lo, hi)
        PROVE  ScanInv'
    BY <1>0, <1>2, <1>8, BegunInv DEF range_rev
  <1>9. ASSUME NEW lo, NEW hi,
               redb_txn_range(lo, hi) \/ sled_txn_range(lo, hi) \/ fjall_txn_range(lo, hi)
        PROVE  ScanInv'
    <2>1. Loop("txn", Within(lo, hi), Within(lo, hi), TRUE, FALSE)
      BY <1>9 DEF redb_txn_range, sled_txn_range, fjall_txn_range, BeginTxnRange
    <2>. QED BY <1>0, <1>2, <2>1, BegunInv
  <1>10. ASSUME NEW lo, NEW hi,
                redb_snap_range(lo, hi) \/ sled_snap_range(lo, hi) \/ fjall_snap_range(lo, hi)
         PROVE  ScanInv'
    BY <1>1a, <1>2, <1>10 DEF redb_snap_range, sled_snap_range, fjall_snap_range
  <1>. QED BY <1>4, <1>5, <1>6, <1>7, <1>8, <1>9, <1>10 DEF StartScan

\* What the steps of others leave of a scan.
LEMMA ObserveInv ==
    ASSUME ScanInv, ScanTypes', NEW written \in SUBSET Key, Observe(tb', now', written),
           UNCHANGED <<backend, txn, snap>>, now' \in {now, now + 1},
           \A k \in Key \ written : tb'.data[k] = tb.data[k] /\ tb'.ttl[k] = tb.ttl[k]
    PROVE  ScanInv'
  <1> DEFINE shown == Shown(scan.of, tb', now')
             told == Told(scan.of, written)
  <1>0. /\ ScanTypes /\ ScanShape /\ tb \in Tables /\ tb' \in Tables /\ now \in Nat
        /\ scan.view \in Tables /\ scan.of \in {"store", "txn", "snap"}
    BY DEF ScanInv, ScanTypes, ScanShape
  <1>1. CASE scan.phase = "none"
    <2>1. /\ scan' = scan /\ scan.out = <<>> /\ scan.item = NoItem /\ scan.keys = scan.want
          /\ scan.of = "txn" => ~scan.reversed
      BY <1>1 DEF Observe, ScanInv, ScanKinds
    <2>2. ScanShape'
      BY <1>0, <2>1 DEF ScanShape
    <2>3. Result' = {}
      BY <2>1 DEF Result
    <2>. QED BY <1>1, <2>1, <2>2, <2>3
           DEF ScanInv, ScanKinds, OutOK, ItemOK, ViewOK, NothingMissed, MapOK, ScanHonest
  <1>2. CASE scan.phase # "none"
    <2>0. shown \in SUBSET (Key \X Value) /\ told \in SUBSET Key
      BY <1>0, ShownFacts DEF Told
    <2>1. scan' = [scan EXCEPT !.ever = @ \cup shown, !.always = @ \cap shown, !.raced = @ \cup told]
      BY <1>2 DEF Observe
    <2>2. /\ Shown(scan.of, tb, now)' = shown /\ Mine' = Mine
      BY <1>0, <2>1, ShownNext DEF ScanShape
    <2>2a. \A k \in Key \ (told \cup Mine) : scan.of # "snap" => tb'.data[k] = tb.data[k] /\ tb'.ttl[k] = tb.ttl[k]
      BY <1>0 DEF Told, Mine
    <2> HIDE DEF shown, told
    <2>3. /\ scan'.phase = scan.phase /\ scan'.out = scan.out /\ scan'.item = scan.item
          /\ scan'.want = scan.want /\ scan'.keys = scan.keys /\ scan'.view = scan.view
          /\ scan'.at = scan.at /\ scan'.reversed = scan.reversed /\ scan'.filtered = scan.filtered
          /\ scan'.of = scan.of /\ scan'.merged = scan.merged
          /\ scan'.ever = scan.ever \cup shown /\ scan'.always = scan.always \cap shown
          /\ scan'.raced = scan.raced \cup told
      BY <1>0, <2>1 DEF ScanShape
    <2>3a. ScanShape'
      BY <1>0, <2>0, <2>1 DEF ScanShape
    <2>3b. ScanKinds' /\ OutOK'
      BY <2>3 DEF ScanInv, ScanKinds, OutOK
    <2>4. ItemOK'
      <3>1. CASE scan.item = NoItem
        BY <2>3, <3>1 DEF ItemOK
      <3>2. CASE scan.item # NoItem
        <4> DEFINE k == scan.item[1]
        <4>1. k \in Key
          BY <1>0, <3>2 DEF ScanShape
        <4>2. ASSUME backend # "sled" \/ scan.of = "snap" \/ k \notin scan'.raced \cup Mine
              PROVE  scan.item[2] = ScanData'[k]
          <5>1. scan.item[2] = ScanData[k]
            BY <2>3, <3>2, <4>2 DEF ScanInv, ItemOK
          <5>2. CASE backend # "sled" \/ scan.of = "snap"
            BY <2>3, <5>1, <5>2 DEF ScanData
          <5>3. CASE backend = "sled" /\ scan.of # "snap"
            BY <2>2a, <2>3, <4>1, <4>2, <5>1, <5>3 DEF ScanData
          <5>. QED BY <5>2, <5>3
        <4>. QED BY <2>2, <2>3, <3>2, <4>2 DEF ScanInv, ItemOK
      <3>. QED BY <3>1, <3>2
    <2>5. ViewOK'
      <3>1. ASSUME scan.of # "snap", backend = "redb", NEW k \in Key \ Mine, NEW v \in Value,
                   Lives(scan.view, now', k, v)
            PROVE  <<k, v>> \in scan.ever
        <4>1. Lives(scan.view, now, k, v)
          BY <1>0, <3>1, LivesShrink
        <4>. QED BY <1>2, <3>1, <4>1 DEF ScanInv, ViewOK
      <3>2. scan.of # "snap" /\ backend # "sled" => \A k \in Key \ (scan'.raced \cup Mine) :
                scan.view.data[k] = tb'.data[k] /\ scan.view.ttl[k] = tb'.ttl[k]
        BY <1>2, <2>2a, <2>3 DEF ScanInv, ViewOK
      <3>3. \A k \in Key, v \in Value : Lives(scan.view, now, k, v)' <=> Lives(scan.view, now', k, v)
        BY <2>3 DEF Lives
      <3>4. scan.of = "snap" => scan.view = snap.tables
        BY <1>2 DEF ScanInv, ViewOK
      <3>. QED BY <2>2, <2>3, <3>1, <3>2, <3>3, <3>4 DEF ViewOK
    <2>6. Result' = Result /\ \A p : Got(p)' <=> Got(p)
      BY <2>3 DEF Result, Got
    <2>7. NothingMissed'
      <3>1. ASSUME NEW p \in Wanted(scan.always)', p[1] \notin scan'.raced
            PROVE  \/ Got(p)
                   \/ scan.phase # "done" /\ p[1] \in Mine
                   \/ scan.phase = "loop" /\ (scan.item = p \/ PlaceOf(p[1]) > scan.at)
        <4>1. p \in Wanted(scan.always) /\ p[1] \notin scan.raced
          BY <2>3, <3>1 DEF Wanted
        <4>. QED BY <1>2, <4>1 DEF ScanInv, NothingMissed
      <3>. QED BY <2>2, <2>3, <2>6, <3>1 DEF NothingMissed
    <2>8. \A p : Excused(p) => Excused(p)'
      BY <2>3 DEF Excused
    <2>9. MapOK'
      BY <2>2, <2>3, <2>8 DEF ScanInv, MapOK
    <2>10. ScanHonest'
      BY <2>3, <2>6 DEF ScanInv, ScanHonest
    <2>. QED BY <2>3a, <2>3b, <2>4, <2>5, <2>7, <2>9, <2>10 DEF ScanInv
  <1>. QED BY <1>1, <1>2

\* The writer's steps.
LEMMA WriteInv ==
    ASSUME ScanInv, NEW k \in Key, NEW v \in MaybeValue, NEW exp \in Expiry, Write(k, v, exp)
    PROVE  ScanInv'
  <1> DEFINE pairs == [NoPairs EXCEPT ![k] = v]
             tables == IF backend = "sled" THEN SetData(tb, {k}, pairs)
                       ELSE Insert(tb, {k}, pairs, exp)
  <1>1. /\ tb' = tables /\ Observe(tables, now, {k}) /\ UNCHANGED <<backend, now, txn, snap>>
        /\ pending' = IF backend = "sled" THEN [key |-> k, exp |-> exp, busy |-> TRUE] ELSE NoPending
    BY DEF Write
  <1>2. tb \in Tables /\ pairs \in [Key -> MaybeValue] /\ now \in Nat /\ ScanTypes
    BY CoreTypes DEF ScanInv, ScanTypes
  <1> HIDE DEF pairs
  <1>3. tables \in Tables
    BY <1>2, SetDataType, InsertType
  <1>4. \A l \in Key \ {k} : tables.data[l] = tb.data[l] /\ tables.ttl[l] = tb.ttl[l]
    BY <1>2, SetDataAt, InsertAt
  <1> HIDE DEF tables
  <1>6. k \in Seq(Nat)
    BY StringFacts, ScanAssumption
  <1>7. ScanTypes'
    BY <1>1, <1>2, <1>3, <1>6, CoreTypes DEF ScanTypes, NoPending, Pairs
  <1>. QED BY <1>1, <1>2, <1>4, <1>7, ObserveInv

\* sled's second write.
LEMMA TtlTreeInv ==
    ASSUME ScanInv, WriteTtlTree
    PROVE  ScanInv'
  <1> DEFINE k == pending.key
             tables == SetTtl(tb, {k}, pending.exp)
  <1>1. /\ tb' = tables /\ Observe(tables, now, {k}) /\ UNCHANGED <<backend, now, txn, snap>>
        /\ pending' = NoPending /\ k \in Key
    BY DEF WriteTtlTree, ScanInv, ScanTypes
  <1>2. tb \in Tables /\ pending.exp \in Expiry /\ now \in Nat /\ ScanTypes
    BY DEF ScanInv, ScanTypes
  <1>3. tables \in Tables
    BY <1>1, <1>2, SetTtlType
  <1>4. \A l \in Key \ {k} : tables.data[l] = tb.data[l] /\ tables.ttl[l] = tb.ttl[l]
    BY <1>2, SetTtlAt
  <1> HIDE DEF tables
  <1>5. ScanTypes'
    BY <1>1, <1>2, <1>3, CoreTypes DEF ScanTypes, NoPending, Pairs
  <1>. QED BY <1>1, <1>2, <1>4, <1>5, ObserveInv

\* Time passes.
LEMMA TickInv ==
    ASSUME ScanInv, Tick
    PROVE  ScanInv'
  <1>1. now' = now + 1 /\ Observe(tb, now', {}) /\ UNCHANGED <<backend, tb, pending, txn, snap>>
    BY DEF Tick
  <1>2. tb \in Tables /\ now \in Nat /\ ScanTypes
    BY DEF ScanInv, ScanTypes
  <1>3. ScanTypes'
    BY <1>1, <1>2 DEF ScanTypes, Pairs
  <1>. QED BY <1>1, <1>2, <1>3, ObserveInv

\* What a step of the scan itself leaves alone.
SameScan ==
    /\ scan'.of = scan.of /\ scan'.reversed = scan.reversed /\ scan'.want = scan.want
    /\ scan'.keys = scan.keys /\ scan'.filtered = scan.filtered /\ scan'.view = scan.view
    /\ scan'.ever = scan.ever /\ scan'.always = scan.always /\ scan'.raced = scan.raced

\* The view and the histories stay as they are.
LEMMA StepFrame ==
    ASSUME ScanInv, scan.phase # "none", SameScan,
           UNCHANGED <<backend, tb, now, pending, writes, txn, snap>>
    PROVE  /\ ScanTypes' /\ ViewOK' /\ Mine' = Mine /\ Wanted(scan.always)' = Wanted(scan.always)
           /\ \A p : Excused(p)' <=> Excused(p)
  <1>1. ScanTypes'
    BY DEF ScanInv, ScanTypes, Pairs
  <1>2. Mine' = Mine /\ Shown(scan.of, tb, now)' = Shown(scan.of, tb, now)
    <2>1. scan'.of = scan.of
      BY DEF SameScan
    <2>. QED BY <2>1, ShownNext
  <1>3. \A k \in Key, v \in Value : Lives(scan.view, now, k, v)' <=> Lives(scan.view, now, k, v)
    BY DEF Lives, SameScan
  <1>4. ViewOK'
    BY <1>2, <1>3 DEF ScanInv, ViewOK, SameScan
  <1>. QED BY <1>1, <1>2, <1>4 DEF Wanted, Excused, SameScan

\* The loop fetches the next item.
LEMMA FetchInv ==
    ASSUME ScanInv, FetchItem
    PROVE  ScanInv'
  <1> DEFINE i == Min(Ahead)
             k == KeysInOrder[i]
  <1>1. /\ scan.phase = "loop" /\ scan.item = NoItem /\ Ahead # {}
        /\ scan' = [scan EXCEPT !.at = i, !.item = <<k, ScanData[k]>>]
        /\ UNCHANGED <<backend, tb, now, pending, writes, txn, snap>>
    BY DEF FetchItem
  <1>2. /\ ScanTypes /\ ScanShape /\ tb \in Tables /\ scan.view \in Tables /\ scan.at \in Nat
    BY DEF ScanInv, ScanTypes, ScanShape
  <1>3. i \in Ahead /\ \A j \in Ahead : i <= j
    <2>1. Ahead \in SUBSET Nat
      BY PlaceFacts DEF Ahead
    <2>. QED BY <1>1, <2>1, LeastMember
  <1>4. /\ i \in DOMAIN KeysInOrder /\ i \in Nat /\ i > scan.at /\ k \in scan.keys /\ ScanData[k] # Absent
    BY <1>3, PlaceFacts DEF Ahead
  <1> HIDE DEF i
  <1>5. k \in Key /\ PlaceOf(k) = i /\ k \in scan.want
    BY <1>2, <1>4, PlaceFacts DEF ScanInv, ScanKinds, ScanShape
  <1>6. ScanData[k] \in Value
    <2>1. ScanData[k] \in MaybeValue
      BY <1>2, <1>5 DEF ScanData, Tables
    <2>. QED BY <1>4, <2>1 DEF MaybeValue
  <1> DEFINE it == <<k, ScanData[k]>>
  <1>7. it \in Key \X Value /\ it # NoItem /\ it[1] = k /\ it[2] = ScanData[k]
    BY <1>5, <1>6 DEF NoItem
  <1> HIDE DEF it, k
  <1>8. /\ scan'.phase = scan.phase /\ scan'.out = scan.out /\ scan'.item = it
        /\ scan'.at = i /\ scan'.merged = scan.merged /\ SameScan
    BY <1>1, <1>2 DEF ScanShape, it, SameScan
  <1>8a. /\ scan'.of = scan.of /\ scan'.reversed = scan.reversed /\ scan'.want = scan.want
         /\ scan'.keys = scan.keys /\ scan'.filtered = scan.filtered /\ scan'.view = scan.view
         /\ scan'.ever = scan.ever /\ scan'.always = scan.always /\ scan'.raced = scan.raced
    BY <1>8 DEF SameScan
  <1>9. ScanShape'
    <2>1. scan' = [scan EXCEPT !.at = i, !.item = it]
      BY <1>1 DEF it
    <2>. QED BY <1>2, <1>4, <1>7, <2>1 DEF ScanShape
  <1>10. /\ ScanTypes' /\ ViewOK' /\ Mine' = Mine /\ Wanted(scan.always)' = Wanted(scan.always)
         /\ \A p : Excused(p)' <=> Excused(p)
    BY <1>1, <1>8, StepFrame
  <1>11. ScanData' = ScanData /\ Result' = Result /\ \A p : Got(p)' <=> Got(p)
    BY <1>1, <1>8, <1>8a DEF ScanData, Result, Got
  <1>12. \A n \in DOMAIN scan.out : scan.out[n][1] \in Key /\ PlaceOf(scan.out[n][1]) \in Nat
                                   /\ PlaceOf(scan.out[n][1]) <= scan.at
    <2>1. \A n \in DOMAIN scan.out : scan.out[n] \in Key \X Value
      BY <1>2 DEF ScanShape
    <2>. QED BY <1>1, <2>1, PlaceFacts DEF ScanInv, OutOK
  <1>13. OutOK' /\ ScanKinds'
    <2>1. \A n \in DOMAIN scan.out : PlaceOf(scan.out[n][1]) <= i
      BY <1>2, <1>4, <1>12
    <2>. QED BY <1>1, <1>8, <1>8a, <2>1 DEF ScanInv, OutOK, ScanKinds
  <1>14. ItemOK'
    <2>1. \A n \in DOMAIN scan.out : PlaceOf(scan.out[n][1]) < i
      BY <1>2, <1>4, <1>12
    <2>. QED BY <1>1, <1>5, <1>7, <1>8, <1>8a, <1>11, <2>1 DEF ItemOK
  <1>15. MapOK'
    BY <1>1, <1>8, <1>8a, <1>10 DEF ScanInv, MapOK
  <1>16. NothingMissed'
    <2>1. ASSUME NEW p \in Wanted(scan.always), p[1] \notin scan.raced, p[1] \notin Mine
          PROVE  Got(p) \/ it = p \/ PlaceOf(p[1]) > i
      <3>1. Got(p) \/ PlaceOf(p[1]) > scan.at
        <4>1. scan.item # p
          BY <1>1, <1>2, <2>1 DEF ScanShape, Wanted, NoItem
        <4>. QED BY <1>1, <2>1, <4>1 DEF ScanInv, NothingMissed
      <3>2. p \in Key \X Value /\ p \in Shown(scan.of, tb, now) /\ p[1] \in scan.want
        BY <1>1, <1>2, <2>1 DEF ScanInv, ViewOK, ScanShape, Wanted
      <3>3. PICK l \in Key, v \in Value : p = <<l, v>>
        BY <3>2
      <3>4. ScanData[p[1]] = p[2] /\ p[2] # Absent
        BY <1>1, <2>1, <3>2, <3>3, LoopReads, AbsentAssumption
      <3>5. ASSUME PlaceOf(p[1]) > scan.at PROVE it = p \/ PlaceOf(p[1]) > i
        <4>1. PlaceOf(p[1]) \in Nat /\ PlaceOf(p[1]) \in Ahead
          BY <3>2, <3>4, <3>5, PlaceFacts DEF Ahead, ScanInv, ScanKinds
        <4>2. CASE PlaceOf(p[1]) = i
          <5>1. p[1] = k
            BY <3>2, <4>2, PlaceFacts DEF k
          <5>. QED BY <3>2, <3>4, <5>1 DEF it
        <4>. QED BY <1>3, <1>4, <4>1, <4>2
      <3>. QED BY <3>1, <3>5
    <2>. QED BY <1>1, <1>8, <1>8a, <1>10, <1>11, <2>1 DEF NothingMissed
  <1>17. ScanHonest'
    BY <1>1, <1>8a, <1>11 DEF ScanInv, ScanHonest
  <1>. QED BY <1>9, <1>10, <1>13, <1>14, <1>15, <1>16, <1>17 DEF ScanInv

\* An item that was there all along and was not written has not expired where
\* the loop looks its expiry up.
LEMMA ItemLives ==
    ASSUME ScanInv, scan.item # NoItem, scan.item \in scan.always,
           scan.item[1] \notin scan.raced, scan.item[1] \notin Mine
    PROVE  ~is_expired(ScanTtl[scan.item[1]], JudgedAt)
  <1>1. scan.phase # "none" /\ scan.item \in Key \X Value
    BY DEF ScanInv, ItemOK, ScanShape
  <1>2. scan.item \in Shown(scan.of, tb, now)
    BY <1>1 DEF ScanInv, ViewOK
  <1>3. PICK k \in Key, v \in Value : scan.item = <<k, v>>
    BY <1>1
  <1>. QED BY <1>1, <1>2, <1>3, LoopReads

\* An item a filtering scan keeps was visible.
LEMMA ItemHonest ==
    ASSUME ScanInv, scan.item # NoItem, scan.item[1] \notin Mine,
           ~is_expired(ScanTtl[scan.item[1]], JudgedAt)
    PROVE  Excused(scan.item)
  <1>1. /\ scan.phase # "none" /\ scan.item \in Key \X Value
        /\ backend # "sled" \/ scan.of = "snap" \/ scan.item[1] \notin scan.raced
             => scan.item[2] = ScanData[scan.item[1]]
    BY DEF ScanInv, ItemOK, ScanShape
  <1>2. PICK k \in Key, v \in Value : scan.item = <<k, v>>
    BY <1>1
  <1>3. CASE scan.of = "snap" \/ k \notin scan.raced
    <2>1. scan.item \in Shown(scan.of, tb, now)
      BY <1>1, <1>2, <1>3, LoopReads
    <2>. QED BY <1>1, <2>1 DEF ScanInv, ViewOK, Excused
  <1>4. CASE scan.of # "snap" /\ backend = "redb"
    <2>1. Lives(scan.view, now, k, v)
      BY <1>1, <1>2, <1>4 DEF Lives, ScanData, ScanTtl, JudgedAt
    <2>. QED BY <1>1, <1>2, <1>4, <2>1 DEF ScanInv, ViewOK, Excused
  <1>. QED BY <1>2, <1>3, <1>4 DEF Excused

\* The loop of a transaction's range looks an expiry up, and collects the item
\* or drops it.
LEMMA CollectInv ==
    ASSUME ScanInv, FilterItem, scan.of = "txn"
    PROVE  ScanInv'
  <1> DEFINE it == scan.item
             expired == scan.filtered /\ is_expired(ScanTtl[it[1]], JudgedAt)
             map == IF expired THEN scan.merged ELSE [scan.merged EXCEPT ![it[1]] = it[2]]
  <1>1. /\ it # NoItem /\ scan' = [scan EXCEPT !.item = NoItem, !.merged = map]
        /\ UNCHANGED <<backend, tb, now, pending, writes, txn, snap>>
    <2>1. ScanShape /\ UNCHANGED <<backend, tb, now, pending, writes, txn, snap>> /\ it # NoItem
      BY DEF FilterItem, ScanInv
    <2>2. CASE expired
      BY <2>1, <2>2 DEF FilterItem, ScanShape
    <2>3. CASE ~expired
      BY <2>1, <2>3 DEF FilterItem, ScanShape
    <2>. QED BY <2>1, <2>2, <2>3
  <1>2. /\ ScanTypes /\ ScanShape /\ it \in Key \X Value /\ scan.merged \in [Key -> MaybeValue]
    BY <1>1 DEF ScanInv, ScanShape
  <1>3. /\ scan.phase = "loop" /\ it[1] \in scan.want /\ PlaceOf(it[1]) = scan.at /\ scan.out = <<>>
    BY <1>1 DEF ScanInv, ItemOK, ScanKinds
  <1>4. /\ map \in [Key -> MaybeValue] /\ it[1] \in Key /\ it[2] \in Value
        /\ expired => map = scan.merged
        /\ ~expired => \A k \in Key : map[k] = IF k = it[1] THEN it[2] ELSE scan.merged[k]
    BY <1>2 DEF MaybeValue
  <1>4a. expired \in BOOLEAN
    BY <1>2 DEF ScanShape, is_expired
  <1> HIDE DEF map
  <1>5. /\ scan'.phase = scan.phase /\ scan'.out = scan.out /\ scan'.item = NoItem
        /\ scan'.at = scan.at /\ scan'.merged = map /\ SameScan
    BY <1>1, <1>2 DEF ScanShape, SameScan
  <1>6. /\ scan'.of = scan.of /\ scan'.reversed = scan.reversed /\ scan'.want = scan.want
        /\ scan'.keys = scan.keys /\ scan'.filtered = scan.filtered /\ scan'.always = scan.always
        /\ scan'.raced = scan.raced /\ scan'.ever = scan.ever
    BY <1>5 DEF SameScan
  <1>7. ScanShape'
    BY <1>1, <1>2, <1>4 DEF ScanShape
  <1>8. /\ ScanTypes' /\ ViewOK' /\ Mine' = Mine /\ Wanted(scan.always)' = Wanted(scan.always)
        /\ \A p : Excused(p)' <=> Excused(p)
    BY <1>1, <1>3, <1>5, StepFrame
  <1>9. ScanKinds' /\ OutOK' /\ ItemOK'
    BY <1>3, <1>5, <1>6 DEF ScanInv, ScanKinds, OutOK, ItemOK
  <1>10. ASSUME NEW k \in Key, map[k] # Absent
         PROVE  k \in scan.want /\ (k \notin Mine /\ scan.filtered => Excused(<<k, map[k]>>))
    <2>1. CASE expired \/ k # it[1]
      BY <1>3, <1>4, <1>10, <2>1 DEF ScanInv, MapOK
    <2>2. CASE ~expired /\ k = it[1]
      <3>1. <<k, map[k]>> = it
        BY <1>2, <1>4, <2>2
      <3>2. scan.filtered => ~is_expired(ScanTtl[it[1]], JudgedAt)
        BY <2>2
      <3>. QED BY <1>1, <1>3, <2>2, <3>1, <3>2, ItemHonest
    <2>. QED BY <2>1, <2>2
  <1>11. MapOK'
    BY <1>3, <1>5, <1>6, <1>8, <1>10 DEF MapOK
  <1>12. NothingMissed'
    <2>1. ASSUME NEW p \in Wanted(scan.always), p[1] \notin scan.raced, p[1] \notin Mine
          PROVE  map[p[1]] = p[2] \/ PlaceOf(p[1]) > scan.at
      <3>1. scan.merged[p[1]] = p[2] \/ it = p \/ PlaceOf(p[1]) > scan.at
        BY <1>3, <2>1 DEF ScanInv, NothingMissed, Got
      <3>2. it = p => ~expired
        BY <1>1, <2>1, ItemLives DEF Wanted
      <3>3. p[1] \in Key /\ PlaceOf(p[1]) \in Nat /\ scan.at \in Nat
        BY <1>2, <2>1, PlaceFacts DEF Wanted, ScanShape
      <3>4. p[1] = it[1] => PlaceOf(p[1]) = scan.at
        BY <1>3
      <3>5. CASE expired
        BY <1>4, <3>1, <3>2, <3>5
      <3>6. CASE ~expired /\ p[1] # it[1]
        BY <1>4, <3>1, <3>3, <3>6
      <3>7. CASE ~expired /\ p[1] = it[1]
        <4>1. p \in Shown(scan.of, tb, now) /\ p \in Key \X Value
          BY <1>2, <1>3, <2>1 DEF ScanInv, ViewOK, Wanted, ScanShape
        <4>2. ScanData[p[1]] = p[2]
          <5>1. PICK l \in Key, v \in Value : p = <<l, v>>
            BY <4>1
          <5>. QED BY <1>3, <2>1, <4>1, <5>1, LoopReads
        <4>3. it[2] = ScanData[it[1]]
          BY <1>1, <2>1, <3>7 DEF ScanInv, ItemOK
        <4>. QED BY <1>4, <3>3, <3>7, <4>2, <4>3
      <3>. QED BY <3>5, <3>6, <3>7
    <2>. QED BY <1>3, <1>5, <1>6, <1>8, <2>1 DEF NothingMissed, Got
  <1>13. ScanHonest'
    BY <1>3, <1>5 DEF ScanHonest, Result
  <1>. QED BY <1>7, <1>8, <1>9, <1>11, <1>12, <1>13 DEF ScanInv

\* The loop of any other scan looks an expiry up, and puts the item out or drops it.
LEMMA PutOutInv ==
    ASSUME ScanInv, FilterItem, scan.of # "txn"
    PROVE  ScanInv'
  <1> DEFINE it == scan.item
             expired == scan.filtered /\ is_expired(ScanTtl[it[1]], JudgedAt)
             out == IF expired THEN scan.out ELSE Append(scan.out, it)
  <1>1. /\ it # NoItem /\ scan' = [scan EXCEPT !.item = NoItem, !.out = out]
        /\ UNCHANGED <<backend, tb, now, pending, writes, txn, snap>>
    <2>1. ScanShape /\ UNCHANGED <<backend, tb, now, pending, writes, txn, snap>> /\ it # NoItem
      BY DEF FilterItem, ScanInv
    <2>2. CASE expired
      BY <2>1, <2>2 DEF FilterItem, ScanShape
    <2>3. CASE ~expired
      BY <2>1, <2>3 DEF FilterItem, ScanShape
    <2>. QED BY <2>1, <2>2, <2>3
  <1>2. /\ ScanTypes /\ ScanShape /\ scan.at \in Nat /\ it \in Key \X Value /\ it[1] \in Key
        /\ scan.out \in Seq(Key \X Value) /\ Len(scan.out) \in Nat
    BY <1>1 DEF ScanInv, ScanShape
  <1>3. /\ scan.phase = "loop" /\ it[1] \in scan.want /\ PlaceOf(it[1]) = scan.at
        /\ \A n \in DOMAIN scan.out : PlaceOf(scan.out[n][1]) < scan.at
    BY <1>1 DEF ScanInv, ItemOK
  <1>4. /\ out \in Seq(Key \X Value)
        /\ expired => out = scan.out
        /\ ~expired => /\ Len(out) = Len(scan.out) + 1
                       /\ \A n \in 1..Len(out) : out[n] = IF n = Len(out) THEN it ELSE scan.out[n]
    BY <1>2
  <1> HIDE DEF out
  <1>5. /\ scan'.phase = scan.phase /\ scan'.out = out /\ scan'.item = NoItem
        /\ scan'.at = scan.at /\ scan'.merged = scan.merged /\ SameScan
    BY <1>1, <1>2 DEF ScanShape, SameScan
  <1>5a. /\ scan'.of = scan.of /\ scan'.reversed = scan.reversed /\ scan'.want = scan.want
         /\ scan'.keys = scan.keys /\ scan'.filtered = scan.filtered /\ scan'.always = scan.always
         /\ scan'.raced = scan.raced /\ scan'.ever = scan.ever
    BY <1>5 DEF SameScan
  <1>6. ScanShape'
    BY <1>1, <1>2, <1>4 DEF ScanShape
  <1>7. /\ ScanTypes' /\ ViewOK' /\ Mine' = Mine /\ Wanted(scan.always)' = Wanted(scan.always)
    BY <1>1, <1>3, <1>5, StepFrame
  <1>8. /\ DOMAIN scan.out = 1..Len(scan.out) /\ DOMAIN out = 1..Len(out) /\ Len(out) \in Nat
    BY <1>2, <1>4
  <1> DEFINE last == Len(out)
  <1>8a. ASSUME ~expired
         PROVE  /\ last \in 1..last /\ out[last] = it /\ last = Len(scan.out) + 1
                /\ \A n \in 1..last : n # last => n \in DOMAIN scan.out /\ out[n] = scan.out[n]
    <2>1. last = Len(scan.out) + 1 /\ \A n \in 1..last : out[n] = IF n = last THEN it ELSE scan.out[n]
      BY <1>4, <1>8a
    <2> HIDE DEF last, expired
    <2>2. last \in 1..last
      BY <1>2, <2>1
    <2>3. ASSUME NEW n \in 1..last, n # last PROVE n \in 1..Len(scan.out) /\ out[n] = scan.out[n]
      BY <1>2, <2>1, <2>3
    <2>. QED BY <1>8, <2>1, <2>2, <2>3
  <1>9. Result' = IF expired THEN Result ELSE Result \cup {it}
    <2>1. CASE expired
      BY <1>4, <1>5, <2>1 DEF Result
    <2>2. CASE ~expired
      <3>1. \A n \in 1..Len(scan.out) : n \in 1..Len(out) /\ out[n] = scan.out[n]
        BY <1>2, <1>4, <2>2
      <3>2. Len(out) \in 1..Len(out) /\ out[Len(out)] = it
        BY <1>8a, <2>2
      <3>3. \A n \in 1..Len(out) : n = Len(out) \/ n \in 1..Len(scan.out)
        BY <1>2, <1>4, <2>2
      <3>4. Result' = {out[n] : n \in 1..Len(out)} /\ Result = {scan.out[n] : n \in 1..Len(scan.out)}
        BY <1>5, <1>8 DEF Result
      <3>. QED BY <1>4, <2>2, <3>1, <3>2, <3>3, <3>4
    <2>. QED BY <2>1, <2>2
  <1>10. OutOK' /\ ScanKinds'
    <2>1. CASE expired
      BY <1>3, <1>4, <1>5, <1>5a, <2>1 DEF ScanInv, OutOK, ScanKinds
    <2>2. CASE ~expired
      <3>1. ASSUME NEW n \in 1..Len(out)
            PROVE  out[n][1] \in scan.want /\ PlaceOf(out[n][1]) <= scan.at
        <4>1. CASE n = Len(out)
          BY <1>2, <1>3, <1>4, <2>2, <4>1
        <4>2. CASE n # Len(out)
          <5>1. n \in DOMAIN scan.out /\ out[n] = scan.out[n]
            BY <1>8a, <2>2, <4>2
          <5>. QED BY <1>3, <5>1 DEF ScanInv, OutOK
        <4>. QED BY <4>1, <4>2
      <3>2. ASSUME NEW m \in 1..Len(out), NEW n \in 1..Len(out), m < n
            PROVE  PlaceOf(out[m][1]) < PlaceOf(out[n][1])
        <4>1. m \in DOMAIN scan.out /\ out[m] = scan.out[m]
          <5>0. \A a \in Nat : \A b, c \in 1..a : b < c => b # a
            OBVIOUS
          <5>1. m # last
            BY <1>8, <3>2, <5>0, Zenon
          <5>. QED BY <1>8a, <2>2, <5>1
        <4>2. CASE n = Len(out)
          BY <1>3, <1>4, <2>2, <4>1, <4>2
        <4>3. CASE n # Len(out)
          <5>1. n \in DOMAIN scan.out /\ out[n] = scan.out[n]
            BY <1>8a, <2>2, <4>3
          <5>. QED BY <1>3, <3>2, <4>1, <5>1 DEF ScanInv, OutOK
        <4>. QED BY <4>2, <4>3
      <3>. QED BY <1>3, <1>5, <1>5a, <1>8, <3>1, <3>2 DEF OutOK, ScanKinds, ScanInv
    <2>. QED BY <2>1, <2>2
  <1>11. ItemOK' /\ MapOK'
    BY <1>5, <1>5a DEF ItemOK, MapOK
  <1>12. NothingMissed'
    <2>1. ASSUME NEW p \in Wanted(scan.always), p[1] \notin scan.raced
          PROVE  p \in Result' \/ PlaceOf(p[1]) > scan.at
      <3>0. p[1] \notin Mine
        BY DEF Mine
      <3>1. p \in Result \/ it = p \/ PlaceOf(p[1]) > scan.at
        BY <1>3, <2>1, <3>0 DEF ScanInv, NothingMissed, Got
      <3>2. it = p => ~expired
        BY <1>1, <2>1, <3>0, ItemLives DEF Wanted
      <3>. QED BY <1>9, <3>1, <3>2
    <2>. QED BY <1>3, <1>5, <1>5a, <1>7, <2>1 DEF NothingMissed, Got
  <1>13. ScanHonest'
    <2>1. it[1] \notin Mine
      BY DEF Mine
    <2>2. scan.filtered /\ ~expired => Excused(it)
      BY <1>1, <2>1, ItemHonest
    <2>. QED BY <1>1, <1>5a, <1>9, <2>2 DEF ScanInv, ScanHonest, Excused
  <1>. QED BY <1>6, <1>7, <1>10, <1>11, <1>12, <1>13 DEF ScanInv

\* At the end of the loop nothing is ahead: the scan has every pair it must have.
LEMMA LoopOver ==
    ASSUME ScanInv, scan.phase = "loop", scan.item = NoItem, Ahead = {},
           NEW p \in Wanted(scan.always), p[1] \notin scan.raced, p[1] \notin Mine
    PROVE  Got(p)
  <1>1. ScanShape /\ scan.at \in Nat
    BY DEF ScanInv, ScanShape
  <1>2. p \in Key \X Value /\ p \in Shown(scan.of, tb, now) /\ p[1] \in scan.want
    BY <1>1 DEF ScanInv, ViewOK, ScanShape, Wanted
  <1>3. Got(p) \/ PlaceOf(p[1]) > scan.at
    <2>1. <<>> \notin Key \X Value
      OBVIOUS
    <2>2. scan.item # p
      BY <1>2, <2>1 DEF NoItem
    <2>. QED BY <2>2 DEF ScanInv, NothingMissed
  <1>4. PICK k \in Key, v \in Value : p = <<k, v>>
    BY <1>2
  <1>5. ScanData[p[1]] # Absent
    BY <1>2, <1>4, LoopReads, AbsentAssumption
  <1>6. ASSUME PlaceOf(p[1]) > scan.at PROVE FALSE
    <2>1. PlaceOf(p[1]) \in Ahead
      BY <1>2, <1>5, <1>6, PlaceFacts DEF Ahead, ScanInv, ScanKinds
    <2>. QED BY <2>1
  <1>. QED BY <1>3, <1>6

\* The loop ends, and with it every scan but a transaction's.
LEMMA FinishInv ==
    ASSUME ScanInv, FinishScan, scan.of # "txn"
    PROVE  ScanInv'
  <1> DEFINE n == Len(scan.out)
             out == IF scan.reversed THEN Seqs!Reverse(scan.out) ELSE scan.out
  <1>1. /\ scan.phase = "loop" /\ scan.item = NoItem /\ Ahead = {}
        /\ scan' = [scan EXCEPT !.phase = "done", !.out = out]
        /\ UNCHANGED <<backend, tb, now, pending, writes, txn, snap>>
    BY DEF FinishScan
  <1>2. /\ ScanTypes /\ ScanShape /\ scan.at \in Nat
        /\ scan.out \in Seq(Key \X Value) /\ n \in Nat /\ DOMAIN scan.out = 1..n
    BY DEF ScanInv, ScanShape
  <1>3. /\ out \in Seq(Key \X Value) /\ DOMAIN out = 1..n
        /\ \A i \in 1..n : out[i] = IF scan.reversed THEN scan.out[(n - i) + 1] ELSE scan.out[i]
    <2>1. CASE scan.reversed
      <3>1. out = [i \in 1..n |-> scan.out[(n - i) + 1]]
        BY <2>1, ReverseFacts
      <3>2. \A i \in 1..n : (n - i) + 1 \in 1..n
        BY <1>2
      <3>3. \A i \in 1..n : scan.out[(n - i) + 1] \in Key \X Value
        BY <1>2, <3>2
      <3> HIDE DEF out
      <3>. QED BY <1>2, <2>1, <3>1, <3>3
    <2>2. CASE ~scan.reversed
      BY <1>2, <2>2
    <2>. QED BY <2>1, <2>2
  <1> HIDE DEF out
  <1>4. /\ scan'.phase = "done" /\ scan'.out = out /\ scan'.item = NoItem /\ SameScan
    BY <1>1, <1>2 DEF ScanShape, SameScan
  <1>4a. /\ scan'.of = scan.of /\ scan'.reversed = scan.reversed /\ scan'.want = scan.want
         /\ scan'.keys = scan.keys /\ scan'.filtered = scan.filtered /\ scan'.always = scan.always
         /\ scan'.raced = scan.raced /\ scan'.ever = scan.ever
    BY <1>4 DEF SameScan
  <1>5. ScanShape'
    BY <1>1, <1>2, <1>3 DEF ScanShape
  <1>6. /\ ScanTypes' /\ ViewOK' /\ Wanted(scan.always)' = Wanted(scan.always)
    BY <1>1, <1>4, StepFrame
  <1>7. \A i \in 1..n : (n - i) + 1 \in 1..n /\ (n - ((n - i) + 1)) + 1 = i
    BY <1>2
  <1>8. Result' = Result
    <2>1. Result' = {out[i] : i \in 1..n} /\ Result = {scan.out[i] : i \in 1..n}
      BY <1>2, <1>3, <1>4 DEF Result
    <2>2. ASSUME NEW i \in 1..n PROVE out[i] \in Result /\ scan.out[i] \in Result'
      <3>1. (n - i) + 1 \in 1..n /\ (n - ((n - i) + 1)) + 1 = i
        BY <1>7
      <3>2. out[i] \in Result
        BY <1>3, <2>1, <3>1
      <3>3. out[i] = scan.out[i] \/ out[(n - i) + 1] = scan.out[i]
        BY <1>3, <3>1
      <3>. QED BY <2>1, <3>1, <3>2, <3>3
    <2>. QED BY <2>1, <2>2
  <1>9. OutOK'
    <2>1. \A i \in 1..n : out[i][1] \in scan.want
      BY <1>2, <1>3, <1>7 DEF ScanInv, OutOK
    <2>2. ASSUME NEW i \in 1..n, NEW j \in 1..n, i < j
          PROVE  IF scan.reversed THEN PlaceOf(out[j][1]) < PlaceOf(out[i][1])
                 ELSE PlaceOf(out[i][1]) < PlaceOf(out[j][1])
      <3>1. (n - j) + 1 \in 1..n /\ (n - i) + 1 \in 1..n /\ (n - j) + 1 < (n - i) + 1
        BY <1>2, <2>2
      <3>2. \A a, b \in 1..n : a < b => PlaceOf(scan.out[a][1]) < PlaceOf(scan.out[b][1])
        BY <1>1, <1>2 DEF ScanInv, OutOK
      <3>3. CASE scan.reversed
        BY <1>3, <3>1, <3>2, <3>3
      <3>4. CASE ~scan.reversed
        BY <1>3, <2>2, <3>2, <3>4
      <3>. QED BY <3>3, <3>4
    <2>. QED BY <1>3, <1>4, <1>4a, <2>1, <2>2 DEF OutOK
  <1>10. ScanKinds' /\ ItemOK' /\ MapOK'
    BY <1>4, <1>4a DEF ScanInv, ScanKinds, ItemOK, MapOK
  <1>11. NothingMissed'
    <2>1. ASSUME NEW p \in Wanted(scan.always), p[1] \notin scan.raced PROVE p \in Result
      <3>1. Got(p)
        BY <1>1, <2>1, LoopOver DEF Mine
      <3>. QED BY <3>1 DEF Got
    <2>. QED BY <1>4, <1>4a, <1>6, <1>8, <2>1 DEF NothingMissed, Got
  <1>12. ScanHonest'
    BY <1>1, <1>4a, <1>8 DEF ScanInv, ScanHonest
  <1>. QED BY <1>5, <1>6, <1>9, <1>10, <1>11, <1>12 DEF ScanInv

\* A transaction's range goes on with the writes it has staged ...
LEMMA CollectedInv ==
    ASSUME ScanInv, FinishScan, scan.of = "txn"
    PROVE  ScanInv'
  <1>1. /\ scan.phase = "loop" /\ scan.item = NoItem /\ Ahead = {}
        /\ scan' = [scan EXCEPT !.phase = "merge", !.at = 0]
        /\ UNCHANGED <<backend, tb, now, pending, writes, txn, snap>>
    BY DEF FinishScan
  <1>2. ScanShape /\ scan.out = <<>>
    BY <1>1 DEF ScanInv, ScanKinds
  <1>3. /\ scan'.phase = "merge" /\ scan'.at = 0 /\ scan'.out = scan.out /\ scan'.item = NoItem
        /\ scan'.merged = scan.merged /\ SameScan
    BY <1>1, <1>2 DEF ScanShape, SameScan
  <1>4. /\ scan'.of = scan.of /\ scan'.reversed = scan.reversed /\ scan'.want = scan.want
        /\ scan'.keys = scan.keys /\ scan'.filtered = scan.filtered /\ scan'.always = scan.always
        /\ scan'.raced = scan.raced /\ scan'.ever = scan.ever
    BY <1>3 DEF SameScan
  <1>5. ScanShape'
    BY <1>1, <1>2 DEF ScanShape
  <1>6. /\ ScanTypes' /\ ViewOK' /\ Mine' = Mine /\ Wanted(scan.always)' = Wanted(scan.always)
        /\ \A p : Excused(p)' <=> Excused(p)
    BY <1>1, <1>3, StepFrame
  <1>7. ScanKinds' /\ OutOK' /\ ItemOK'
    BY <1>2, <1>3, <1>4 DEF ScanInv, ScanKinds, OutOK, ItemOK
  <1>8. \A k \in Key : ~(PlaceOf(k) <= 0)
    BY PlaceFacts, ScanAssumption
  <1>9. MapOK'
    BY <1>1, <1>3, <1>4, <1>6, <1>8 DEF ScanInv, MapOK
  <1>10. NothingMissed'
    <2>1. ASSUME NEW p \in Wanted(scan.always), p[1] \notin scan.raced, p[1] \notin Mine
          PROVE  scan.merged[p[1]] = p[2]
      BY <1>1, <2>1, LoopOver DEF Got
    <2>. QED BY <1>3, <1>4, <1>6, <2>1 DEF NothingMissed, Got
  <1>11. ScanHonest'
    BY <1>2, <1>3 DEF ScanHonest, Result
  <1>. QED BY <1>5, <1>6, <1>7, <1>9, <1>10, <1>11 DEF ScanInv

\* ... lays the next one over the map ...
LEMMA ApplyInv ==
    ASSUME ScanInv, ApplyStaged
    PROVE  ScanInv'
  <1> DEFINE i == Min(StagedAhead)
             k == KeysInOrder[i]
             map == [scan.merged EXCEPT ![k] = txn.overlay[k]]
  <1>1. /\ scan.phase = "merge" /\ StagedAhead # {}
        /\ scan' = [scan EXCEPT !.at = i, !.merged = map]
        /\ UNCHANGED <<backend, tb, now, pending, writes, txn, snap>>
    BY DEF ApplyStaged, ScanInv, ScanShape
  <1>2. /\ ScanTypes /\ ScanShape /\ scan.of = "txn" /\ scan.out = <<>> /\ scan.item = NoItem
        /\ scan.merged \in [Key -> MaybeValue] /\ scan.at \in Nat /\ Mine = Written
    BY <1>1 DEF ScanInv, ScanKinds, ScanShape, Mine
  <1>3. i \in StagedAhead /\ \A j \in StagedAhead : i <= j
    <2>1. StagedAhead \in SUBSET Nat
      BY PlaceFacts DEF StagedAhead
    <2>. QED BY <1>1, <2>1, LeastMember
  <1>4. i \in DOMAIN KeysInOrder /\ i \in Nat /\ i > scan.at /\ k \in scan.want /\ k \in Written
    BY <1>3, PlaceFacts DEF StagedAhead, ScanInv, ScanKinds
  <1>5. k \in Key /\ PlaceOf(k) = i /\ txn.overlay[k] \in MaybeValue
    <2>1. tb \in Tables
      BY <1>2 DEF ScanTypes
    <2>. QED BY <1>2, <1>4, <2>1, PlaceFacts, TxnTablesFacts
  <1> HIDE DEF i, k
  <1>6. /\ map \in [Key -> MaybeValue]
        /\ \A l \in Key : map[l] = IF l = k THEN txn.overlay[k] ELSE scan.merged[l]
    BY <1>2, <1>5
  <1> HIDE DEF map
  <1>7. /\ scan'.phase = scan.phase /\ scan'.at = i /\ scan'.out = scan.out /\ scan'.item = NoItem
        /\ scan'.merged = map /\ SameScan
    BY <1>1, <1>2 DEF ScanShape, SameScan
  <1>8. /\ scan'.of = scan.of /\ scan'.reversed = scan.reversed /\ scan'.want = scan.want
        /\ scan'.keys = scan.keys /\ scan'.filtered = scan.filtered /\ scan'.always = scan.always
        /\ scan'.raced = scan.raced /\ scan'.ever = scan.ever
    BY <1>7 DEF SameScan
  <1>9. ScanShape'
    BY <1>1, <1>2, <1>4, <1>6 DEF ScanShape
  <1>10. /\ ScanTypes' /\ ViewOK' /\ Mine' = Mine /\ Wanted(scan.always)' = Wanted(scan.always)
         /\ \A p : Excused(p)' <=> Excused(p)
    BY <1>1, <1>7, StepFrame
  <1>11. ScanKinds' /\ OutOK' /\ ItemOK'
    BY <1>1, <1>2, <1>7, <1>8 DEF ScanInv, ScanKinds, OutOK, ItemOK
  <1>12. MapOK'
    <2>1. ASSUME NEW l \in Key, map[l] # Absent
          PROVE  l \in scan.want /\ (l \notin Mine /\ scan.filtered => Excused(<<l, map[l]>>))
      BY <1>1, <1>2, <1>4, <1>6, <2>1 DEF ScanInv, MapOK
    <2>2. ASSUME NEW l \in Mine \cap scan.want, PlaceOf(l) <= i, l \in Key
          PROVE  map[l] = txn.overlay[l]
      <3>1. CASE l = k
        BY <1>6, <2>2, <3>1
      <3>2. CASE l # k
        <4>1. PlaceOf(l) \in Nat /\ PlaceOf(l) # i /\ KeysInOrder[PlaceOf(l)] = l /\ PlaceOf(l) \in DOMAIN KeysInOrder
          BY <2>2, <3>2, PlaceFacts DEF k
        <4>2. PlaceOf(l) \notin StagedAhead
          BY <1>3, <1>4, <2>2, <4>1
        <4>3. PlaceOf(l) <= scan.at
          BY <1>2, <2>2, <4>1, <4>2 DEF StagedAhead, ScanInv, ScanKinds
        <4>. QED BY <1>1, <1>2, <1>6, <2>2, <3>2, <4>3 DEF ScanInv, MapOK
      <3>. QED BY <3>1, <3>2
    <2>. QED BY <1>1, <1>7, <1>8, <1>10, <2>1, <2>2 DEF MapOK
  <1>13. NothingMissed'
    <2>1. ASSUME NEW p \in Wanted(scan.always), p[1] \notin scan.raced, p[1] \notin Mine
          PROVE  map[p[1]] = p[2]
      <3>1. scan.merged[p[1]] = p[2] /\ p[1] \in Key
        BY <1>1, <1>2, <2>1 DEF ScanInv, NothingMissed, Got, Wanted, ScanShape
      <3>. QED BY <1>2, <1>4, <1>6, <2>1, <3>1
    <2>. QED BY <1>1, <1>2, <1>7, <1>8, <1>10, <2>1 DEF NothingMissed, Got
  <1>14. ScanHonest'
    BY <1>2, <1>7 DEF ScanHonest, Result
  <1>. QED BY <1>9, <1>10, <1>11, <1>12, <1>13, <1>14 DEF ScanInv

\* ... and lists the map when all are laid over it.
LEMMA MergeInv ==
    ASSUME ScanInv, FinishMerge
    PROVE  ScanInv'
  <1> DEFINE out == Listing(scan.merged)
  <1>1. /\ scan.phase = "merge" /\ StagedAhead = {}
        /\ scan' = [scan EXCEPT !.phase = "done", !.out = out]
        /\ UNCHANGED <<backend, tb, now, pending, writes, txn, snap>>
    BY DEF FinishMerge
  <1>2. /\ ScanTypes /\ ScanShape /\ scan.of = "txn" /\ scan.item = NoItem /\ ~scan.reversed
        /\ scan.merged \in [Key -> MaybeValue] /\ scan.at \in Nat /\ Mine = Written /\ tb \in Tables
    BY <1>1 DEF ScanInv, ScanTypes, ScanKinds, ScanShape, Mine
  <1>3. /\ out \in Seq(Key \X Value)
        /\ \A i \in DOMAIN out : /\ out[i][1] \in Key
                                 /\ scan.merged[out[i][1]] = out[i][2] /\ out[i][2] # Absent
        /\ \A k \in Key : scan.merged[k] # Absent => \E i \in DOMAIN out : out[i] = <<k, scan.merged[k]>>
        /\ \A i, j \in DOMAIN out : i < j => PlaceOf(out[i][1]) < PlaceOf(out[j][1])
    BY <1>2, ListingFacts
  <1> HIDE DEF out
  <1>4. /\ scan'.phase = "done" /\ scan'.out = out /\ scan'.item = NoItem /\ SameScan
    BY <1>1, <1>2 DEF ScanShape, SameScan
  <1>5. /\ scan'.of = scan.of /\ scan'.reversed = scan.reversed /\ scan'.want = scan.want
        /\ scan'.keys = scan.keys /\ scan'.filtered = scan.filtered /\ scan'.always = scan.always
        /\ scan'.raced = scan.raced /\ scan'.ever = scan.ever
    BY <1>4 DEF SameScan
  <1>6. ScanShape'
    BY <1>1, <1>2, <1>3 DEF ScanShape
  <1>7. /\ ScanTypes' /\ ViewOK' /\ Mine' = Mine /\ Wanted(scan.always)' = Wanted(scan.always)
    BY <1>1, <1>4, StepFrame
  <1>8. ScanKinds' /\ ItemOK' /\ MapOK'
    BY <1>2, <1>4, <1>5 DEF ScanInv, ScanKinds, ItemOK, MapOK
  <1>9. \A k \in Key : /\ scan.merged[k] # Absent =>
                            k \in scan.want /\ (k \notin Mine /\ scan.filtered => Excused(<<k, scan.merged[k]>>))
                       /\ k \in Mine \cap scan.want => scan.merged[k] = txn.overlay[k]
    <2>1. ASSUME NEW k \in Key, k \in Mine \cap scan.want PROVE PlaceOf(k) <= scan.at
      <3>1. PlaceOf(k) \in DOMAIN KeysInOrder /\ PlaceOf(k) \in Nat /\ KeysInOrder[PlaceOf(k)] = k
        BY PlaceFacts
      <3>2. PlaceOf(k) \notin StagedAhead
        BY <1>1
      <3>. QED BY <1>2, <2>1, <3>1, <3>2 DEF StagedAhead, ScanInv, ScanKinds
    <2>. QED BY <1>1, <1>2, <2>1 DEF ScanInv, MapOK
  <1>10. OutOK'
    BY <1>2, <1>3, <1>4, <1>5, <1>9 DEF OutOK
  <1>11. Result' = {out[i] : i \in DOMAIN out}
    BY <1>4 DEF Result
  <1>12. \A k \in Mine, v \in Value : txn.overlay[k] = v <=> <<k, v>> \in Shown(scan.of, tb, now)
    <2>1. \A k \in Mine : k \in Key
      BY <1>2 DEF Written
    <2>. QED BY <1>2, <2>1, ShownFacts
  <1>13. NothingMissed'
    <2>1. ASSUME NEW p \in Wanted(scan.always), p[1] \notin scan.raced PROVE p \in Result'
      <3>1. p \in Key \X Value /\ p \in Shown(scan.of, tb, now) /\ p[1] \in scan.want
        BY <1>1, <1>2, <2>1 DEF ScanInv, ViewOK, ScanShape, Wanted
      <3>2. PICK k \in Key, v \in Value : p = <<k, v>>
        BY <3>1
      <3>3. scan.merged[k] = v
        <4>1. CASE k \in Mine
          BY <1>9, <1>12, <3>1, <3>2, <4>1
        <4>2. CASE k \notin Mine
          BY <1>1, <1>2, <2>1, <3>2, <4>2 DEF ScanInv, NothingMissed, Got
        <4>. QED BY <4>1, <4>2
      <3>4. v # Absent
        BY AbsentAssumption
      <3>. QED BY <1>3, <1>11, <3>2, <3>3, <3>4
    <2>. QED BY <1>4, <1>5, <1>7, <2>1 DEF NothingMissed, Got
  <1>14. ScanHonest'
    <2>1. ASSUME scan.filtered, NEW p \in Result' PROVE Excused(p)
      <3>1. PICK i \in DOMAIN out : p = out[i]
        BY <1>11
      <3>2. PICK k \in Key, v \in Value : p = <<k, v>>
        <4>1. out[i] \in Key \X Value
          BY <1>3
        <4>. QED BY <3>1, <4>1
      <3>3. scan.merged[k] = v /\ v # Absent
        <4>1. scan.merged[p[1]] = p[2] /\ p[2] # Absent
          BY <1>3, <3>1, Zenon
        <4>. QED BY <3>2, <4>1
      <3>4. CASE k \notin Mine
        BY <1>9, <2>1, <3>2, <3>3, <3>4
      <3>5. CASE k \in Mine
        <4>1. p \in Shown(scan.of, tb, now)
          BY <1>9, <1>12, <3>2, <3>3, <3>5
        <4>. QED BY <1>1, <4>1 DEF ScanInv, ViewOK, Excused
      <3>. QED BY <3>4, <3>5
    <2>. QED BY <1>1, <1>5, <2>1 DEF ScanHonest, Excused
  <1>. QED BY <1>6, <1>7, <1>8, <1>10, <1>13, <1>14 DEF ScanInv

\* The result is dropped.
LEMMA DropInv ==
    ASSUME ScanInv, DropResult
    PROVE  ScanInv'
  <1>1. scan' = NoScan /\ UNCHANGED <<backend, tb, now, pending, writes, txn, snap>>
    BY DEF DropResult
  <1>2. ScanTypes'
    BY <1>1 DEF ScanInv, ScanTypes, Pairs
  <1>. QED BY <1>1, <1>2, IdleInv

\* Transactions and snapshots begin, write and end while no scan is under way.
LEMMA ClientInv ==
    ASSUME ScanInv, \/ BeginTxn \/ EndTxn \/ TakeSnapshot \/ DropSnapshot
                    \/ \E k \in Key, v \in MaybeValue : TxnWrite(k, v)
    PROVE  ScanInv'
  <1>1. /\ ScanTypes /\ EmptyTables \in Tables /\ NoTouch \in [Key -> MaybeValue \cup {Untouched}]
        /\ tb \in Tables /\ now \in Nat
    BY CoreTypes DEF ScanInv, ScanTypes, NoTouch
  <1>2. UNCHANGED <<backend, tb, now, pending, scan>> /\ scan' = NoScan
    BY DEF BeginTxn, EndTxn, TakeSnapshot, DropSnapshot, TxnWrite, Free
  <1> DEFINE T == [open : BOOLEAN, overlay : [Key -> MaybeValue \cup {Untouched}]]
             S == [held : BOOLEAN, tables : Tables, captured_at : Nat, shown : SUBSET (Key \X Value)]
  <1>3. ASSUME snap' = snap, txn' \in T PROVE ScanInv'
    <2>1. ScanTypes'
      BY <1>1, <1>2, <1>3 DEF ScanTypes, Pairs
    <2>. QED BY <1>2, <2>1, IdleInv
  <1>4. ASSUME txn' = txn, snap' \in S, snap'.shown = Pairs(Visible(snap'.tables, snap'.captured_at))
        PROVE  ScanInv'
    <2>1. ScanTypes'
      BY <1>1, <1>2, <1>4 DEF ScanTypes, Pairs
    <2>. QED BY <1>2, <2>1, IdleInv
  <1>5. CASE BeginTxn \/ EndTxn
    <2>1. snap' = snap /\ (txn' = [open |-> TRUE, overlay |-> NoTouch] \/ txn' = NoTxn)
      BY <1>5 DEF BeginTxn, EndTxn
    <2>2. [open |-> TRUE, overlay |-> NoTouch] \in T /\ NoTxn \in T
      BY <1>1 DEF NoTxn
    <2> HIDE DEF T
    <2>. QED BY <1>3, <2>1, <2>2
  <1>6. CASE TakeSnapshot
    <2> DEFINE tables == IF backend = "sled" THEN [EmptyTables EXCEPT !.data = Visible(tb, now)] ELSE tb
    <2>1. /\ txn' = txn
          /\ snap' = [held |-> TRUE, captured_at |-> now, shown |-> Pairs(Visible(tb, now)), tables |-> tables]
      BY <1>6 DEF TakeSnapshot
    <2>2. Visible(tb, now) \in [Key -> MaybeValue] /\ Pairs(Visible(tb, now)) \in SUBSET (Key \X Value)
      BY <1>1, VisibleFacts, PairFacts
    <2>3. tables \in Tables /\ Visible(tables, now) = Visible(tb, now)
      <3>1. CASE backend # "sled"
        BY <1>1, <3>1
      <3>2. CASE backend = "sled"
        <4>1. tables = [data |-> Visible(tb, now), ttl |-> [k \in Key |-> NoExpiry]]
          BY <3>2 DEF EmptyTables
        <4> HIDE DEF tables
        <4>2. tables \in Tables
          BY <2>2, <4>1, CoreTypes DEF Tables
        <4>3. \A k \in Key : ~is_expired(tables.ttl[k], now) /\ tables.data[k] = Visible(tb, now)[k]
          BY <4>1 DEF is_expired
        <4>4. Visible(tables, now) = [k \in Key |-> Visible(tb, now)[k]]
          BY <4>3 DEF Visible
        <4>. QED BY <2>2, <4>2, <4>4
      <3>. QED BY <3>1, <3>2
    <2> HIDE DEF tables
    <2>. QED BY <1>1, <1>4, <2>1, <2>2, <2>3
  <1>7. CASE DropSnapshot
    <2>1. txn' = txn /\ snap' = NoSnap
      BY <1>7 DEF DropSnapshot
    <2>2. Pairs(Visible(EmptyTables, 0)) = {}
      BY DEF Pairs, Visible, EmptyTables
    <2>. QED BY <1>1, <1>4, <2>1, <2>2 DEF NoSnap
  <1>8. ASSUME NEW k \in Key, NEW v \in MaybeValue, TxnWrite(k, v) PROVE ScanInv'
    <2>1. snap' = snap /\ txn' \in T
      BY <1>1, <1>8 DEF TxnWrite, ScanTypes
    <2>. QED BY <1>3, <2>1
  <1>. QED BY <1>5, <1>6, <1>7, <1>8

\* A step that changes nothing.
LEMMA StutterInv ==
    ASSUME ScanInv, UNCHANGED vars
    PROVE  ScanInv'
  <1>1. UNCHANGED <<backend, tb, now, pending, writes, txn, snap, scan>>
    BY DEF vars
  <1>2. CASE scan.phase # "none"
    <2>1. SameScan
      BY <1>1 DEF SameScan
    <2>2. /\ ScanTypes' /\ ViewOK' /\ Mine' = Mine /\ Wanted(scan.always)' = Wanted(scan.always)
          /\ \A p : Excused(p)' <=> Excused(p)
      BY <1>1, <1>2, <2>1, StepFrame
    <2>3. Result' = Result /\ ScanData' = ScanData /\ \A p : Got(p)' <=> Got(p)
      BY <1>1 DEF Result, ScanData, Got
    <2>4. ScanShape' /\ ScanKinds' /\ OutOK' /\ ScanHonest'
      BY <1>1, <2>3 DEF ScanInv, ScanShape, ScanKinds, OutOK, ScanHonest
    <2>5. ItemOK' /\ MapOK' /\ NothingMissed'
      BY <1>1, <2>2, <2>3 DEF ScanInv, ItemOK, MapOK, NothingMissed
    <2>. QED BY <2>2, <2>4, <2>5 DEF ScanInv
  <1>3. CASE scan.phase = "none"
    <2>1. scan' = scan /\ Result' = Result
      BY <1>1 DEF Result
    <2>2. ScanTypes' /\ ScanShape' /\ ScanKinds' /\ OutOK' /\ ScanHonest'
      BY <1>1, <2>1 DEF ScanInv, ScanTypes, ScanShape, ScanKinds, OutOK, ScanHonest, Pairs
    <2>3. scan'.phase = "none" /\ scan'.item = NoItem
      BY <1>3, <2>1 DEF ScanInv, ScanKinds
    <2>. QED BY <2>2, <2>3 DEF ScanInv, ItemOK, ViewOK, NothingMissed, MapOK
  <1>. QED BY <1>2, <1>3

\* Every step keeps the invariant.
LEMMA ScanInductive ==
    Spec => []ScanInv
  <1>1. Init => ScanInv
    BY ScanInit
  <1>2. ASSUME ScanInv, [Next]_vars PROVE ScanInv'
    <2>0. now \in Nat /\ NewValue \subseteq MaybeValue /\ Absent \in MaybeValue /\ NoExpiry \in Expiry
      BY <1>2, ScanAssumption, CoreTypes DEF ScanInv, ScanTypes, MaybeValue
    <2>1. ASSUME NEW k \in Key, NEW v \in NewValue \cup {Absent}, Write(k, v, NoExpiry) PROVE ScanInv'
      BY <1>2, <2>0, <2>1, WriteInv
    <2>2. ASSUME NEW k \in Key, NEW v \in NewValue \cup {Absent}, TxnWrite(k, v) PROVE ScanInv'
      BY <1>2, <2>0, <2>2, ClientInv
    <2>3. ASSUME NEW k \in Key, NEW v \in NewValue, NEW d \in Ttl, Write(k, v, now + d) PROVE ScanInv'
      <3>1. v \in MaybeValue /\ now + d \in Expiry
        BY <2>0, ScanAssumption DEF Expiry
      <3>. QED BY <1>2, <2>3, <3>1, WriteInv
    <2>4. CASE WriteTtlTree \/ Tick
      BY <1>2, <2>4, TtlTreeInv, TickInv
    <2>5. CASE StartScan \/ DropResult
      BY <1>2, <2>5, StartInv, DropInv
    <2>6. CASE ScanStep
      BY <1>2, <2>6, FetchInv, CollectInv, PutOutInv, FinishInv, CollectedInv, ApplyInv, MergeInv DEF ScanStep
    <2>7. CASE BeginTxn \/ EndTxn \/ TakeSnapshot \/ DropSnapshot
      BY <1>2, <2>7, ClientInv
    <2>8. CASE UNCHANGED vars
      BY <1>2, <2>8, StutterInv
    <2>. QED BY <1>2, <2>1, <2>2, <2>3, <2>4, <2>5, <2>6, <2>7, <2>8 DEF Next
  <1>. QED BY <1>1, <1>2, PTL DEF Spec

\* However the writer interferes, a finished scan of a store, of a transaction or
\* of a snapshot has every pair asked for that get showed all along and that was
\* not rewritten, no other key, and in order: for any keys, bounds and prefixes,
\* any staged writes, and however often the writer writes.
THEOREM ScansComplete ==
    Spec => []ScanComplete
  <1>1. ASSUME ScanInv PROVE ScanComplete
    <2>1. ScanShape /\ OutOK /\ NothingMissed /\ scan.out \in Seq(Key \X Value)
      BY <1>1 DEF ScanInv, ScanShape
    <2>2. \A i \in DOMAIN scan.out : scan.out[i][1] \in Key
      BY <2>1
    <2>3. InOrder
      BY <2>1, <2>2, PlaceFacts DEF OutOK, InOrder
    <2>4. scan.phase = "done" =>
             \A p \in Wanted(scan.always) : p[1] \notin scan.raced => p \in Result
      BY <2>1 DEF NothingMissed, Got
    <2>5. \A p \in Result : p[1] \in scan.want
      BY <2>1 DEF OutOK, Result
    <2>. QED BY <2>3, <2>4, <2>5 DEF ScanComplete
  <1>. QED BY <1>1, ScanInductive, PTL

\* A filtering scan shows what get showed at some instant of it, on redb
\* always, on sled and fjall unless the key was written meanwhile; a range of a
\* transaction nothing the transaction has deleted or overwritten.
THEOREM ScansHonest ==
    Spec => []ScanHonest
  <1>1. ScanInv => ScanHonest
    BY DEF ScanInv
  <1>. QED BY <1>1, ScanInductive, PTL

-----------------------------------------------------------------------------
\* Among integers Arrow's order is the usual one.
LEMMA LessInt ==
    ASSUME NEW a \in Int, NEW b \in Int
    PROVE  (Less(a, b) <=> a < b) /\ Num(a) = a
  <1>1. a # NaN /\ b # NaN /\ a # NegZero /\ b # NegZero
    BY FloatAssumption
  <1>. QED BY <1>1 DEF Less, Num

\* A cell between the minimum and the maximum of its row group that compares
\* with v as asked keeps the group in apply_ord_op, for all integers.
THEOREM OrdPruningSound ==
    ASSUME NEW op \in CmpOp, NEW min \in Int, NEW max \in Int, NEW v \in Int,
           NEW cell \in Int, NEW null_count \in Nat,
           min <= cell, cell <= max, apply_cmp(op, cell, v)
    PROVE  apply_ord_op(op, min, max, v, null_count)
<1>1. (Less(cell, v) <=> cell < v) /\ (Less(v, cell) <=> v < cell)
  BY LessInt
<1>2. CASE op = "Eq"
  BY <1>2 DEF apply_cmp, apply_ord_op
<1>3. CASE op = "Ne"
  BY <1>3 DEF apply_cmp, apply_ord_op
<1>4. CASE op = "Lt"
  BY <1>1, <1>4 DEF apply_cmp, apply_ord_op
<1>5. CASE op = "Le"
  BY <1>1, <1>5 DEF apply_cmp, apply_ord_op
<1>6. CASE op = "Gt"
  BY <1>1, <1>6 DEF apply_cmp, apply_ord_op
<1>7. CASE op = "Ge"
  BY <1>1, <1>7 DEF apply_cmp, apply_ord_op
<1> QED
  BY <1>2, <1>3, <1>4, <1>5, <1>6, <1>7 DEF CmpOp

\* The same of apply_bool_op for the two booleans.
THEOREM BoolPruningSound ==
    ASSUME NEW op \in CmpOp, NEW min \in {0, 1}, NEW max \in {0, 1}, NEW v \in {0, 1},
           NEW cell \in {0, 1}, min <= cell, cell <= max, apply_cmp(op, cell, v)
    PROVE  apply_bool_op(op, min, max, v)
<1>1. (Less(cell, v) <=> cell < v) /\ (Less(v, cell) <=> v < cell)
  BY LessInt
<1>2. CASE op = "Eq"
  BY <1>2 DEF apply_cmp, apply_bool_op
<1>3. CASE op = "Ne"
  BY <1>3 DEF apply_bool_op
<1>4. CASE op = "Lt"
  BY <1>1, <1>4 DEF apply_cmp, apply_bool_op
<1>5. CASE op = "Le"
  BY <1>1, <1>5 DEF apply_cmp, apply_bool_op
<1>6. CASE op = "Gt"
  BY <1>1, <1>6 DEF apply_cmp, apply_bool_op
<1>7. CASE op = "Ge"
  BY <1>1, <1>7 DEF apply_cmp, apply_bool_op
<1> QED
  BY <1>2, <1>3, <1>4, <1>5, <1>6, <1>7 DEF CmpOp

\* The floats that are numbers, -0.0 among them.
FloatNumber == Int \cup {NegZero}

\* The two zeros, which the kernels tell apart and the statistics do not.
OppositeZeros(a, b) == {a, b} = {NegZero, 0}

\* The same of both float comparisons, for row groups whose cells are numbers:
\* apart from Ne with a cell closer to v than EPSILON, and from Lt and Gt where
\* the cell and v are zeros of opposite signs, statistics never prove too much.
THEOREM FloatPruningSound ==
    ASSUME NEW op \in CmpOp, NEW min \in FloatNumber, NEW max \in FloatNumber, NEW v \in FloatNumber,
           NEW cell \in FloatNumber, NEW null_count \in Nat,
           Num(min) <= Num(cell), Num(cell) <= Num(max), apply_cmp(op, cell, v),
           op = "Ne" => ~Close(cell, v),
           op \in {"Lt", "Gt"} => ~OppositeZeros(cell, v)
    PROVE  /\ apply_float_op_f32(op, min, max, v, null_count)
           /\ apply_float_op_f64(op, min, max, v, null_count)
<1>1. \A a \in FloatNumber : a # NaN /\ Num(a) \in Int
  BY FloatAssumption DEF FloatNumber, Num
<1>2. CASE op = "Ne"
  <2> DEFINE lo == Num(min)
             hi == Num(max)
             c == Num(cell)
             w == Num(v)
  <2>1. lo \in Int /\ hi \in Int /\ c \in Int /\ w \in Int /\ lo <= c /\ c <= hi /\ ~(Abs(c - w) < Epsilon)
    BY <1>1, <1>2 DEF Close
  <2> HIDE DEF lo, hi, c, w
  <2>2. ~(Abs(lo - w) < Epsilon /\ Abs(hi - w) < Epsilon)
    BY <2>1 DEF Abs, Epsilon
  <2>. QED BY <1>2, <2>2 DEF apply_float_op_f32, apply_float_op_f64, Close, lo, hi, w
<1>3. CASE op # "Ne"
  <2>1. apply_cmp(op, Num(cell), Num(v))
    <3>1. \A a, b \in FloatNumber : Less(Num(a), Num(b)) <=> Num(a) < Num(b)
      BY <1>1, LessInt
    <3>2. Less(cell, v) => Num(cell) < Num(v) \/ OppositeZeros(cell, v)
      BY <1>1 DEF Less, OppositeZeros
    <3>3. Less(v, cell) => Num(v) < Num(cell) \/ OppositeZeros(cell, v)
      <4>1. v = NegZero /\ cell = 0 => OppositeZeros(cell, v)
        BY DEF OppositeZeros
      <4>. QED BY <1>1, <4>1 DEF Less
    <3>4. (Num(cell) < Num(v) => Less(cell, v)) /\ (Num(v) < Num(cell) => Less(v, cell))
      BY <1>1 DEF Less
    <3>5. CASE op = "Eq"
      BY <3>5 DEF apply_cmp
    <3>6. CASE op = "Lt"
      BY <3>1, <3>2, <3>6 DEF apply_cmp
    <3>7. CASE op = "Le"
      BY <3>1, <3>4, <3>7 DEF apply_cmp
    <3>8. CASE op = "Gt"
      BY <3>1, <3>3, <3>8 DEF apply_cmp
    <3>9. CASE op = "Ge"
      BY <3>1, <3>4, <3>9 DEF apply_cmp
    <3>. QED BY <1>3, <3>5, <3>6, <3>7, <3>8, <3>9 DEF CmpOp
  <2>2. apply_ord_op(op, Num(min), Num(max), Num(v), null_count)
    BY <1>1, <2>1, OrdPruningSound
  <2>. QED BY <1>3, <2>2 DEF apply_float_op_f32, apply_float_op_f64
<1> QED
  BY <1>2, <1>3
=============================================================================
