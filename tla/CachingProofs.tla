---------------------------- MODULE CachingProofs ----------------------------
(***************************************************************************)
(* Proofs about oxistore-cache, for any keys, values, tasks and capacities:*)
(* the frequency sketch never estimates a key below its own accesses,      *)
(* whatever shares its counters; what a self-filling cache holds is what   *)
(* the store holds; and the first fill of get_or_insert_async wins.        *)
(***************************************************************************)
EXTENDS Caching, SequenceTheorems, WellFoundedInduction, TLAPS

(***************************************************************************)
(* The width of the sketch is a power of two and at least 2, so that two   *)
(* counters share a byte.                                                  *)
(***************************************************************************)
\* A set of natural numbers has a least element.
LEMMA LeastNatural ==
    ASSUME NEW S \in SUBSET Nat, S # {}
    PROVE  \E m \in S : \A n \in S : m <= n
  <1> DEFINE R == {ss \in Nat \X Nat : ss[1] < ss[2]}
  <1>1. IsWellFoundedOn(R, Nat)
    BY NatLessThanWellFounded DEF OpToRel
  <1>2. PICK m \in S : \A n \in S : ~(<<n, m>> \in R)
    BY <1>1, WFMin
  <1>3. ASSUME NEW n \in S PROVE m <= n
    <2>1. m \in Nat /\ n \in Nat /\ ~(<<n, m>> \in R)
      BY <1>2
    <2>2. n < m => <<n, m>> \in R
      BY <2>1
    <2> HIDE DEF R
    <2>. QED BY <2>1, <2>2
  <1>. QED BY <1>3

\* Twice a power of two is one.
LEMMA DoublePower ==
    ASSUME NEW p \in Nat \ {0}, IsPowerOfTwo(p)
    PROVE  IsPowerOfTwo(2 * p)
  <1> SUFFICES ASSUME NEW d \in 2..(2 * p), (2 * p) % d = 0, d % 2 # 0
               PROVE  FALSE
    BY DEF IsPowerOfTwo
  <1>1. PICK q \in Nat : 2 * p = d * q
    OBVIOUS
  <1>2. PICK e \in Nat : d = 2 * e + 1
    OBVIOUS
  <1>3. PICK r \in Int : r = p - e * q
    OBVIOUS
  <1>4. q = 2 * r
    BY <1>1, <1>2, <1>3
  <1>5. p = d * r /\ r > 0
    BY <1>1, <1>4
  <1>6. p % d = 0
    <2>1. d \in Int /\ d > 0 /\ r \in Int
      OBVIOUS
    <2>3. p = d * (p \div d) + (p % d) /\ p % d \in 0..(d - 1) /\ p \div d \in Int
      BY <2>1
    <2>4. PICK y \in Int, z \in 0..(d - 1) : y = p \div d /\ z = p % d
      BY <2>3
    <2>5. d * (r - y) = z
      BY <1>5, <2>1, <2>3, <2>4
    <2>6. r - y = 0
      <3>1. r - y > 0 => d * (r - y) >= d
        BY <2>1, <2>4
      <3>2. r - y < 0 => d * (r - y) < 0
        BY <2>1, <2>4
      <3>. QED BY <2>1, <2>4, <2>5, <3>1, <3>2
    <2>. QED BY <2>1, <2>4, <2>5, <2>6
  <1>7. d <= p
    BY <1>5
  <1>. QED BY <1>6, <1>7 DEF IsPowerOfTwo

\* There is a power of two between n and 2n - 1.
LEMMA PowerBetween ==
    ASSUME NEW n \in Nat \ {0}
    PROVE  \E p \in n..(2 * n - 1) : IsPowerOfTwo(p)
  <1> DEFINE Bad == {m \in Nat \ {0} : ~\E p \in m..(2 * m - 1) : IsPowerOfTwo(p)}
  <1> SUFFICES ASSUME Bad # {} PROVE FALSE
    OBVIOUS
  <1>1. PICK m \in Bad : \A x \in Bad : m <= x
    BY LeastNatural
  <1>2. m \in Nat \ {0} /\ ~\E p \in m..(2 * m - 1) : IsPowerOfTwo(p)
    OBVIOUS
  <1>3. m # 1
    <2>1. IsPowerOfTwo(1)
      BY DEF IsPowerOfTwo
    <2>. QED BY <1>2, <2>1
  <1>4. PICK h \in Nat : m = 2 * h \/ m = 2 * h - 1
    <2>1. m = 2 * ((m + 1) \div 2) \/ m = 2 * ((m + 1) \div 2) - 1
      BY <1>2
    <2>. QED BY <1>2, <2>1
  <1>5. h \in Nat \ {0} /\ h < m
    BY <1>2, <1>3, <1>4
  <1>6. h \notin Bad
    BY <1>1, <1>2, <1>5
  <1>7. PICK p \in h..(2 * h - 1) : IsPowerOfTwo(p)
    BY <1>5, <1>6
  <1>8. p \in Nat \ {0} /\ IsPowerOfTwo(2 * p)
    BY <1>5, <1>7, DoublePower
  <1> HIDE DEF Bad
  <1>9. 2 * p >= m /\ 2 * p <= 2 * m
    BY <1>4, <1>5, <1>7
  <1>10. 2 * p = 2 * m
    BY <1>2, <1>8, <1>9
  <1>11. IsPowerOfTwo(m) /\ m \in m..(2 * m - 1)
    BY <1>2, <1>7, <1>8, <1>10
  <1>. QED BY <1>2, <1>11

\* The least of the powers of two from the capacity on is even.
LEMMA WidthFacts == half_w \in Nat \ {0} /\ w = 2 * half_w
  <1> DEFINE S == {p \in Capacity..(2 * Capacity) : IsPowerOfTwo(p)}
  <1>1. Capacity \in Nat \ {0} /\ Capacity >= 2
    BY SketchAssumption
  <1>2. PICK p \in Capacity..(2 * Capacity - 1) : IsPowerOfTwo(p)
    BY <1>1, PowerBetween
  <1>3. p \in S /\ S \in SUBSET Nat
    BY <1>1, <1>2
  <1> HIDE DEF S
  <1>4. \E m \in S : \A n \in S : m <= n
    BY <1>3, LeastNatural
  <1>5. Min(S) \in S
    BY <1>4 DEF Min
  <1>6. w \in Capacity..(2 * Capacity) /\ IsPowerOfTwo(w)
    BY <1>5 DEF S, w, next_power_of_two
  <1> HIDE DEF w
  <1>7. w \in Nat /\ w >= 2 /\ w % w = 0
    BY <1>1, <1>6
  <1>8. w % 2 = 0
    BY <1>6, <1>7 DEF IsPowerOfTwo
  <1>. QED BY <1>7, <1>8 DEF half_w
-----------------------------------------------------------------------------

(***************************************************************************)
(* The packed counters.  Nibbles are addressed by row and column.          *)
(***************************************************************************)
Byte == 0..255
Nibble == 0..15
Column == 0..(w - 1)
Saturated(n) == IF n < 15 THEN n + 1 ELSE n

\* What nibble_get and nibble_set do to one byte.
LEMMA ByteFacts ==
    ASSUME NEW b \in Byte, NEW v \in Nibble
    PROVE  /\ b % 16 \in Nibble /\ b \div 16 \in Nibble
           /\ (b \div 16) * 16 + v \in Byte
           /\ ((b \div 16) * 16 + v) % 16 = v
           /\ ((b \div 16) * 16 + v) \div 16 = b \div 16
           /\ (b % 16) + v * 16 \in Byte
           /\ ((b % 16) + v * 16) % 16 = b % 16
           /\ ((b % 16) + v * 16) \div 16 = v
  BY DEF Byte, Nibble

\* Two counters lie in one byte only if they are in one row, side by side.
LEMMA AddressFacts ==
    ASSUME NEW r \in Row, NEW c \in Column, NEW q \in Row, NEW d \in Column
    PROVE  /\ r * half_w + c \div 2 \in ByteIndex
           /\ r * half_w + c \div 2 = q * half_w + d \div 2 => r = q /\ c \div 2 = d \div 2
  <1>1. /\ c \in Int /\ d \in Int /\ c \div 2 \in 0..(half_w - 1) /\ d \div 2 \in 0..(half_w - 1)
        /\ half_w \in Nat /\ half_w > 0
    BY WidthFacts DEF Column
  <1>2. r \in {0, 1, 2, 3} /\ q \in {0, 1, 2, 3} /\ ByteIndex = 0..(4 * half_w - 1)
    BY DEF Row, DEPTH, ByteIndex
  <1>3. \A i \in {0, 1, 2, 3} : i * half_w \in {0, half_w, half_w + half_w, half_w + half_w + half_w}
    BY <1>1
  <1>4. r * half_w + c \div 2 \in ByteIndex
    BY <1>1, <1>2, <1>3
  <1>5. r * half_w + c \div 2 = q * half_w + d \div 2 => r = q /\ c \div 2 = d \div 2
    BY <1>1, <1>2
  <1>. QED BY <1>4, <1>5

\* nibble_set changes the counter it names and no other.
LEMMA NibbleFacts ==
    ASSUME NEW bytes \in [ByteIndex -> Byte], NEW r \in Row, NEW c \in Column,
           NEW v \in Nibble
    PROVE  /\ nibble_set(bytes, r, c, v) \in [ByteIndex -> Byte]
           /\ nibble_get(bytes, r, c) \in Nibble
           /\ \A q \in Row, d \in Column :
                 nibble_get(nibble_set(bytes, r, c, v), q, d) =
                     IF q = r /\ d = c THEN v ELSE nibble_get(bytes, q, d)
  <1> DEFINE i == r * half_w + c \div 2
             n == nibble_set(bytes, r, c, v)
  <1>1. i \in ByteIndex /\ bytes[i] \in Byte
    BY AddressFacts
  <1>2. n = [bytes EXCEPT ![i] = IF c % 2 = 0 THEN (bytes[i] \div 16) * 16 + v
                                 ELSE (bytes[i] % 16) + v * 16]
    BY DEF nibble_set
  <1>3. n \in [ByteIndex -> Byte]
    BY <1>1, <1>2, ByteFacts
  <1>4. nibble_get(bytes, r, c) \in Nibble
    BY <1>1, ByteFacts DEF nibble_get
  <1>5. ASSUME NEW q \in Row, NEW d \in Column
        PROVE  nibble_get(n, q, d) = IF q = r /\ d = c THEN v ELSE nibble_get(bytes, q, d)
    <2> DEFINE j == q * half_w + d \div 2
    <2>0. c \in Int /\ d \in Int
      BY WidthFacts DEF Column
    <2>1. j \in ByteIndex /\ (i = j => r = q /\ c \div 2 = d \div 2)
      BY AddressFacts
    <2>2. nibble_get(n, q, d) = IF d % 2 = 0 THEN n[j] % 16 ELSE n[j] \div 16
      BY DEF nibble_get
    <2>3. nibble_get(bytes, q, d) = IF d % 2 = 0 THEN bytes[j] % 16 ELSE bytes[j] \div 16
      BY DEF nibble_get
    <2>4. CASE i # j
      <3>1. n[j] = bytes[j] /\ ~(q = r /\ d = c)
        BY <1>1, <1>2, <2>1, <2>4
      <3>. QED BY <3>1, <2>2, <2>3
    <2>5. CASE i = j
      <3>1. r = q /\ c \div 2 = d \div 2 /\ (c % 2 = d % 2 <=> c = d)
        BY <2>5, <2>1, <2>0
      <3>2. n[j] = IF c % 2 = 0 THEN (bytes[j] \div 16) * 16 + v ELSE (bytes[j] % 16) + v * 16
        BY <1>1, <1>2, <2>5
      <3>3. /\ ((bytes[j] \div 16) * 16 + v) % 16 = v
            /\ ((bytes[j] \div 16) * 16 + v) \div 16 = bytes[j] \div 16
            /\ ((bytes[j] % 16) + v * 16) % 16 = bytes[j] % 16
            /\ ((bytes[j] % 16) + v * 16) \div 16 = v
        BY <2>1, ByteFacts
      <3>4. (c % 2 = 0 \/ c % 2 = 1) /\ (d % 2 = 0 \/ d % 2 = 1)
        BY <2>0
      <3> HIDE DEF j, n
      <3>. QED BY <3>1, <3>2, <3>3, <3>4, <2>2, <2>3
    <2>. QED BY <2>4, <2>5
  <1>. QED BY <1>3, <1>4, <1>5

\* Ageing halves every counter.
LEMMA AgedFacts ==
    ASSUME NEW bytes \in [ByteIndex -> Byte]
    PROVE  /\ aged(bytes) \in [ByteIndex -> Byte]
           /\ \A r \in Row, c \in Column :
                 nibble_get(aged(bytes), r, c) = nibble_get(bytes, r, c) \div 2
  <1>1. \A b \in Byte : /\ ((b \div 16) \div 2) * 16 + ((b % 16) \div 2) \in Byte
                        /\ (((b \div 16) \div 2) * 16 + ((b % 16) \div 2)) % 16 = (b % 16) \div 2
                        /\ (((b \div 16) \div 2) * 16 + ((b % 16) \div 2)) \div 16 = (b \div 16) \div 2
    BY DEF Byte
  <1>2. aged(bytes) \in [ByteIndex -> Byte]
    BY <1>1 DEF aged
  <1>3. ASSUME NEW r \in Row, NEW c \in Column
        PROVE  nibble_get(aged(bytes), r, c) = nibble_get(bytes, r, c) \div 2
    <2>1. r * half_w + c \div 2 \in ByteIndex
      BY AddressFacts
    <2>. QED BY <1>1, <2>1 DEF aged, nibble_get
  <1>. QED BY <1>2, <1>3

\* The column of a key in a row.
LEMMA ColumnFacts ==
    ASSUME hashes \in [Item -> Nat \X Nat], NEW k \in Item, NEW r \in Row
    PROVE  row_col(k, r, w) \in Column
  <1>1. hashes[k][1] \in Nat /\ hashes[k][2] \in Nat
    OBVIOUS
  <1>2. r * hashes[k][2] \in Nat
    BY <1>1 DEF Row, DEPTH
  <1>3. \A x \in Nat, m \in Nat \ {0} : x % m \in 0..(m - 1)
    OBVIOUS
  <1>4. hashes[k][1] + r * hashes[k][2] \in Nat /\ w \in Nat \ {0}
    BY <1>1, <1>2, WidthFacts
  <1>. QED BY <1>3, <1>4 DEF row_col, Column

\* One row of increment.
LEMMA BumpFacts ==
    ASSUME hashes \in [Item -> Nat \X Nat], NEW k \in Item, NEW r \in Row,
           NEW bytes \in [ByteIndex -> Byte]
    PROVE  /\ bump(k, r, bytes) \in [ByteIndex -> Byte]
           /\ \A q \in Row, d \in Column :
                 nibble_get(bump(k, r, bytes), q, d) =
                     IF q = r /\ d = row_col(k, r, w) THEN Saturated(nibble_get(bytes, q, d))
                     ELSE nibble_get(bytes, q, d)
  <1> DEFINE col == row_col(k, r, w)
             cur == nibble_get(bytes, r, col)
  <1>1. col \in Column
    BY ColumnFacts
  <1>2. cur \in Nibble
    BY <1>1, NibbleFacts DEF Nibble
  <1>3. CASE cur < 15
    <2>1. bump(k, r, bytes) = nibble_set(bytes, r, col, cur + 1)
      BY <1>3 DEF bump
    <2>2. cur + 1 \in Nibble
      BY <1>2, <1>3 DEF Nibble
    <2> HIDE DEF cur, col
    <2>3. /\ nibble_set(bytes, r, col, cur + 1) \in [ByteIndex -> Byte]
          /\ \A q \in Row, d \in Column :
                 nibble_get(nibble_set(bytes, r, col, cur + 1), q, d) =
                     IF q = r /\ d = col THEN cur + 1 ELSE nibble_get(bytes, q, d)
      BY <1>1, <2>2, NibbleFacts
    <2>. QED BY <2>1, <2>3, <1>3 DEF Saturated, cur, col
  <1>4. CASE ~(cur < 15)
    BY <1>4 DEF bump, Saturated
  <1>. QED BY <1>3, <1>4

\* increment counts the key once in each row.
LEMMA CountedFacts ==
    ASSUME hashes \in [Item -> Nat \X Nat], NEW k \in Item,
           counters \in [ByteIndex -> Byte]
    PROVE  /\ counted(k) \in [ByteIndex -> Byte]
           /\ \A q \in Row, d \in Column :
                 nibble_get(counted(k), q, d) =
                     IF d = row_col(k, q, w) THEN Saturated(nibble_get(counters, q, d))
                     ELSE nibble_get(counters, q, d)
  <1> DEFINE b0 == bump(k, 0, counters)
             b1 == bump(k, 1, b0)
             b2 == bump(k, 2, b1)
             b3 == bump(k, 3, b2)
  <1>0. 0 \in Row /\ 1 \in Row /\ 2 \in Row /\ 3 \in Row /\ counted(k) = b3
        /\ \A q \in Row : q = 0 \/ q = 1 \/ q = 2 \/ q = 3
    BY DEF Row, DEPTH, counted
  <1> DEFINE Bumps(old, new, r) ==
        \A q \in Row, d \in Column :
            nibble_get(new, q, d) =
                IF q = r /\ d = row_col(k, r, w) THEN Saturated(nibble_get(old, q, d))
                ELSE nibble_get(old, q, d)
  <1>1. b0 \in [ByteIndex -> Byte] /\ Bumps(counters, b0, 0)
    BY <1>0, BumpFacts
  <1> HIDE DEF b0
  <1>2. b1 \in [ByteIndex -> Byte] /\ Bumps(b0, b1, 1)
    BY <1>0, <1>1, BumpFacts
  <1> HIDE DEF b1
  <1>3. b2 \in [ByteIndex -> Byte] /\ Bumps(b1, b2, 2)
    BY <1>0, <1>2, BumpFacts
  <1> HIDE DEF b2
  <1>4. b3 \in [ByteIndex -> Byte] /\ Bumps(b2, b3, 3)
    BY <1>0, <1>3, BumpFacts
  <1> HIDE DEF b3
  <1>5. ASSUME NEW q \in Row, NEW d \in Column
        PROVE  nibble_get(b3, q, d) =
                   IF d = row_col(k, q, w) THEN Saturated(nibble_get(counters, q, d))
                   ELSE nibble_get(counters, q, d)
    <2>1. /\ nibble_get(b0, q, d) = IF q = 0 /\ d = row_col(k, 0, w)
                                    THEN Saturated(nibble_get(counters, q, d))
                                    ELSE nibble_get(counters, q, d)
          /\ nibble_get(b1, q, d) = IF q = 1 /\ d = row_col(k, 1, w)
                                    THEN Saturated(nibble_get(b0, q, d)) ELSE nibble_get(b0, q, d)
          /\ nibble_get(b2, q, d) = IF q = 2 /\ d = row_col(k, 2, w)
                                    THEN Saturated(nibble_get(b1, q, d)) ELSE nibble_get(b1, q, d)
          /\ nibble_get(b3, q, d) = IF q = 3 /\ d = row_col(k, 3, w)
                                    THEN Saturated(nibble_get(b2, q, d)) ELSE nibble_get(b2, q, d)
      BY <1>1, <1>2, <1>3, <1>4
    <2> HIDE DEF Bumps
    <2>2. CASE q = 0  BY <2>1, <2>2
    <2>3. CASE q = 1  BY <2>1, <2>3
    <2>4. CASE q = 2  BY <2>1, <2>4
    <2>5. CASE q = 3  BY <2>1, <2>5
    <2>. QED BY <1>0, <2>2, <2>3, <2>4, <2>5
  <1>. QED BY <1>0, <1>4, <1>5
-----------------------------------------------------------------------------
(***************************************************************************)
(* The sketch.  EstimateCovers speaks of the smallest counter of a key;    *)
(* what is inductive is that each of its counters covers its accesses and  *)
(* that one it shares with no other key equals them.                       *)
(***************************************************************************)
CounterOf(bytes, k, r) == nibble_get(bytes, r, row_col(k, r, w))
Unshared(k, r) == \A x \in Item \ {k} : row_col(x, r, w) # row_col(k, r, w)

Covers(bytes, used) ==
    \A k \in Item, r \in Row :
        /\ used[k] <= CounterOf(bytes, k, r)
        /\ Unshared(k, r) => CounterOf(bytes, k, r) = used[k]

SketchInv ==
    /\ hashes \in [Item -> Nat \X Nat]
    /\ counters \in [ByteIndex -> Byte]
    /\ uses \in [Item -> Nibble]
    /\ Covers(counters, uses)

\* Empty counters cover no accesses.
LEMMA NoneCounted ==
    ASSUME hashes \in [Item -> Nat \X Nat], NEW bytes, bytes = [b \in ByteIndex |-> 0]
    PROVE  bytes \in [ByteIndex -> Byte] /\ Covers(bytes, [k \in Item |-> 0])
  <1>1. ASSUME NEW k \in Item, NEW r \in Row PROVE CounterOf(bytes, k, r) = 0
    <2>1. r * half_w + row_col(k, r, w) \div 2 \in ByteIndex
      BY ColumnFacts, AddressFacts
    <2>2. 0 % 16 = 0 /\ 0 \div 16 = 0
      OBVIOUS
    <2>. QED BY <2>1, <2>2 DEF CounterOf, nibble_get
  <1>. QED BY <1>1 DEF Covers, Byte

\* The counters and the accesses of a key are counted together.
LEMMA CountedCovers ==
    ASSUME SketchInv, NEW k \in Item,
           NEW used, used = [uses EXCEPT ![k] = IF @ < 15 THEN @ + 1 ELSE @]
    PROVE  /\ counted(k) \in [ByteIndex -> Byte] /\ used \in [Item -> Nibble]
           /\ Covers(counted(k), used)
  <1>1. hashes \in [Item -> Nat \X Nat] /\ counters \in [ByteIndex -> Byte]
    BY DEF SketchInv
  <1>2. used \in [Item -> Nibble] /\ \A x \in Item : uses[x] \in Nibble
    BY DEF SketchInv, Nibble
  <1>3. ASSUME NEW x \in Item, NEW r \in Row
        PROVE  /\ used[x] <= CounterOf(counted(k), x, r)
               /\ Unshared(x, r) => CounterOf(counted(k), x, r) = used[x]
    <2>1. row_col(x, r, w) \in Column
      BY <1>1, ColumnFacts
    <2>2. CounterOf(counted(k), x, r) =
              IF row_col(x, r, w) = row_col(k, r, w) THEN Saturated(CounterOf(counters, x, r))
              ELSE CounterOf(counters, x, r)
      BY <1>1, <2>1, CountedFacts DEF CounterOf
    <2>3. CounterOf(counters, x, r) \in Nibble
      <3>1. 0 \in Nibble
        BY DEF Nibble
      <3>. QED BY <1>1, <2>1, <3>1, NibbleFacts DEF CounterOf
    <2>4. /\ uses[x] <= CounterOf(counters, x, r)
          /\ Unshared(x, r) => CounterOf(counters, x, r) = uses[x]
      BY DEF SketchInv, Covers
    <2>5. used[x] = IF x = k THEN Saturated(uses[x]) ELSE uses[x]
      BY DEF SketchInv, Saturated
    <2>6. x # k /\ Unshared(x, r) => row_col(x, r, w) # row_col(k, r, w)
      BY DEF Unshared
    <2>7. \A m, n \in Nibble : m <= n => m <= Saturated(n) /\ Saturated(m) <= Saturated(n)
      BY DEF Nibble, Saturated
    <2>. QED BY <1>2, <2>2, <2>3, <2>4, <2>5, <2>6, <2>7
  <1>. QED BY <1>1, <1>2, <1>3, CountedFacts DEF Covers

\* Ageing halves the counters and the accesses.
LEMMA AgedCovers ==
    ASSUME hashes \in [Item -> Nat \X Nat], NEW bytes \in [ByteIndex -> Byte],
           NEW used \in [Item -> Nibble], Covers(bytes, used)
    PROVE  /\ aged(bytes) \in [ByteIndex -> Byte]
           /\ [x \in Item |-> used[x] \div 2] \in [Item -> Nibble]
           /\ Covers(aged(bytes), [x \in Item |-> used[x] \div 2])
  <1>1. \A m, n \in Nibble : m \div 2 \in Nibble /\ (m <= n => m \div 2 <= n \div 2)
    BY DEF Nibble
  <1>2. ASSUME NEW x \in Item, NEW r \in Row
        PROVE  /\ used[x] \div 2 <= CounterOf(aged(bytes), x, r)
               /\ Unshared(x, r) => CounterOf(aged(bytes), x, r) = used[x] \div 2
    <2>1. row_col(x, r, w) \in Column
      BY ColumnFacts
    <2>2. CounterOf(aged(bytes), x, r) = CounterOf(bytes, x, r) \div 2
      BY <2>1, AgedFacts DEF CounterOf
    <2>3. CounterOf(bytes, x, r) \in Nibble
      <3>1. 0 \in Nibble
        BY DEF Nibble
      <3>. QED BY <2>1, <3>1, NibbleFacts DEF CounterOf
    <2>. QED BY <1>1, <2>2, <2>3 DEF Covers
  <1>. QED BY <1>1, <1>2, AgedFacts DEF Covers

\* Covers depends on the hashes only through the columns.
LEMMA SameColumns ==
    ASSUME hashes' = hashes, NEW bytes, NEW used
    PROVE  Covers(bytes, used)' <=> Covers(bytes, used)
  BY DEF Covers, CounterOf, Unshared, row_col

\* Every step of the sketch keeps the invariant.
LEMMA SketchStep == SketchInv /\ [SketchNext]_sketchVars => SketchInv'
  <1> SUFFICES ASSUME SketchInv, [SketchNext]_sketchVars
               PROVE  SketchInv'
    OBVIOUS
  <1>0. hashes' = hashes
    BY DEF SketchNext, sketchVars, record_access, sketch_clear
  <1>1. ASSUME NEW k \in Item, increment(k) PROVE SketchInv'
    <2> DEFINE used == [uses EXCEPT ![k] = IF @ < 15 THEN @ + 1 ELSE @]
    <2>1. /\ counted(k) \in [ByteIndex -> Byte] /\ used \in [Item -> Nibble]
          /\ Covers(counted(k), used)
      BY CountedCovers
    <2>2. CASE additions + 1 >= sample_size
      <3>1. counters' = aged(counted(k)) /\ uses' = [x \in Item |-> used[x] \div 2]
        BY <1>1, <2>2 DEF increment
      <3> HIDE DEF used
      <3>2. counters' \in [ByteIndex -> Byte] /\ uses' \in [Item -> Nibble]
            /\ Covers(counters', uses')
        BY <2>1, <3>1, AgedCovers DEF SketchInv
      <3>. QED BY <3>2, <1>0, SameColumns DEF SketchInv
    <2>3. CASE ~(additions + 1 >= sample_size)
      <3>1. counters' = counted(k) /\ uses' = used
        BY <1>1, <2>3 DEF increment
      <3> HIDE DEF used
      <3>2. counters' \in [ByteIndex -> Byte] /\ uses' \in [Item -> Nibble]
            /\ Covers(counters', uses')
        BY <2>1, <3>1
      <3>. QED BY <3>2, <1>0, SameColumns DEF SketchInv
    <2>. QED BY <2>2, <2>3
  <1>2. CASE UNCHANGED <<counters, uses>>
    BY <1>0, <1>2, SameColumns DEF SketchInv
  <1>3. CASE sketch_clear
    <2>1. counters' = [b \in ByteIndex |-> 0] /\ uses' = [k \in Item |-> 0]
      BY <1>3 DEF sketch_clear
    <2>2. /\ counters' \in [ByteIndex -> Byte] /\ uses' \in [Item -> Nibble]
          /\ Covers(counters', uses')
      BY <2>1, NoneCounted DEF SketchInv, Nibble
    <2>. QED BY <2>2, <1>0, SameColumns DEF SketchInv
  <1>. QED
    BY <1>1, <1>2, <1>3 DEF SketchNext, sketchVars, record_access

\* The smallest of a key's four counters.
LEMMA EstimateIsOne ==
    ASSUME SketchInv, NEW k \in Item
    PROVE  /\ \E r \in Row : estimate(k) = CounterOf(counters, k, r)
           /\ \A r \in Row : estimate(k) <= CounterOf(counters, k, r)
  <1> DEFINE c(r) == CounterOf(counters, k, r)
             S == {c(r) : r \in Row}
  <1>1. ASSUME NEW r \in Row PROVE c(r) \in Nat
    <2>1. hashes \in [Item -> Nat \X Nat] /\ counters \in [ByteIndex -> Byte] /\ 0 \in Nibble
      BY DEF SketchInv, Nibble
    <2>2. row_col(k, r, w) \in Column
      BY <2>1, ColumnFacts
    <2>3. c(r) \in Nibble
      BY <2>1, <2>2, NibbleFacts DEF CounterOf
    <2>. QED BY <2>3 DEF Nibble
  <1>2. Row = {0, 1, 2, 3}
    BY DEF Row, DEPTH
  <1>3. estimate(k) = Min(S)
    BY DEF estimate, CounterOf
  <1> HIDE DEF c
  <1>4. \E m \in S : \A y \in S : m <= y
    <2>1. \A a, b, d, e \in Nat : \E m \in {a, b, d, e} : m <= a /\ m <= b /\ m <= d /\ m <= e
      OBVIOUS
    <2>2. S = {c(0), c(1), c(2), c(3)}
      BY <1>2
    <2>3. c(0) \in Nat /\ c(1) \in Nat /\ c(2) \in Nat /\ c(3) \in Nat
      BY <1>1, <1>2
    <2>4. PICK m \in {c(0), c(1), c(2), c(3)} : m <= c(0) /\ m <= c(1) /\ m <= c(2) /\ m <= c(3)
      BY <2>1, <2>3
    <2> HIDE DEF S
    <2>. QED BY <2>2, <2>4
  <1>5. Min(S) \in S /\ \A y \in S : Min(S) <= y
    <2> HIDE DEF S
    <2>. QED BY <1>4 DEF Min
  <1>. QED BY <1>3, <1>5 DEF c

\* The invariant says what EstimateCovers says.
LEMMA CoversEstimate == SketchInv => EstimateCovers
  <1> SUFFICES ASSUME SketchInv, NEW k \in Item
               PROVE  /\ uses[k] <= estimate(k)
                      /\ (\E r \in Row : Unshared(k, r)) => estimate(k) = uses[k]
    BY DEF EstimateCovers, Unshared
  <1>1. PICK r \in Row : estimate(k) = CounterOf(counters, k, r)
    BY EstimateIsOne
  <1>2. \A q \in Row : estimate(k) <= CounterOf(counters, k, q)
    BY EstimateIsOne
  <1>3. uses[k] <= estimate(k)
    BY <1>1 DEF SketchInv, Covers
  <1>4. ASSUME NEW q \in Row, Unshared(k, q) PROVE estimate(k) <= uses[k]
    BY <1>2, <1>4 DEF SketchInv, Covers
  <1>5. uses[k] \in Nat /\ estimate(k) \in Nat
    <2>1. hashes \in [Item -> Nat \X Nat] /\ counters \in [ByteIndex -> Byte] /\ 0 \in Nibble
      BY DEF SketchInv, Nibble
    <2>2. row_col(k, r, w) \in Column
      BY <2>1, ColumnFacts
    <2>3. estimate(k) \in Nibble
      BY <1>1, <2>1, <2>2, NibbleFacts DEF CounterOf
    <2>. QED BY <2>3 DEF SketchInv, Nibble
  <1>. QED BY <1>3, <1>4, <1>5

\* The estimate never falls short of a key's own accesses and is exact for a
\* key with a counter of its own, for every capacity, every number of keys and
\* however their hashes collide: packing, saturation and ageing of one counter
\* disturb no other.
THEOREM EstimatesCover == Spec => []EstimateCovers
  <1>1. Init => SketchInv
    <2> SUFFICES ASSUME Init PROVE SketchInv
      OBVIOUS
    <2>1. /\ hashes \in [Item -> Nat \X Nat] /\ counters = [b \in ByteIndex |-> 0]
          /\ uses = [k \in Item |-> 0]
      <3>1. CASE use = "sketch"
        <4>1. SketchInit
          BY <3>1 DEF Init
        <4>. QED BY <4>1, SketchAssumption DEF SketchInit
      <3>2. CASE use # "sketch"
        <4>1. /\ hashes = [k \in Item |-> <<0, 0>>] /\ counters = [b \in ByteIndex |-> 0]
              /\ uses = [k \in Item |-> 0]
          BY <3>2 DEF Init
        <4>. QED BY <4>1
      <3>. QED BY <3>1, <3>2
    <2>. QED BY <2>1, NoneCounted DEF SketchInv, Nibble
  <1>2. SketchInv /\ [Next]_vars => SketchInv'
    BY SketchStep DEF Next, vars, sketchVars
  <1>. QED BY <1>1, <1>2, CoversEstimate, PTL DEF Spec
-----------------------------------------------------------------------------
(***************************************************************************)
(* The LRU cache behind the self-filling adapters: which entries its       *)
(* operations leave, change and drop.  No adapter sets a deadline.         *)
(***************************************************************************)
Lasting == [val : Val, exp : {None}]

Shape(c) ==
    c \in [policy : {c.policy}, cap : {c.cap}, map : {c.map},
           entry : [Key -> Lasting \cup {None}]]

\* remove drops the key's entry and leaves the others.
LEMMA RemoveEntries ==
    ASSUME NEW c, Shape(c), NEW k
    PROVE  /\ Shape(LruRemove(c, k))
           /\ LruRemove(c, k).entry = [c.entry EXCEPT ![k] = None]
           /\ LruRemove(c, k).map = Without(c.map, k)
           /\ LruRemove(c, k).cap = c.cap
  <1>1. LruRemove(c, k) = [policy |-> c.policy, cap |-> c.cap, map |-> Without(c.map, k),
                           entry |-> [c.entry EXCEPT ![k] = None]]
    <2>1. LruRemove(c, k) = [c EXCEPT !.map = Without(c.map, k),
                                      !.entry = [c.entry EXCEPT ![k] = None]]
      BY DEF LruRemove
    <2>. QED BY <2>1 DEF Shape
  <1>2. [c.entry EXCEPT ![k] = None] \in [Key -> Lasting \cup {None}]
    BY DEF Shape
  <1>. QED BY <1>1, <1>2 DEF Shape

\* get reorders the map and leaves every entry.
LEMMA GetEntries ==
    ASSUME NEW c, Shape(c), NEW k \in Key
    PROVE  LET d == LruGet(c, k, 0).cache
           IN  /\ Shape(d) /\ d.entry = c.entry
               /\ \/ d.map = c.map
                  \/ d.map = ToBack(c.map, k)
                  \/ d.map = Without(c.map, k) /\ c.entry[k] = None
  <1> DEFINE d == LruGet(c, k, 0).cache
  <1>1. c.entry[k] \in Lasting \cup {None} /\ c.entry = [c.entry EXCEPT ![k] = c.entry[k]]
    BY DEF Shape
  <1>2. d = IF ~Holds(c.map, k) THEN c
            ELSE IF is_expired(c.entry[k], 0) THEN LruRemove(c, k)
            ELSE [c EXCEPT !.map = ToBack(@, k)]
    BY DEF LruGet
  <1>3. CASE ~Holds(c.map, k)
    BY <1>2, <1>3
  <1>4. CASE Holds(c.map, k) /\ is_expired(c.entry[k], 0)
    <2>1. c.entry[k] = None
      BY <1>1, <1>4 DEF is_expired, Lasting
    <2>2. d = LruRemove(c, k)
      BY <1>2, <1>4
    <2>3. /\ Shape(d) /\ d.entry = [c.entry EXCEPT ![k] = None]
          /\ d.map = Without(c.map, k)
      BY <2>2, RemoveEntries
    <2>4. d.entry = c.entry
      BY <1>1, <2>1, <2>3
    <2>. QED BY <2>1, <2>3, <2>4
  <1>5. CASE Holds(c.map, k) /\ ~is_expired(c.entry[k], 0)
    <2>1. d = [policy |-> c.policy, cap |-> c.cap, map |-> ToBack(c.map, k), entry |-> c.entry]
      BY <1>2, <1>5 DEF Shape
    <2>. QED BY <2>1 DEF Shape
  <1>. QED BY <1>3, <1>4, <1>5

\* insert stores the entry and drops at most others.
Inserted(c, k, e, d) ==
    /\ Shape(d) /\ d.entry[k] = e
    /\ \A x \in Key \ {k} : d.entry[x] \in {None, c.entry[x]}

\* What insert_entry does to the entries, and to the order.
LEMMA InsertEntries ==
    ASSUME NEW c, Shape(c), NEW k \in Key, NEW e \in Lasting
    PROVE  /\ Inserted(c, k, e, LruInsert(c, k, e))
           /\ \/ /\ LruInsert(c, k, e).map = ToBack(c.map, k)
              \/ /\ Len(c.map) >= c.cap /\ c.cap > 0
                 /\ LruInsert(c, k, e).map = ToBack(Without(c.map, Head(c.map)), k)
                 /\ Head(c.map) \in Key \ {k} => LruInsert(c, k, e).entry[Head(c.map)] = None
  <1> DEFINE h == Head(c.map)
             full == ~Holds(c.map, k) /\ c.cap > 0 /\ LruLen(c) >= c.cap
             room == IF full THEN LruRemove(c, h) ELSE c
             d == LruInsert(c, k, e)
  <1>1. d = [room EXCEPT !.map = ToBack(@, k), !.entry[k] = e]
    BY DEF LruInsert, LruPopFront
  <1>2. /\ Shape(room) /\ \A x \in Key : room.entry[x] \in {None, c.entry[x]}
        /\ \/ room.map = c.map
           \/ /\ room.map = Without(c.map, h) /\ Len(c.map) >= c.cap /\ c.cap > 0
              /\ h \in Key => room.entry[h] = None
    <2>1. CASE full
      <3>1. room = LruRemove(c, h) /\ Len(c.map) >= c.cap /\ c.cap > 0
        BY <2>1 DEF LruLen
      <3>2. Shape(room) /\ room.entry = [c.entry EXCEPT ![h] = None] /\ room.map = Without(c.map, h)
        <4>1. /\ Shape(LruRemove(c, h)) /\ LruRemove(c, h).entry = [c.entry EXCEPT ![h] = None]
              /\ LruRemove(c, h).map = Without(c.map, h)
          BY RemoveEntries
        <4>. QED BY <3>1, <4>1
      <3> HIDE DEF room, h
      <3>. QED BY <3>1, <3>2 DEF Shape
    <2>2. CASE ~full
      BY <2>2
    <2>. QED BY <2>1, <2>2
  <1> HIDE DEF room, h
  <1>3. d = [policy |-> room.policy, cap |-> room.cap, map |-> ToBack(room.map, k),
             entry |-> [room.entry EXCEPT ![k] = e]]
    BY <1>1, <1>2 DEF Shape
  <1>4. d.entry = [room.entry EXCEPT ![k] = e] /\ d.map = ToBack(room.map, k)
        /\ d.entry \in [Key -> Lasting \cup {None}]
    BY <1>2, <1>3 DEF Shape
  <1>5. Shape(d)
    BY <1>3, <1>4 DEF Shape
  <1>6. d.entry[k] = e /\ \A x \in Key \ {k} : d.entry[x] = room.entry[x]
    BY <1>2, <1>4 DEF Shape
  <1> HIDE DEF d
  <1>7. Inserted(c, k, e, d)
    BY <1>2, <1>5, <1>6 DEF Inserted
  <1>8. \/ d.map = ToBack(c.map, k)
        \/ /\ Len(c.map) >= c.cap /\ c.cap > 0
           /\ d.map = ToBack(Without(c.map, h), k)
           /\ h \in Key \ {k} => d.entry[h] = None
    BY <1>2, <1>4, <1>6
  <1>. QED BY <1>7, <1>8 DEF d, h

\* The order of the map without a key, and with the key moved to the back.
LEMMA WithoutFacts ==
    ASSUME NEW s \in Seq(Key), NEW k
    PROVE  /\ Without(s, k) \in Seq(Key)
           /\ \A x : Holds(s, x) /\ x # k => Holds(Without(s, k), x)
  <1>1. CASE ~Holds(s, k)
    BY <1>1 DEF Without
  <1>2. CASE Holds(s, k)
    <2> DEFINE i == CHOOSE j \in DOMAIN s : s[j] = k
               a == SubSeq(s, 1, i - 1)
               b == SubSeq(s, i + 1, Len(s))
    <2>1. i \in 1..Len(s) /\ s[i] = k /\ Len(s) \in Nat
      BY <1>2 DEF Holds, ToSet
    <2>2. Without(s, k) = a \o b
      BY <1>2 DEF Without, RemoveAt
    <2> HIDE DEF i
    <2>3. /\ a \in Seq(Key) /\ Len(a) = i - 1 /\ \A j \in 1..(i - 1) : a[j] = s[j]
          /\ b \in Seq(Key) /\ Len(b) = Len(s) - i /\ \A j \in 1..(Len(s) - i) : b[j] = s[j + i]
      <3>1. /\ \A j \in 1..(i - 1) : s[j] \in Key
            /\ \A j \in (i + 1)..Len(s) : s[j] \in Key
        BY <2>1, ElementOfSeq
      <3>2. /\ a \in Seq(Key) /\ Len(a) = (IF 1 <= i - 1 THEN i - 1 - 1 + 1 ELSE 0)
            /\ \A j \in 1..(i - 1 - 1 + 1) : a[j] = s[1 + j - 1]
        BY <2>1, <3>1, SubSeqProperties
      <3>3. /\ b \in Seq(Key) /\ Len(b) = (IF i + 1 <= Len(s) THEN Len(s) - (i + 1) + 1 ELSE 0)
            /\ \A j \in 1..(Len(s) - (i + 1) + 1) : b[j] = s[i + 1 + j - 1]
        BY <2>1, <3>1, SubSeqProperties
      <3> HIDE DEF a, b
      <3>. QED BY <2>1, <3>2, <3>3
    <2> HIDE DEF a, b
    <2>4. /\ a \o b \in Seq(Key) /\ Len(a \o b) = Len(s) - 1
          /\ \A j \in 1..(i - 1) : (a \o b)[j] = s[j]
          /\ \A j \in i..(Len(s) - 1) : (a \o b)[j] = s[j + 1]
      <3>1. /\ a \o b \in Seq(Key) /\ Len(a \o b) = Len(a) + Len(b)
            /\ \A j \in 1..(Len(a) + Len(b)) :
                  (a \o b)[j] = IF j <= Len(a) THEN a[j] ELSE b[j - Len(a)]
        BY <2>3, ConcatProperties
      <3>2. ASSUME NEW j \in i..(Len(s) - 1) PROVE (a \o b)[j] = s[j + 1]
        <4>1. (a \o b)[j] = b[j - (i - 1)] /\ j - (i - 1) \in 1..(Len(s) - i)
          BY <2>1, <2>3, <3>1
        <4>2. b[j - (i - 1)] = s[j - (i - 1) + i] /\ j - (i - 1) + i = j + 1
          BY <2>1, <2>3, <4>1
        <4>. QED BY <4>1, <4>2
      <3>3. ASSUME NEW j \in 1..(i - 1) PROVE (a \o b)[j] = s[j]
        <4>1. a[j] = s[j] /\ j \in 1..(Len(a) + Len(b)) /\ j <= Len(a)
          BY <2>1, <2>3
        <4>. QED BY <3>1, <4>1
      <3>4. Len(a \o b) = Len(s) - 1
        BY <2>1, <2>3, <3>1
      <3>. QED BY <3>1, <3>2, <3>3, <3>4
    <2>5. ASSUME NEW x, Holds(s, x), x # k PROVE Holds(a \o b, x)
      <3>1. PICK j \in 1..Len(s) : s[j] = x
        BY <2>5 DEF Holds, ToSet
      <3>2. j # i
        BY <2>1, <2>5, <3>1
      <3>3. CASE j < i
        <4>1. j \in 1..(Len(s) - 1) /\ (a \o b)[j] = x
          BY <2>1, <2>4, <3>1, <3>3
        <4>2. j \in DOMAIN (a \o b)
          BY <2>4, <4>1, LenProperties
        <4>. QED BY <4>1, <4>2 DEF Holds, ToSet
      <3>4. CASE j > i
        <4>1. j - 1 \in i..(Len(s) - 1) /\ j - 1 + 1 = j
          BY <2>1, <3>1, <3>4
        <4>2. (a \o b)[j - 1] = x
          BY <2>1, <2>4, <3>1, <4>1
        <4>3. j - 1 \in DOMAIN (a \o b)
          BY <2>1, <2>4, <4>1, LenProperties
        <4>. QED BY <4>2, <4>3 DEF Holds, ToSet
      <3>. QED BY <2>1, <3>1, <3>2, <3>3, <3>4
    <2>. QED BY <2>2, <2>4, <2>5
  <1>. QED BY <1>1, <1>2

\* Moving a key to the back loses no key.
LEMMA ToBackFacts ==
    ASSUME NEW s \in Seq(Key), NEW k \in Key
    PROVE  /\ ToBack(s, k) \in Seq(Key)
           /\ \A x : Holds(s, x) \/ x = k => Holds(ToBack(s, k), x)
  <1> DEFINE r == Without(s, k)
  <1>1. r \in Seq(Key) /\ \A x : Holds(s, x) /\ x # k => Holds(r, x)
    BY WithoutFacts
  <1> HIDE DEF r
  <1>2. /\ Append(r, k) \in Seq(Key) /\ Len(Append(r, k)) = Len(r) + 1 /\ Len(r) \in Nat
        /\ Append(r, k)[Len(r) + 1] = k
        /\ \A j \in 1..Len(r) : Append(r, k)[j] = r[j]
    BY <1>1
  <1>3. Holds(Append(r, k), k)
    BY <1>2 DEF Holds, ToSet
  <1>4. ASSUME NEW x, Holds(r, x) PROVE Holds(Append(r, k), x)
    <2>1. PICK j \in 1..Len(r) : r[j] = x
      BY <1>1, <1>4 DEF Holds, ToSet
    <2>2. j \in DOMAIN Append(r, k) /\ Append(r, k)[j] = x
      BY <1>2, <2>1
    <2>. QED BY <2>2 DEF Holds, ToSet
  <1>. QED BY <1>1, <1>2, <1>3, <1>4 DEF ToBack, r
-----------------------------------------------------------------------------
(***************************************************************************)
(* The adapters.  FillsAreCurrent needs to know more of the calls under    *)
(* way: a get that is still clean has fetched what the store holds and no  *)
(* write of its key is between its steps; and while BlobCache is between   *)
(* the invalidation and the write, what gets cached under the key is       *)
(* tainted, as the gets that fill it are not clean.  FirstFillWins needs   *)
(* every entry to be in the map, where the second look searches for it.    *)
(***************************************************************************)
Job == [stage : {"idle", "fetch", "fill", "invalidate", "write"}, key : Key \cup {None},
        val : Val \cup {None}, clean : BOOLEAN]

ReadTypes ==
    /\ adapter \in Adapter /\ Shape(held) /\ backing \in [Key -> Val \cup {None}]
    /\ job \in [Task -> Job] /\ file \subseteq Key /\ tainted \subseteq Key
    /\ adapter # "rows" => file = {}

JobsOK ==
    \A t \in Task :
        /\ job[t].stage \in {"fetch", "fill", "write"} => job[t].key \in Key
        /\ job[t].stage = "invalidate" /\ adapter = "kv" => job[t].key \in Key
        /\ job[t].stage = "fill" => job[t].val \in Val
        /\ adapter = "rows" => job[t].key = None

CleanFetches ==
    adapter \in {"kv", "blob"} => \A t \in Task :
        job[t].clean /\ job[t].stage \in {"fetch", "fill"} =>
            /\ Writing(job[t].key) = {}
            /\ job[t].stage = "fill" => job[t].val = backing[job[t].key]

NothingWhileWriting ==
    adapter = "blob" => \A k \in Key \ tainted :
        Writing(k) # {} => Value(held, k) = None

MapHoldsAll ==
    adapter = "async" =>
        /\ held.map \in Seq(Key)
        /\ \A k \in Key : held.entry[k] # None => Holds(held.map, k)

ReadInv ==
    ReadTypes /\ JobsOK /\ CleanFetches /\ NothingWhileWriting /\ MapHoldsAll /\ FillsAreCurrent

\* A call that is not a write neither enters nor leaves Writing.
LEMMA WritingSame ==
    ASSUME NEW t \in Task, \A u \in Task \ {t} : job'[u].key = job[u].key /\ job'[u].stage = job[u].stage,
           job[t].stage \notin {"write", "invalidate"}, job'[t].stage \notin {"write", "invalidate"}
    PROVE  \A k : Writing(k)' = Writing(k)
  BY DEF Writing

\* A step that leaves the entries and the store alone, and the others' calls.
LEMMA QuietStep ==
    ASSUME ReadInv, UNCHANGED <<adapter, backing, file, tainted>>,
           Shape(held'), held'.entry = held.entry, MapHoldsAll',
           NEW t \in Task, NEW j \in Job, job' = [job EXCEPT ![t] = j],
           job[t].stage \notin {"write", "invalidate"}, j.stage \notin {"write", "invalidate"},
           j.stage \in {"fetch", "fill"} => j.key \in Key,
           j.stage = "fill" => j.val \in Val,
           adapter = "rows" => j.key = None,
           adapter \in {"kv", "blob"} /\ j.clean /\ j.stage \in {"fetch", "fill"} =>
               /\ Writing(j.key) = {}
               /\ j.stage = "fill" => j.val = backing[j.key]
    PROVE  ReadInv'
  <1>1. job \in [Task -> Job] /\ job' \in [Task -> Job] /\ job'[t] = j
        /\ \A u \in Task \ {t} : job'[u] = job[u]
    BY DEF ReadInv, ReadTypes
  <1>2. \A k : Writing(k)' = Writing(k)
    BY <1>1, WritingSame
  <1>3. ReadTypes'
    BY <1>1 DEF ReadInv, ReadTypes
  <1>4. JobsOK'
    BY <1>1 DEF ReadInv, JobsOK
  <1>5. CleanFetches'
    <2>1. ASSUME NEW u \in Task, adapter \in {"kv", "blob"}, job'[u].clean,
                 job'[u].stage \in {"fetch", "fill"}
          PROVE  /\ Writing(job'[u].key) = {}
                 /\ job'[u].stage = "fill" => job'[u].val = backing[job'[u].key]
      BY <1>1, <2>1 DEF ReadInv, CleanFetches
    <2>. QED BY <1>2, <2>1 DEF CleanFetches
  <1>6. NothingWhileWriting'
    BY <1>2 DEF ReadInv, NothingWhileWriting, Value
  <1>7. FillsAreCurrent'
    <2>1. ASSUME NEW u \in Task, At(u, "invalidate") PROVE At(u, "invalidate")'
      BY <1>1, <2>1 DEF At
    <2>2. \A k \in Key : Value(held', k) = Value(held, k)
      BY DEF Value
    <2>. QED BY <1>2, <2>1, <2>2 DEF ReadInv, FillsAreCurrent
  <1>. QED BY <1>3, <1>4, <1>5, <1>6, <1>7 DEF ReadInv

\* The record of a get that missed.
LEMMA MissFacts ==
    ASSUME job \in [Task -> Job], NEW t \in Task, NEW k \in Key, Go(t, "fetch", k)
    PROVE  \E j \in Job : /\ job' = [job EXCEPT ![t] = j] /\ j.stage = "fetch" /\ j.key = k
                          /\ j.clean => Writing(k) = {}
  <1>1. ASSUME NEW b \in BOOLEAN
        PROVE  LET j == [Idle EXCEPT !.stage = "fetch", !.key = k, !.clean = b]
               IN  j \in Job /\ j.stage = "fetch" /\ j.key = k /\ j.clean = b
    BY DEF Idle, Job
  <1>2. CASE Writing(k) = {}
    <2>1. job' = [job EXCEPT ![t] = [Idle EXCEPT !.stage = "fetch", !.key = k, !.clean = TRUE]]
      BY <1>2 DEF Go
    <2>. QED BY <1>1, <1>2, <2>1
  <1>3. CASE Writing(k) # {}
    <2>1. job' = [job EXCEPT ![t] = [Idle EXCEPT !.stage = "fetch", !.key = k, !.clean = FALSE]]
      BY <1>3 DEF Go
    <2>. QED BY <1>1, <1>3, <2>1
  <1>. QED BY <1>2, <1>3

\* The first look.
LEMMA LookUpStep ==
    ASSUME ReadInv, NEW t \in Task, NEW k \in Key, adapter # "rows", LookUp(t, k)
    PROVE  ReadInv'
  <1> DEFINE d == LruGet(held, k, 0).cache
  <1>1. /\ held' = d /\ UNCHANGED <<adapter, backing, file, tainted>> /\ job[t].stage = "idle"
    BY DEF LookUp, At
  <1>2. Shape(held) /\ job \in [Task -> Job] /\ job[t] \in Job
    BY DEF ReadInv, ReadTypes
  <1>3. /\ Shape(d) /\ d.entry = held.entry
        /\ \/ d.map = held.map
           \/ d.map = ToBack(held.map, k)
           \/ d.map = Without(held.map, k) /\ held.entry[k] = None
    BY <1>2, GetEntries
  <1>4. PICK j \in Job : /\ job' = [job EXCEPT ![t] = j] /\ j.stage \in {"fetch", "idle"}
                         /\ j.stage = "fetch" => j.key = k /\ (j.clean => Writing(k) = {})
    <2>1. LruGet(held, k, 0).val = LruPeek(held, k, 0)
      BY DEF LruGet
    <2>2. CASE LruPeek(held, k, 0) = None
      <3>1. Go(t, "fetch", k)
        BY <2>1, <2>2 DEF LookUp
      <3>2. PICK j \in Job : /\ job' = [job EXCEPT ![t] = j] /\ j.stage = "fetch" /\ j.key = k
                             /\ j.clean => Writing(k) = {}
        BY <1>2, <3>1, MissFacts
      <3>. QED BY <3>2
    <2>3. CASE LruPeek(held, k, 0) # None
      <3>1. job' = job
        BY <2>1, <2>3 DEF LookUp
      <3>2. job' = [job EXCEPT ![t] = job[t]] /\ job[t] \in Job /\ job[t].stage = "idle"
        BY <1>1, <1>2, <3>1
      <3>3. PICK j \in Job : job' = [job EXCEPT ![t] = j] /\ j.stage = "idle"
        BY <3>2
      <3>. QED BY <3>3
    <2>. QED BY <2>2, <2>3
  <1> HIDE DEF d
  <1>6. MapHoldsAll'
    <2> SUFFICES ASSUME adapter = "async"
                 PROVE  /\ d.map \in Seq(Key)
                        /\ \A x \in Key : d.entry[x] # None => Holds(d.map, x)
      BY <1>1 DEF MapHoldsAll
    <2>1. held.map \in Seq(Key) /\ \A x \in Key : held.entry[x] # None => Holds(held.map, x)
      BY DEF ReadInv, MapHoldsAll
    <2>2. /\ ToBack(held.map, k) \in Seq(Key) /\ Without(held.map, k) \in Seq(Key)
          /\ \A x : Holds(held.map, x) => Holds(ToBack(held.map, k), x)
          /\ \A x : Holds(held.map, x) /\ x # k => Holds(Without(held.map, k), x)
      BY <2>1, WithoutFacts, ToBackFacts
    <2>. QED BY <1>3, <2>1, <2>2
  <1>7. held'.entry = held.entry /\ Shape(held')
    BY <1>1, <1>3
  <1>. QED BY <1>1, <1>4, <1>6, <1>7, QuietStep

\* The store's answer, and the loader's.
LEMMA FetchStep ==
    ASSUME ReadInv, NEW t \in Task, Fetch(t) \/ Load(t)
    PROVE  ReadInv'
  <1>1. /\ UNCHANGED <<adapter, held, backing, file, tainted>> /\ job[t].stage = "fetch"
        /\ adapter \in {"kv", "blob", "async"}
    BY DEF Fetch, Load, At
  <1>2. /\ job \in [Task -> Job] /\ job[t] \in Job /\ job[t].key \in Key /\ Idle \in Job
        /\ Idle.stage = "idle" /\ backing \in [Key -> Val \cup {None}] /\ Shape(held)
    BY <1>1 DEF ReadInv, ReadTypes, JobsOK, Idle, Job
  <1>3. MapHoldsAll'
    BY <1>1 DEF ReadInv, MapHoldsAll
  <1>4. CASE Return(t)
    <2>1. job' = [job EXCEPT ![t] = Idle]
      BY <1>4 DEF Return
    <2>. QED BY <1>1, <1>2, <1>3, <2>1, QuietStep
  <1>5. ASSUME NEW v \in Val, job' = [job EXCEPT ![t].stage = "fill", ![t].val = v],
               adapter # "async" => v = backing[job[t].key]
        PROVE  ReadInv'
    <2> DEFINE j == [job[t] EXCEPT !.stage = "fill", !.val = v]
    <2>1. job' = [job EXCEPT ![t] = j]
      BY <1>2, <1>5
    <2>2. j \in Job /\ j.stage = "fill" /\ j.val = v /\ j.key = job[t].key /\ j.clean = job[t].clean
      BY <1>2 DEF Job
    <2>3. adapter \in {"kv", "blob"} /\ job[t].clean => Writing(job[t].key) = {}
      BY <1>1 DEF ReadInv, CleanFetches
    <2> HIDE DEF j
    <2>4. /\ j.key \in Key /\ j.val \in Val /\ adapter # "rows" /\ held'.entry = held.entry
          /\ Shape(held') /\ j.stage \notin {"write", "invalidate"}
          /\ job[t].stage \notin {"write", "invalidate"}
      BY <1>1, <1>2, <2>2
    <2>5. adapter \in {"kv", "blob"} /\ j.clean => Writing(j.key) = {} /\ j.val = backing[j.key]
      BY <1>5, <2>2, <2>3
    <2>. QED BY <1>1, <1>3, <2>1, <2>2, <2>4, <2>5, QuietStep
  <1>6. CASE Load(t)
    BY <1>5, <1>6 DEF Load
  <1>7. CASE Fetch(t) /\ ~Return(t)
    <2>1. /\ backing[job[t].key] # None
          /\ job' = [job EXCEPT ![t].stage = "fill", ![t].val = backing[job[t].key]]
      BY <1>7 DEF Fetch
    <2>2. backing[job[t].key] \in Val
      BY <1>2, <2>1
    <2>. QED BY <1>5, <2>1, <2>2
  <1>. QED BY <1>4, <1>6, <1>7

\* What a step does to an entry, as seen through Value.
LEMMA ValueFacts ==
    ASSUME NEW c, NEW d, NEW k
    PROVE  /\ d.entry[k] \in {None, c.entry[k]} => Value(d, k) \in {None, Value(c, k)}
           /\ d.entry[k] = None => Value(d, k) = None
           /\ \A v : d.entry[k] = Cacheable(v) => Value(d, k) \in {None, v}
  BY DEF Value, Cacheable

\* What the adapters cache has no deadline.
LEMMA CacheableFacts == ASSUME NEW v \in Val PROVE Cacheable(v) \in Lasting
  BY DEF Cacheable, Lasting

\* In get_or_insert_async the second look finds whatever is cached.
LEMMA PeekFinds ==
    ASSUME ReadInv, adapter = "async", NEW k \in Key, LruPeek(held, k, 0) = None
    PROVE  Value(held, k) = None
  <1> SUFFICES ASSUME held.entry[k] # None PROVE held.entry[k].val = None
    BY DEF Value
  <1>1. Holds(held.map, k) /\ held.entry[k] \in Lasting
    BY DEF ReadInv, MapHoldsAll, ReadTypes, Shape
  <1>2. ~is_expired(held.entry[k], 0)
    BY <1>1 DEF is_expired, Lasting
  <1>. QED BY <1>1, <1>2 DEF LruPeek

\* Inserting into the map keeps every entry in it.
LEMMA InsertHoldsAll ==
    ASSUME NEW c, Shape(c), c.map \in Seq(Key), \A x \in Key : c.entry[x] # None => Holds(c.map, x),
           NEW k \in Key, NEW e \in Lasting
    PROVE  LET d == LruInsert(c, k, e)
           IN  d.map \in Seq(Key) /\ \A x \in Key : d.entry[x] # None => Holds(d.map, x)
  <1> DEFINE d == LruInsert(c, k, e)
             h == Head(c.map)
             s == Without(c.map, h)
  <1>1. /\ \A x \in Key \ {k} : d.entry[x] \in {None, c.entry[x]}
        /\ \/ d.map = ToBack(c.map, k)
           \/ /\ d.map = ToBack(s, k)
              /\ h \in Key \ {k} => d.entry[h] = None
    BY InsertEntries DEF Inserted
  <1>2. /\ s \in Seq(Key) /\ \A x : Holds(c.map, x) /\ x # h => Holds(s, x)
    BY WithoutFacts
  <1> HIDE DEF d, s, h
  <1>3. /\ ToBack(c.map, k) \in Seq(Key) /\ ToBack(s, k) \in Seq(Key)
        /\ \A x : Holds(c.map, x) \/ x = k => Holds(ToBack(c.map, k), x)
        /\ \A x : Holds(s, x) \/ x = k => Holds(ToBack(s, k), x)
    BY <1>2, ToBackFacts
  <1>. QED BY <1>1, <1>2, <1>3 DEF d

\* A step that drops entries or caches what the store holds, and takes out of
\* the history at most what is no longer cached.
LEMMA CacheStep ==
    ASSUME ReadInv, UNCHANGED <<adapter, backing, file>>, adapter # "async", NEW ks \in SUBSET Key,
           Shape(held'), NEW k \in Key \cup {None},
           \A x \in Key \ {k} : held'.entry[x] \in {None, held.entry[x]},
           \A x \in Key \ ks : x # k => x \notin tainted,
           tainted' = {x \in ks : held'.entry[x] # None},
           k \in Key \ tainted' => Value(held', k) \in {None, backing[k]},
           adapter = "blob" /\ k \in Key \ tainted' /\ Writing(k)' # {} => Value(held', k) = None,
           \A x \in Key \ {k} : Writing(x)' = Writing(x),
           \A x \in file : (\E t \in Task : At(t, "invalidate")) =>
               (\E t \in Task : At(t, "invalidate")') \/ held'.entry[x] = None
    PROVE  NothingWhileWriting' /\ FillsAreCurrent'
  <1>1. ASSUME NEW x \in Key \ tainted', x # k
        PROVE  /\ Value(held', x) = None \/ (x \notin tainted /\ Value(held', x) = Value(held, x))
    <2>1. CASE x \notin ks
      BY <2>1, <1>1, ValueFacts
    <2>2. CASE x \in ks
      <3>1. held'.entry[x] = None
        BY <1>1, <2>2
      <3>. QED BY <3>1, ValueFacts
    <2>. QED BY <2>1, <2>2
  <1>2. NothingWhileWriting'
    <2> SUFFICES ASSUME adapter = "blob", NEW x \in Key \ tainted', Writing(x)' # {}
                 PROVE  Value(held', x) = None
      BY DEF NothingWhileWriting
    <2>. QED BY <1>1 DEF ReadInv, NothingWhileWriting
  <1>3. FillsAreCurrent'
    <2> SUFFICES ASSUME NEW x \in Key \ tainted'
                 PROVE  \/ Value(held', x) \in {None, backing[x]}
                        \/ Writing(x)' # {}
                        \/ x \in file /\ \E t \in Task : At(t, "invalidate")'
      BY DEF FillsAreCurrent
    <2>1. CASE x = k \/ Value(held', x) = None
      BY <2>1
    <2>2. CASE x # k /\ Value(held', x) # None
      <3>1. x \notin tainted /\ Value(held', x) = Value(held, x) /\ held'.entry[x] # None
        BY <1>1, <2>2, ValueFacts
      <3>2. \/ Value(held, x) \in {None, backing[x]}
            \/ Writing(x) # {}
            \/ x \in file /\ \E t \in Task : At(t, "invalidate")
        BY <3>1 DEF ReadInv, FillsAreCurrent
      <3>. QED BY <2>2, <3>1, <3>2
    <2>. QED BY <2>1, <2>2
  <1>. QED BY <1>2, <1>3

\* A task returns: the others' calls go on, and only its own write ends.
LEMMA ReturnFacts ==
    ASSUME ReadInv, NEW t \in Task, Return(t), UNCHANGED <<adapter, backing>>
    PROVE  /\ job' \in [Task -> Job] /\ JobsOK' /\ CleanFetches'
           /\ job'[t].stage = "idle" /\ \A u \in Task \ {t} : job'[u] = job[u]
           /\ \A k : Writing(k)' = Writing(k) \ {t}
  <1>1. /\ Idle \in Job /\ Idle.stage = "idle" /\ Idle.key = None
        /\ job \in [Task -> Job] /\ job' = [job EXCEPT ![t] = Idle]
    BY DEF Idle, Job, Return, ReadInv, ReadTypes
  <1>2. job' \in [Task -> Job] /\ job'[t] = Idle /\ \A u \in Task \ {t} : job'[u] = job[u]
    BY <1>1
  <1>3. \A k : Writing(k)' = Writing(k) \ {t}
    BY <1>1, <1>2 DEF Writing
  <1>4. JobsOK'
    BY <1>1, <1>2 DEF ReadInv, JobsOK
  <1>5. CleanFetches'
    BY <1>1, <1>2, <1>3 DEF ReadInv, CleanFetches
  <1>. QED BY <1>1, <1>2, <1>3, <1>4, <1>5

\* The fill: what a clean get inserts is what the store holds.
LEMMA FillStep ==
    ASSUME ReadInv, NEW t \in Task, Fill(t)
    PROVE  ReadInv'
  <1>0. PICK k, e : k = job[t].key /\ e = Cacheable(job[t].val)
    OBVIOUS
  <1>1. /\ job[t].stage = "fill" /\ Return(t) /\ UNCHANGED <<adapter, backing, file>>
        /\ held' = IF adapter = "async" /\ LruPeek(held, k, 0) # None THEN held
                   ELSE LruInsert(held, k, e)
        /\ tainted' = {x \in (IF job[t].clean THEN tainted \ {k} ELSE tainted \cup {k}) :
                           held'.entry[x] # None}
    BY <1>0 DEF Fill, At, Taints
  <1>2. /\ k \in Key /\ job[t].val \in Val /\ Shape(held) /\ tainted \subseteq Key
        /\ job[t].clean \in BOOLEAN
    BY <1>0, <1>1 DEF ReadInv, JobsOK, ReadTypes, Job
  <1>3. e \in Lasting /\ adapter # "rows"
    BY <1>0, <1>2, CacheableFacts, CacheConstants DEF ReadInv, JobsOK
  <1>4. Inserted(held, k, e, LruInsert(held, k, e))
    BY <1>2, <1>3, InsertEntries
  <1>5. /\ job' \in [Task -> Job] /\ JobsOK' /\ CleanFetches'
        /\ job'[t].stage = "idle" /\ \A u \in Task \ {t} : job'[u] = job[u]
        /\ \A x : Writing(x)' = Writing(x)
    <2>1. \A x : t \notin Writing(x)
      BY <1>1 DEF Writing
    <2>. QED BY <1>1, <2>1, ReturnFacts
  <1>6. Shape(held')
    BY <1>1, <1>2, <1>4 DEF Inserted
  <1>7. ReadTypes'
    BY <1>1, <1>2, <1>5, <1>6 DEF ReadInv, ReadTypes
  <1>8. MapHoldsAll'
    <2>1. CASE adapter = "async" /\ LruPeek(held, k, 0) # None
      BY <1>1, <2>1 DEF ReadInv, MapHoldsAll
    <2>2. CASE adapter = "async" /\ LruPeek(held, k, 0) = None
      <3>1. held' = LruInsert(held, k, e)
        BY <1>1, <2>2
      <3>2. held.map \in Seq(Key) /\ \A x \in Key : held.entry[x] # None => Holds(held.map, x)
        BY <2>2 DEF ReadInv, MapHoldsAll
      <3>3. held'.map \in Seq(Key) /\ \A x \in Key : held'.entry[x] # None => Holds(held'.map, x)
        BY <1>2, <1>3, <3>1, <3>2, InsertHoldsAll
      <3>. QED BY <3>3 DEF MapHoldsAll
    <2>3. CASE adapter # "async"
      BY <1>1, <2>3 DEF MapHoldsAll
    <2>. QED BY <2>1, <2>2, <2>3
  <1>9. NothingWhileWriting' /\ FillsAreCurrent'
    <2>1. CASE adapter = "async"
      BY <1>1, <2>1 DEF NothingWhileWriting, FillsAreCurrent
    <2>2. CASE adapter # "async"
      <3>1. held' = LruInsert(held, k, e)
        BY <1>1, <2>2
      <3>2. /\ \A x \in Key \ {k} : held'.entry[x] \in {None, held.entry[x]}
            /\ held'.entry[k] = e
        BY <3>1, <1>4 DEF Inserted
      <3>3. adapter \in {"kv", "blob"}
        BY <1>3, <2>2 DEF ReadInv, ReadTypes, Adapter
      <3>4. ~job[t].clean => k \in tainted' \/ held'.entry[k] = None
        BY <1>1
      <3>5. job[t].clean => Writing(k) = {} /\ job[t].val = backing[k]
        BY <1>0, <1>1, <3>3 DEF ReadInv, CleanFetches
      <3>6. Value(held', k) \in {None, job[t].val} /\ (held'.entry[k] = None => Value(held', k) = None)
        BY <1>0, <3>2, ValueFacts
      <3> DEFINE ks == IF job[t].clean THEN tainted \ {k} ELSE tainted \cup {k}
      <3>7. /\ ks \in SUBSET Key /\ tainted' = {x \in ks : held'.entry[x] # None}
            /\ \A x \in Key \ ks : x # k => x \notin tainted
        BY <1>1, <1>2
      <3> HIDE DEF ks
      <3>8. \A x \in file : (\E u \in Task : At(u, "invalidate")) =>
               (\E u \in Task : At(u, "invalidate")') \/ held'.entry[x] = None
        BY <1>3 DEF ReadInv, ReadTypes
      <3>9. k \in Key \ tainted' => Value(held', k) \in {None, backing[k]}
        BY <3>4, <3>5, <3>6
      <3>10. adapter = "blob" /\ k \in Key \ tainted' /\ Writing(k)' # {} => Value(held', k) = None
        BY <1>5, <3>4, <3>5, <3>6
      <3>. QED
        BY <1>1, <1>2, <1>5, <1>6, <2>2, <3>2, <3>7, <3>8, <3>9, <3>10, CacheStep
    <2>. QED BY <2>1, <2>2
  <1>. QED BY <1>5, <1>7, <1>8, <1>9 DEF ReadInv

\* The gets of k that a write overlaps are no longer clean; stages, keys and
\* fetched values stay.
LEMMA OverlappedFacts ==
    ASSUME job \in [Task -> Job], NEW k \in Key, NEW u \in Task
    PROVE  /\ Overlapped({k}) \in [Task -> Job]
           /\ Overlapped({k})[u].stage = job[u].stage /\ Overlapped({k})[u].key = job[u].key
           /\ Overlapped({k})[u].val = job[u].val
           /\ Overlapped({k})[u].clean => job[u].clean /\ job[u].key # k
  <1>1. ASSUME NEW t \in Task
        PROVE  /\ Overlapped({k})[t] \in Job
               /\ Overlapped({k})[t] = IF job[t].key = k THEN [job[t] EXCEPT !.clean = FALSE] ELSE job[t]
    <2>1. job[t] \in Job /\ [job[t] EXCEPT !.clean = FALSE] \in Job
      BY DEF Job
    <2>. QED BY <2>1 DEF Overlapped
  <1>2. Overlapped({k}) \in [Task -> Job]
    BY <1>1 DEF Overlapped
  <1>3. job[u] \in Job
    OBVIOUS
  <1>4. CASE job[u].key = k
    <2>1. Overlapped({k})[u] = [job[u] EXCEPT !.clean = FALSE]
      BY <1>1, <1>4
    <2>. QED BY <1>2, <1>3, <1>4, <2>1 DEF Job
  <1>5. CASE job[u].key # k
    BY <1>1, <1>2, <1>5
  <1>. QED BY <1>4, <1>5

\* A write of k reaches the store, or is announced: the calls under way.  j
\* is what the writer goes on with, if it does.
LEMMA WriteFacts ==
    ASSUME ReadInv, adapter \in {"kv", "blob"}, adapter' = adapter, NEW k \in Key,
           backing' \in [Key -> Val \cup {None}], \A x \in Key \ {k} : backing'[x] = backing[x],
           NEW t \in Task, NEW j \in Job, j.stage \in {"idle", "write", "invalidate"},
           j.stage # "idle" => j.key = k,
           \/ job' = Overlapped({k})
           \/ job' = [Overlapped({k}) EXCEPT ![t] = j]
    PROVE  /\ job' \in [Task -> Job] /\ JobsOK' /\ CleanFetches'
           /\ \A u \in Task \ {t} : job'[u].stage = job[u].stage /\ job'[u].key = job[u].key
  <1>1. job \in [Task -> Job] /\ backing \in [Key -> Val \cup {None}]
    BY DEF ReadInv, ReadTypes
  <1> DEFINE o == Overlapped({k})
  <1>2. o \in [Task -> Job]
    BY <1>1, OverlappedFacts
  <1>3. \A u \in Task : /\ o[u].stage = job[u].stage /\ o[u].key = job[u].key
                        /\ o[u].val = job[u].val
                        /\ o[u].clean => job[u].clean /\ job[u].key # k
    BY <1>1, OverlappedFacts
  <1> HIDE DEF o
  <1>4. /\ job' \in [Task -> Job] /\ \A u \in Task \ {t} : job'[u] = o[u]
        /\ job'[t] = o[t] \/ job'[t] = j
    BY <1>2 DEF o
  <1>5. JobsOK'
    BY <1>3, <1>4 DEF ReadInv, JobsOK
  <1>6. CleanFetches'
    <2> SUFFICES ASSUME NEW u \in Task, job'[u].clean, job'[u].stage \in {"fetch", "fill"}
                 PROVE  /\ {v \in Task : job'[v].key = job'[u].key
                                         /\ job'[v].stage \in {"write", "invalidate"}} = {}
                        /\ job'[u].stage = "fill" => job'[u].val = backing'[job'[u].key]
      BY DEF CleanFetches, Writing
    <2>1. job'[u] = o[u]
      BY <1>4
    <2>2. /\ job[u].clean /\ job[u].key # k /\ job[u].stage = job'[u].stage
          /\ job[u].key = job'[u].key /\ job[u].val = job'[u].val /\ job[u].key \in Key
      BY <1>3, <2>1 DEF ReadInv, JobsOK
    <2>3. Writing(job[u].key) = {} /\ (job[u].stage = "fill" => job[u].val = backing[job[u].key])
      BY <2>2 DEF ReadInv, CleanFetches
    <2>4. ASSUME NEW v \in Task, job'[v].key = job[u].key, job'[v].stage \in {"write", "invalidate"}
          PROVE  FALSE
      <3>1. CASE job'[v] = o[v]
        BY <1>3, <2>3, <2>4, <3>1 DEF Writing
      <3>2. CASE job'[v] # o[v]
        BY <1>4, <2>2, <2>4, <3>2
      <3>. QED BY <3>1, <3>2
    <2>. QED BY <2>2, <2>3, <2>4
  <1>. QED BY <1>3, <1>4, <1>5, <1>6

\* put and delete of CacheableKvStore, and the transactions past the cache.
LEMMA KvWriteStep ==
    ASSUME ReadInv, NEW k \in Key, NEW v \in Val \cup {None},
           (\E t \in Task : kv_write(t, k, v)) \/ kv_transaction(k, v)
    PROVE  ReadInv'
  <1>1. PICK t \in Task, j \in Job :
           /\ adapter = "kv" /\ UNCHANGED <<adapter, held, file>>
           /\ backing' = [backing EXCEPT ![k] = v]
           /\ \/ /\ job' = [Overlapped({k}) EXCEPT ![t] = j] /\ tainted' = tainted
                 /\ job[t].stage = "idle" /\ j.stage = "invalidate" /\ j.key = k
              \/ /\ job' = Overlapped({k}) /\ tainted' = tainted \cup Hit(k)
                 /\ j.stage = "idle"
    <2>1. /\ Idle \in Job /\ Idle.stage = "idle"
          /\ [Idle EXCEPT !.stage = "invalidate", !.key = k] \in Job
          /\ [Idle EXCEPT !.stage = "invalidate", !.key = k].stage = "invalidate"
          /\ [Idle EXCEPT !.stage = "invalidate", !.key = k].key = k
      BY DEF Idle, Job
    <2>2. CASE kv_transaction(k, v)
      BY <2>1, <2>2, ReadThroughAssumption DEF kv_transaction
    <2>3. ASSUME NEW t \in Task, kv_write(t, k, v)
          PROVE  \E j \in Job :
           /\ adapter = "kv" /\ UNCHANGED <<adapter, held, file>>
           /\ backing' = [backing EXCEPT ![k] = v]
           /\ \/ /\ job' = [Overlapped({k}) EXCEPT ![t] = j] /\ tainted' = tainted
                 /\ job[t].stage = "idle" /\ j.stage = "invalidate" /\ j.key = k
              \/ /\ job' = Overlapped({k}) /\ tainted' = tainted \cup Hit(k)
                 /\ j.stage = "idle"
      BY <2>1, <2>3 DEF kv_write, At
    <2>. QED BY <2>2, <2>3
  <1>2. /\ backing \in [Key -> Val \cup {None}] /\ backing' \in [Key -> Val \cup {None}]
        /\ backing'[k] = v /\ \A x \in Key \ {k} : backing'[x] = backing[x]
        /\ job \in [Task -> Job] /\ Hit(k) \subseteq Key
    BY <1>1 DEF ReadInv, ReadTypes, Hit
  <1>3. /\ job' \in [Task -> Job] /\ JobsOK' /\ CleanFetches'
        /\ \A u \in Task \ {t} : job'[u].stage = job[u].stage /\ job'[u].key = job[u].key
    BY <1>1, <1>2, WriteFacts
  <1>4. ReadTypes' /\ MapHoldsAll' /\ NothingWhileWriting'
    BY <1>1, <1>2, <1>3 DEF ReadInv, ReadTypes, MapHoldsAll, NothingWhileWriting
  <1>5. FillsAreCurrent'
    <2> SUFFICES ASSUME NEW x \in Key \ tainted'
                 PROVE  Value(held', x) \in {None, backing'[x]} \/ Writing(x)' # {}
      BY DEF FillsAreCurrent
    <2>1. Value(held', x) = Value(held, x) /\ x \notin tainted
      BY <1>1
    <2>2. Value(held, x) \in {None, backing[x]} \/ Writing(x) # {}
      BY <1>1, <2>1 DEF ReadInv, FillsAreCurrent, ReadTypes
    <2>3. (job'[t].stage = job[t].stage /\ job'[t].key = job[t].key) \/ job[t].stage = "idle"
      BY <1>1, <1>2, OverlappedFacts
    <2>4. Writing(x) # {} => Writing(x)' # {}
      BY <1>3, <2>3 DEF Writing
    <2>5. CASE x # k
      BY <1>2, <2>1, <2>2, <2>4, <2>5
    <2>6. CASE x = k /\ job' = [Overlapped({k}) EXCEPT ![t] = j] /\ j.stage = "invalidate" /\ j.key = k
      <3>1. job'[t] = j
        BY <1>2, <2>6, OverlappedFacts
      <3>. QED BY <2>6, <3>1 DEF Writing
    <2>7. CASE x = k /\ tainted' = tainted \cup Hit(k)
      <3>1. held.entry[k] = None
        BY <2>7 DEF Hit
      <3>. QED BY <2>1, <2>7, <3>1 DEF Value
    <2>. QED BY <1>1, <2>5, <2>6, <2>7
  <1>. QED BY <1>3, <1>4, <1>5 DEF ReadInv

\* The writer of CacheableKvStore invalidates the entry: it ends its own write
\* of the key and no other.
LEMMA KvInvalidateStep ==
    ASSUME ReadInv, NEW t \in Task, kv_invalidate(t)
    PROVE  ReadInv'
  <1>0. PICK k : k = job[t].key
    OBVIOUS
  <1>1. /\ adapter = "kv" /\ job[t].stage = "invalidate" /\ Return(t)
        /\ UNCHANGED <<adapter, backing, file>> /\ held' = LruRemove(held, k)
        /\ tainted' = {x \in tainted : held'.entry[x] # None}
    BY <1>0 DEF kv_invalidate, At, Taints
  <1>2. k \in Key /\ Shape(held) /\ tainted \subseteq Key /\ file = {}
    BY <1>0, <1>1 DEF ReadInv, ReadTypes, JobsOK
  <1>3. /\ Shape(held') /\ held'.entry[k] = None
        /\ \A x \in Key \ {k} : held'.entry[x] \in {None, held.entry[x]}
    <2>1. Shape(held') /\ held'.entry = [held.entry EXCEPT ![k] = None]
      BY <1>1, <1>2, RemoveEntries
    <2>. QED BY <1>2, <2>1 DEF Shape
  <1>4. /\ job' \in [Task -> Job] /\ JobsOK' /\ CleanFetches'
        /\ \A x : Writing(x)' = Writing(x) \ {t}
    BY <1>1, ReturnFacts
  <1>5. \A x \in Key \ {k} : Writing(x)' = Writing(x)
    BY <1>0, <1>4 DEF Writing
  <1>6. Value(held', k) = None
    BY <1>3, ValueFacts
  <1>7. NothingWhileWriting' /\ FillsAreCurrent'
    BY <1>1, <1>2, <1>3, <1>5, <1>6, CacheStep
  <1>8. ReadTypes' /\ MapHoldsAll'
    BY <1>1, <1>2, <1>3, <1>4 DEF ReadInv, ReadTypes, MapHoldsAll
  <1>. QED BY <1>4, <1>7, <1>8 DEF ReadInv

\* BlobCache invalidates the entry before it writes.
LEMMA BlobInvalidateStep ==
    ASSUME ReadInv, NEW t \in Task, NEW k \in Key, blob_invalidate(t, k)
    PROVE  ReadInv'
  <1> DEFINE j == [Idle EXCEPT !.stage = "write", !.key = k]
  <1>1. /\ adapter = "blob" /\ job[t].stage = "idle" /\ job' = [Overlapped({k}) EXCEPT ![t] = j]
        /\ UNCHANGED <<adapter, backing, file>> /\ held' = LruRemove(held, k)
        /\ tainted' = {x \in tainted : held'.entry[x] # None}
    BY DEF blob_invalidate, At, Taints
  <1>2. Shape(held) /\ tainted \subseteq Key /\ file = {} /\ backing \in [Key -> Val \cup {None}]
    BY <1>1 DEF ReadInv, ReadTypes
  <1>3. /\ Shape(held') /\ held'.entry[k] = None
        /\ \A x \in Key \ {k} : held'.entry[x] \in {None, held.entry[x]}
    <2>1. Shape(held') /\ held'.entry = [held.entry EXCEPT ![k] = None]
      BY <1>1, <1>2, RemoveEntries
    <2>. QED BY <1>2, <2>1 DEF Shape
  <1>4. j \in Job /\ j.stage = "write" /\ j.key = k
    BY DEF Idle, Job
  <1> HIDE DEF j
  <1>5. /\ job' \in [Task -> Job] /\ JobsOK' /\ CleanFetches'
        /\ \A u \in Task \ {t} : job'[u].stage = job[u].stage /\ job'[u].key = job[u].key
    BY <1>1, <1>2, <1>4, WriteFacts
  <1>6. \A x \in Key \ {k} : Writing(x)' = Writing(x)
    <2>1. job'[t].key = k
      <3>1. job \in [Task -> Job]
        BY DEF ReadInv, ReadTypes
      <3>2. Overlapped({k}) \in [Task -> Job]
        BY <3>1, OverlappedFacts
      <3>. QED BY <1>1, <1>4, <3>2
    <2>. QED BY <1>1, <1>5, <2>1 DEF Writing
  <1>7. Value(held', k) = None
    BY <1>3, ValueFacts
  <1>8. NothingWhileWriting' /\ FillsAreCurrent'
    BY <1>1, <1>2, <1>3, <1>6, <1>7, CacheStep
  <1>9. ReadTypes' /\ MapHoldsAll'
    BY <1>1, <1>2, <1>3, <1>5 DEF ReadInv, ReadTypes, MapHoldsAll
  <1>. QED BY <1>5, <1>8, <1>9 DEF ReadInv

\* BlobCache writes the store: nothing untainted is cached under the key.
LEMMA BlobWriteStep ==
    ASSUME ReadInv, NEW t \in Task, NEW v \in Val \cup {None}, blob_write(t, v)
    PROVE  ReadInv'
  <1>0. PICK k : k = job[t].key
    OBVIOUS
  <1>1. /\ adapter = "blob" /\ job[t].stage = "write"
        /\ job' = [Overlapped({k}) EXCEPT ![t] = Idle]
        /\ UNCHANGED <<adapter, held, file, tainted>>
        /\ backing' \in {backing, [backing EXCEPT ![k] = v]}
    BY <1>0 DEF blob_write, At
  <1>2. /\ k \in Key /\ file = {} /\ backing \in [Key -> Val \cup {None}]
        /\ Idle \in Job /\ Idle.stage = "idle" /\ job \in [Task -> Job]
    BY <1>0, <1>1 DEF ReadInv, ReadTypes, JobsOK, Idle, Job
  <1>3. backing' \in [Key -> Val \cup {None}] /\ \A x \in Key \ {k} : backing'[x] = backing[x]
    BY <1>1, <1>2
  <1>4. /\ job' \in [Task -> Job] /\ JobsOK' /\ CleanFetches'
        /\ \A u \in Task \ {t} : job'[u].stage = job[u].stage /\ job'[u].key = job[u].key
    BY <1>1, <1>2, <1>3, WriteFacts
  <1>5. job'[t] = Idle
    <2>1. Overlapped({k}) \in [Task -> Job]
      BY <1>2, OverlappedFacts
    <2>. QED BY <1>1, <2>1
  <1>6. \A x \in Key : Writing(x)' = Writing(x) \ {t}
    BY <1>2, <1>4, <1>5 DEF Writing
  <1>7. t \in Writing(k) /\ \A x \in Key \ {k} : t \notin Writing(x)
    BY <1>0, <1>1 DEF Writing
  <1>8. NothingWhileWriting'
    BY <1>1, <1>6 DEF ReadInv, NothingWhileWriting
  <1>9. FillsAreCurrent'
    <2> SUFFICES ASSUME NEW x \in Key \ tainted
                 PROVE  Value(held, x) \in {None, backing'[x]} \/ Writing(x)' # {}
      BY <1>1 DEF FillsAreCurrent
    <2>1. CASE x = k
      BY <1>1, <1>7, <2>1 DEF ReadInv, NothingWhileWriting
    <2>2. CASE x # k
      BY <1>1, <1>2, <1>3, <1>6, <1>7, <2>2 DEF ReadInv, FillsAreCurrent
    <2>. QED BY <2>1, <2>2
  <1>10. ReadTypes' /\ MapHoldsAll'
    BY <1>1, <1>3, <1>4 DEF ReadInv, ReadTypes, MapHoldsAll
  <1>. QED BY <1>4, <1>8, <1>9, <1>10 DEF ReadInv

\* ColumnarRowGroupCache has no calls under way on a key, only updates of the
\* file.
LEMMA RowsFacts ==
    ASSUME ReadInv, adapter = "rows"
    PROVE  /\ None \notin Key
           /\ \A x \in Key : Writing(x) = {}
           /\ Shape(held) /\ tainted \subseteq Key /\ job \in [Task -> Job]
           /\ backing \in [Key -> Val \cup {None}] /\ file \subseteq Key
  BY CacheConstants DEF ReadInv, ReadTypes, JobsOK, Writing

\* load_row_group and evict.
LEMMA RowGroupStep ==
    ASSUME ReadInv, NEW k \in Key, load_row_group(k) \/ evict(k)
    PROVE  ReadInv'
  <1>1. /\ adapter = "rows" /\ UNCHANGED <<adapter, backing, job, file>>
        /\ tainted' = {x \in tainted : held'.entry[x] # None}
    BY DEF load_row_group, evict, Taints
  <1>2. /\ None \notin Key /\ Shape(held) /\ tainted \subseteq Key
        /\ backing \in [Key -> Val \cup {None}]
    BY <1>1, RowsFacts
  <1>3. /\ \A x : Writing(x)' = Writing(x)
        /\ \A t \in Task : At(t, "invalidate")' = At(t, "invalidate")
    BY <1>1 DEF Writing, At
  <1>4. JobsOK' /\ CleanFetches' /\ MapHoldsAll'
    BY <1>1 DEF ReadInv, JobsOK, CleanFetches, MapHoldsAll
  <1>5. CASE held' = LruInsert(held, k, Cacheable(backing[k])) /\ backing[k] # None
    <2>1. Cacheable(backing[k]) \in Lasting
      BY <1>2, <1>5, CacheableFacts
    <2>2. Inserted(held, k, Cacheable(backing[k]), held')
      BY <1>2, <1>5, <2>1, InsertEntries
    <2>3. /\ Shape(held') /\ held'.entry[k] = Cacheable(backing[k])
          /\ \A x \in Key \ {k} : held'.entry[x] \in {None, held.entry[x]}
      BY <2>2 DEF Inserted
    <2>4. Value(held', k) \in {None, backing[k]}
      BY <2>3, ValueFacts
    <2>5. NothingWhileWriting' /\ FillsAreCurrent'
      BY <1>1, <1>2, <1>3, <2>3, <2>4, CacheStep
    <2>6. ReadTypes'
      BY <1>1, <2>3 DEF ReadInv, ReadTypes
    <2>. QED BY <1>4, <2>5, <2>6 DEF ReadInv
  <1>6. CASE /\ Shape(held')
             /\ \A x \in Key : held'.entry[x] \in {None, held.entry[x]}
    <2>1. NothingWhileWriting' /\ FillsAreCurrent'
      BY <1>1, <1>2, <1>3, <1>6, CacheStep
    <2>2. ReadTypes'
      BY <1>1, <1>6 DEF ReadInv, ReadTypes
    <2>. QED BY <1>4, <2>1, <2>2 DEF ReadInv
  <1>7. CASE held' = held
    BY <1>2, <1>6, <1>7
  <1>8. CASE held' = LruGet(held, k, 0).cache
    <2>1. Shape(held') /\ held'.entry = held.entry
      BY <1>2, <1>8, GetEntries
    <2>. QED BY <1>6, <2>1
  <1>9. CASE held' = LruRemove(held, k)
    <2>1. Shape(held') /\ held'.entry = [held.entry EXCEPT ![k] = None]
      BY <1>2, <1>9, RemoveEntries
    <2>2. \A x \in Key : held'.entry[x] \in {None, held.entry[x]}
      BY <1>2, <2>1 DEF Shape
    <2>. QED BY <1>6, <2>1, <2>2
  <1>. QED BY <1>5, <1>7, <1>8, <1>9 DEF load_row_group, evict

\* The owner replaces the file.
LEMMA UpdateFileStep ==
    ASSUME ReadInv, NEW t \in Task, NEW v \in Val \cup {None}, UpdateFile(t, v)
    PROVE  ReadInv'
  <1> DEFINE j == [Idle EXCEPT !.stage = "invalidate"]
  <1>1. /\ adapter = "rows" /\ \A u \in Task : job[u].stage = "idle"
        /\ backing' = [x \in Key |-> IF x \in file THEN v ELSE backing[x]]
        /\ job' = [job EXCEPT ![t] = j] /\ UNCHANGED <<adapter, held, file, tainted>>
    BY DEF UpdateFile, At
  <1>2. j \in Job /\ j.stage = "invalidate" /\ j.key = None
    BY DEF Idle, Job
  <1> HIDE DEF j
  <1>3. /\ None \notin Key /\ \A x \in Key : Writing(x) = {}
        /\ job \in [Task -> Job] /\ backing \in [Key -> Val \cup {None}]
    BY <1>1, RowsFacts
  <1>4. /\ job' \in [Task -> Job] /\ job'[t] = j /\ \A u \in Task \ {t} : job'[u] = job[u]
    BY <1>1, <1>2, <1>3
  <1>5. ReadTypes'
    BY <1>1, <1>3, <1>4 DEF ReadInv, ReadTypes
  <1>6. JobsOK'
    BY <1>1, <1>2, <1>4 DEF ReadInv, JobsOK
  <1>7. CleanFetches' /\ NothingWhileWriting' /\ MapHoldsAll'
    BY <1>1 DEF CleanFetches, NothingWhileWriting, MapHoldsAll
  <1>8. FillsAreCurrent'
    <2> SUFFICES ASSUME NEW x \in Key \ tainted
                 PROVE  \/ Value(held, x) \in {None, backing'[x]}
                        \/ x \in file /\ \E u \in Task : At(u, "invalidate")'
      BY <1>1 DEF FillsAreCurrent
    <2>1. At(t, "invalidate")'
      BY <1>2, <1>4 DEF At
    <2>2. Value(held, x) \in {None, backing[x]}
      BY <1>1, <1>3 DEF ReadInv, FillsAreCurrent, At
    <2>. QED BY <1>1, <2>1, <2>2
  <1>. QED BY <1>5, <1>6, <1>7, <1>8 DEF ReadInv

\* Every row group of the file is dropped, whatever the order of the map.
LEMMA InvalidateFileStep ==
    ASSUME ReadInv, NEW t \in Task, invalidate_file(t)
    PROVE  ReadInv'
  <1>1. /\ adapter = "rows" /\ Return(t) /\ UNCHANGED <<adapter, backing, file>>
        /\ tainted' = {x \in tainted : held'.entry[x] # None}
    BY DEF invalidate_file, Taints
  <1>2. /\ None \notin Key /\ Shape(held) /\ tainted \subseteq Key
        /\ \A x \in Key : Writing(x) = {}
    BY <1>1, RowsFacts
  <1>3. PICK s : held' = [held EXCEPT !.map = s,
                            !.entry = [k \in Key |-> IF k \in file THEN None ELSE held.entry[k]]]
    BY DEF invalidate_file
  <1>4. /\ Shape(held')
        /\ held'.entry = [k \in Key |-> IF k \in file THEN None ELSE held.entry[k]]
    <2> DEFINE e == [k \in Key |-> IF k \in file THEN None ELSE held.entry[k]]
    <2>1. e \in [Key -> Lasting \cup {None}]
      BY <1>2 DEF Shape
    <2> HIDE DEF e
    <2>2. held' = [policy |-> held.policy, cap |-> held.cap, map |-> s, entry |-> e]
      BY <1>2, <1>3 DEF Shape, e
    <2>3. Shape(held') /\ held'.entry = e
      BY <2>1, <2>2 DEF Shape
    <2>. QED BY <2>3 DEF e
  <1>5. /\ \A x \in Key : held'.entry[x] \in {None, held.entry[x]}
        /\ \A x \in file : x \in Key => held'.entry[x] = None
    BY <1>4
  <1>6. /\ job' \in [Task -> Job] /\ JobsOK' /\ CleanFetches'
        /\ \A x : Writing(x)' = Writing(x) \ {t}
    BY <1>1, ReturnFacts
  <1>7. file \subseteq Key
    BY DEF ReadInv, ReadTypes
  <1>8. \A x \in Key : Writing(x)' = Writing(x)
    BY <1>2, <1>6
  <1>9. NothingWhileWriting' /\ FillsAreCurrent'
    BY <1>1, <1>2, <1>4, <1>5, <1>7, <1>8, CacheStep
  <1>10. ReadTypes' /\ MapHoldsAll'
    BY <1>1, <1>2, <1>4, <1>6 DEF ReadInv, ReadTypes, MapHoldsAll
  <1>. QED BY <1>6, <1>9, <1>10 DEF ReadInv

\* No step of the adapters leaves the invariant.
LEMMA ReadStep == ReadInv /\ [ReadNext]_readVars => ReadInv'
  <1> SUFFICES ASSUME ReadInv, [ReadNext]_readVars PROVE ReadInv'
    OBVIOUS
  <1>1. CASE UNCHANGED readVars
    BY <1>1 DEF readVars, ReadInv, ReadTypes, JobsOK, CleanFetches, NothingWhileWriting,
                MapHoldsAll, FillsAreCurrent, Writing, At
  <1>2. ASSUME NEW t \in Task, NEW k \in Key, kv_get(t, k) \/ blob_get(t, k) \/ get_or_insert_async(t, k)
        PROVE  ReadInv'
    BY <1>2, LookUpStep DEF kv_get, blob_get, get_or_insert_async
  <1>3. ASSUME NEW t \in Task, Fetch(t) \/ Load(t) \/ Fill(t) PROVE ReadInv'
    BY <1>3, FetchStep, FillStep
  <1>. QED
    BY <1>1, <1>2, <1>3, KvWriteStep, KvInvalidateStep, BlobInvalidateStep, BlobWriteStep,
       RowGroupStep, UpdateFileStep, InvalidateFileStep DEF ReadNext

\* An empty cache, and no call under way.
LEMMA ReadStart == Init => ReadInv
  <1> SUFFICES ASSUME Init PROVE ReadInv
    OBVIOUS
  <1>1. /\ adapter \in Adapter /\ held = LruNew(FillCap) /\ backing \in [Key -> Val \cup {None}]
        /\ job = [t \in Task |-> Idle] /\ file \subseteq Key /\ tainted = {}
        /\ adapter # "rows" => file = {}
    <2>1. CASE use = "read_through"
      <3>1. ReadInit
        BY <2>1 DEF Init
      <3>. QED BY <3>1, ReadThroughAssumption DEF ReadInit
    <2>2. CASE use # "read_through"
      <3>1. /\ adapter = "kv" /\ held = LruNew(FillCap) /\ backing = NoEntries
            /\ job = [t \in Task |-> Idle] /\ file = {} /\ tainted = {}
        BY <2>2 DEF Init
      <3>. QED BY <3>1 DEF NoEntries, Adapter
    <2>. QED BY <2>1, <2>2
  <1>2. /\ Shape(held) /\ held.entry = [k \in Key |-> None] /\ held.map = <<>>
    BY <1>1 DEF LruNew, NoEntries, Shape
  <1>3. Idle \in Job /\ Idle.stage = "idle" /\ Idle.key = None
    BY DEF Idle, Job
  <1>4. job \in [Task -> Job] /\ \A t \in Task : job[t].stage = "idle" /\ job[t].key = None
    BY <1>1, <1>3
  <1>5. ReadTypes /\ JobsOK /\ CleanFetches
    BY <1>1, <1>2, <1>4 DEF ReadTypes, JobsOK, CleanFetches
  <1>6. \A k \in Key : held.entry[k] = None /\ Value(held, k) = None
    BY <1>2 DEF Value
  <1>7. NothingWhileWriting /\ FillsAreCurrent
    BY <1>6 DEF NothingWhileWriting, FillsAreCurrent
  <1>8. MapHoldsAll
    BY <1>2, <1>6 DEF MapHoldsAll
  <1>. QED BY <1>5, <1>7, <1>8 DEF ReadInv

\* For any number of tasks and keys: what is cached is what the store holds,
\* once no write of the key is between its steps, unless it is one of the
\* exceptions the history records.
THEOREM FillsCurrent == Spec => []FillsAreCurrent
  <1>1. ReadInv /\ [Next]_vars => ReadInv'
    BY ReadStep DEF Next, vars, readVars
  <1>2. ReadInv => FillsAreCurrent
    BY DEF ReadInv
  <1>. QED BY <1>1, <1>2, ReadStart, PTL DEF Spec

\* The tasks that race for a key in get_or_insert_async agree on its value for
\* as long as it stays cached: no step replaces a value by another one.
LEMMA FirstFillStep ==
    ASSUME ReadInv, [ReadNext]_readVars, adapter = "async", NEW k \in Key, Value(held, k) # None
    PROVE  Value(held', k) \in {None, Value(held, k)}
  <1>1. CASE held' = held
    BY <1>1
  <1>2. ASSUME NEW t \in Task, NEW x \in Key, LookUp(t, x)
        PROVE  Value(held', k) \in {None, Value(held, k)}
    <2>1. Shape(held) /\ held' = LruGet(held, x, 0).cache
      BY <1>2 DEF LookUp, ReadInv, ReadTypes
    <2>2. held'.entry = held.entry
      BY <2>1, GetEntries
    <2>. QED BY <2>2 DEF Value
  <1>3. ASSUME NEW t \in Task, Fill(t), held' # held
        PROVE  Value(held', k) \in {None, Value(held, k)}
    <2>0. PICK x, e : x = job[t].key /\ e = Cacheable(job[t].val)
      OBVIOUS
    <2>1. /\ job[t].stage = "fill" /\ LruPeek(held, x, 0) = None /\ held' = LruInsert(held, x, e)
      BY <1>3, <2>0 DEF Fill, At
    <2>2. x \in Key /\ job[t].val \in Val /\ Shape(held)
      BY <2>0, <2>1 DEF ReadInv, JobsOK, ReadTypes
    <2>3. k # x
      BY <2>1, <2>2, PeekFinds
    <2>4. e \in Lasting
      BY <2>0, <2>2, CacheableFacts
    <2>5. Inserted(held, x, e, held')
      BY <2>1, <2>2, <2>4, InsertEntries
    <2>6. held'.entry[k] \in {None, held.entry[k]}
      BY <2>3, <2>5 DEF Inserted
    <2>. QED BY <2>6, ValueFacts
  <1>4. CASE UNCHANGED readVars
    BY <1>1, <1>4 DEF readVars
  <1>5. CASE ReadNext
    <2>1. \/ \E t \in Task, x \in Key : LookUp(t, x)
          \/ \E t \in Task : Load(t) \/ Fill(t)
      BY <1>5 DEF ReadNext, kv_get, blob_get, get_or_insert_async, Fetch, kv_write, kv_invalidate,
                  kv_transaction, blob_invalidate, blob_write, load_row_group, evict, UpdateFile,
                  invalidate_file
    <2>. QED BY <1>1, <1>2, <1>3, <2>1 DEF Load
  <1>. QED BY <1>4, <1>5

\* get_or_insert_async: the first fill of a key wins, whatever the loaders of
\* the tasks racing for it answer and in whatever order they finish.
THEOREM FirstFill == Spec => FirstFillWins
  <1>1. ReadInv /\ [Next]_vars => ReadInv'
    BY ReadStep DEF Next, vars, readVars
  <1>2. ReadInv /\ [Next]_vars =>
          [adapter = "async" => \A k \in Key :
              Value(held, k) # None => Value(held', k) \in {None, Value(held, k)}]_readVars
    <2>1. [Next]_vars => [ReadNext]_readVars
      BY DEF Next, vars, readVars
    <2>. QED BY <2>1, FirstFillStep
  <1>. QED BY <1>1, <1>2, ReadStart, PTL DEF Spec, FirstFillWins
=============================================================================
