--------------------------- MODULE FrequencySketch ---------------------------
(***************************************************************************)
(* The frequency estimator of W-TinyLFU (oxistore-cache/src/sketch.rs): a  *)
(* count-min sketch of 4-bit counters packed two to a byte, aged by        *)
(* halving, behind a Bloom filter (the doorkeeper) that lets a key through *)
(* from its second access on.                                              *)
(*                                                                         *)
(* Only the column of a key in each row matters of its two hashes, and any *)
(* two hashes are possible: each key gets a pair of small ones.            *)
(***************************************************************************)
EXTENDS Integers, FiniteSetsExt

CONSTANTS Item,          \* accessed keys
          Capacity,      \* the capacity of the cache; at least 2
          Hash,          \* the values of h_a and h_b to consider
          MaxAgings      \* bound on the ageings

ASSUME SketchAssumption ==
    Capacity \in Nat /\ Capacity >= 2 /\ Hash \subseteq Nat /\ MaxAgings \in Nat

DEPTH == 4
Row == 0..(DEPTH - 1)

\* usize::next_power_of_two, for n > 0: a power of two has no odd divisor but 1.
IsPowerOfTwo(p) == \A d \in 2..p : p % d = 0 => d % 2 = 0
next_power_of_two(n) == Min({p \in n..(2 * n) : IsPowerOfTwo(p)})

w == next_power_of_two(Capacity)
half_w == w \div 2
sample_size == Capacity * 10

num_bits == Max({next_power_of_two(Capacity * 8), 64})

VARIABLES
    hashes,      \* h_a and h_b of each key
    counters,    \* the bytes
    additions,   \* increments since the last ageing
    bits,        \* the doorkeeper's bits that are set
    agings,      \* how often the counters were aged
    uses         \* history: each key's own accesses past the doorkeeper,
                 \*   saturating and halved as the counters are

sketchVars == <<hashes, counters, additions, bits, agings, uses>>

ByteIndex == 0..(DEPTH * half_w - 1)

SketchInit ==
    /\ hashes \in [Item -> Hash \X Hash]
    /\ counters = [b \in ByteIndex |-> 0]
    /\ additions = 0
    /\ bits = {}
    /\ agings = 0
    /\ uses = [k \in Item |-> 0]

row_col(k, row, width) == (hashes[k][1] + row * hashes[k][2]) % width

nibble_get(bytes, row, col) ==
    LET byte == bytes[row * half_w + col \div 2]
    IN  IF col % 2 = 0 THEN byte % 16 ELSE byte \div 16

\* Mutant: the other nibble of the byte is cleared.
nibble_set_alone(bytes, row, col, val) ==
    [bytes EXCEPT ![row * half_w + col \div 2] = IF col % 2 = 0 THEN val ELSE val * 16]

nibble_set(bytes, row, col, val) ==
    [bytes EXCEPT ![row * half_w + col \div 2] =
        IF col % 2 = 0 THEN (@ \div 16) * 16 + val ELSE (@ % 16) + val * 16]

\* Each nibble of every byte is halved.
aged(bytes) ==
    [b \in ByteIndex |-> ((bytes[b] \div 16) \div 2) * 16 + ((bytes[b] % 16) \div 2)]

\* The counter of k in one row, and in each of the DEPTH rows in turn, is
\* incremented up to 15.
bump(k, row, bytes) ==
    LET col == row_col(k, row, w)
        cur == nibble_get(bytes, row, col)
    IN  IF cur < 15 THEN nibble_set(bytes, row, col, cur + 1) ELSE bytes

counted(k) == bump(k, 3, bump(k, 2, bump(k, 1, bump(k, 0, counters))))

\* The ageing at the end of an increment; the doorkeeper is not cleared.
increment(k) ==
    LET full == additions + 1 >= sample_size
        one_more == [uses EXCEPT ![k] = IF @ < 15 THEN @ + 1 ELSE @]
    IN  /\ full => agings < MaxAgings
        /\ counters' = IF full THEN aged(counted(k)) ELSE counted(k)
        /\ additions' = IF full THEN 0 ELSE additions + 1
        /\ agings' = IF full THEN agings + 1 ELSE agings
        /\ uses' = IF full THEN [x \in Item |-> one_more[x] \div 2] ELSE one_more

Positions(k) == {row_col(k, row, num_bits) : row \in Row}

\* WTinyLfuCache::record_access: increment if all the bits were already set.
record_access(k) ==
    /\ bits' = bits \cup Positions(k)
    /\ IF Positions(k) \subseteq bits THEN increment(k)
       ELSE UNCHANGED <<counters, additions, agings, uses>>
    /\ UNCHANGED hashes

\* WTinyLfuCache::clear
sketch_clear ==
    /\ counters' = [b \in ByteIndex |-> 0]
    /\ additions' = 0
    /\ bits' = {}
    /\ uses' = [k \in Item |-> 0]
    /\ UNCHANGED <<hashes, agings>>

estimate(k) == Min({nibble_get(counters, row, row_col(k, row, w)) : row \in Row})

SketchNext == (\E k \in Item : record_access(k)) \/ sketch_clear

-----------------------------------------------------------------------------
\* The estimate never falls short of a key's own accesses, saturated and
\* halved at the ageings, and is exact for a key that has a counter to itself
\* in some row: packing, saturation and ageing of one counter disturb no
\* other one.
EstimateCovers ==
    \A k \in Item :
        /\ uses[k] <= estimate(k)
        /\ (\E row \in Row : \A x \in Item \ {k} :
               row_col(x, row, w) # row_col(k, row, w)) => estimate(k) = uses[k]
=============================================================================
