------------------------------ MODULE ArcCache ------------------------------
(***************************************************************************)
(* `ArcCache` (oxistore-cache/src/arc.rs), the adaptive replacement cache: *)
(* live lists t1 (seen once) and t2 (seen again), ghost lists b1 and b2    *)
(* with the keys last evicted from them, and p, the target size of t1.     *)
(***************************************************************************)
EXTENDS CacheCore

ArcNew(cap) == [policy |-> "arc", cap |-> IF cap > 1 THEN cap ELSE 1,
                p |-> 0, t1 |-> <<>>, t2 |-> <<>>, b1 |-> <<>>, b2 |-> <<>>,
                entry |-> NoEntries]

ArcLen(c) == Len(c.t1) + Len(c.t2)

directory_len(c) == ArcLen(c) + Len(c.b1) + Len(c.b2)

AtLeast1(n) == IF n > 1 THEN n ELSE 1

\* `pop_front` on a possibly empty list.
PopFront(s) == IF s = <<>> THEN s ELSE Tail(s)

\* One arm of `replace`: the front of a live list becomes the youngest ghost,
\* after the oldest ghost made room if the directory is still full.
EvictT1(c) ==
    LET k == Head(c.t1)
        d == [c EXCEPT !.t1 = Tail(@), !.entry[k] = None]
    IN  [d EXCEPT !.b1 = ToBack(IF directory_len(d) >= 2 * d.cap
                                THEN PopFront(@) ELSE @, k)]

EvictT2(c) ==
    LET k == Head(c.t2)
        d == [c EXCEPT !.t2 = Tail(@), !.entry[k] = None]
    IN  [d EXCEPT !.b2 = ToBack(IF directory_len(d) >= 2 * d.cap
                                THEN PopFront(@) ELSE @, k)]

replace(c) ==
    IF Len(c.t1) >= AtLeast1(c.p) THEN EvictT1(c)
    ELSE IF c.t2 # <<>> THEN EvictT2(c)
    ELSE IF c.t1 # <<>> THEN EvictT1(c)
    ELSE c

\* The adaptation of p on a ghost hit, given the lengths of the ghost lists.
GrowP(c, n1, n2) ==
    LET q == c.p + AtLeast1(n2 \div AtLeast1(n1))
    IN  [c EXCEPT !.p = IF q < c.cap THEN q ELSE c.cap]
ShrinkP(c, n1, n2) ==
    LET q == c.p - AtLeast1(n1 \div AtLeast1(n2))
    IN  [c EXCEPT !.p = IF q > 0 THEN q ELSE 0]

\* Mutant: a ghost hit evicts whether or not the cache is full.
ReplaceAlways(c) == replace(c)

ReplaceIfFull(c) == IF ArcLen(c) >= c.cap THEN replace(c) ELSE c

\* `insert_entry`, a key in no list: room in the directory, then in the cache.
MakeRoom(c) ==
    IF ArcLen(c) < c.cap THEN
        IF directory_len(c) >= 2 * c.cap
        THEN IF c.b2 # <<>> THEN [c EXCEPT !.b2 = Tail(@)]
                            ELSE [c EXCEPT !.b1 = PopFront(@)]
        ELSE c
    ELSE IF Len(c.t1) + Len(c.b1) = c.cap THEN
        IF c.t1 # <<>> THEN replace(c) ELSE [c EXCEPT !.b1 = PopFront(@)]
    ELSE replace(IF directory_len(c) < 2 * c.cap THEN c
                 ELSE IF c.b2 # <<>> THEN [c EXCEPT !.b2 = Tail(@)]
                 ELSE [c EXCEPT !.b1 = PopFront(@)])

ToT2(c, k, e) == [c EXCEPT !.t2 = ToBack(@, k), !.entry[k] = e]

ArcInsert(c, k, e) ==
    IF Holds(c.t1, k) THEN ToT2([c EXCEPT !.t1 = Without(@, k)], k, e)
    ELSE IF Holds(c.t2, k) THEN ToT2(c, k, e)
    ELSE IF Holds(c.b1, k) THEN
        LET d == [c EXCEPT !.b1 = Without(@, k)]
        IN  ToT2(ReplaceIfFull(GrowP(d, Len(d.b1), Len(d.b2))), k, e)
    ELSE IF Holds(c.b2, k) THEN
        LET d == [c EXCEPT !.b2 = Without(@, k)]
        IN  ToT2(ReplaceIfFull(ShrinkP(d, Len(d.b1), Len(d.b2))), k, e)
    ELSE [MakeRoom(c) EXCEPT !.t1 = ToBack(@, k), !.entry[k] = e]

ArcLive(c, k) == Holds(c.t1, k) \/ Holds(c.t2, k)

ArcPeek(c, k, now) ==
    IF ArcLive(c, k) /\ ~is_expired(c.entry[k], now)
    THEN c.entry[k].val ELSE None

\* `get`: a hit moves to the back of t2; a ghost hit adapts p and evicts a
\* live entry, whether or not the cache is full, and is a miss.
ArcGet(c, k, now) ==
    LET promoted == [c EXCEPT !.t1 = Without(@, k), !.t2 = ToBack(@, k)]
        dropped  == [c EXCEPT !.t1 = Without(@, k), !.t2 = Without(@, k),
                              !.entry[k] = None]
    IN  [cache |-> IF ArcLive(c, k)
                   THEN IF is_expired(c.entry[k], now) THEN dropped
                                                       ELSE promoted
                   ELSE IF Holds(c.b1, k)
                   THEN replace(GrowP(c, Len(c.b1), Len(c.b2)))
                   ELSE IF Holds(c.b2, k)
                   THEN replace(ShrinkP(c, Len(c.b1), Len(c.b2)))
                   ELSE c,
         val |-> ArcPeek(c, k, now)]

\* `remove`: ghosts of the key are cleared only when it is not live.
ArcRemove(c, k) ==
    IF ArcLive(c, k)
    THEN [c EXCEPT !.t1 = Without(@, k),
                   !.t2 = IF Holds(c.t1, k) THEN @ ELSE Without(@, k),
                   !.entry[k] = None]
    ELSE [c EXCEPT !.b1 = Without(@, k), !.b2 = Without(@, k)]

\* `resize`: p is clamped before the loop, whose condition and body follow.
ArcResized(c, cap) ==
    LET n == AtLeast1(cap)
    IN  [c EXCEPT !.cap = n, !.p = IF @ > n THEN n ELSE @]
ArcOver(c) == ArcLen(c) > c.cap

ArcShrink(c) == replace(c)
=============================================================================
