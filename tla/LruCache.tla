------------------------------ MODULE LruCache ------------------------------
(***************************************************************************)
(* `LruCache` (oxistore-cache/src/lru.rs): one ordered map, back = most    *)
(* recently used.  Operators over the cache's state record.                *)
(***************************************************************************)
EXTENDS CacheCore

LruNew(cap) == [policy |-> "lru", cap |-> cap, map |-> <<>>,
                entry |-> NoEntries]

LruLen(c) == Len(c.map)

LruRemove(c, k) == [c EXCEPT !.map = Without(@, k), !.entry[k] = None]

LruPopFront(c) == LruRemove(c, Head(c.map))

\* `insert_entry`: an update evicts nothing; a new key at capacity evicts the
\* front.  A capacity of 0 never evicts.
LruInsert(c, k, e) ==
    LET full == ~Holds(c.map, k) /\ c.cap > 0 /\ LruLen(c) >= c.cap
        room == IF full THEN LruPopFront(c) ELSE c
    IN  [room EXCEPT !.map = ToBack(@, k), !.entry[k] = e]

LruPeek(c, k, now) ==
    IF Holds(c.map, k) /\ ~is_expired(c.entry[k], now)
    THEN c.entry[k].val ELSE None

\* `get`: an expired entry is removed and missed; a hit moves to the back.
LruGet(c, k, now) ==
    [cache |-> IF ~Holds(c.map, k) THEN c
               ELSE IF is_expired(c.entry[k], now) THEN LruRemove(c, k)
               ELSE [c EXCEPT !.map = ToBack(@, k)],
     val |-> LruPeek(c, k, now)]

\* The loop of `resize`: its condition and its body.
LruOver(c) == c.cap > 0 /\ LruLen(c) > c.cap
LruShrink(c) == LruPopFront(c)
=============================================================================
