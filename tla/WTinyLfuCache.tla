---------------------------- MODULE WTinyLfuCache ----------------------------
(***************************************************************************)
(* `WTinyLfuCache` (oxistore-cache/src/tinylfu.rs): a window in front of a *)
(* main area made of probation and protected, and an index that says in    *)
(* which of the three a key is.  The sketch that estimates frequencies     *)
(* (hashed counters, a Bloom filter and an xorshift tie-break) decides one *)
(* thing only, whether a window victim replaces a probation victim: the    *)
(* model allows both answers, so inserting yields a set of caches.         *)
(***************************************************************************)
EXTENDS CacheCore

Segment == {"window", "probation", "protected"}

window_cap(c) == LET w == c.cap \div 100 IN IF w > 1 THEN w ELSE 1
main_cap(c) == c.cap - window_cap(c)

\* Mutant: the division comes first and rounds a small main area to nothing.
protected_cap_rounded(c) == (main_cap(c) \div 5) * 4

protected_cap(c) == (main_cap(c) * 4) \div 5

TinyCap(cap) == IF cap > 2 THEN cap ELSE 2

TinyNew(cap) == [policy |-> "tinylfu", cap |-> TinyCap(cap),
                 seg |-> [s \in Segment |-> <<>>],
                 index |-> [k \in Key |-> None],
                 entry |-> NoEntries]

MainLen(c) == Len(c.seg["probation"]) + Len(c.seg["protected"])
TinyLen(c) == Len(c.seg["window"]) + MainLen(c)

\* Put k at the back of segment s, or take it out of the cache.
Place(c, k, s) == [c EXCEPT !.seg[s] = ToBack(@, k), !.index[k] = s]
Evicted(c, k, s) == [c EXCEPT !.seg[s] = Without(@, k), !.index[k] = None,
                              !.entry[k] = None]

\* Mutant: the index of the demoted key is not updated.
PromoteKeepsIndex(c, k) ==
    LET d == Place([c EXCEPT !.seg["probation"] = Without(@, k)], k,
                   "protected")
        old == Head(d.seg["protected"])
    IN  IF Len(d.seg["protected"]) > protected_cap(d)
        THEN [d EXCEPT !.seg["protected"] = Tail(@),
                       !.seg["probation"] = ToBack(@, old)]
        ELSE d

\* `promote_probation_to_protected`: the front of an overfull protected area
\* goes back to probation.
Promote(c, k) ==
    LET d == Place([c EXCEPT !.seg["probation"] = Without(@, k)], k,
                   "protected")
        old == Head(d.seg["protected"])
    IN  IF Len(d.seg["protected"]) > protected_cap(d)
        THEN Place([d EXCEPT !.seg["protected"] = Tail(@)], old, "probation")
        ELSE d

Touch(c, k) == IF c.index[k] = "probation" THEN Promote(c, k)
               ELSE Place(c, k, c.index[k])

\* `run_admission_gate` for k, just popped from the window.
Admissions(c, k) ==
    IF MainLen(c) < main_cap(c) THEN {Place(c, k, "probation")}
    ELSE IF c.seg["probation"] = <<>> THEN {Evicted(c, k, "window")}
    ELSE {Evicted(c, k, "window"),
          Place(Evicted(c, Head(c.seg["probation"]), "probation"),
                k, "probation")}

TinyInsert(c, k, e) ==
    IF c.index[k] # None THEN {Touch([c EXCEPT !.entry[k] = e], k)}
    ELSE LET d == Place([c EXCEPT !.entry[k] = e], k, "window")
             old == Head(d.seg["window"])
         IN  IF Len(d.seg["window"]) > window_cap(d)
             THEN Admissions([d EXCEPT !.seg["window"] = Tail(@),
                                       !.index[old] = None], old)
             ELSE {d}

\* Reading k through the index, in the segment s.
ReadIn(c, k, s, now) ==
    IF s # None /\ Holds(c.seg[s], k) /\ ~is_expired(c.entry[k], now)
    THEN c.entry[k].val ELSE None

TinyPeek(c, k, now) ==
    IF c.index[k] = None THEN None ELSE ReadIn(c, k, c.index[k], now)

\* `get`: after a promotion out of probation the value is read in protected.
TinyGet(c, k, now) ==
    LET s == c.index[k]
        d == Touch(c, k)
    IN  IF s = None THEN [cache |-> c, val |-> None]
        ELSE IF Holds(c.seg[s], k) /\ is_expired(c.entry[k], now)
        THEN [cache |-> Evicted(c, k, s), val |-> None]
        ELSE [cache |-> d,
              val |-> ReadIn(d, k, IF s = "window" THEN s ELSE "protected",
                             now)]

TinyRemove(c, k) == IF c.index[k] = None THEN c
                    ELSE Evicted(c, k, c.index[k])

\* The three loops of `resize`, in their order: the segment the next
\* iteration pops, None when all three are done.
Overfull(c) ==
    CASE Len(c.seg["window"]) > window_cap(c) -> "window"
      [] Len(c.seg["window"]) <= window_cap(c)
         /\ Len(c.seg["protected"]) > protected_cap(c) -> "protected"
      [] Len(c.seg["window"]) <= window_cap(c)
         /\ Len(c.seg["protected"]) <= protected_cap(c)
         /\ MainLen(c) > main_cap(c) -> "probation"
      [] OTHER -> None
TinyOver(c) == Overfull(c) # None
TinyShrink(c) == Evicted(c, Head(c.seg[Overfull(c)]), Overfull(c))
=============================================================================
