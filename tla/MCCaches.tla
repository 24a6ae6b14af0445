------------------------------ MODULE MCCaches ------------------------------
(***************************************************************************)
(* Small caches: capacities at which the four policies evict, budgets that *)
(* hold one or two entries, a cache to fill that is smaller than the store,*)
(* and a sketch with colliding hashes.                                     *)
(***************************************************************************)
EXTENDS Caching, TLC

SmallCaps == [lru |-> {1, 2}, lfu |-> {2}, arc |-> {1, 2},
              tinylfu |-> {3, 4}]

Alone == {"bare"} \X Policy
Adapted == ({"write_through"} \X {"lru"})
               \cup ({"write_back"} \X {"lru", "lfu", "tinylfu"})
SafeStacks == Alone \cup Adapted

Symmetry == Permutations(Key) \cup Permutations(Val)
=============================================================================
