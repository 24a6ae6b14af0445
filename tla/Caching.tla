------------------------------ MODULE Caching --------------------------------
(***************************************************************************)
(* The ways to use oxistore-cache: a policy alone or under a write adapter *)
(* (CacheAdapters), under a byte budget (BoundedCache), or as a cache that *)
(* fills itself (ReadThrough); and the estimator of W-TinyLFU by itself.   *)
(***************************************************************************)
EXTENDS CacheAdapters, BoundedCache, ReadThrough, FrequencySketch

CONSTANT Uses          \* which of them to consider

VARIABLE use

vars == <<use, adapterVars, boundedVars, readVars, sketchVars>>

\* The parts that are not in use have one fixed state.
Init ==
    /\ use \in Uses
    /\ IF use = "adapters" THEN AdapterInit
       ELSE /\ mode = "bare" /\ cache = LruNew(1) /\ now = 0 /\ resizing = FALSE
            /\ last = NoEntries /\ store = NoEntries /\ dirty = {} /\ unsure = {}
    /\ IF use = "bounded" THEN BoundedInit
       ELSE inner = LruNew(1) /\ max_bytes = 0 /\ current_bytes = 0 /\ order = <<>> /\ clock = 0
    /\ IF use = "read_through" THEN ReadInit
       ELSE /\ adapter = "kv" /\ held = LruNew(FillCap) /\ backing = NoEntries
            /\ job = [t \in Task |-> Idle] /\ file = {} /\ tainted = {}
    /\ IF use = "sketch" THEN SketchInit
       ELSE /\ hashes = [k \in Item |-> <<0, 0>>] /\ counters = [b \in ByteIndex |-> 0]
            /\ additions = 0 /\ bits = {} /\ agings = 0 /\ uses = [k \in Item |-> 0]

Next ==
    \/ use = "adapters" /\ AdapterNext /\ UNCHANGED <<use, boundedVars, readVars, sketchVars>>
    \/ use = "bounded" /\ BoundedNext /\ UNCHANGED <<use, adapterVars, readVars, sketchVars>>
    \/ use = "read_through" /\ ReadNext /\ UNCHANGED <<use, adapterVars, boundedVars, sketchVars>>
    \/ use = "sketch" /\ SketchNext /\ UNCHANGED <<use, adapterVars, boundedVars, readVars>>

Spec == Init /\ [][Next]_vars

-----------------------------------------------------------------------------
\* The bookkeeping of a policy is right after any sequence of calls: no more
\* entries than the capacity, lists, counts and index in agreement.
Bookkeeping == TypeOK /\ Bounded /\ Consistent

\* Reads are right: never an expired or replaced value, and get finds what
\* peek finds.
ReadsRight == NeverStale /\ GetAgreesWithPeek

\* Evictions are right: an insertion evicts only when it must and the entry
\* the policy names; a resize evicts until the capacity holds.
EvictsRightly == InsertEvictsRightly /\ ResizeShrinks

\* No acknowledged write is lost under the adapters: it is cached or stored,
\* and the next read returns it.
WritesKept == NoSilentLoss /\ ReadsLastWrite

\* The byte budget is kept: nothing held is left uncounted, and what is held
\* fits unless it is a single entry.
BytesAccounted == NeverUndercounts /\ BudgetHeld
=============================================================================
