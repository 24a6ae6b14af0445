------------------------------- MODULE KvStore -------------------------------
(***************************************************************************)
(* What the KvStore, KvTxn and TTL documentation of oxistore-core promises *)
(* a client, whatever the backend: each call takes effect at one instant   *)
(* between its invocation and its return, or not at all when it fails; a   *)
(* value is lost only by a delete or because its TTL elapsed; a transaction*)
(* is applied as a whole when it commits; a write without a TTL inherits   *)
(* no expiry; and an expired key is absent, to expire, persist and         *)
(* compare_and_swap as to get.  A call may judge an expiry by the clock of *)
(* any instant between its invocation and its return.                      *)
(***************************************************************************)
EXTENDS KvCore

CONSTANTS Thread,     \* the clients
          Untouched   \* a key a transaction has not written

VARIABLES kv,      \* the data and the expiry instants
          now,     \* wall clock
          req,     \* the call each client has pending
          open,    \* the clients inside a transaction
          staged   \* what each open transaction has written

vars == <<kv, now, req, open, staged>>

OpName == {"put", "put_returning_old", "put_returning", "batch_write",
           "batch_write_across", "restore", "put_with_ttl",
           "delete", "delete_returning_old", "batch_delete", "get", "ttl",
           "purge_expired", "expire", "persist", "compare_and_swap", "transaction"}

Request == [op : OpName, keys : SUBSET Key, pairs : [Key -> MaybeValue],
            exp : Expiry, old : MaybeValue, since : Nat]

NoReq == [op |-> "none", keys |-> {}, pairs |-> NoPairs,
          exp |-> NoExpiry, old |-> Absent, since |-> 0]

NothingStaged == [k \in Key |-> Untouched]

Init ==
    /\ kv = EmptyTables
    /\ now = 0
    /\ req = [t \in Thread |-> NoReq]
    /\ open = {}
    /\ staged = [t \in Thread |-> NothingStaged]

Invoke(t) ==
    /\ req[t] = NoReq
    /\ req'[t] \in Request
    /\ req'[t].since = now
    /\ req' = [req EXCEPT ![t] = req'[t]]
    /\ UNCHANGED <<kv, now, open, staged>>

\* k was not absent at some instant of the call r.  Time only expires entries,
\* so the first instant decides.
WasLive(k, r) == Visible(kv, r.since)[k] # Absent

\* The tables tb a successful call r may leave behind.
IsEffect(tb, r) ==
    CASE r.op \in {"put", "put_returning_old", "put_returning", "batch_write",
                   "batch_write_across", "restore"} ->
            tb = Insert(kv, r.keys, r.pairs, NoExpiry)
      [] r.op = "put_with_ttl" -> tb = Insert(kv, r.keys, r.pairs, r.exp)
      [] r.op \in {"delete", "delete_returning_old", "batch_delete"} ->
            tb = Remove(kv, r.keys)
      [] r.op \in {"get", "ttl", "purge_expired"} ->
            /\ r.keys \subseteq ExpiredKeys(kv, now)
            /\ tb = Remove(kv, r.keys)
      [] r.op = "expire" ->
            /\ \A k \in r.keys : WasLive(k, r)
            /\ tb = SetTtl(kv, r.keys, r.exp)
      [] r.op = "persist" ->
            /\ \A k \in r.keys : WasLive(k, r)
            /\ tb = SetTtl(kv, r.keys, NoExpiry)
      [] r.op = "compare_and_swap" ->
            /\ \A k \in r.keys : CasMatches(kv, k, r.old, r.since, now)
            /\ tb = Insert(kv, r.keys, r.pairs, NoExpiry)
      [] OTHER -> FALSE

\* A call takes effect as it returns, or fails and changes nothing.
Respond(t) ==
    /\ req[t] # NoReq
    /\ IsEffect(kv', req[t]) \/ kv' = kv
    /\ req' = [req EXCEPT ![t] = NoReq]
    /\ UNCHANGED <<now, open, staged>>

BeginTxn(t) ==
    /\ req[t] = NoReq \/ req[t].op = "transaction"
    /\ t \notin open
    /\ open' = open \cup {t}
    /\ req' = [req EXCEPT ![t] = NoReq]
    /\ UNCHANGED <<kv, now, staged>>

Stage(t) ==
    /\ t \in open
    /\ \E k \in Key, val \in MaybeValue : staged' = [staged EXCEPT ![t][k] = val]
    /\ UNCHANGED <<kv, now, req, open>>

\* Every key the transaction wrote gets its value and loses its expiry.
Applied(tb, writes) ==
    LET keys == {k \in Key : writes[k] # Untouched}
    IN  Insert(tb, keys, writes, NoExpiry)

EndTxn(t) ==
    /\ t \in open
    /\ open' = open \ {t}
    /\ staged' = [staged EXCEPT ![t] = NothingStaged]
    /\ UNCHANGED <<now, req>>

Commit(t) == EndTxn(t) /\ kv' = Applied(kv, staged[t])

Rollback(t) == EndTxn(t) /\ UNCHANGED kv

\* What has expired may be dropped at any time: nobody sees it any more.
Evict ==
    /\ \E keys \in SUBSET ExpiredKeys(kv, now) : kv' = Remove(kv, keys)
    /\ UNCHANGED <<now, req, open, staged>>

Tick == now' = now + 1 /\ UNCHANGED <<kv, req, open, staged>>

Next ==
    \/ \E t \in Thread : Invoke(t) \/ Respond(t) \/ BeginTxn(t) \/ Stage(t)
                         \/ Commit(t) \/ Rollback(t)
    \/ Evict \/ Tick

Spec == Init /\ [][Next]_vars
=============================================================================
