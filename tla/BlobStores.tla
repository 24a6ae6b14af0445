----------------------------- MODULE BlobStores ------------------------------
(***************************************************************************)
(* LocalBlobStore and MemoryBlobStore, and the operations the BlobStore    *)
(* trait builds from put, get, delete, head and list.                      *)
(*                                                                         *)
(* Tasks run operations concurrently; an operation is a sequence of calls, *)
(* with an await between them.  On the memory store a call is one step     *)
(* under the lock.  On the local store it is the system calls it makes:    *)
(* put opens and truncates the .tmp sibling, writes it block by block and  *)
(* renames it into place; get opens the file and reads the inode it got.   *)
(* A process may die between any two steps and come back.                  *)
(*                                                                         *)
(* Data is a sequence of blocks: value v is <<v, 1>>, ..., <<v, Size(v)>>, *)
(* so that a torn file differs from every value.  SHA-256 is injective:    *)
(* the digest of v is v, and its hexadecimal form is a key of its own.     *)
(***************************************************************************)
EXTENDS Sequences, FiniteSetsExt, Ascending

CONSTANTS Task,
          Value,       \* blob contents
          Size(_),     \* their length in blocks
          NamedKey,    \* keys chosen by clients: records of stem and extension
          NoExt,       \* the extension of a key without one
          KeyOrder,    \* all keys in lexicographic order
          DirOrder,    \* all paths in the order read_dir yields them
          Prefix,      \* the prefixes used, each as the set of keys it selects
          Hole,        \* a block that was never written
          Absent,      \* no blob
          Stock,       \* initial contents: what earlier puts can have left
          Capacity,    \* capacity_bytes of the memory store, in blocks
          MaxOps,      \* bound on the operations begun
          MaxCrashes   \* bound on the crashes

Blocks(v) == [i \in 1..Size(v) |-> <<v, i>>]

\* What a file can come to hold, torn or not.
Datum == UNION {[1..n -> (Value \X (1..n)) \cup {Hole}] : n \in {0} \cup UNION {0..Size(v) : v \in Value}}

\* Digest::to_hex as a key.
HashKey(v) == [stem |-> v, ext |-> NoExt]
Key == NamedKey \cup {HashKey(v) : v \in Value}

\* Mutant: the temporary name keeps the extension.
TmpPathInPlace(k) == k

\* path.with_extension("tmp")
TmpPath(k) == [k EXCEPT !.ext = "tmp"]
Path == Key \cup {TmpPath(k) : k \in Key}
IsTmp(p) == p.ext = "tmp"

Inode == 1..(Cardinality(Path) + Cardinality(Task))
NoFile == 0

ASSUME BlobAssumption ==
    /\ \A v \in Value : Size(v) \in Nat
    /\ \A v, w \in Value : Size(v) = 0 /\ Size(w) = 0 => v = w
    /\ IsFiniteSet(Task) /\ Absent \notin Datum
    /\ \A k \in NamedKey : k = [stem |-> k.stem, ext |-> k.ext]
    /\ \A v \in Value : HashKey(v) \notin NamedKey
    /\ Capacity \in Nat /\ MaxOps \in Nat /\ MaxCrashes \in Nat
    /\ \A k \in Key : ~IsTmp(k)
    /\ KeyOrder \in Seq(Key) /\ Key \subseteq {KeyOrder[i] : i \in DOMAIN KeyOrder}
    /\ \A i, j \in DOMAIN KeyOrder : KeyOrder[i] = KeyOrder[j] => i = j
    /\ DirOrder \in Seq({DirOrder[i] : i \in DOMAIN DirOrder})
    /\ Path \subseteq {DirOrder[i] : i \in DOMAIN DirOrder}
    /\ \A i, j \in DOMAIN DirOrder : DirOrder[i] = DirOrder[j] => i = j
    /\ Prefix \subseteq SUBSET Key
    /\ \A stock \in Stock, k \in Key :
          stock[k] \in {Absent} \cup (IF k \in NamedKey THEN Value ELSE {k.stem})

VARIABLES
    backend,  \* "local" or "memory"
    verify,   \* local: was it made by with_checksum_verification
    dir,      \* local: the inode of every path
    inode,    \* local: the contents of every inode
    map,      \* memory: the blobs
    used,     \* memory: used_bytes
    task,     \* what every task is doing
    begun,    \* operations begun so far
    crashes,  \* crashes so far
    puts,     \* history: the contents whose put under a key was begun
    shared,   \* history: temporary files two puts had open at a time
    gone,     \* history: keys that were ever deleted
    acked     \* history: values whose put_cas returned Ok

storeVars == <<backend, verify, dir, inode, map, used>>
history == <<puts, shared, gone, acked>>
blobVars == <<storeVars, task, begun, crashes, history>>

-----------------------------------------------------------------------------
(***************************************************************************)
(* Tasks.                                                                  *)
(***************************************************************************)
\* todo: the calls left; data: read or to be written; want: the contents a
\* digest names; keys, after, limit: arguments of a listing; fd, at: open
\* file and position; seen, out: entries walked and entries returned; dirty:
\* keys others changed since this task last looked; ever, always: keys
\* present at some, at every, instant of the operation.
NoTask == [op |-> "none", todo |-> <<>>, res |-> "none", data |-> <<>>, want |-> <<>>,
           keys |-> {}, after |-> 0, limit |-> 0, fd |-> NoFile, at |-> 0,
           seen |-> {}, out |-> <<>>, dirty |-> {}, ever |-> {}, always |-> {}]

Call(do, k) == [do |-> do, key |-> k]
Running(t) == task[t].todo # <<>>
Calling(t, do) == Running(t) /\ Head(task[t].todo).do = do
Target(t) == Head(task[t].todo).key

Content(k) == IF backend = "memory" THEN map[k]
              ELSE IF dir[k] = NoFile THEN Absent ELSE inode[dir[k]]
Present == {k \in Key : Content(k) # Absent}

Position(k) == CHOOSE i \in DOMAIN KeyOrder : KeyOrder[i] = k
Length(content) == IF content = Absent THEN 0 ELSE Len(content)

\* The blocks that the blobs of m take, each of them once.
Taken(m) == UNION {{k} \X (1..Length(m[k])) : k \in Key}

BlobInit ==
    /\ backend \in {"local", "memory"}
    /\ verify \in (IF backend = "local" THEN BOOLEAN ELSE {FALSE})
    /\ \E stock \in Stock :
        LET local == backend = "local"
            content(k) == IF stock[k] = Absent THEN Absent ELSE Blocks(stock[k])
            there(p) == p \in Key /\ stock[p] # Absent
        IN  /\ dir = [p \in Path |-> IF local /\ there(p) THEN Position(p) ELSE NoFile]
            /\ inode = [i \in Inode |-> IF local /\ i \in DOMAIN KeyOrder /\ there(KeyOrder[i])
                                       THEN content(KeyOrder[i]) ELSE <<>>]
            /\ map = [k \in Key |-> IF local THEN Absent ELSE content(k)]
            /\ used = Cardinality(Taken(map)) /\ used <= Capacity
            /\ puts = [k \in Key |-> {content(k)} \ {Absent}]
            /\ acked = {x \in Value : there(HashKey(x))}
    /\ task = [t \in Task |-> NoTask]
    /\ begun = 0
    /\ crashes = 0
    /\ shared = {}
    /\ gone = {}

Begin(t, op, calls) ==
    /\ ~Running(t)
    /\ begun < MaxOps
    /\ begun' = begun + 1
    /\ task' = [task EXCEPT ![t] = [op EXCEPT !.todo = calls, !.ever = Present,
                                              !.always = Present]]
    /\ UNCHANGED <<storeVars, crashes, history>>

Op(name, data) == [NoTask EXCEPT !.op = name, !.data = data]

put(t, k, v) == Begin(t, Op("put", Blocks(v)), <<Call("put", k)>>)
\* The chunks of value v, assembled.
put_chunked(t, k, v) == put(t, k, v)
get(t, k) == Begin(t, [Op("get", <<>>) EXCEPT !.keys = {k}], <<Call("get", k)>>)
delete(t, k) == Begin(t, Op("delete", <<>>), <<Call("delete", k)>>)
exists(t, k) == Begin(t, Op("exists", <<>>), <<Call("head", k)>>)
copy(t, src, dst) == Begin(t, Op("copy", <<>>), <<Call("get", src), Call("put", dst)>>)

rename(t, old, new) ==
    Begin(t, [Op("rename", <<>>) EXCEPT !.keys = {old, new}],
          <<Call("get", old), Call("put", new), Call("delete", old)>>)

delete_many(t, keys) ==
    Begin(t, Op("delete_many", <<>>), [i \in DOMAIN keys |-> Call("delete", keys[i])])
put_if_absent(t, k, v) ==
    Begin(t, Op("put_if_absent", Blocks(v)), <<Call("head", k), Call("put", k)>>)
delete_if_matches(t, k, v) ==
    Begin(t, [Op("delete_if_matches", <<>>) EXCEPT !.want = Blocks(v)],
          <<Call("get", k), Call("delete", k)>>)
put_cas(t, v) ==
    Begin(t, Op("put_cas", Blocks(v)), <<Call("head", HashKey(v)), Call("put", HashKey(v))>>)
\* The reader's bytes, hashed as they come in.
put_streaming(t, v) == put_cas(t, v)
get_cas(t, v) ==
    Begin(t, [Op("get_cas", <<>>) EXCEPT !.want = Blocks(v)], <<Call("get", HashKey(v))>>)
exists_cas(t, v) == exists(t, HashKey(v))

Walking(name, keys) == [Op(name, <<>>) EXCEPT !.keys = keys, !.limit = Len(KeyOrder)]
list(t, prefix) == Begin(t, Walking("list", prefix), <<Call("list", NoExt)>>)
list_meta(t, prefix) == Begin(t, Walking("list_meta", prefix), <<Call("list", NoExt)>>)
\* after: the position of start_after in the order of keys, 0 for None.
list_meta_page(t, prefix, after, limit) ==
    Begin(t, [Walking("list_meta", prefix) EXCEPT !.after = after, !.limit = limit],
          <<Call("list", NoExt)>>)
delete_prefix(t, prefix) == Begin(t, Walking("delete_prefix", prefix), <<Call("list", NoExt)>>)
cleanup_temp_files(t) ==
    /\ backend = "local"
    /\ Begin(t, Op("cleanup", <<>>), <<Call("sweep", NoExt)>>)

-----------------------------------------------------------------------------
(***************************************************************************)
(* What the outcome of a call means to the operation: go on, or return.    *)
(***************************************************************************)
Meaning(op, do, outcome) ==
    LET probing == do = "head" /\ op \in {"put_if_absent", "put_cas"}
    IN  CASE outcome = "ok" /\ ~probing -> "go"
          [] outcome = "ok" /\ probing -> IF op = "put_cas" THEN "ok" ELSE "already_exists"
          [] outcome = "not_found" /\ probing -> "go"
          [] outcome = "not_found" /\ do = "head" /\ op = "list_meta" -> "go"
          [] outcome = "not_found" /\ do = "delete" /\ op \in {"delete_many", "delete_prefix"} -> "go"
          [] outcome = "not_found" /\ do = "head" /\ op = "exists" -> "false"
          [] outcome = "not_found" /\ do = "get" /\ op = "delete_if_matches" -> "false"
          [] OTHER -> outcome

\* Task s after its current call.
After(s, outcome) ==
    LET meaning == Meaning(s.op, Head(s.todo).do, outcome)
        left == IF meaning = "go" THEN Tail(s.todo) ELSE <<>>
    IN  [s EXCEPT !.todo = left, !.fd = NoFile, !.at = 0,
                  !.res = IF left # <<>> THEN "none"
                          ELSE IF meaning = "go" THEN "ok" ELSE meaning]

Returned(s) == IF s.todo = <<>> THEN [NoTask EXCEPT !.op = s.op, !.res = s.res,
                   !.data = s.data, !.out = s.out, !.keys = s.keys, !.after = s.after,
                   !.limit = s.limit, !.ever = s.ever, !.always = s.always] ELSE s

\* The CAS values that are stored for good, as put_cas says.
Acknowledge(s) ==
    IF s.op = "put_cas" /\ s.res = "ok" THEN {v \in Value : Blocks(v) = s.data} ELSE {}

\* t's call ends; changed are the keys it changed, now the keys present then.
Finish(t, s, changed, now) ==
    /\ task' = [u \in Task |->
                 LET w == IF u = t THEN Returned(s) ELSE task[u]
                 IN  IF u # t /\ ~Running(u) THEN w
                     ELSE [w EXCEPT !.dirty = IF u = t THEN @ ELSE @ \cup changed,
                                    !.ever = @ \cup now, !.always = @ \cap now]]
    /\ acked' = acked \cup Acknowledge(s)
    /\ UNCHANGED <<begun, crashes>>

Fresh(s) == [s EXCEPT !.dirty = {}]

\* Mutant: delete_if_matches does not compare.
JudgeLax(s, k, data) ==
    CASE verify /\ k \notin NamedKey /\ data # Blocks(k.stem) -> "checksum_mismatch"
      [] s.op = "get_cas" /\ data # s.want -> "checksum_mismatch"
      [] OTHER -> "ok"

\* What get and its caller make of the data read.
Judge(s, k, data) ==
    CASE verify /\ k \notin NamedKey /\ data # Blocks(k.stem) -> "checksum_mismatch"
      [] s.op = "get_cas" /\ data # s.want -> "checksum_mismatch"
      [] s.op = "delete_if_matches" /\ data # s.want -> "false"
      [] OTHER -> "ok"

Read(s, k, data) == After([s EXCEPT !.data = data], Judge(s, k, data))

\* Mutant: start_after is inclusive.
SelectedInclusive(s, found) ==
    LET places == Sorted({i \in DOMAIN KeyOrder : KeyOrder[i] \in found /\ i >= s.after})
    IN  [n \in DOMAIN places |-> KeyOrder[places[n]]]

\* The keys found, sorted, past start_after.
Selected(s, found) ==
    LET places == Sorted({i \in DOMAIN KeyOrder : KeyOrder[i] \in found /\ i > s.after})
    IN  [n \in DOMAIN places |-> KeyOrder[places[n]]]

Each(do, keys) == [i \in DOMAIN keys |-> Call(do, keys[i])]

\* What a listing does with the keys found: hand them out, or look at them,
\* or delete them, one by one.
Listed(s, found) ==
    LET keys == Selected(s, found)
        rest == CASE s.op = "delete_prefix" -> Each("delete", keys)
                  [] s.op = "list_meta" /\ s.limit > 0 -> Each("head", keys)
                  [] OTHER -> <<>>
    IN  [s EXCEPT !.todo = rest, !.at = 0, !.seen = {},
                  !.out = IF s.op = "list" THEN keys ELSE <<>>,
                  !.res = IF rest = <<>> THEN "ok" ELSE "none"]

\* The metadata of one listed key; the page may be full now.
Headed(s, k, there) ==
    LET next == After(s, IF there THEN "ok" ELSE "not_found")
        listing == s.op = "list_meta" /\ there
        out == IF listing THEN Append(s.out, k) ELSE s.out
        full == listing /\ Len(out) >= s.limit
    IN  [next EXCEPT !.out = out, !.todo = IF full THEN <<>> ELSE @,
                     !.res = IF full THEN "ok" ELSE @]

-----------------------------------------------------------------------------
(***************************************************************************)
(* MemoryBlobStore: every call under the lock.                             *)
(***************************************************************************)
\* Mutant: the displaced blob still counts.
memory_put_displacing(t) ==
    LET s == task[t]
        k == Target(t)
        would_be == used + Len(s.data)
        fits == would_be <= Capacity
        stored == IF fits THEN [map EXCEPT ![k] = s.data] ELSE map
    IN  /\ backend = "memory" /\ Calling(t, "put")
        /\ map' = stored
        /\ used' = IF fits THEN would_be ELSE used
        /\ puts' = [puts EXCEPT ![k] = @ \cup {s.data}]
        /\ Finish(t, After(s, IF fits THEN "ok" ELSE "quota_exceeded"),
                  IF fits THEN {k} ELSE {}, {x \in Key : stored[x] # Absent})
        /\ UNCHANGED <<backend, verify, dir, inode, shared, gone>>

memory_put(t) ==
    LET s == task[t]
        k == Target(t)
        would_be == used - Length(map[k]) + Len(s.data)
        fits == would_be <= Capacity
        stored == IF fits THEN [map EXCEPT ![k] = s.data] ELSE map
    IN  /\ backend = "memory" /\ Calling(t, "put")
        /\ map' = stored
        /\ used' = IF fits THEN would_be ELSE used
        /\ puts' = [puts EXCEPT ![k] = @ \cup {s.data}]
        /\ Finish(t, After(s, IF fits THEN "ok" ELSE "quota_exceeded"),
                  IF fits THEN {k} ELSE {}, {x \in Key : stored[x] # Absent})
        /\ UNCHANGED <<backend, verify, dir, inode, shared, gone>>

memory_get(t) ==
    /\ backend = "memory" /\ Calling(t, "get")
    /\ LET s == Fresh(task[t])
           k == Target(t)
       IN  Finish(t, IF map[k] = Absent THEN After(s, "not_found") ELSE Read(s, k, map[k]),
                  {}, Present)
    /\ UNCHANGED <<storeVars, puts, shared, gone>>

memory_delete(t) ==
    LET k == Target(t)
        there == map[k] # Absent
    IN  /\ backend = "memory" /\ Calling(t, "delete")
        /\ map' = [map EXCEPT ![k] = Absent]
        /\ used' = used - Length(map[k])
        /\ gone' = gone \cup {k}
        /\ Finish(t, After(task[t], IF there THEN "ok" ELSE "not_found"),
                  IF there THEN {k} ELSE {}, Present \ {k})
        /\ UNCHANGED <<backend, verify, dir, inode, puts, shared>>

memory_head(t) ==
    /\ backend = "memory" /\ Calling(t, "head")
    /\ Finish(t, Headed(Fresh(task[t]), Target(t), map[Target(t)] # Absent), {}, Present)
    /\ UNCHANGED <<storeVars, puts, shared, gone>>

\* list_meta and list_meta_page take the sizes under the same lock.
memory_list(t) ==
    /\ backend = "memory" /\ Calling(t, "list")
    /\ LET s == task[t]
           found == Present \cap s.keys
           keys == Selected(s, found)
           page == SubSeq(keys, 1, Min({s.limit, Len(keys)}))
       IN  Finish(t, IF s.op = "list_meta"
                     THEN [s EXCEPT !.todo = <<>>, !.out = page, !.res = "ok"]
                     ELSE Listed(s, found), {}, Present)
    /\ UNCHANGED <<storeVars, puts, shared, gone>>

-----------------------------------------------------------------------------
(***************************************************************************)
(* LocalBlobStore: one step per system call.                               *)
(***************************************************************************)
OpenFiles == {task[t].fd : t \in Task} \ {NoFile}
FreeInode == Min(Inode \ ({dir[p] : p \in Path} \cup OpenFiles))

\* The other tasks between the opening and the renaming of a temporary file.
Writers(t, tmp) ==
    {u \in Task \ {t} : Calling(u, "put") /\ task[u].fd # NoFile /\ TmpPath(Target(u)) = tmp}

\* fs::write: create or truncate ...
OpenTmp(t) ==
    /\ backend = "local" /\ Calling(t, "put")
    /\ task[t].fd = NoFile
    /\ LET tmp == TmpPath(Target(t))
           i == IF dir[tmp] = NoFile THEN FreeInode ELSE dir[tmp]
       IN  /\ dir' = [dir EXCEPT ![tmp] = i]
           /\ inode' = [inode EXCEPT ![i] = <<>>]
           /\ task' = [task EXCEPT ![t].fd = i, ![t].at = 0]
           /\ shared' = shared \cup (IF Writers(t, tmp) = {} THEN {} ELSE {tmp})
    /\ puts' = [puts EXCEPT ![Target(t)] = @ \cup {task[t].data}]
    /\ UNCHANGED <<backend, verify, map, used, begun, crashes, gone, acked>>

Overwrite(content, i, block) ==
    [j \in 1..Max({Len(content), i}) |->
        IF j = i THEN block ELSE IF j <= Len(content) THEN content[j] ELSE Hole]

\* ... then write the blocks at the file's position.
WriteBlock(t) ==
    /\ backend = "local" /\ Calling(t, "put")
    /\ task[t].fd # NoFile
    /\ task[t].at < Len(task[t].data)
    /\ LET i == task[t].at + 1
       IN  /\ inode' = [inode EXCEPT ![task[t].fd] = Overwrite(@, i, task[t].data[i])]
           /\ task' = [task EXCEPT ![t].at = i]
    /\ UNCHANGED <<backend, verify, dir, map, used, begun, crashes, history>>

\* fs::rename fails when the temporary file is gone.
RenameTmp(t) ==
    LET k == Target(t)
        tmp == TmpPath(k)
        there == dir[tmp] # NoFile
    IN  /\ backend = "local" /\ Calling(t, "put")
        /\ task[t].fd # NoFile
        /\ task[t].at = Len(task[t].data)
        /\ dir' = IF there THEN [dir EXCEPT ![tmp] = NoFile, ![k] = dir[tmp]] ELSE dir
        /\ Finish(t, After(task[t], IF there THEN "ok" ELSE "io"),
                  IF there THEN {k} ELSE {}, IF there THEN Present \cup {k} ELSE Present)
        /\ UNCHANGED <<backend, verify, inode, map, used, puts, shared, gone>>

OpenFile(t) ==
    /\ backend = "local" /\ Calling(t, "get")
    /\ task[t].fd = NoFile
    /\ IF dir[Target(t)] = NoFile
       THEN Finish(t, After(Fresh(task[t]), "not_found"), {}, Present)
       ELSE /\ task' = [task EXCEPT ![t].fd = dir[Target(t)], ![t].dirty = {}]
            /\ UNCHANGED <<begun, crashes, acked>>
    /\ UNCHANGED <<storeVars, puts, shared, gone>>

ReadFile(t) ==
    /\ backend = "local" /\ Calling(t, "get")
    /\ task[t].fd # NoFile
    /\ Finish(t, Read(task[t], Target(t), inode[task[t].fd]), {}, Present)
    /\ UNCHANGED <<storeVars, puts, shared, gone>>

local_delete(t) ==
    LET k == Target(t)
        there == dir[k] # NoFile
    IN  /\ backend = "local" /\ Calling(t, "delete")
        /\ dir' = [dir EXCEPT ![k] = NoFile]
        /\ gone' = gone \cup {k}
        /\ Finish(t, After(task[t], IF there THEN "ok" ELSE "not_found"),
                  IF there THEN {k} ELSE {}, Present \ {k})
        /\ UNCHANGED <<backend, verify, inode, map, used, puts, shared>>

local_head(t) ==
    /\ backend = "local" /\ Calling(t, "head")
    /\ Finish(t, Headed(Fresh(task[t]), Target(t), dir[Target(t)] # NoFile), {}, Present)
    /\ UNCHANGED <<storeVars, puts, shared, gone>>

\* The directory entries a walk has still to come to.
Ahead(s, paths) == {i \in DOMAIN DirOrder : i > s.at /\ DirOrder[i] \in paths}

\* read_dir is not atomic: each entry is there, or not, when it is come to.
collect_entries(t) ==
    /\ backend = "local" /\ Calling(t, "list")
    /\ LET s == task[t]
           ahead == Ahead(s, s.keys)
           i == Min(ahead)
           here == IF dir[DirOrder[i]] = NoFile THEN {} ELSE {DirOrder[i]}
       IN  Finish(t, IF ahead = {} THEN Listed(s, s.seen)
                     ELSE [s EXCEPT !.at = i, !.seen = @ \cup here], {}, Present)
    /\ UNCHANGED <<storeVars, puts, shared, gone>>

\* A file that cannot be removed is passed over.
cleanup_tmp_files_sync(t) ==
    /\ backend = "local" /\ Calling(t, "sweep")
    /\ LET ahead == Ahead(task[t], {p \in Path : IsTmp(p)})
           i == Min(ahead)
       IN  /\ \/ ahead # {} /\ dir' = [dir EXCEPT ![DirOrder[i]] = NoFile]
              \/ dir' = dir
           /\ Finish(t, IF ahead = {} THEN After(task[t], "ok")
                        ELSE [task[t] EXCEPT !.at = i], {}, Present)
    /\ UNCHANGED <<backend, verify, inode, map, used, puts, shared, gone>>

\* A system call of any of these fails with an error other than NotFound: the
\* call returns Io and leaves the files as they are, a put the temporary file
\* with what it holds by then.  A sweep fails only at its start.
FailCall(t) ==
    /\ backend = "local" /\ Running(t)
    /\ Calling(t, "sweep") => task[t].at = 0
    /\ Finish(t, After(task[t], "io"), {}, Present)
    /\ UNCHANGED <<storeVars, puts, shared, gone>>

\* The process dies; the files stay.
Crash ==
    /\ backend = "local"
    /\ crashes < MaxCrashes
    /\ \E t \in Task : Running(t)
    /\ crashes' = crashes + 1
    /\ task' = [t \in Task |-> NoTask]

\* A new process opens the store as it is, or sweeps it first.
Reopen ==
    /\ Crash
    /\ UNCHANGED <<storeVars, begun, history>>

with_temp_cleanup ==
    /\ Crash
    /\ \E kept \in SUBSET {p \in Path : IsTmp(p) /\ dir[p] # NoFile} :
        dir' = [p \in Path |-> IF IsTmp(p) /\ p \notin kept THEN NoFile ELSE dir[p]]
    /\ verify' = FALSE
    /\ UNCHANGED <<backend, inode, map, used, begun, history>>

-----------------------------------------------------------------------------
Start(t) ==
    \/ \E k \in NamedKey, v \in Value :
        put(t, k, v) \/ put_chunked(t, k, v) \/ put_if_absent(t, k, v) \/ delete_if_matches(t, k, v)
    \/ \E k \in Key : get(t, k) \/ exists(t, k) \/ delete(t, k)
    \/ \E k, l \in NamedKey : copy(t, k, l) \/ rename(t, k, l)
    \/ \E v \in Value : put_cas(t, v) \/ put_streaming(t, v) \/ get_cas(t, v) \/ exists_cas(t, v)
    \/ \E p \in Prefix :
        \/ list(t, p) \/ list_meta(t, p) \/ delete_prefix(t, p)
        \/ \E after, limit \in 0..1 : list_meta_page(t, p, after, limit)
    \/ delete_many(t, KeyOrder)
    \/ cleanup_temp_files(t)

MemoryStep(t) ==
    \/ memory_put(t) \/ memory_get(t) \/ memory_delete(t) \/ memory_head(t) \/ memory_list(t)

LocalStep(t) ==
    \/ OpenTmp(t) \/ WriteBlock(t) \/ RenameTmp(t)
    \/ OpenFile(t) \/ ReadFile(t) \/ local_delete(t) \/ local_head(t)
    \/ collect_entries(t) \/ cleanup_tmp_files_sync(t) \/ FailCall(t)

BlobNext ==
    \/ \E t \in Task : Start(t) \/ MemoryStep(t) \/ LocalStep(t)
    \/ Reopen \/ with_temp_cleanup

-----------------------------------------------------------------------------
(***************************************************************************)
(* Properties.                                                             *)
(***************************************************************************)
\* Every variable holds a value of the shape the code gives it.
BlobTypeOK ==
    /\ backend \in {"local", "memory"} /\ verify \in BOOLEAN
    /\ dir \in [Path -> Inode \cup {NoFile}]
    /\ \A p, q \in Path : dir[p] = dir[q] => p = q \/ dir[p] = NoFile
    /\ \A k \in Key : Content(k) \in Datum \cup {Absent}
    /\ \A t \in Task : task[t].data \in Datum /\ task[t].fd \in Inode \cup {NoFile}

\* The memory store's used_bytes is the sum of the blobs it holds and never
\* above capacity_bytes, through overwrites, failures and deletes.
QuotaExact ==
    backend = "memory" =>
        /\ used = Cardinality(Taken(map))
        /\ used <= Capacity

\* Readers never observe a partially written blob: what is stored under a key,
\* and what a get returned, is as some put of that key had it, through write
\* errors, sweeps and crashes, unless two puts had the key's temporary file
\* open at a time.
NeverTorn ==
    /\ \A k \in Present : Content(k) \in puts[k] \/ TmpPath(k) \in shared
    /\ \A t \in Task : task[t].op = "get" /\ task[t].res = "ok" =>
          \A k \in task[t].keys : task[t].data \in puts[k] \/ TmpPath(k) \in shared

\* A rename under way has its blob under the old or the new key at every
\* instant, so no crash loses it, unless another task changed one of them or
\* shared the temporary file.
RenameKeepsBlob ==
    \A t \in Task :
        LET s == task[t]
        IN  /\ s.op = "rename" /\ Len(s.todo) \in {1, 2}
            /\ Cardinality(s.keys) = 2
            /\ s.dirty \cap s.keys = {}
            /\ \A k \in s.keys : TmpPath(k) \notin shared
            => \E k \in s.keys : Content(k) = s.data

\* Once put_cas has returned Ok its blob is stored whole, also when put_cas
\* found it there, and stays so through crashes until it is deleted, unless
\* two puts shared the digest's temporary file.
CasReadable ==
    \A v \in acked :
        \/ Content(HashKey(v)) = Blocks(v)
        \/ HashKey(v) \in gone
        \/ TmpPath(HashKey(v)) \in shared

\* A listing or a page of one is in order, starts after start_after, respects
\* its limit, misses no key that was there all along, up to where a full page
\* stops, and names no key that never was.
ListingRight ==
    \A t \in Task :
        LET s == task[t]
            pos(i) == Position(s.out[i])
            n == Len(s.out)
        IN  s.op \in {"list", "list_meta"} /\ s.res = "ok" =>
              /\ n <= s.limit
              /\ \A i, j \in 1..n : i < j => pos(i) < pos(j)
              /\ \A i \in 1..n : s.out[i] \in s.ever \cap s.keys /\ pos(i) > s.after
              /\ \A k \in s.always \cap s.keys :
                    \/ Position(k) <= s.after
                    \/ \E i \in 1..n : s.out[i] = k
                    \/ n = s.limit /\ (n > 0 => Position(k) > pos(n))

\* put_if_absent and put_cas overwrite nothing, and delete_if_matches removes
\* only what it was asked to, unless another task changed the key between the
\* check and the act, or wrote into the blob through a shared temporary file.
ConditionsHonoured ==
    [][\A t \in Task :
        LET s == task[t]
            acts == Len(s.todo) = 1 /\ task'[t].todo = <<>> /\ task'[t].res = "ok"
        IN  acts /\ Target(t) \notin s.dirty =>
              /\ s.op \in {"put_if_absent", "put_cas"} /\ Calling(t, "put") =>
                    Content(Target(t)) = Absent
              /\ s.op = "delete_if_matches" /\ TmpPath(Target(t)) \notin shared =>
                    Content(Target(t)) = s.want]_blobVars
=============================================================================
