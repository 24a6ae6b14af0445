---------------------------- MODULE BlobsProofs -----------------------------
(***************************************************************************)
(* Proofs about the local and the memory store, for any tasks, keys,       *)
(* contents and bounds: blobs are whole, digests stay readable, and an     *)
(* operation that looks before it acts acts on what it saw; the memory     *)
(* store's quota is exact, and listings miss nothing.  With what is proved *)
(* about the clients of a service, that is all the blob stores promise.    *)
(***************************************************************************)
EXTENDS RemoteBlobsProofs

(***************************************************************************)
(* The stores in the process.                                              *)
(***************************************************************************)
\* Contents: block j of a file is block j of some value, or was never written.
Lengths == {0} \cup UNION {0..Size(v) : v \in Value}
IsData(d) ==
    \E n \in Lengths :
        /\ d \in [1..n -> (Value \X (1..n)) \cup {Hole}]
        /\ \A j \in 1..n : d[j] \in (Value \X {j}) \cup {Hole}

\* The calls operations are made of.
Calls == [do : {"put", "get", "delete", "head"}, key : Key] \cup [do : {"list", "sweep"}, key : {NoExt}]

\* A task's record has its fields.
TaskShape(s) ==
    s \in [op : {s.op}, todo : {s.todo}, res : {s.res}, data : {s.data}, want : {s.want},
           keys : {s.keys}, after : {s.after}, limit : {s.limit}, fd : {s.fd}, at : {s.at},
           seen : {s.seen}, out : {s.out}, dirty : {s.dirty}, ever : {s.ever}, always : {s.always}]

\* The calls an operation has left are the end of the plan it began with.
Planned(s) ==
    /\ s.todo \in Seq(Calls)
    /\ \A i \in DOMAIN s.todo : s.todo[i].do = "put" => s.op = "put_cas" \/ s.todo[i].key \in NamedKey
    /\ s.op = "put_cas" => \E v \in Value :
          s.data = Blocks(v) /\ s.todo \in {<<Call("head", HashKey(v)), Call("put", HashKey(v))>>,
                                            <<Call("put", HashKey(v))>>, <<>>}
    /\ s.op = "put_if_absent" => \E k \in Key :
          s.todo \in {<<Call("head", k), Call("put", k)>>, <<Call("put", k)>>, <<>>}
    /\ s.op = "delete_if_matches" => \E k \in Key :
          s.todo \in {<<Call("get", k), Call("delete", k)>>, <<Call("delete", k)>>, <<>>}
    /\ s.op = "rename" => \E k, l \in Key :
          /\ s.keys = {k, l}
          /\ s.todo \in {<<Call("get", k), Call("put", l), Call("delete", k)>>,
                         <<Call("put", l), Call("delete", k)>>, <<Call("delete", k)>>, <<>>}
    /\ s.op = "get" => \E k \in Key : s.keys = {k} /\ s.todo \in {<<Call("get", k)>>, <<>>}

\* Both, and the types of what the steps use.
TaskOK(s) ==
    /\ TaskShape(s) /\ Planned(s)
    /\ s.todo # <<>> => s.res = "none"
    /\ IsData(s.data) /\ s.at \in Nat /\ s.keys \in SUBSET Key
    /\ s.seen \in SUBSET Key

\* Open files.
Open(t) == task[t].fd # NoFile
Writing(t) == Open(t) /\ Calling(t, "put")
Reading(t) == Open(t) /\ Calling(t, "get")
Tmp(t) == TmpPath(Target(t))

\* The types of the stores.
StoreTypes ==
    /\ backend \in {"local", "memory"} /\ verify \in BOOLEAN
    /\ dir \in [Path -> Inode \cup {NoFile}]
    /\ inode = [i \in Inode |-> inode[i]] /\ \A i \in Inode : IsData(inode[i])
    /\ map = [k \in Key |-> map[k]] /\ \A k \in Key : map[k] = Absent \/ IsData(map[k])
    /\ puts = [k \in Key |-> puts[k]]
    /\ task = [t \in Task |-> task[t]]

\* No inode has two names.
OneName == \A p, q \in Path : dir[p] = dir[q] => p = q \/ dir[p] = NoFile

\* An open file is named, if at all, by the key being written or read, or by
\* a key that shares its temporary file.
Named(t) ==
    /\ task[t].fd \in Inode \cup {NoFile}
    /\ Open(t) => Writing(t) \/ Reading(t)
    /\ Open(t) => \A p \in Path : dir[p] = task[t].fd => TmpPath(p) = Tmp(t)
    /\ Reading(t) => \A p \in Path : dir[p] = task[t].fd => p = Target(t)

\* Two tasks with one file are at one temporary name; two writers share it.
Apart(t, u) ==
    /\ Open(t) /\ task[t].fd = task[u].fd => Tmp(t) = Tmp(u)
    /\ Writing(t) /\ Writing(u) /\ Tmp(t) = Tmp(u) => t = u \/ Tmp(t) \in shared

\* A temporary file that was never shared has the writer's blocks so far.
Alone(t) ==
    Writing(t) /\ Tmp(t) \notin shared =>
        /\ \A p \in Path : dir[p] = task[t].fd => p = Tmp(t)
        /\ dir[Tmp(t)] \in {NoFile, task[t].fd}
        /\ \A u \in Task : task[u].fd = task[t].fd => u = t
        /\ task[t].at \in 0..Len(task[t].data)
        /\ inode[task[t].fd] = [j \in 1..task[t].at |-> task[t].data[j]]

\* The invariant of the files.
FilesOK ==
    /\ OneName
    /\ \A t \in Task : Named(t) /\ Alone(t)
    /\ \A t, u \in Task : Apart(t, u)

\* Is k there; what is stored under it; and is d as some put of it had it?
Held(k) == IF backend = "memory" THEN map[k] # Absent ELSE dir[k] # NoFile
Bytes(k) == IF backend = "memory" THEN map[k] ELSE inode[dir[k]]
Sound(k, d) == d \in puts[k] \/ TmpPath(k) \in shared

\* What is stored, written, being read or was read is as some put had it; and
\* an acknowledged digest is there until it is deleted.
StoredOK ==
    /\ \A k \in Key : Held(k) => Sound(k, Bytes(k))
    /\ \A t \in Task : Writing(t) => task[t].data \in puts[Target(t)]
    /\ \A t \in Task : Reading(t) => Sound(Target(t), inode[task[t].fd])
    /\ \A t \in Task : task[t].op = "get" /\ task[t].res = "ok" =>
          \A k \in task[t].keys : Sound(k, task[t].data)
    /\ \A v \in Value : puts[HashKey(v)] \subseteq {Blocks(v)}
    /\ acked \subseteq Value
    /\ \A v \in acked : HashKey(v) \in gone \/ Held(HashKey(v))

\* No other task changed k, or can have written into its file.
Untouched(s, k) == k \notin s.dirty /\ TmpPath(k) \notin shared

\* What a task saw is still so: the file it opened is the key's, the key that
\* was missing still is, the blob that matched is there, and a rename's blob
\* is under the old key and then under the new one.
SeenOK(t) ==
    LET s == task[t]
    IN  /\ Reading(t) /\ Target(t) \notin s.dirty => dir[Target(t)] = s.fd
        /\ s.op \in {"put_if_absent", "put_cas"} /\ Len(s.todo) = 1 /\ Target(t) \notin s.dirty =>
              ~Held(Target(t))
        /\ s.op = "delete_if_matches" /\ Len(s.todo) = 1 /\ Untouched(s, Target(t)) =>
              Content(Target(t)) = s.want
        /\ s.op = "rename" /\ Len(s.todo) = 2 => \A k \in s.keys :
              k = s.todo[2].key /\ Untouched(s, k) => Content(k) = s.data
        /\ s.op = "rename" /\ Len(s.todo) = 1 => \A k \in s.keys :
              k # Target(t) /\ Untouched(s, k) => Content(k) = s.data

\* The inductive invariant.
BlobInv ==
    /\ StoreTypes /\ FilesOK /\ StoredOK
    /\ \A t \in Task : TaskOK(task[t]) /\ SeenOK(t)
-----------------------------------------------------------------------------
(***************************************************************************)
(* Names, inodes and files.                                                *)
(***************************************************************************)
\* Keys are records of stem and extension, none of them a temporary name.
LEMMA KeyRecords ==
    \A k \in Key : k = [stem |-> k.stem, ext |-> k.ext] /\ k.ext # "tmp"
  <1>1. \A v \in Value : HashKey(v) = [stem |-> HashKey(v).stem, ext |-> HashKey(v).ext]
    BY DEF HashKey
  <1>2. \A k \in NamedKey : k = [stem |-> k.stem, ext |-> k.ext]
    BY BlobAssumption
  <1>3. \A k \in Key : k.ext # "tmp"
    BY BlobAssumption DEF IsTmp
  <1>. QED BY <1>1, <1>2, <1>3 DEF Key

\* with_extension("tmp") leaves the stem.
LEMMA TmpRecord ==
    ASSUME NEW p, p = [stem |-> p.stem, ext |-> p.ext]
    PROVE  TmpPath(p) = [stem |-> p.stem, ext |-> "tmp"]
  BY DEF TmpPath

\* Temporary names: a family is a temporary file and the keys that use it.
LEMMA TmpFacts ==
    /\ \A k \in Key : k \in Path /\ TmpPath(k) \in Path
    /\ \A p \in Path : TmpPath(p) \in Path /\ TmpPath(TmpPath(p)) = TmpPath(p)
    /\ \A p \in Path, k \in Key : TmpPath(p) # k
    /\ \A p \in Path : p \in Key \/ p = TmpPath(p)
    /\ \A k \in Key : ~IsTmp(k)
  <1>1. \A k \in Key : k \in Path /\ TmpPath(k) \in Path
    BY DEF Path
  <1>2. \A k \in Key : TmpPath(k) = [stem |-> k.stem, ext |-> "tmp"]
    BY KeyRecords, TmpRecord
  <1>3. \A k \in Key : TmpPath(TmpPath(k)) = TmpPath(k)
    <2>1. TAKE k \in Key
    <2>2. TmpPath(k) = [stem |-> TmpPath(k).stem, ext |-> TmpPath(k).ext]
      BY <1>2
    <2>3. TmpPath(TmpPath(k)) = [stem |-> TmpPath(k).stem, ext |-> "tmp"]
      BY <2>2, TmpRecord
    <2>. QED BY <1>2, <2>3
  <1>4. \A p \in Path : p \in Key \/ \E k \in Key : p = TmpPath(k)
    BY DEF Path
  <1>5. \A p \in Path : TmpPath(p) \in Path /\ TmpPath(TmpPath(p)) = TmpPath(p)
    BY <1>1, <1>3, <1>4
  <1>6. \A p \in Path, k \in Key : TmpPath(p) # k
    <2>1. TAKE p \in Path, k \in Key
    <2>2. PICK l \in Key : TmpPath(p) = TmpPath(l)
      BY <1>4, <1>3
    <2>3. TmpPath(l).ext = "tmp"
      BY <1>2
    <2>. QED BY <2>2, <2>3, KeyRecords
  <1>7. \A p \in Path : p \in Key \/ p = TmpPath(p)
    BY <1>3, <1>4
  <1>8. \A k \in Key : ~IsTmp(k)
    BY BlobAssumption
  <1>. QED BY <1>1, <1>5, <1>6, <1>7, <1>8

\* Digests are keys of their own.
LEMMA HashFacts ==
    /\ \A v \in Value : HashKey(v) \in Key /\ HashKey(v) \notin NamedKey /\ HashKey(v).stem = v
    /\ \A v, w \in Value : HashKey(v) = HashKey(w) => v = w
    /\ NamedKey \subseteq Key
  <1>1. \A v \in Value : HashKey(v).stem = v
    BY DEF HashKey
  <1>. QED BY <1>1, BlobAssumption DEF Key

\* An image is no larger than what it is the image of.
LEMMA ImageCardinality ==
    ASSUME NEW S, IsFiniteSet(S), NEW f
    PROVE  IsFiniteSet({f[x] : x \in S}) /\ Cardinality({f[x] : x \in S}) <= Cardinality(S)
  <1> DEFINE g == [x \in S |-> f[x]]
             T == {f[x] : x \in S}
  <1>1. g \in Surjection(S, T)
    BY DEF Surjection
  <1> HIDE DEF g, T
  <1>2. IsFiniteSet(T) /\ Cardinality(T) <= Cardinality(S)
    BY <1>1, FS_Surjection
  <1>. QED BY <1>2 DEF T

\* Finitely many keys and paths.
LEMMA FinitePaths == IsFiniteSet(Path) /\ IsFiniteSet(Key) /\ IsFiniteSet(DOMAIN KeyOrder)
  <1>1. IsFiniteSet(DOMAIN DirOrder) /\ IsFiniteSet(DOMAIN KeyOrder)
    <2>1. DOMAIN DirOrder = 1..Len(DirOrder) /\ Len(DirOrder) \in Nat
      BY BlobAssumption
    <2>2. DOMAIN KeyOrder = 1..Len(KeyOrder) /\ Len(KeyOrder) \in Nat
      BY BlobAssumption
    <2>. QED BY <2>1, <2>2, FS_Interval
  <1>2. IsFiniteSet({DirOrder[i] : i \in DOMAIN DirOrder})
    BY <1>1, ImageCardinality
  <1>3. IsFiniteSet(Path)
    BY <1>2, FS_Subset, BlobAssumption
  <1>4. Key \subseteq Path
    BY DEF Path
  <1>. QED BY <1>1, <1>3, <1>4, FS_Subset

\* There is an inode for every path and every task that has no file open.
LEMMA FreeInodeFacts ==
    ASSUME StoreTypes, \A t \in Task : task[t].fd \in Inode \cup {NoFile},
           NEW t \in Task, task[t].fd = NoFile
    PROVE  /\ FreeInode \in Inode
           /\ \A p \in Path : dir[p] # FreeInode
           /\ \A u \in Task : task[u].fd # FreeInode
  <1> DEFINE fds == [u \in Task |-> task[u].fd]
             names == {dir[p] : p \in Path}
             others == {fds[u] : u \in Task \ {t}}
             taken == names \cup others
             free == Inode \ (names \cup OpenFiles)
             P == Cardinality(Path)
             N == Cardinality(Task)
  <1>1. P \in Nat /\ N \in Nat /\ IsFiniteSet(Path) /\ IsFiniteSet(Task) /\ N > 0
    <2>1. IsFiniteSet(Path) /\ IsFiniteSet(Task)
      BY FinitePaths, BlobAssumption
    <2>2. N # 0
      BY <2>1, FS_EmptySet
    <2>. QED BY <2>1, <2>2, FS_CardinalityType
  <1>2. IsFiniteSet(names) /\ Cardinality(names) <= P
    BY <1>1, ImageCardinality
  <1>3. IsFiniteSet(others) /\ Cardinality(others) <= N - 1
    <2>1. IsFiniteSet(Task \ {t}) /\ Cardinality(Task \ {t}) = N - 1
      BY <1>1, FS_RemoveElement
    <2> HIDE DEF fds
    <2>. QED BY <2>1, ImageCardinality
  <1>4. IsFiniteSet(taken) /\ Cardinality(taken) <= P + N - 1
    <2>1. /\ IsFiniteSet(taken)
          /\ Cardinality(taken) = Cardinality(names) + Cardinality(others) - Cardinality(names \cap others)
      BY <1>2, <1>3, FS_Union
    <2>2. IsFiniteSet(names \cap others)
      BY <1>2, FS_Intersection
    <2>3. Cardinality(names \cap others) \in Nat /\ Cardinality(names) \in Nat /\ Cardinality(others) \in Nat
      BY <1>2, <1>3, <2>2, FS_CardinalityType
    <2> HIDE DEF taken, names, others
    <2>. QED BY <1>1, <1>2, <1>3, <2>1, <2>3
  <1>5. IsFiniteSet(Inode) /\ Cardinality(Inode) = P + N
    <2>1. P + N \in Int /\ 1 \in Int /\ ~(1 > P + N) /\ P + N - 1 + 1 = P + N
      BY <1>1
    <2>2. IsFiniteSet(1..(P + N)) /\ Cardinality(1..(P + N)) = P + N
      BY <2>1, FS_Interval
    <2>. QED BY <2>2 DEF Inode
  <1>6. ~(Inode \subseteq taken)
    <2>1. SUFFICES ASSUME Inode \subseteq taken PROVE FALSE
      OBVIOUS
    <2>2. Cardinality(Inode) <= Cardinality(taken)
      BY <1>4, <2>1, FS_Subset
    <2>3. Cardinality(taken) \in Nat
      BY <1>4, FS_CardinalityType
    <2>. QED BY <1>1, <1>4, <1>5, <2>2, <2>3
  <1>7. free # {}
    <2>1. PICK i \in Inode : i \notin taken
      BY <1>6
    <2>2. i # NoFile
      BY DEF Inode, NoFile
    <2>3. i \notin OpenFiles
      BY <2>1, <2>2 DEF OpenFiles
    <2>. QED BY <2>1, <2>3
  <1>8. free \in SUBSET Nat
    BY <1>1 DEF Inode
  <1>9. FreeInode = Min(free)
    BY DEF FreeInode
  <1>10. FreeInode \in free
    BY <1>7, <1>8, <1>9, LeastMember
  <1>11. FreeInode \in Inode /\ FreeInode \notin names /\ FreeInode \notin OpenFiles /\ FreeInode # NoFile
    BY <1>10 DEF Inode, NoFile
  <1>12. \A u \in Task : task[u].fd # FreeInode
    BY <1>11 DEF OpenFiles
  <1>. QED BY <1>11, <1>12

(***************************************************************************)
(* Tasks.                                                                  *)
(***************************************************************************)
\* All but what others' steps do to a task.
Same(r, s) ==
    /\ r.op = s.op /\ r.todo = s.todo /\ r.res = s.res /\ r.data = s.data /\ r.want = s.want
    /\ r.keys = s.keys /\ r.after = s.after /\ r.limit = s.limit /\ r.fd = s.fd /\ r.at = s.at
    /\ r.seen = s.seen /\ r.out = s.out

\* A task that has returned keeps what its caller gets.
LEMMA ReturnedFacts ==
    ASSUME NEW s, TaskShape(s)
    PROVE  /\ TaskShape(Returned(s))
           /\ s.todo # <<>> => Returned(s) = s
           /\ Returned(s).op = s.op /\ Returned(s).todo = s.todo /\ Returned(s).res = s.res
           /\ Returned(s).data = s.data /\ Returned(s).keys = s.keys /\ Returned(s).out = s.out
           /\ Returned(s).after = s.after /\ Returned(s).limit = s.limit
           /\ Returned(s).ever = s.ever /\ Returned(s).always = s.always
           /\ s.todo = <<>> => /\ Returned(s).fd = NoFile /\ Returned(s).at = 0
                               /\ Returned(s).seen = {} /\ Returned(s).want = <<>>
                               /\ Returned(s).dirty = {}
  <1>1. CASE s.todo # <<>>
    BY <1>1 DEF Returned
  <1>2. CASE s.todo = <<>>
    <2>1. Returned(s) = [op |-> s.op, todo |-> <<>>, res |-> s.res, data |-> s.data, want |-> <<>>,
             keys |-> s.keys, after |-> s.after, limit |-> s.limit, fd |-> NoFile, at |-> 0,
             seen |-> {}, out |-> s.out, dirty |-> {}, ever |-> s.ever, always |-> s.always]
      BY <1>2 DEF Returned, NoTask
    <2>. QED BY <1>2, <2>1 DEF TaskShape
  <1>. QED BY <1>1, <1>2

\* The end of a call: the others learn what it changed.
LEMMA FinishFacts ==
    ASSUME task = [u \in Task |-> task[u]], \A u \in Task : TaskShape(task[u]),
           NEW t \in Task, NEW s, TaskShape(s), NEW changed, NEW now, Finish(t, s, changed, now)
    PROVE  /\ task' = [u \in Task |-> task'[u]]
           /\ \A u \in Task : TaskShape(task'[u])
           /\ \A u \in Task : u # t =>
                /\ Same(task'[u], task[u])
                /\ task'[u].dirty = IF Running(u) THEN task[u].dirty \cup changed ELSE task[u].dirty
                /\ task'[u].ever = IF Running(u) THEN task[u].ever \cup now ELSE task[u].ever
                /\ task'[u].always = IF Running(u) THEN task[u].always \cap now ELSE task[u].always
           /\ Same(task'[t], Returned(s))
           /\ task'[t].dirty = Returned(s).dirty
           /\ task'[t].ever = s.ever \cup now /\ task'[t].always = s.always \cap now
           /\ acked' = acked \cup Acknowledge(s)
           /\ begun' = begun /\ crashes' = crashes
  <1> DEFINE w(u) == IF u = t THEN Returned(s) ELSE task[u]
             x(u) == IF u # t /\ ~Running(u) THEN w(u)
                     ELSE [w(u) EXCEPT !.dirty = IF u = t THEN @ ELSE @ \cup changed,
                                       !.ever = @ \cup now, !.always = @ \cap now]
  <1>1. task' = [u \in Task |-> x(u)]
    BY DEF Finish
  <1>2. \A u \in Task : task'[u] = x(u)
    BY <1>1
  <1>3. TaskShape(Returned(s)) /\ Returned(s).ever = s.ever /\ Returned(s).always = s.always
    BY ReturnedFacts
  <1>4. /\ TaskShape(task'[t]) /\ Same(task'[t], Returned(s)) /\ task'[t].dirty = Returned(s).dirty
        /\ task'[t].ever = s.ever \cup now /\ task'[t].always = s.always \cap now
    <2>1. task'[t] = [Returned(s) EXCEPT !.ever = @ \cup now, !.always = @ \cap now]
      <3>1. task'[t] = [Returned(s) EXCEPT !.dirty = @, !.ever = @ \cup now, !.always = @ \cap now]
        BY <1>2
      <3>2. [Returned(s) EXCEPT !.dirty = @] = Returned(s)
        BY <1>3 DEF TaskShape
      <3>. QED BY <3>1, <3>2, <1>3 DEF TaskShape
    <2> DEFINE z == Returned(s)
    <2>2. task'[t] = [z EXCEPT !.ever = @ \cup now, !.always = @ \cap now] /\ TaskShape(z)
      BY <2>1, <1>3
    <2>3. z.ever = s.ever /\ z.always = s.always
      BY <1>3
    <2> HIDE DEF z
    <2>4. TaskShape(task'[t]) /\ Same(task'[t], z) /\ task'[t].dirty = z.dirty
      BY <2>2 DEF TaskShape, Same
    <2>5. task'[t].ever = z.ever \cup now /\ task'[t].always = z.always \cap now
      BY <2>2 DEF TaskShape
    <2>. QED BY <2>3, <2>4, <2>5 DEF z
  <1>5. ASSUME NEW u \in Task, u # t
        PROVE  /\ TaskShape(task'[u]) /\ Same(task'[u], task[u])
               /\ task'[u].dirty = IF Running(u) THEN task[u].dirty \cup changed ELSE task[u].dirty
               /\ task'[u].ever = IF Running(u) THEN task[u].ever \cup now ELSE task[u].ever
               /\ task'[u].always = IF Running(u) THEN task[u].always \cap now ELSE task[u].always
    <2>1. CASE ~Running(u)
      <3>1. task'[u] = task[u]
        BY <1>2, <1>5, <2>1
      <3>. QED BY <2>1, <3>1 DEF Same
    <2>2. CASE Running(u)
      <3>1. task'[u] = [task[u] EXCEPT !.dirty = @ \cup changed, !.ever = @ \cup now, !.always = @ \cap now]
        BY <1>2, <1>5, <2>2
      <3>2. TaskShape(task[u])
        OBVIOUS
      <3>. QED BY <2>2, <3>1, <3>2 DEF TaskShape, Same
    <2>. QED BY <2>1, <2>2
  <1>6. task' = [u \in Task |-> task'[u]]
    BY <1>1
  <1>7. acked' = acked \cup Acknowledge(s) /\ begun' = begun /\ crashes' = crashes
    BY DEF Finish
  <1>. QED BY <1>4, <1>5, <1>6, <1>7

\* What follows a call.
LEMMA AfterFacts ==
    ASSUME NEW s, NEW o, TaskShape(s)
    PROVE  LET r == After(s, o)
               meaning == Meaning(s.op, Head(s.todo).do, o)
           IN  /\ TaskShape(r)
               /\ r.op = s.op /\ r.data = s.data /\ r.want = s.want /\ r.keys = s.keys
               /\ r.after = s.after /\ r.limit = s.limit /\ r.seen = s.seen /\ r.out = s.out
               /\ r.dirty = s.dirty /\ r.ever = s.ever /\ r.always = s.always
               /\ r.fd = NoFile /\ r.at = 0
               /\ r.todo = IF meaning = "go" THEN Tail(s.todo) ELSE <<>>
               /\ r.res = IF r.todo # <<>> THEN "none" ELSE IF meaning = "go" THEN "ok" ELSE meaning
  <1> DEFINE meaning == Meaning(s.op, Head(s.todo).do, o)
             left == IF meaning = "go" THEN Tail(s.todo) ELSE <<>>
             res == IF left # <<>> THEN "none" ELSE IF meaning = "go" THEN "ok" ELSE meaning
  <1>1. After(s, o) = [s EXCEPT !.todo = left, !.fd = NoFile, !.at = 0, !.res = res]
    BY DEF After
  <1> HIDE DEF left, res
  <1>2. /\ TaskShape(After(s, o)) /\ After(s, o).todo = left /\ After(s, o).res = res
        /\ After(s, o).op = s.op /\ After(s, o).data = s.data /\ After(s, o).want = s.want
        /\ After(s, o).keys = s.keys /\ After(s, o).after = s.after /\ After(s, o).limit = s.limit
        /\ After(s, o).seen = s.seen /\ After(s, o).out = s.out /\ After(s, o).dirty = s.dirty
        /\ After(s, o).ever = s.ever /\ After(s, o).always = s.always
        /\ After(s, o).fd = NoFile /\ After(s, o).at = 0
    BY <1>1 DEF TaskShape
  <1>. QED BY <1>2 DEF left, res

\* Short plans.
LEMMA TupleTails ==
    ASSUME NEW a, NEW b, NEW c
    PROVE  /\ Tail(<<a>>) = <<>> /\ Tail(<<a, b>>) = <<b>> /\ Tail(<<a, b, c>>) = <<b, c>>
           /\ Head(<<a>>) = a /\ Head(<<a, b>>) = a /\ Head(<<a, b, c>>) = a
           /\ Len(<<a>>) = 1 /\ Len(<<a, b>>) = 2 /\ Len(<<a, b, c>>) = 3 /\ Len(<<>>) = 0
           /\ <<a, b>>[2] = b
           /\ <<a>> # <<>> /\ <<a, b>> # <<>> /\ <<a, b, c>> # <<>>
  OBVIOUS

\* A call less, or none left, is still a plan.
LEMMA PlannedTail ==
    ASSUME NEW s, NEW r, Planned(s), s.todo # <<>>, r.op = s.op, r.keys = s.keys,
           r.data = s.data \/ s.op # "put_cas", r.todo \in {s.todo, Tail(s.todo), <<>>}
    PROVE  Planned(r)
  <1>1. r.todo \in Seq(Calls) /\ \A i \in DOMAIN r.todo : \E j \in DOMAIN s.todo : r.todo[i] = s.todo[j]
    <2>0. s.todo \in Seq(Calls)
      BY DEF Planned
    <2>1. CASE r.todo = s.todo
      BY <2>0, <2>1
    <2>2. CASE r.todo = <<>>
      BY <2>2
    <2>3. CASE r.todo = Tail(s.todo)
      <3>1. Len(s.todo) \in Nat /\ Len(s.todo) # 0 /\ Tail(s.todo) \in Seq(Calls)
        BY <2>0
      <3>2. DOMAIN Tail(s.todo) = 1..(Len(s.todo) - 1)
        BY <2>0, <3>1
      <3>3. ASSUME NEW i \in DOMAIN r.todo PROVE i + 1 \in DOMAIN s.todo /\ r.todo[i] = s.todo[i + 1]
        BY <2>0, <2>3, <3>1, <3>2
      <3>. QED BY <2>3, <3>1, <3>3
    <2>. QED BY <2>1, <2>2, <2>3
  <1>2. \A i \in DOMAIN r.todo : r.todo[i].do = "put" => r.op = "put_cas" \/ r.todo[i].key \in NamedKey
    BY <1>1 DEF Planned
  <1>3. r.op = "put_cas" => \E v \in Value :
          r.data = Blocks(v) /\ r.todo \in {<<Call("head", HashKey(v)), Call("put", HashKey(v))>>,
                                            <<Call("put", HashKey(v))>>, <<>>}
    <2>1. HAVE r.op = "put_cas"
    <2>2. PICK v \in Value :
          s.data = Blocks(v) /\ s.todo \in {<<Call("head", HashKey(v)), Call("put", HashKey(v))>>,
                                            <<Call("put", HashKey(v))>>, <<>>}
      BY <2>1 DEF Planned
    <2>3. r.todo \in {s.todo, Tail(s.todo), <<>>} /\ s.todo # <<>>
      OBVIOUS
    <2>4. /\ Tail(<<Call("head", HashKey(v)), Call("put", HashKey(v))>>) = <<Call("put", HashKey(v))>>
          /\ Tail(<<Call("put", HashKey(v))>>) = <<>>
      BY TupleTails
    <2>. QED BY <2>1, <2>2, <2>3, <2>4
  <1>4. r.op = "put_if_absent" => \E k \in Key :
          r.todo \in {<<Call("head", k), Call("put", k)>>, <<Call("put", k)>>, <<>>}
    <2>1. HAVE r.op = "put_if_absent"
    <2>2. PICK k \in Key :
          s.todo \in {<<Call("head", k), Call("put", k)>>, <<Call("put", k)>>, <<>>}
      BY <2>1 DEF Planned
    <2>3. r.todo \in {s.todo, Tail(s.todo), <<>>} /\ s.todo # <<>>
      OBVIOUS
    <2>4. /\ Tail(<<Call("head", k), Call("put", k)>>) = <<Call("put", k)>>
          /\ Tail(<<Call("put", k)>>) = <<>>
      BY TupleTails
    <2>. QED BY <2>1, <2>2, <2>3, <2>4
  <1>5. r.op = "delete_if_matches" => \E k \in Key :
          r.todo \in {<<Call("get", k), Call("delete", k)>>, <<Call("delete", k)>>, <<>>}
    <2>1. HAVE r.op = "delete_if_matches"
    <2>2. PICK k \in Key :
          s.todo \in {<<Call("get", k), Call("delete", k)>>, <<Call("delete", k)>>, <<>>}
      BY <2>1 DEF Planned
    <2>3. r.todo \in {s.todo, Tail(s.todo), <<>>} /\ s.todo # <<>>
      OBVIOUS
    <2>4. /\ Tail(<<Call("get", k), Call("delete", k)>>) = <<Call("delete", k)>>
          /\ Tail(<<Call("delete", k)>>) = <<>>
      BY TupleTails
    <2>. QED BY <2>1, <2>2, <2>3, <2>4
  <1>6. r.op = "rename" => \E k, l \in Key :
          /\ r.keys = {k, l}
          /\ r.todo \in {<<Call("get", k), Call("put", l), Call("delete", k)>>,
                         <<Call("put", l), Call("delete", k)>>, <<Call("delete", k)>>, <<>>}
    <2>1. HAVE r.op = "rename"
    <2>2. PICK k, l \in Key :
          /\ s.keys = {k, l}
          /\ s.todo \in {<<Call("get", k), Call("put", l), Call("delete", k)>>,
                         <<Call("put", l), Call("delete", k)>>, <<Call("delete", k)>>, <<>>}
      BY <2>1 DEF Planned
    <2>3. r.todo \in {s.todo, Tail(s.todo), <<>>} /\ s.todo # <<>>
      OBVIOUS
    <2>4. /\ Tail(<<Call("get", k), Call("put", l), Call("delete", k)>>) = <<Call("put", l), Call("delete", k)>>
          /\ Tail(<<Call("put", l), Call("delete", k)>>) = <<Call("delete", k)>>
          /\ Tail(<<Call("delete", k)>>) = <<>>
      BY TupleTails
    <2>. QED BY <2>1, <2>2, <2>3, <2>4
  <1>7. r.op = "get" => \E k \in Key : r.keys = {k} /\ r.todo \in {<<Call("get", k)>>, <<>>}
    BY DEF Planned
  <1>. QED BY <1>1, <1>2, <1>3, <1>4, <1>5, <1>6, <1>7 DEF Planned

(***************************************************************************)
(* Open files.                                                             *)
(***************************************************************************)
Fixed(u) ==
    /\ task'[u].todo = task[u].todo /\ task'[u].fd = task[u].fd
    /\ task'[u].data = task[u].data /\ task'[u].at = task[u].at

\* What a task does with its file, when the step leaves the task alone.
LEMMA FixedFacts ==
    ASSUME NEW u, Fixed(u)
    PROVE  /\ Open(u)' <=> Open(u)
           /\ Writing(u)' <=> Writing(u)
           /\ Reading(u)' <=> Reading(u)
           /\ Target(u)' = Target(u) /\ Tmp(u)' = Tmp(u)
           /\ Running(u)' <=> Running(u)
  BY DEF Fixed, Open, Writing, Reading, Calling, Running, Target, Tmp

\* A task without a file.
LEMMA ClosedFacts ==
    ASSUME NEW u, task[u].fd = NoFile
    PROVE  ~Open(u) /\ ~Writing(u) /\ ~Reading(u)
  BY DEF Open, Writing, Reading

\* The contents of blobs are sequences.
LEMMA DataFacts ==
    ASSUME NEW d, IsData(d)
    PROVE  /\ Len(d) \in Lengths /\ Len(d) \in Nat /\ DOMAIN d = 1..Len(d)
           /\ d = [j \in 1..Len(d) |-> d[j]]
           /\ \A j \in 1..Len(d) : d[j] \in (Value \X {j}) \cup {Hole}
           /\ d \in Datum
  <1>1. PICK n \in Lengths : /\ d \in [1..n -> (Value \X (1..n)) \cup {Hole}]
                             /\ \A j \in 1..n : d[j] \in (Value \X {j}) \cup {Hole}
    BY DEF IsData
  <1>2. n \in Nat
    BY BlobAssumption DEF Lengths
  <1>3. Len(d) = n
    BY <1>1, <1>2
  <1>4. d \in Datum
    BY <1>1 DEF Datum, Lengths
  <1>. QED BY <1>1, <1>2, <1>3, <1>4

\* The call a task is at.
LEMMA CallFacts ==
    ASSUME NEW u \in Task, TaskOK(task[u]), Running(u)
    PROVE  /\ Head(task[u].todo) \in Calls
           /\ Calling(u, "put") \/ Calling(u, "get") \/ Calling(u, "delete") \/ Calling(u, "head") =>
                Target(u) \in Key /\ Tmp(u) \in Path /\ Tmp(u) \notin Key
           /\ Calling(u, "put") => task[u].op = "put_cas" \/ Target(u) \in NamedKey
  <1>1. task[u].todo \in Seq(Calls) /\ task[u].todo # <<>>
    BY DEF TaskOK, Planned, Running
  <1>2. Head(task[u].todo) \in Calls /\ Head(task[u].todo) = task[u].todo[1] /\ 1 \in DOMAIN task[u].todo
    BY <1>1
  <1>3. \A c \in Calls : c.do \in {"put", "get", "delete", "head"} => c.key \in Key
    BY DEF Calls
  <1>4. Calling(u, "put") \/ Calling(u, "get") \/ Calling(u, "delete") \/ Calling(u, "head") => Target(u) \in Key
    BY <1>2, <1>3 DEF Calling, Target
  <1>5. Target(u) \in Key => Tmp(u) \in Path /\ Tmp(u) \notin Key
    BY TmpFacts DEF Tmp
  <1>6. Calling(u, "put") => task[u].op = "put_cas" \/ Target(u) \in NamedKey
    BY <1>2 DEF TaskOK, Planned, Calling, Target
  <1>. QED BY <1>2, <1>4, <1>5, <1>6

\* The files of readers and writers.
LEMMA WritingFacts ==
    ASSUME NEW u \in Task, TaskOK(task[u]), Writing(u) \/ Reading(u)
    PROVE  Target(u) \in Key /\ Target(u) \in Path /\ Tmp(u) \in Path /\ Tmp(u) \notin Key
           /\ task[u].fd # NoFile
  BY CallFacts, TmpFacts DEF Writing, Reading, Open, Calling

\* Names are dropped and files closed.
LEMMA FilesDropped ==
    ASSUME FilesOK, \A u \in Task : TaskOK(task[u]),
           \A u \in Task : Fixed(u) \/ task'[u].fd = NoFile,
           \A p \in Path : dir'[p] \in {dir[p], NoFile}, inode' = inode, shared' = shared
    PROVE  FilesOK'
  <1>0. \A u \in Task : task[u].fd \in Inode \cup {NoFile}
    BY DEF FilesOK, Named
  <1>1. \A i \in Inode : i # NoFile
    BY DEF Inode, NoFile
  <1>2. \A u \in Task : Open(u)' => Fixed(u) /\ Open(u) /\ task[u].fd \in Inode /\ task[u].fd # NoFile
    <2>1. TAKE u \in Task
    <2>2. HAVE Open(u)'
    <2>3. Fixed(u)
      BY <2>2 DEF Open
    <2>. QED BY <2>2, <2>3, FixedFacts, <1>0 DEF Open
  <1>3. \A u \in Task : Writing(u)' \/ Reading(u)' => Open(u)'
    BY DEF Writing, Reading
  <1>4. OneName'
    BY DEF FilesOK, OneName
  <1>5. ASSUME NEW u \in Task PROVE Named(u)'
    <2>1. CASE Open(u)'
      <3>1. Fixed(u) /\ Open(u) /\ task[u].fd # NoFile /\ task'[u].fd = task[u].fd
        BY <1>2, <2>1 DEF Fixed
      <3>2. (Writing(u)' <=> Writing(u)) /\ (Reading(u)' <=> Reading(u)) /\ Target(u)' = Target(u) /\ Tmp(u)' = Tmp(u)
        BY <3>1, FixedFacts
      <3>3. Named(u)
        BY DEF FilesOK
      <3>4. \A p \in Path : dir'[p] = task[u].fd => dir[p] = task[u].fd
        BY <3>1
      <3>. QED BY <2>1, <3>1, <3>2, <3>3, <3>4 DEF Named
    <2>2. CASE ~Open(u)'
      <3>1. task'[u].fd = NoFile /\ ~Reading(u)'
        BY <2>2, <1>3 DEF Open
      <3>. QED BY <2>2, <3>1 DEF Named
    <2>. QED BY <2>1, <2>2
  <1>6. ASSUME NEW u \in Task PROVE Alone(u)'
    <2>1. SUFFICES ASSUME Writing(u)', Tmp(u)' \notin shared'
                   PROVE  /\ \A p \in Path : dir'[p] = task'[u].fd => p = Tmp(u)'
                          /\ dir'[Tmp(u)'] \in {NoFile, task'[u].fd}
                          /\ \A x \in Task : task'[x].fd = task'[u].fd => x = u
                          /\ task'[u].at \in 0..Len(task'[u].data)
                          /\ inode'[task'[u].fd] = [j \in 1..task'[u].at |-> task'[u].data[j]]
      BY DEF Alone
    <2>2. Fixed(u) /\ Open(u) /\ task[u].fd # NoFile
      BY <1>2, <1>3, <2>1
    <2>3. Writing(u) /\ Tmp(u)' = Tmp(u) /\ Tmp(u) \notin shared
      BY <2>1, <2>2, FixedFacts
    <2>4. /\ \A p \in Path : dir[p] = task[u].fd => p = Tmp(u)
          /\ dir[Tmp(u)] \in {NoFile, task[u].fd}
          /\ \A x \in Task : task[x].fd = task[u].fd => x = u
          /\ task[u].at \in 0..Len(task[u].data)
          /\ inode[task[u].fd] = [j \in 1..task[u].at |-> task[u].data[j]]
      BY <2>3 DEF FilesOK, Alone
    <2>5. task'[u].fd = task[u].fd /\ task'[u].at = task[u].at /\ task'[u].data = task[u].data
      BY <2>2 DEF Fixed
    <2>6. \A x \in Task : task'[x].fd = task[u].fd => task[x].fd = task[u].fd
      BY <2>2 DEF Fixed
    <2>7. Tmp(u) \in Path => dir'[Tmp(u)] \in {dir[Tmp(u)], NoFile}
      OBVIOUS
    <2>8. Tmp(u) \in Path
      BY <2>3, WritingFacts
    <2>. QED BY <2>2, <2>3, <2>4, <2>5, <2>6, <2>7, <2>8
  <1>7. ASSUME NEW u \in Task, NEW x \in Task PROVE Apart(u, x)'
    <2>1. Apart(u, x)
      BY DEF FilesOK
    <2>2. ASSUME Open(u)', task'[u].fd = task'[x].fd PROVE Tmp(u)' = Tmp(x)'
      <3>1. Open(x)'
        BY <2>2 DEF Open
      <3>2. Fixed(u) /\ Fixed(x) /\ Open(u)
        BY <1>2, <2>2, <3>1
      <3>3. task[u].fd = task[x].fd
        BY <2>2, <3>2 DEF Fixed
      <3>. QED BY <2>1, <3>2, <3>3, FixedFacts DEF Apart
    <2>3. ASSUME Writing(u)', Writing(x)', Tmp(u)' = Tmp(x)' PROVE u = x \/ Tmp(u)' \in shared'
      <3>1. Fixed(u) /\ Fixed(x)
        BY <1>2, <1>3, <2>3
      <3>. QED BY <2>1, <2>3, <3>1, FixedFacts DEF Apart
    <2>. QED BY <2>2, <2>3 DEF Apart
  <1>. QED BY <1>4, <1>5, <1>6, <1>7 DEF FilesOK

\* A temporary file is created or truncated.
LEMMA FilesOpened ==
    ASSUME StoreTypes, FilesOK, \A u \in Task : TaskOK(task[u]), NEW t \in Task, OpenTmp(t)
    PROVE  FilesOK'
  <1> DEFINE tmp == Tmp(t)
             i == IF dir[tmp] = NoFile THEN FreeInode ELSE dir[tmp]
  <1>1. /\ Calling(t, "put") /\ task[t].fd = NoFile
        /\ dir' = [dir EXCEPT ![tmp] = i] /\ inode' = [inode EXCEPT ![i] = <<>>]
        /\ task' = [task EXCEPT ![t].fd = i, ![t].at = 0]
        /\ shared' = shared \cup (IF Writers(t, tmp) = {} THEN {} ELSE {tmp})
    BY DEF OpenTmp, Tmp
  <1>2. Target(t) \in Key /\ tmp \in Path /\ tmp \notin Key /\ TmpPath(tmp) = tmp /\ Running(t)
    BY <1>1, CallFacts, TmpFacts DEF Calling, Tmp
  <1>3. \A u \in Task : task[u].fd \in Inode \cup {NoFile}
    BY DEF FilesOK, Named
  <1>4. /\ FreeInode \in Inode /\ \A p \in Path : dir[p] # FreeInode
        /\ \A u \in Task : task[u].fd # FreeInode
    BY <1>1, <1>3, FreeInodeFacts
  <1>5. i \in Inode /\ i # NoFile /\ (i = dir[tmp] \/ i = FreeInode)
    <2>1. dir[tmp] \in Inode \cup {NoFile}
      BY <1>2 DEF StoreTypes
    <2>. QED BY <2>1, <1>4 DEF Inode, NoFile
  <1> HIDE DEF i
  <1>6. \A p \in Path : dir'[p] = IF p = tmp THEN i ELSE dir[p]
    BY <1>1, <1>2 DEF StoreTypes
  <1>7. \A j \in Inode : inode'[j] = IF j = i THEN <<>> ELSE inode[j]
    BY <1>1 DEF StoreTypes
  <1>8. /\ task'[t].fd = i /\ task'[t].at = 0 /\ task'[t].todo = task[t].todo /\ task'[t].data = task[t].data
        /\ \A u \in Task : u # t => task'[u] = task[u]
    <2>1. \A u \in Task : task'[u] = IF u = t THEN [task[t] EXCEPT !.fd = i, !.at = 0] ELSE task[u]
      BY <1>1 DEF StoreTypes
    <2>2. TaskShape(task[t])
      BY DEF TaskOK
    <2>. QED BY <2>1, <2>2 DEF TaskShape
  <1>9. \A u \in Task : u # t => Fixed(u)
    BY <1>8 DEF Fixed
  <1>10. shared \subseteq shared' /\ (Writers(t, tmp) # {} => tmp \in shared')
    BY <1>1
  <1>11. Writing(t)' /\ ~Reading(t)' /\ Target(t)' = Target(t) /\ Tmp(t)' = tmp
    BY <1>1, <1>5, <1>8 DEF Writing, Reading, Open, Calling, Running, Target, Tmp
  <1>12. ASSUME NEW p \in Path, dir[p] = i PROVE p = tmp
    <2>1. i = dir[tmp]
      BY <1>4, <1>5, <1>12
    <2>. QED BY <2>1, <1>2, <1>5, <1>12 DEF FilesOK, OneName
  <1>13. ASSUME NEW u \in Task, u # t, task[u].fd = i
         PROVE  tmp = Tmp(u) /\ Writing(u) /\ ~Reading(u) /\ tmp \in shared'
    <2>1. i = dir[tmp] /\ Open(u)
      BY <1>4, <1>5, <1>13 DEF Open
    <2>2. Named(u)
      BY DEF FilesOK
    <2>3. tmp = Tmp(u)
      BY <1>2, <1>13, <2>1, <2>2 DEF Named
    <2>4. ~Reading(u)
      BY <1>2, <1>13, <2>1, <2>2, WritingFacts DEF Named
    <2>5. Writing(u)
      BY <2>1, <2>2, <2>4 DEF Named
    <2>6. u \in Writers(t, tmp)
      BY <1>13, <2>3, <2>5 DEF Writers, Writing, Open, Tmp
    <2>. QED BY <1>10, <2>3, <2>4, <2>5, <2>6
  <1>14. ASSUME NEW u \in Task, u # t, Writing(u), Tmp(u) = tmp PROVE tmp \in shared'
    <2>1. u \in Writers(t, tmp)
      BY <1>14 DEF Writers, Writing, Open, Tmp
    <2>. QED BY <1>10, <2>1
  <1>15. OneName'
    <2>1. SUFFICES ASSUME NEW p \in Path, NEW q \in Path, dir'[p] = dir'[q]
                   PROVE  p = q \/ dir'[p] = NoFile
      BY DEF OneName
    <2>. QED BY <2>1, <1>6, <1>12 DEF FilesOK, OneName
  <1>16. ASSUME NEW u \in Task PROVE Named(u)'
    <2>1. CASE u = t
      <3>1. \A p \in Path : dir'[p] = i => p = tmp
        BY <1>6, <1>12
      <3>. QED BY <2>1, <3>1, <1>2, <1>5, <1>8, <1>11 DEF Named
    <2>2. CASE u # t
      <3>1. /\ Open(u)' <=> Open(u)
            /\ Writing(u)' <=> Writing(u)
            /\ Reading(u)' <=> Reading(u)
            /\ Target(u)' = Target(u) /\ Tmp(u)' = Tmp(u) /\ task'[u].fd = task[u].fd
        BY <1>8, <1>9, <2>2, FixedFacts
      <3>2. Named(u)
        BY DEF FilesOK
      <3>3. \A p \in Path : dir'[p] = task[u].fd => dir[p] = task[u].fd \/ (p = tmp /\ task[u].fd = i)
        BY <1>6
      <3>. QED BY <2>2, <3>1, <3>2, <3>3, <1>2, <1>13 DEF Named
    <2>. QED BY <2>1, <2>2
  <1>17. ASSUME NEW u \in Task PROVE Alone(u)'
    <2>1. SUFFICES ASSUME Writing(u)', Tmp(u)' \notin shared'
                   PROVE  /\ \A p \in Path : dir'[p] = task'[u].fd => p = Tmp(u)'
                          /\ dir'[Tmp(u)'] \in {NoFile, task'[u].fd}
                          /\ \A x \in Task : task'[x].fd = task'[u].fd => x = u
                          /\ task'[u].at \in 0..Len(task'[u].data)
                          /\ inode'[task'[u].fd] = [j \in 1..task'[u].at |-> task'[u].data[j]]
      BY DEF Alone
    <2>2. CASE u = t
      <3>1. \A p \in Path : dir'[p] = i => p = tmp
        BY <1>6, <1>12
      <3>2. \A x \in Task : task'[x].fd = i => x = t
        BY <1>8, <1>11, <1>13, <2>1, <2>2
      <3>3. dir'[tmp] = i
        BY <1>2, <1>6
      <3>4. 0 \in 0..Len(task[t].data)
        <4>1. IsData(task[t].data)
          BY DEF TaskOK
        <4>2. Len(task[t].data) \in Nat
          BY <4>1, DataFacts
        <4>. QED BY <4>2
      <3>5. inode'[i] = [j \in 1..0 |-> task[t].data[j]]
        BY <1>5, <1>7
      <3>. QED BY <2>2, <3>1, <3>2, <3>3, <3>4, <3>5, <1>8, <1>11
    <2>3. CASE u # t
      <3>1. Writing(u) /\ Tmp(u)' = Tmp(u) /\ Tmp(u) \notin shared /\ task'[u] = task[u]
        BY <1>8, <1>9, <1>10, <2>1, <2>3, FixedFacts
      <3>2. /\ \A p \in Path : dir[p] = task[u].fd => p = Tmp(u)
            /\ dir[Tmp(u)] \in {NoFile, task[u].fd}
            /\ \A x \in Task : task[x].fd = task[u].fd => x = u
            /\ task[u].at \in 0..Len(task[u].data)
            /\ inode[task[u].fd] = [j \in 1..task[u].at |-> task[u].data[j]]
        BY <3>1 DEF FilesOK, Alone
      <3>3. Tmp(u) # tmp /\ task[u].fd # i
        BY <1>13, <1>14, <2>1, <2>3, <3>1
      <3>4. task[u].fd \in Inode /\ Tmp(u) \in Path
        BY <3>1, <1>3, WritingFacts
      <3>5. inode'[task[u].fd] = inode[task[u].fd] /\ dir'[Tmp(u)] = dir[Tmp(u)]
        BY <1>6, <1>7, <3>3, <3>4
      <3>6. \A p \in Path : dir'[p] = task[u].fd => dir[p] = task[u].fd
        BY <1>6, <3>3
      <3>7. \A x \in Task : task'[x].fd = task[u].fd => x = u
        BY <1>8, <3>2, <3>3
      <3>. QED BY <3>1, <3>2, <3>5, <3>6, <3>7
    <2>. QED BY <2>2, <2>3
  <1>18. ASSUME NEW u \in Task, NEW x \in Task PROVE Apart(u, x)'
    <2>1. Apart(u, x)
      BY DEF FilesOK
    <2>2. ASSUME Open(u)', task'[u].fd = task'[x].fd PROVE Tmp(u)' = Tmp(x)'
      <3>1. CASE u = t /\ x = t
        BY <3>1
      <3>2. CASE u = t /\ x # t
        <4>1. task[x].fd = i /\ Tmp(x)' = Tmp(x)
          BY <1>8, <1>9, <2>2, <3>2, FixedFacts
        <4>. QED BY <4>1, <3>2, <1>11, <1>13
      <3>3. CASE u # t /\ x = t
        <4>1. task[u].fd = i /\ Tmp(u)' = Tmp(u)
          BY <1>8, <1>9, <2>2, <3>3, FixedFacts
        <4>. QED BY <4>1, <3>3, <1>11, <1>13
      <3>4. CASE u # t /\ x # t
        <4>1. task'[u].fd = task[u].fd /\ task'[x].fd = task[x].fd
          BY <1>8, <3>4
        <4>. QED BY <4>1, <3>4, <1>9, <2>1, <2>2, FixedFacts DEF Apart
      <3>. QED BY <3>1, <3>2, <3>3, <3>4
    <2>3. ASSUME Writing(u)', Writing(x)', Tmp(u)' = Tmp(x)' PROVE u = x \/ Tmp(u)' \in shared'
      <3>1. CASE u = x
        BY <3>1
      <3>2. CASE u = t /\ x # t
        BY <1>9, <1>11, <1>14, <2>3, <3>2, FixedFacts
      <3>3. CASE u # t /\ x = t
        BY <1>9, <1>11, <1>14, <2>3, <3>3, FixedFacts
      <3>4. CASE u # t /\ x # t
        BY <3>4, <1>9, <1>10, <2>1, <2>3, FixedFacts DEF Apart
      <3>. QED BY <3>1, <3>2, <3>3, <3>4
    <2>. QED BY <2>2, <2>3 DEF Apart
  <1>. QED BY <1>15, <1>16, <1>17, <1>18 DEF FilesOK

\* Overwriting a block of a file.
LEMMA OverwriteFacts ==
    ASSUME NEW c, IsData(c), NEW d, IsData(d), NEW n \in Nat, n < Len(d)
    PROVE  /\ IsData(Overwrite(c, n + 1, d[n + 1]))
           /\ c = [j \in 1..n |-> d[j]] => Overwrite(c, n + 1, d[n + 1]) = [j \in 1..(n + 1) |-> d[j]]
  <1> DEFINE m == Max({Len(c), n + 1})
             o == Overwrite(c, n + 1, d[n + 1])
  <1>1. Len(c) \in Nat /\ Len(d) \in Nat /\ Len(c) \in Lengths /\ Len(d) \in Lengths
    BY DataFacts
  <1>2. m = IF Len(c) >= n + 1 THEN Len(c) ELSE n + 1
    <2>1. \E x \in {Len(c), n + 1} : \A y \in {Len(c), n + 1} : x >= y
      BY <1>1
    <2>2. m \in {Len(c), n + 1} /\ \A y \in {Len(c), n + 1} : m >= y
      BY <2>1 DEF Max
    <2>. QED BY <1>1, <2>2
  <1>3. n + 1 \in Lengths
    <2>1. PICK v \in Value : Len(d) \in 0..Size(v)
      BY <1>1 DEF Lengths
    <2>2. n + 1 \in 0..Size(v)
      BY <1>1, <2>1, BlobAssumption
    <2>. QED BY <2>2 DEF Lengths
  <1>4. m \in Lengths /\ m \in Nat
    BY <1>1, <1>2, <1>3
  <1>5. o = [j \in 1..m |-> IF j = n + 1 THEN d[n + 1] ELSE IF j <= Len(c) THEN c[j] ELSE Hole]
    BY DEF Overwrite
  <1>6. /\ \A j \in 1..Len(c) : c[j] \in (Value \X {j}) \cup {Hole}
        /\ \A j \in 1..Len(d) : d[j] \in (Value \X {j}) \cup {Hole}
    BY DataFacts
  <1>7. d[n + 1] \in (Value \X {n + 1}) \cup {Hole}
    BY <1>1, <1>6
  <1> HIDE DEF m, o
  <1>8. \A j \in 1..m : o[j] \in (Value \X {j}) \cup {Hole}
    <2>1. TAKE j \in 1..m
    <2>2. CASE j = n + 1
      <3>1. o[j] = d[n + 1]
        BY <1>5, <2>2
      <3>. QED BY <1>7, <2>2, <3>1
    <2>3. CASE j # n + 1 /\ j <= Len(c)
      <3>1. j \in 1..Len(c) /\ o[j] = c[j]
        BY <1>1, <1>4, <1>5, <2>3
      <3>. QED BY <1>6, <3>1
    <2>4. CASE j # n + 1 /\ ~(j <= Len(c))
      BY <1>5, <2>4
    <2>. QED BY <2>2, <2>3, <2>4
  <1>9. \A j \in 1..m : o[j] \in (Value \X (1..m)) \cup {Hole}
    BY <1>8
  <1>10. o \in [1..m -> (Value \X (1..m)) \cup {Hole}]
    BY <1>5, <1>9
  <1>11. IsData(o)
    BY <1>4, <1>8, <1>10 DEF IsData
  <1>12. ASSUME c = [j \in 1..n |-> d[j]] PROVE o = [j \in 1..(n + 1) |-> d[j]]
    <2>1. Len(c) = n
      BY <1>12
    <2>2. m = n + 1
      BY <1>2, <2>1
    <2>3. \A j \in 1..(n + 1) : (IF j = n + 1 THEN d[n + 1] ELSE IF j <= Len(c) THEN c[j] ELSE Hole) = d[j]
      BY <1>12, <2>1
    <2>. QED BY <1>5, <2>2, <2>3
  <1>. QED BY <1>11, <1>12 DEF o

\* A block is written.
LEMMA FilesWritten ==
    ASSUME StoreTypes, FilesOK, \A u \in Task : TaskOK(task[u]), NEW t \in Task, WriteBlock(t)
    PROVE  FilesOK'
  <1> DEFINE n == task[t].at
             f == task[t].fd
             d == task[t].data
  <1>1. /\ Writing(t) /\ f # NoFile /\ n < Len(d) /\ dir' = dir /\ shared' = shared
        /\ inode' = [inode EXCEPT ![f] = Overwrite(@, n + 1, d[n + 1])]
        /\ task' = [task EXCEPT ![t].at = n + 1]
    BY DEF WriteBlock, Writing, Open, history
  <1>2. IsData(d) /\ n \in Nat /\ TaskShape(task[t])
    BY DEF TaskOK
  <1>3. f \in Inode /\ IsData(inode[f])
    BY <1>1 DEF FilesOK, Named, StoreTypes
  <1>4. /\ task'[t].fd = f /\ task'[t].at = n + 1 /\ task'[t].todo = task[t].todo /\ task'[t].data = d
        /\ \A u \in Task : u # t => task'[u] = task[u]
    <2>1. \A u \in Task : task'[u] = IF u = t THEN [task[t] EXCEPT !.at = n + 1] ELSE task[u]
      BY <1>1 DEF StoreTypes
    <2>. QED BY <2>1, <1>2 DEF TaskShape
  <1>5. \A u \in Task : /\ task'[u].fd = task[u].fd /\ task'[u].data = task[u].data
                        /\ (Open(u)' <=> Open(u)) /\ (Writing(u)' <=> Writing(u)) /\ (Reading(u)' <=> Reading(u))
                        /\ Target(u)' = Target(u) /\ Tmp(u)' = Tmp(u)
    <2>1. \A u \in Task : task'[u].fd = task[u].fd /\ task'[u].todo = task[u].todo /\ task'[u].data = task[u].data
      BY <1>4
    <2>. QED BY <2>1 DEF Open, Writing, Reading, Calling, Running, Target, Tmp
  <1>6. OneName'
    BY <1>1 DEF FilesOK, OneName
  <1>7. \A u \in Task : Named(u)'
    BY <1>1, <1>5 DEF FilesOK, Named
  <1>8. \A u, x \in Task : Apart(u, x)'
    BY <1>1, <1>5 DEF FilesOK, Apart
  <1>9. ASSUME NEW u \in Task PROVE Alone(u)'
    <2>1. SUFFICES ASSUME Writing(u)', Tmp(u)' \notin shared'
                   PROVE  /\ \A p \in Path : dir'[p] = task'[u].fd => p = Tmp(u)'
                          /\ dir'[Tmp(u)'] \in {NoFile, task'[u].fd}
                          /\ \A x \in Task : task'[x].fd = task'[u].fd => x = u
                          /\ task'[u].at \in 0..Len(task'[u].data)
                          /\ inode'[task'[u].fd] = [j \in 1..task'[u].at |-> task'[u].data[j]]
      BY DEF Alone
    <2>2. Writing(u) /\ Tmp(u)' = Tmp(u) /\ Tmp(u) \notin shared
      BY <1>1, <1>5, <2>1
    <2>3. /\ \A p \in Path : dir[p] = task[u].fd => p = Tmp(u)
          /\ dir[Tmp(u)] \in {NoFile, task[u].fd}
          /\ \A x \in Task : task[x].fd = task[u].fd => x = u
          /\ task[u].at \in 0..Len(task[u].data)
          /\ inode[task[u].fd] = [j \in 1..task[u].at |-> task[u].data[j]]
      BY <2>2 DEF FilesOK, Alone
    <2>4. /\ \A p \in Path : dir'[p] = task'[u].fd => p = Tmp(u)'
          /\ dir'[Tmp(u)'] \in {NoFile, task'[u].fd}
          /\ \A x \in Task : task'[x].fd = task'[u].fd => x = u
      BY <1>1, <1>5, <2>3
    <2>5. CASE u = t
      <3>1. inode'[f] = Overwrite(inode[f], n + 1, d[n + 1])
        BY <1>1, <1>3 DEF StoreTypes
      <3>2. inode[f] = [j \in 1..n |-> d[j]]
        BY <2>3, <2>5
      <3>3. inode'[f] = [j \in 1..(n + 1) |-> d[j]]
        <4>1. n < Len(d)
          BY <1>1
        <4> HIDE DEF n, d, f
        <4>2. inode[f] = [j \in 1..n |-> d[j]] => Overwrite(inode[f], n + 1, d[n + 1]) = [j \in 1..(n + 1) |-> d[j]]
          BY <4>1, <1>2, <1>3, OverwriteFacts
        <4>. QED BY <3>1, <3>2, <4>2
      <3>4. Len(d) \in Nat
        BY <1>2, DataFacts
      <3>5. n + 1 \in 0..Len(d)
        BY <1>1, <1>2, <3>4
      <3>. QED BY <1>4, <2>4, <2>5, <3>3, <3>5
    <2>6. CASE u # t
      <3>1. task[u].fd # f /\ task'[u] = task[u]
        BY <1>4, <2>3, <2>6
      <3>2. task[u].fd \in Inode
        BY <2>2, WritingFacts DEF FilesOK, Named
      <3>3. inode'[task[u].fd] = inode[task[u].fd]
        BY <1>1, <3>1, <3>2 DEF StoreTypes
      <3>. QED BY <2>3, <2>4, <3>1, <3>3
    <2>. QED BY <2>5, <2>6
  <1>. QED BY <1>6, <1>7, <1>8, <1>9 DEF FilesOK

\* A temporary file is renamed into place.
LEMMA FilesRenamed ==
    ASSUME StoreTypes, FilesOK, \A u \in Task : TaskOK(task[u]), NEW t \in Task, Writing(t),
           dir[Tmp(t)] # NoFile, dir' = [dir EXCEPT ![Tmp(t)] = NoFile, ![Target(t)] = dir[Tmp(t)]],
           inode' = inode, shared' = shared, task'[t].fd = NoFile, \A u \in Task : u # t => Fixed(u)
    PROVE  FilesOK'
  <1> DEFINE tmp == Tmp(t)
             k == Target(t)
  <1>1. k \in Key /\ k \in Path /\ tmp \in Path /\ tmp \notin Key /\ k # tmp
        /\ TmpPath(tmp) = tmp /\ TmpPath(k) = tmp
    BY WritingFacts, TmpFacts DEF Tmp
  <1>2. \A p \in Path : dir'[p] = IF p = k THEN dir[tmp] ELSE IF p = tmp THEN NoFile ELSE dir[p]
    BY <1>1 DEF StoreTypes
  <1>3. \A u \in Task : Open(u)' => u # t /\ Open(u) /\ task[u].fd # NoFile /\ task'[u].fd = task[u].fd
    <2>1. TAKE u \in Task
    <2>2. HAVE Open(u)'
    <2>3. u # t
      BY <2>2 DEF Open
    <2>. QED BY <2>2, <2>3, FixedFacts DEF Open, Fixed
  <1>4. \A u \in Task : Writing(u)' \/ Reading(u)' => Open(u)'
    BY DEF Writing, Reading
  <1>5. OneName'
    <2>1. SUFFICES ASSUME NEW p \in Path, NEW q \in Path, dir'[p] = dir'[q]
                   PROVE  p = q \/ dir'[p] = NoFile
      BY DEF OneName
    <2>2. \A x, y \in Path : dir[x] = dir[y] => x = y \/ dir[x] = NoFile
      BY DEF FilesOK, OneName
    <2> DEFINE from(x) == IF x = k THEN tmp ELSE x
    <2>3. \A x \in Path : dir'[x] = NoFile \/ (x # tmp /\ dir'[x] = dir[from(x)] /\ from(x) \in Path)
      BY <1>1, <1>2
    <2>4. \A x, y \in Path : x # tmp /\ y # tmp /\ from(x) = from(y) => x = y
      OBVIOUS
    <2> HIDE DEF from
    <2>5. CASE dir'[p] = NoFile
      BY <2>5
    <2>6. CASE dir'[p] # NoFile
      <3>1. /\ p # tmp /\ dir'[p] = dir[from(p)] /\ from(p) \in Path
            /\ q # tmp /\ dir'[q] = dir[from(q)] /\ from(q) \in Path
        BY <2>1, <2>3, <2>6
      <3>2. from(p) = from(q)
        BY <2>1, <2>2, <2>6, <3>1
      <3>. QED BY <2>4, <3>1, <3>2
    <2>. QED BY <2>5, <2>6
  <1>6. ASSUME NEW u \in Task PROVE Named(u)'
    <2>0. Named(u)
      BY DEF FilesOK
    <2>1. CASE Open(u)'
      <3>1. u # t /\ Open(u) /\ Fixed(u) /\ task[u].fd # NoFile /\ task'[u].fd = task[u].fd
        BY <1>3, <2>1
      <3>2. /\ Writing(u)' <=> Writing(u)
            /\ Reading(u)' <=> Reading(u)
            /\ Target(u)' = Target(u) /\ Tmp(u)' = Tmp(u)
        BY <3>1, FixedFacts
      <3>3. ASSUME NEW p \in Path, dir'[p] = task[u].fd
            PROVE  TmpPath(p) = Tmp(u) /\ (Reading(u) => p = Target(u))
        <4>1. CASE p = k
          <5>1. dir[tmp] = task[u].fd
            BY <1>2, <3>3, <4>1
          <5>2. TmpPath(tmp) = Tmp(u) /\ (Reading(u) => tmp = Target(u))
            BY <1>1, <2>0, <3>1, <5>1 DEF Named
          <5>3. ~Reading(u)
            BY <5>2, <1>1, WritingFacts
          <5>. QED BY <1>1, <4>1, <5>2, <5>3
        <4>2. CASE p # k
          <5>1. dir[p] = task[u].fd
            BY <1>2, <3>1, <3>3, <4>2
          <5>. QED BY <2>0, <3>1, <5>1 DEF Named
        <4>. QED BY <4>1, <4>2
      <3>. QED BY <2>0, <3>1, <3>2, <3>3 DEF Named
    <2>2. CASE ~Open(u)'
      <3>1. task'[u].fd = NoFile /\ ~Reading(u)'
        BY <2>2, <1>4 DEF Open
      <3>. QED BY <2>2, <3>1 DEF Named
    <2>. QED BY <2>1, <2>2
  <1>7. ASSUME NEW u \in Task PROVE Alone(u)'
    <2>1. SUFFICES ASSUME Writing(u)', Tmp(u)' \notin shared'
                   PROVE  /\ \A p \in Path : dir'[p] = task'[u].fd => p = Tmp(u)'
                          /\ dir'[Tmp(u)'] \in {NoFile, task'[u].fd}
                          /\ \A x \in Task : task'[x].fd = task'[u].fd => x = u
                          /\ task'[u].at \in 0..Len(task'[u].data)
                          /\ inode'[task'[u].fd] = [j \in 1..task'[u].at |-> task'[u].data[j]]
      BY DEF Alone
    <2>2. u # t /\ Fixed(u) /\ task[u].fd # NoFile
      BY <1>3, <1>4, <2>1
    <2>3. Writing(u) /\ Tmp(u)' = Tmp(u) /\ Tmp(u) \notin shared
      BY <2>1, <2>2, FixedFacts
    <2>4. /\ \A p \in Path : dir[p] = task[u].fd => p = Tmp(u)
          /\ dir[Tmp(u)] \in {NoFile, task[u].fd}
          /\ \A x \in Task : task[x].fd = task[u].fd => x = u
          /\ task[u].at \in 0..Len(task[u].data)
          /\ inode[task[u].fd] = [j \in 1..task[u].at |-> task[u].data[j]]
      BY <2>3 DEF FilesOK, Alone
    <2>5. task'[u].fd = task[u].fd /\ task'[u].at = task[u].at /\ task'[u].data = task[u].data
      BY <2>2 DEF Fixed
    <2>6. Tmp(u) # tmp
      BY <2>2, <2>3 DEF FilesOK, Apart
    <2>7. dir[tmp] # task[u].fd
      BY <1>1, <2>4, <2>6
    <2>8. \A p \in Path : dir'[p] = task[u].fd => dir[p] = task[u].fd
      BY <1>2, <2>2, <2>7
    <2>9. Tmp(u) \in Path /\ Tmp(u) # k
      BY <1>1, <2>3, WritingFacts
    <2>10. dir'[Tmp(u)] = dir[Tmp(u)]
      BY <1>2, <2>6, <2>9
    <2>11. \A x \in Task : task'[x].fd = task[u].fd => x = u
      BY <2>2, <2>4 DEF Fixed
    <2>. QED BY <2>3, <2>4, <2>5, <2>8, <2>10, <2>11
  <1>8. ASSUME NEW u \in Task, NEW x \in Task PROVE Apart(u, x)'
    <2>1. Apart(u, x)
      BY DEF FilesOK
    <2>2. ASSUME Open(u)', task'[u].fd = task'[x].fd PROVE Tmp(u)' = Tmp(x)'
      <3>1. Open(x)'
        BY <2>2 DEF Open
      <3>2. Fixed(u) /\ Fixed(x) /\ Open(u)
        BY <1>3, <2>2, <3>1
      <3>3. task[u].fd = task[x].fd
        BY <2>2, <3>2 DEF Fixed
      <3>. QED BY <2>1, <3>2, <3>3, FixedFacts DEF Apart
    <2>3. ASSUME Writing(u)', Writing(x)', Tmp(u)' = Tmp(x)' PROVE u = x \/ Tmp(u)' \in shared'
      <3>1. Fixed(u) /\ Fixed(x)
        BY <1>3, <1>4, <2>3
      <3>. QED BY <2>1, <2>3, <3>1, FixedFacts DEF Apart
    <2>. QED BY <2>2, <2>3 DEF Apart
  <1>. QED BY <1>5, <1>6, <1>7, <1>8 DEF FilesOK

\* A file is opened for reading.
LEMMA FilesRead ==
    ASSUME StoreTypes, FilesOK, \A u \in Task : TaskOK(task[u]), NEW t \in Task, Calling(t, "get"),
           task[t].fd = NoFile, dir[Target(t)] # NoFile, dir' = dir, inode' = inode, shared' = shared,
           task'[t].fd = dir[Target(t)], task'[t].todo = task[t].todo, \A u \in Task : u # t => Fixed(u)
    PROVE  FilesOK'
  <1> DEFINE k == Target(t)
  <1>1. Running(t) /\ k \in Key /\ k \in Path /\ \A u \in Task : Writing(u) => k # Tmp(u)
    BY CallFacts, TmpFacts, WritingFacts DEF Calling
  <1>2. Reading(t)' /\ ~Writing(t)' /\ Open(t)' /\ Target(t)' = k /\ Tmp(t)' = TmpPath(k)
    BY DEF Reading, Writing, Open, Calling, Running, Target, Tmp
  <1>3. \A u \in Task : u # t =>
            /\ task'[u].fd = task[u].fd /\ task'[u].data = task[u].data /\ task'[u].at = task[u].at
            /\ (Open(u)' <=> Open(u)) /\ (Writing(u)' <=> Writing(u)) /\ (Reading(u)' <=> Reading(u))
            /\ Target(u)' = Target(u) /\ Tmp(u)' = Tmp(u)
    BY FixedFacts DEF Fixed
  <1>4. \A u \in Task : Writing(u)' => u # t
    BY <1>2
  <1>5. OneName'
    BY DEF FilesOK, OneName
  <1>6. ASSUME NEW u \in Task PROVE Named(u)'
    <2>1. CASE u = t
      <3>1. dir[k] \in Inode
        BY <1>1 DEF StoreTypes
      <3>2. \A p \in Path : dir[p] = dir[k] => p = k
        BY <1>1 DEF FilesOK, OneName
      <3>. QED BY <1>2, <2>1, <3>1, <3>2 DEF Named
    <2>2. CASE u # t
      BY <1>3, <2>2 DEF FilesOK, Named
    <2>. QED BY <2>1, <2>2
  <1>7. ASSUME NEW u \in Task PROVE Alone(u)'
    <2>1. SUFFICES ASSUME Writing(u)', Tmp(u)' \notin shared'
                   PROVE  /\ \A p \in Path : dir'[p] = task'[u].fd => p = Tmp(u)'
                          /\ dir'[Tmp(u)'] \in {NoFile, task'[u].fd}
                          /\ \A x \in Task : task'[x].fd = task'[u].fd => x = u
                          /\ task'[u].at \in 0..Len(task'[u].data)
                          /\ inode'[task'[u].fd] = [j \in 1..task'[u].at |-> task'[u].data[j]]
      BY DEF Alone
    <2>2. u # t
      BY <1>4, <2>1
    <2>3. Writing(u) /\ Tmp(u)' = Tmp(u) /\ Tmp(u) \notin shared
      BY <1>3, <2>1, <2>2
    <2>4. /\ \A p \in Path : dir[p] = task[u].fd => p = Tmp(u)
          /\ dir[Tmp(u)] \in {NoFile, task[u].fd}
          /\ \A x \in Task : task[x].fd = task[u].fd => x = u
          /\ task[u].at \in 0..Len(task[u].data)
          /\ inode[task[u].fd] = [j \in 1..task[u].at |-> task[u].data[j]]
      BY <2>3 DEF FilesOK, Alone
    <2>5. dir[k] # task[u].fd
      BY <1>1, <2>3, <2>4
    <2>. QED BY <1>3, <2>2, <2>3, <2>4, <2>5
  <1>8. ASSUME NEW u \in Task, u # t, task[u].fd = dir[k] PROVE Tmp(u) = TmpPath(k)
    <2>1. Open(u)
      BY <1>8 DEF Open
    <2>. QED BY <1>1, <1>8, <2>1 DEF FilesOK, Named
  <1>9. ASSUME NEW u \in Task, NEW x \in Task PROVE Apart(u, x)'
    <2>1. Apart(u, x)
      BY DEF FilesOK
    <2>2. ASSUME Open(u)', task'[u].fd = task'[x].fd PROVE Tmp(u)' = Tmp(x)'
      <3>1. CASE u = x
        BY <3>1
      <3>2. CASE u = t /\ x # t
        BY <1>2, <1>3, <1>8, <2>2, <3>2
      <3>3. CASE u # t /\ x = t
        BY <1>2, <1>3, <1>8, <2>2, <3>3
      <3>4. CASE u # t /\ x # t
        BY <1>3, <2>1, <2>2, <3>4 DEF Apart
      <3>. QED BY <3>1, <3>2, <3>3, <3>4
    <2>3. ASSUME Writing(u)', Writing(x)', Tmp(u)' = Tmp(x)' PROVE u = x \/ Tmp(u)' \in shared'
      BY <1>3, <1>4, <2>1, <2>3 DEF Apart
    <2>. QED BY <2>2, <2>3 DEF Apart
  <1>. QED BY <1>5, <1>6, <1>7, <1>9 DEF FilesOK

(***************************************************************************)
(* What the steps make of a task.                                          *)
(***************************************************************************)
\* The operations that look at keys one by one have no list to walk.
Fixedly == {"put_cas", "put_if_absent", "delete_if_matches", "rename", "get"}

\* The call a plan begins with.
LEMMA FirstCall ==
    ASSUME NEW s, Planned(s), s.todo # <<>>
    PROVE  /\ s.todo \in Seq(Calls) /\ Head(s.todo) \in Calls /\ Tail(s.todo) \in Seq(Calls)
           /\ Len(s.todo) \in Nat /\ Len(s.todo) # 0
           /\ s.op \in Fixedly => Head(s.todo).do \in {"put", "get", "delete", "head"}
           /\ s.op = "put_cas" => Head(s.todo).do \in {"put", "head"}
           /\ s.op = "put_if_absent" => Head(s.todo).do \in {"put", "head"}
           /\ s.op = "get" => Head(s.todo).do = "get"
           /\ s.op = "delete_if_matches" => Head(s.todo).do \in {"get", "delete"}
           /\ s.op = "rename" => Head(s.todo).do \in {"get", "put", "delete"}
  <1>1. \A do, k : Call(do, k).do = do
    BY DEF Call
  <1>2. /\ s.todo \in Seq(Calls) /\ Head(s.todo) \in Calls /\ Tail(s.todo) \in Seq(Calls)
        /\ Len(s.todo) \in Nat /\ Len(s.todo) # 0
    BY DEF Planned
  <1>3. s.op = "put_cas" => Head(s.todo).do \in {"put", "head"}
    BY <1>1, TupleTails DEF Planned
  <1>4. s.op = "put_if_absent" => Head(s.todo).do \in {"put", "head"}
    BY <1>1, TupleTails DEF Planned
  <1>5. s.op = "delete_if_matches" => Head(s.todo).do \in {"get", "delete"}
    BY <1>1, TupleTails DEF Planned
  <1>6. s.op = "rename" => Head(s.todo).do \in {"get", "put", "delete"}
    BY <1>1, TupleTails DEF Planned
  <1>7. s.op = "get" => Head(s.todo).do = "get"
    BY <1>1, TupleTails DEF Planned
  <1>. QED BY <1>2, <1>3, <1>4, <1>5, <1>6, <1>7 DEF Fixedly

\* A call has ended.
LEMMA AfterOK ==
    ASSUME NEW s, NEW o, TaskOK(s), s.todo # <<>>
    PROVE  TaskOK(After(s, o))
  <1> DEFINE r == After(s, o)
  <1>1. /\ TaskShape(r) /\ r.op = s.op /\ r.data = s.data /\ r.keys = s.keys /\ r.seen = s.seen
        /\ r.at = 0 /\ r.todo \in {Tail(s.todo), <<>>} /\ (r.todo # <<>> => r.res = "none")
    <2> DEFINE meaning == Meaning(s.op, Head(s.todo).do, o)
    <2>1. /\ TaskShape(r) /\ r.op = s.op /\ r.data = s.data /\ r.keys = s.keys /\ r.seen = s.seen
          /\ r.at = 0 /\ r.todo = IF meaning = "go" THEN Tail(s.todo) ELSE <<>>
          /\ r.res = IF r.todo # <<>> THEN "none" ELSE IF meaning = "go" THEN "ok" ELSE meaning
      BY AfterFacts DEF TaskOK
    <2> HIDE DEF r, meaning
    <2>. QED BY <2>1
  <1> HIDE DEF r
  <1>2. Planned(r)
    <2>1. Planned(s)
      BY DEF TaskOK
    <2>2. r.todo \in {s.todo, Tail(s.todo), <<>>}
      BY <1>1
    <2>. QED BY <1>1, <2>1, <2>2, PlannedTail
  <1>3. TaskOK(r)
    BY <1>1, <1>2 DEF TaskOK
  <1>. QED BY <1>3 DEF r

\* Changing what a task has read, or clearing what it has not seen.
LEMMA EditFacts ==
    ASSUME NEW s, TaskShape(s), NEW d
    PROVE  LET r == [s EXCEPT !.data = d]
               f == Fresh(s)
           IN  /\ TaskShape(r) /\ r.data = d /\ r.op = s.op /\ r.todo = s.todo /\ r.res = s.res
               /\ r.want = s.want /\ r.keys = s.keys /\ r.after = s.after /\ r.limit = s.limit
               /\ r.fd = s.fd /\ r.at = s.at /\ r.seen = s.seen /\ r.out = s.out
               /\ r.dirty = s.dirty /\ r.ever = s.ever /\ r.always = s.always
               /\ TaskShape(f) /\ Same(f, s) /\ f.dirty = {} /\ f.ever = s.ever /\ f.always = s.always
  BY DEF TaskShape, Fresh, Same

\* A task that is the same but for what others did to it.
LEMMA SameOK ==
    ASSUME NEW s, NEW r, TaskOK(s), TaskShape(r), Same(r, s)
    PROVE  TaskOK(r)
  <1>1. Planned(r)
    BY DEF TaskOK, Planned, Same
  <1>. QED BY <1>1 DEF TaskOK, Same

\* A blob has been read.
LEMMA ReadOK ==
    ASSUME NEW s, NEW k, NEW d, TaskOK(s), s.todo # <<>>, Head(s.todo).do = "get", IsData(d)
    PROVE  LET r == Read(s, k, d)
               meaning == Meaning(s.op, "get", Judge(s, k, d))
           IN  /\ TaskOK(r)
               /\ r.op = s.op /\ r.data = d /\ r.want = s.want /\ r.keys = s.keys
               /\ r.out = s.out /\ r.after = s.after /\ r.limit = s.limit
               /\ r.dirty = s.dirty /\ r.ever = s.ever /\ r.always = s.always
               /\ r.fd = NoFile
               /\ r.todo = IF meaning = "go" THEN Tail(s.todo) ELSE <<>>
               /\ r.res = IF r.todo # <<>> THEN "none" ELSE IF meaning = "go" THEN "ok" ELSE meaning
  <1> DEFINE e == [s EXCEPT !.data = d]
             o == Judge(s, k, d)
  <1>1. /\ TaskShape(e) /\ e.data = d /\ e.op = s.op /\ e.todo = s.todo /\ e.res = s.res
        /\ e.want = s.want /\ e.keys = s.keys /\ e.after = s.after /\ e.limit = s.limit
        /\ e.fd = s.fd /\ e.at = s.at /\ e.seen = s.seen /\ e.out = s.out
        /\ e.dirty = s.dirty /\ e.ever = s.ever /\ e.always = s.always
    BY EditFacts DEF TaskOK
  <1>2. s.op # "put_cas"
    BY FirstCall DEF TaskOK
  <1>3. Read(s, k, d) = After(e, o)
    BY DEF Read
  <1> HIDE DEF e, o
  <1>4. Planned(e)
    BY <1>1, <1>2, PlannedTail DEF TaskOK
  <1>5. TaskOK(e) /\ e.todo # <<>>
    BY <1>1, <1>4 DEF TaskOK
  <1>6. TaskOK(After(e, o))
    BY <1>5, AfterOK
  <1>7. Head(e.todo).do = "get"
    BY <1>1
  <1>. QED BY <1>1, <1>3, <1>6, <1>7, AfterFacts DEF o

\* A head has been answered.
LEMMA HeadedOK ==
    ASSUME NEW s, NEW k, NEW there \in BOOLEAN, TaskOK(s), s.todo # <<>>
    PROVE  LET r == Headed(s, k, there)
               next == After(s, IF there THEN "ok" ELSE "not_found")
           IN  /\ TaskOK(r)
               /\ r.op = s.op /\ r.data = s.data /\ r.want = s.want /\ r.keys = s.keys
               /\ r.dirty = s.dirty /\ r.fd = NoFile
               /\ s.op # "list_meta" => r.todo = next.todo /\ r.res = next.res
  <1> DEFINE next == After(s, IF there THEN "ok" ELSE "not_found")
             listing == s.op = "list_meta" /\ there
             out == IF listing THEN Append(s.out, k) ELSE s.out
             full == listing /\ Len(out) >= s.limit
             todo == IF full THEN <<>> ELSE next.todo
             res == IF full THEN "ok" ELSE next.res
             r == Headed(s, k, there)
  <1>1. r = [next EXCEPT !.out = out, !.todo = todo, !.res = res]
    BY DEF Headed
  <1>2. /\ TaskOK(next) /\ next.op = s.op /\ next.data = s.data /\ next.want = s.want
        /\ next.keys = s.keys /\ next.dirty = s.dirty /\ next.fd = NoFile
    BY AfterOK, AfterFacts DEF TaskOK
  <1>3. /\ todo \in {next.todo, <<>>} /\ (todo # <<>> => res = next.res)
        /\ (s.op # "list_meta" => todo = next.todo /\ res = next.res)
    OBVIOUS
  <1> HIDE DEF next, out, todo, res, r
  <1>4. /\ TaskShape(r) /\ r.out = out /\ r.todo = todo /\ r.res = res /\ r.op = next.op
        /\ r.data = next.data /\ r.want = next.want /\ r.keys = next.keys /\ r.dirty = next.dirty
        /\ r.fd = next.fd /\ r.at = next.at /\ r.seen = next.seen
    BY <1>1, <1>2 DEF TaskOK, TaskShape
  <1>5. Planned(r)
    <2>1. CASE next.todo # <<>>
      <3>1. Planned(next)
        BY <1>2 DEF TaskOK
      <3>2. r.todo \in {next.todo, Tail(next.todo), <<>>}
        BY <1>3, <1>4
      <3>. QED BY <1>4, <2>1, <3>1, <3>2, PlannedTail
    <2>2. CASE next.todo = <<>>
      <3>1. r.todo = <<>> /\ Planned(next)
        BY <1>2, <1>3, <1>4, <2>2 DEF TaskOK
      <3>2. r.op = next.op /\ r.data = next.data /\ r.keys = next.keys /\ next.todo = r.todo
        BY <1>4, <2>2, <3>1
      <3>. QED BY <3>1, <3>2 DEF Planned
    <2>. QED BY <2>1, <2>2
  <1>6. TaskOK(r)
    BY <1>2, <1>3, <1>4, <1>5 DEF TaskOK
  <1>. QED BY <1>2, <1>3, <1>4, <1>6 DEF next, r

\* The keys a listing selects.
LEMMA SelectedFacts ==
    ASSUME NEW s, NEW found
    PROVE  /\ Selected(s, found) \in Seq(Key)
           /\ \A i \in 1..Len(Selected(s, found)) : Selected(s, found)[i] \in found
  <1> DEFINE S == {i \in DOMAIN KeyOrder : KeyOrder[i] \in found /\ i > s.after}
             n == Cardinality(S)
             q == Sorted(S)
  <1>1. IsFiniteSet(S) /\ S \in SUBSET Nat /\ DOMAIN KeyOrder \subseteq Nat
    <2>1. DOMAIN KeyOrder \subseteq Nat
      BY BlobAssumption
    <2>. QED BY <2>1, FinitePaths, FS_Subset
  <1>2. S \subseteq DOMAIN KeyOrder /\ \A i \in S : KeyOrder[i] \in found /\ KeyOrder[i] \in Key
    BY BlobAssumption
  <1>3. Selected(s, found) = [i \in DOMAIN q |-> KeyOrder[q[i]]]
    BY DEF Selected
  <1> HIDE DEF S
  <1>4. n \in Nat /\ q \in [1..n -> S]
    BY <1>1, SortedFacts
  <1>5. DOMAIN q = 1..n /\ \A i \in 1..n : q[i] \in S
    BY <1>4
  <1> HIDE DEF q, n
  <1>6. Selected(s, found) \in [1..n -> Key] /\ \A i \in 1..n : Selected(s, found)[i] \in found
    BY <1>2, <1>3, <1>5
  <1>7. Selected(s, found) \in Seq(Key) /\ Len(Selected(s, found)) = n
    BY <1>4, <1>6
  <1>. QED BY <1>6, <1>7

\* A walk has ended.
LEMMA ListedOK ==
    ASSUME NEW s, NEW found, TaskOK(s), s.todo # <<>>, Head(s.todo).do = "list"
    PROVE  /\ TaskOK(Listed(s, found))
           /\ Listed(s, found).op = s.op /\ Listed(s, found).fd = s.fd
           /\ Listed(s, found).op \notin Fixedly
  <1> DEFINE keys == Selected(s, found)
             rest == CASE s.op = "delete_prefix" -> Each("delete", keys)
                       [] s.op = "list_meta" /\ s.limit > 0 -> Each("head", keys)
                       [] OTHER -> <<>>
             out == IF s.op = "list" THEN keys ELSE <<>>
             res == IF rest = <<>> THEN "ok" ELSE "none"
             r == Listed(s, found)
  <1>1. r = [s EXCEPT !.todo = rest, !.at = 0, !.seen = {}, !.out = out, !.res = res]
    BY DEF Listed
  <1>2. s.op \notin Fixedly
    BY FirstCall DEF TaskOK
  <1>3. keys \in Seq(Key)
    BY SelectedFacts
  <1> HIDE DEF keys
  <1>4. ASSUME NEW do \in {"delete", "head"}
        PROVE  /\ Each(do, keys) \in Seq(Calls)
               /\ \A i \in DOMAIN Each(do, keys) : Each(do, keys)[i].do # "put"
    <2>1. DOMAIN keys = 1..Len(keys) /\ Len(keys) \in Nat
      BY <1>3
    <2>2. \A i \in DOMAIN keys : keys[i] \in Key
      BY <1>3
    <2>3. \A i \in DOMAIN keys : Call(do, keys[i]) \in Calls /\ Call(do, keys[i]).do = do
      BY <2>2 DEF Call, Calls
    <2>4. Each(do, keys) \in [1..Len(keys) -> Calls] /\ \A i \in DOMAIN keys : Each(do, keys)[i].do = do
      BY <2>1, <2>3 DEF Each
    <2>5. do # "put"
      OBVIOUS
    <2>6. Each(do, keys) \in Seq(Calls)
      BY <2>1, <2>4
    <2>. QED BY <2>1, <2>4, <2>5, <2>6
  <1>5. rest \in Seq(Calls) /\ \A i \in DOMAIN rest : rest[i].do # "put"
    <2>1. CASE s.op = "delete_prefix"
      BY <1>4, <2>1
    <2>2. CASE s.op = "list_meta" /\ s.limit > 0
      BY <1>4, <2>2
    <2>3. CASE s.op # "delete_prefix" /\ ~(s.op = "list_meta" /\ s.limit > 0)
      <3>1. rest = <<>>
        BY <2>3
      <3>2. <<>> \in Seq(Calls) /\ \A i \in DOMAIN <<>> : FALSE
        OBVIOUS
      <3> HIDE DEF rest
      <3>. QED BY <3>1, <3>2
    <2>. QED BY <2>1, <2>2, <2>3
  <1> HIDE DEF rest, out, r
  <1>6. res = IF rest = <<>> THEN "ok" ELSE "none"
    OBVIOUS
  <1> HIDE DEF res
  <1>7. /\ TaskShape(r) /\ r.todo = rest /\ r.at = 0 /\ r.seen = {} /\ r.res = res /\ r.op = s.op
        /\ r.data = s.data /\ r.keys = s.keys /\ r.fd = s.fd
    BY <1>1 DEF TaskOK, TaskShape
  <1>8. Planned(r)
    BY <1>2, <1>5, <1>7 DEF Planned, Fixedly
  <1>9. TaskOK(r)
    BY <1>6, <1>7, <1>8 DEF TaskOK
  <1>. QED BY <1>2, <1>7, <1>9 DEF r

(***************************************************************************)
(* What a task has seen stays true of the keys that no other task changed  *)
(* and whose temporary file was not shared.                                *)
(***************************************************************************)
\* A step changes the keys in changed only, unless through a shared file.
Keeps(changed) ==
    /\ backend' = backend /\ shared \subseteq shared'
    /\ \A k \in Key : k \notin changed => dir'[k] = dir[k] /\ map'[k] = map[k]
    /\ \A k \in Key : k \notin changed /\ TmpPath(k) \notin shared' => Content(k)' = Content(k)

\* What a task saw, after such a step of another task.
LEMMA SeenKept ==
    ASSUME NEW u \in Task, TaskOK(task[u]), SeenOK(u), NEW changed, Keeps(changed),
           task'[u].op = task[u].op, task'[u].todo = task[u].todo, task'[u].want = task[u].want,
           task'[u].data = task[u].data, task'[u].keys = task[u].keys,
           Reading(u)' => Reading(u) /\ task'[u].fd = task[u].fd,
           Running(u) => task[u].dirty \cup changed \subseteq task'[u].dirty
    PROVE  SeenOK(u)'
  <1> DEFINE s == task[u]
  <1>1. Target(u)' = Target(u)
    BY DEF Target
  <1>2. s.todo \in Seq(Calls) /\ s.keys \in SUBSET Key
    BY DEF TaskOK, Planned
  <1>3. Len(s.todo) \in {1, 2} => Running(u)
    BY <1>2, TupleTails DEF Running
  <1>4. Running(u) => \A k : k \notin task'[u].dirty => k \notin s.dirty /\ k \notin changed
    OBVIOUS
  <1>5. \A k \in Key : k \notin changed => (Held(k)' <=> Held(k))
    BY DEF Keeps, Held
  <1>6. \A k \in Key : k \notin changed /\ TmpPath(k) \notin shared' => Content(k)' = Content(k) /\ TmpPath(k) \notin shared
    BY DEF Keeps
  <1>7. ASSUME Reading(u)', Target(u) \notin task'[u].dirty PROVE dir'[Target(u)] = task'[u].fd
    <2>1. Reading(u) /\ task'[u].fd = task[u].fd /\ Running(u)
      BY <1>7 DEF Reading, Calling
    <2>2. Target(u) \in Key
      BY <2>1, WritingFacts
    <2>3. dir[Target(u)] = s.fd
      BY <1>4, <1>7, <2>1 DEF SeenOK
    <2>. QED BY <1>4, <1>7, <2>1, <2>2, <2>3 DEF Keeps
  <1>8. ASSUME s.op \in {"put_if_absent", "put_cas"}, Len(s.todo) = 1, Target(u) \notin task'[u].dirty
        PROVE  ~Held(Target(u))'
    <2>1. Running(u) /\ Target(u) \in Key
      <3>1. Running(u)
        BY <1>3, <1>8
      <3>2. Head(s.todo).do \in {"put", "head"}
        BY <3>1, <1>8, FirstCall DEF TaskOK, Running
      <3>. QED BY <3>1, <3>2, CallFacts DEF Calling
    <2>2. ~Held(Target(u))
      BY <1>4, <1>8, <2>1 DEF SeenOK
    <2>3. Target(u) \notin changed
      BY <1>4, <1>8, <2>1
    <2>. QED BY <1>1, <1>5, <2>1, <2>2, <2>3 DEF Keeps, Held, Target
  <1>9. ASSUME s.op = "delete_if_matches", Len(s.todo) = 1, Target(u) \notin task'[u].dirty,
               TmpPath(Target(u)) \notin shared'
        PROVE  \A k \in Key : k = Target(u) => Content(k)' = s.want
    <2>1. Running(u) /\ Target(u) \in Key
      <3>1. Running(u)
        BY <1>3, <1>9
      <3>2. Head(s.todo).do \in {"get", "delete"}
        BY <3>1, <1>9, FirstCall DEF TaskOK, Running
      <3>. QED BY <3>1, <3>2, CallFacts DEF Calling
    <2>2. TmpPath(Target(u)) \notin shared
      BY <1>9 DEF Keeps
    <2>3. Content(Target(u)) = s.want
      BY <1>4, <1>9, <2>1, <2>2 DEF SeenOK, Untouched
    <2>. QED BY <1>4, <1>6, <1>9, <2>1, <2>3
  <1>10. ASSUME s.op = "rename", Len(s.todo) = 2, NEW k \in s.keys, k = s.todo[2].key,
                k \notin task'[u].dirty, TmpPath(k) \notin shared'
         PROVE  Content(k)' = s.data
    <2>1. Content(k) = s.data
      BY <1>3, <1>4, <1>10 DEF SeenOK, Untouched, Keeps
    <2>. QED BY <1>2, <1>3, <1>4, <1>6, <1>10, <2>1
  <1>11. ASSUME s.op = "rename", Len(s.todo) = 1, NEW k \in s.keys, k # Target(u),
                k \notin task'[u].dirty, TmpPath(k) \notin shared'
         PROVE  Content(k)' = s.data
    <2>1. Content(k) = s.data
      BY <1>3, <1>4, <1>11 DEF SeenOK, Untouched, Keeps
    <2>. QED BY <1>2, <1>3, <1>4, <1>6, <1>11, <2>1
  <1>12. Len(s.todo) = 1 /\ s.op = "delete_if_matches" => Target(u) \in Key
    <2>1. SUFFICES ASSUME Len(s.todo) = 1, s.op = "delete_if_matches" PROVE Target(u) \in Key
      OBVIOUS
    <2>2. Running(u)
      BY <1>3, <2>1
    <2>3. Head(s.todo).do \in {"get", "delete"}
      BY <2>1, <2>2, FirstCall DEF TaskOK, Running
    <2>. QED BY <2>2, <2>3, CallFacts DEF Calling
  <1>13. Reading(u)' /\ Target(u)' \notin task'[u].dirty => dir'[Target(u)'] = task'[u].fd
    BY <1>1, <1>7
  <1>14. task'[u].op \in {"put_if_absent", "put_cas"} /\ Len(task'[u].todo) = 1 /\ Target(u)' \notin task'[u].dirty =>
            ~Held(Target(u))'
    BY <1>1, <1>8
  <1>15. task'[u].op = "delete_if_matches" /\ Len(task'[u].todo) = 1 /\ Untouched(task[u], Target(u))' =>
            Content(Target(u))' = task'[u].want
    BY <1>1, <1>9, <1>12 DEF Untouched, Content, Target
  <1>16. task'[u].op = "rename" /\ Len(task'[u].todo) = 2 => \A k \in task'[u].keys :
              k = task'[u].todo[2].key /\ Untouched(task[u], k)' => Content(k)' = task'[u].data
    BY <1>10 DEF Untouched
  <1>17. task'[u].op = "rename" /\ Len(task'[u].todo) = 1 => \A k \in task'[u].keys :
              k # Target(u)' /\ Untouched(task[u], k)' => Content(k)' = task'[u].data
    BY <1>1, <1>11 DEF Untouched
  <1>. QED BY <1>13, <1>14, <1>15, <1>16, <1>17 DEF SeenOK

\* A blob's contents tell what it is.
LEMMA BlocksFacts ==
    /\ \A v \in Value : IsData(Blocks(v)) /\ Len(Blocks(v)) = Size(v)
    /\ \A v, w \in Value : Blocks(v) = Blocks(w) => v = w
  <1>1. ASSUME NEW v \in Value
        PROVE  Size(v) \in Nat /\ IsData(Blocks(v)) /\ Len(Blocks(v)) = Size(v)
               /\ \A j \in 1..Size(v) : Blocks(v)[j] = <<v, j>>
    <2>1. Size(v) \in Nat
      BY BlobAssumption
    <2>2. Size(v) \in Lengths
      BY <2>1 DEF Lengths
    <2>3. Blocks(v) \in [1..Size(v) -> (Value \X (1..Size(v))) \cup {Hole}]
      BY DEF Blocks
    <2>4. \A j \in 1..Size(v) : Blocks(v)[j] \in (Value \X {j}) \cup {Hole} /\ Blocks(v)[j] = <<v, j>>
      BY DEF Blocks
    <2>5. Len(Blocks(v)) = Size(v)
      BY <2>1, <2>3
    <2>. QED BY <2>1, <2>2, <2>3, <2>4, <2>5 DEF IsData
  <1>2. ASSUME NEW v \in Value, NEW w \in Value, Blocks(v) = Blocks(w) PROVE v = w
    <2>1. Size(v) = Size(w) /\ Size(v) \in Nat
      BY <1>1, <1>2
    <2>2. CASE Size(v) = 0
      BY <2>1, <2>2, BlobAssumption
    <2>3. CASE Size(v) # 0
      <3>1. 1 \in 1..Size(v) /\ 1 \in 1..Size(w)
        BY <2>1, <2>3
      <3>2. <<v, 1>> = <<w, 1>>
        BY <1>1, <1>2, <3>1
      <3>. QED BY <3>2
    <2>. QED BY <2>2, <2>3
  <1>. QED BY <1>1, <1>2

\* put_cas puts a value under its digest.
LEMMA CasTarget ==
    ASSUME NEW u \in Task, TaskOK(task[u]), Running(u), task[u].op = "put_cas", NEW v \in Value
    PROVE  Target(u) = HashKey(v) <=> task[u].data = Blocks(v)
  <1>1. \A do, k : Call(do, k).key = k
    BY DEF Call
  <1>2. PICK w \in Value : task[u].data = Blocks(w) /\
            task[u].todo \in {<<Call("head", HashKey(w)), Call("put", HashKey(w))>>,
                              <<Call("put", HashKey(w))>>, <<>>}
    BY DEF TaskOK, Planned
  <1>3. Target(u) = HashKey(w)
    BY <1>1, <1>2, TupleTails DEF Target, Running
  <1>. QED BY <1>2, <1>3, HashFacts, BlocksFacts

(***************************************************************************)
(* What is stored.                                                         *)
(***************************************************************************)
\* A file or blob no longer there was deleted; tasks return, others stay.
LEMMA StoredDropped ==
    ASSUME StoredOK, backend' = backend, puts' = puts, shared' = shared, inode' = inode,
           gone \subseteq gone', \A u \in Task : TaskOK(task[u]),
           \A k \in Key : dir'[k] \in {dir[k], NoFile} /\ map'[k] \in {map[k], Absent},
           \A k \in Key : Held(k) => Held(k)' \/ k \in gone',
           \A u \in Task :
              \/ Fixed(u) /\ task'[u].op = task[u].op /\ task'[u].res = task[u].res /\ task'[u].keys = task[u].keys
              \/ /\ task'[u].fd = NoFile
                 /\ task'[u].op = "get" /\ task'[u].res = "ok" =>
                       \A k \in task'[u].keys : Sound(k, task[u].data)',
           acked' \subseteq Value, \A v \in acked' : v \in acked \/ Held(HashKey(v))'
    PROVE  StoredOK'
  <1>1. \A k \in Key : Held(k)' => Sound(k, Bytes(k))'
    BY DEF StoredOK, Held, Sound, Bytes
  <1>2. ASSUME NEW u \in Task, Writing(u)' PROVE task'[u].data \in puts'[Target(u)']
    <2>1. Fixed(u)
      BY <1>2 DEF Writing, Open
    <2>. QED BY <1>2, <2>1, FixedFacts DEF StoredOK, Fixed
  <1>3. ASSUME NEW u \in Task, Reading(u)' PROVE Sound(Target(u), inode[task[u].fd])'
    <2>1. Fixed(u)
      BY <1>3 DEF Reading, Open
    <2>2. Reading(u) /\ Target(u)' = Target(u) /\ task'[u].fd = task[u].fd
      BY <1>3, <2>1, FixedFacts DEF Fixed
    <2>3. Sound(Target(u), inode[task[u].fd])
      BY <2>2 DEF StoredOK
    <2>. QED BY <2>2, <2>3 DEF Sound
  <1>4. ASSUME NEW u \in Task, task'[u].op = "get", task'[u].res = "ok"
        PROVE  \A k \in task'[u].keys : Sound(k, task[u].data)'
    <2>1. CASE Fixed(u) /\ task'[u].op = task[u].op /\ task'[u].res = task[u].res /\ task'[u].keys = task[u].keys
      <3>1. task'[u].data = task[u].data
        BY <2>1 DEF Fixed
      <3>. QED BY <1>4, <2>1, <3>1 DEF StoredOK, Sound
    <2>. QED BY <1>4, <2>1
  <1>5. \A v \in Value : puts'[HashKey(v)] \subseteq {Blocks(v)}
    BY DEF StoredOK
  <1>6. \A v \in acked' : HashKey(v) \in gone' \/ Held(HashKey(v))'
    <2>1. TAKE v \in acked'
    <2>2. CASE v \in acked
      <3>1. v \in Value /\ (HashKey(v) \in gone \/ Held(HashKey(v)))
        BY <2>2 DEF StoredOK
      <3>. QED BY <3>1, HashFacts
    <2>. QED BY <2>2
  <1>. QED BY <1>1, <1>2, <1>3, <1>4, <1>5, <1>6 DEF StoredOK

\* A put has begun to write the key's temporary file.
LEMMA StoredOpened ==
    ASSUME StoreTypes, StoredOK, FilesOK, FilesOK', \A u \in Task : TaskOK(task[u]),
           NEW t \in Task, OpenTmp(t)
    PROVE  StoredOK'
  <1> DEFINE tmp == Tmp(t)
             k0 == Target(t)
             i == IF dir[tmp] = NoFile THEN FreeInode ELSE dir[tmp]
  <1>1. /\ backend = "local" /\ Calling(t, "put") /\ task[t].fd = NoFile
        /\ dir' = [dir EXCEPT ![tmp] = i] /\ inode' = [inode EXCEPT ![i] = <<>>]
        /\ task' = [task EXCEPT ![t].fd = i, ![t].at = 0]
        /\ shared \subseteq shared'
        /\ puts' = [puts EXCEPT ![k0] = @ \cup {task[t].data}]
        /\ backend' = backend /\ map' = map /\ gone' = gone /\ acked' = acked
    BY DEF OpenTmp, Tmp
  <1>2. k0 \in Key /\ tmp \in Path /\ tmp \notin Key /\ Running(t)
    BY <1>1, CallFacts DEF Calling
  <1>3. /\ task'[t].fd = i /\ task'[t].todo = task[t].todo /\ task'[t].data = task[t].data
        /\ task'[t].op = task[t].op /\ task'[t].res = task[t].res /\ task'[t].keys = task[t].keys
        /\ \A u \in Task : u # t => task'[u] = task[u]
    <2>1. \A u \in Task : task'[u] = IF u = t THEN [task[t] EXCEPT !.fd = i, !.at = 0] ELSE task[u]
      BY <1>1 DEF StoreTypes
    <2>2. TaskShape(task[t])
      BY DEF TaskOK
    <2> HIDE DEF i
    <2>. QED BY <2>1, <2>2 DEF TaskShape
  <1>4. \A u \in Task : u # t => Fixed(u)
    BY <1>3 DEF Fixed
  <1>5. \A k \in Key : puts'[k] = IF k = k0 THEN puts[k] \cup {task[t].data} ELSE puts[k]
    BY <1>1 DEF StoreTypes
  <1>6. dir'[tmp] = i /\ \A k \in Key : dir'[k] = dir[k]
    <2>1. \A p \in Path : dir'[p] = IF p = tmp THEN i ELSE dir[p]
      BY <1>1, <1>2 DEF StoreTypes
    <2> HIDE DEF i
    <2>. QED BY <1>2, <2>1, TmpFacts
  <1>7. \A j \in Inode : j # i => inode'[j] = inode[j]
    BY <1>1 DEF StoreTypes
  <1> HIDE DEF i
  <1>8. ASSUME NEW k \in Key, dir[k] # NoFile PROVE dir[k] \in Inode /\ dir[k] # i
    <2>1. k \in Path /\ dir[k] \in Inode
      BY <1>8, TmpFacts DEF StoreTypes
    <2>2. dir'[k] = dir'[tmp] => k = tmp \/ dir'[k] = NoFile
      BY <1>2, <2>1 DEF FilesOK, OneName
    <2>. QED BY <1>2, <1>6, <1>8, <2>1, <2>2
  <1>9. \A k \in Key : \A d : Sound(k, d) => Sound(k, d)'
    BY <1>1, <1>5 DEF Sound
  <1>10. ASSUME NEW k \in Key, Held(k)' PROVE Sound(k, Bytes(k))'
    <2>1. Held(k) /\ dir[k] # NoFile /\ dir'[k] = dir[k]
      BY <1>1, <1>6, <1>10 DEF Held
    <2>2. Sound(k, Bytes(k))
      BY <2>1 DEF StoredOK
    <2>3. Bytes(k)' = Bytes(k)
      BY <1>1, <1>7, <1>8, <2>1 DEF Bytes
    <2>. QED BY <1>9, <2>2, <2>3 DEF Sound
  <1>11. ASSUME NEW u \in Task, Writing(u)' PROVE task'[u].data \in puts'[Target(u)']
    <2>1. CASE u = t
      <3>1. Target(t)' = k0
        BY <1>3 DEF Target
      <3>. QED BY <1>2, <1>3, <1>5, <2>1, <3>1
    <2>2. CASE u # t
      <3>1. Writing(u) /\ Target(u)' = Target(u) /\ task'[u].data = task[u].data
        BY <1>3, <1>4, <1>11, <2>2, FixedFacts
      <3>2. Target(u) \in Key /\ task[u].data \in puts[Target(u)]
        BY <3>1, WritingFacts DEF StoredOK
      <3>. QED BY <1>5, <3>1, <3>2
    <2>. QED BY <2>1, <2>2
  <1>12. ASSUME NEW u \in Task, Reading(u)' PROVE Sound(Target(u), inode[task[u].fd])'
    <2>1. u # t
      BY <1>1, <1>3, <1>12 DEF Reading, Calling
    <2>2. Reading(u) /\ Target(u)' = Target(u) /\ task'[u].fd = task[u].fd /\ Target(u) \in Key /\ task[u].fd # NoFile
      BY <1>3, <1>4, <1>12, <2>1, FixedFacts, WritingFacts
    <2>3. task[u].fd # i
      <3>1. Named(u)'
        BY DEF FilesOK
      <3>2. dir'[tmp] = task'[u].fd => tmp = Target(u)'
        BY <1>2, <1>12, <3>1 DEF Named
      <3>. QED BY <1>2, <1>6, <2>2, <3>2
    <2>4. task[u].fd \in Inode
      BY <2>2 DEF FilesOK, Named
    <2>5. inode'[task'[u].fd] = inode[task[u].fd]
      BY <1>7, <2>2, <2>3, <2>4
    <2>6. Sound(Target(u), inode[task[u].fd])
      BY <2>2 DEF StoredOK
    <2>. QED BY <1>9, <2>2, <2>5, <2>6 DEF Sound
  <1>13. ASSUME NEW u \in Task, task'[u].op = "get", task'[u].res = "ok"
         PROVE  \A k \in task'[u].keys : Sound(k, task[u].data)'
    <2>1. task'[u].op = task[u].op /\ task'[u].res = task[u].res /\ task'[u].keys = task[u].keys /\ task'[u].data = task[u].data
      BY <1>3
    <2>2. task[u].keys \in SUBSET Key
      BY DEF TaskOK
    <2>3. \A k \in task[u].keys : Sound(k, task[u].data)
      BY <1>13, <2>1 DEF StoredOK
    <2>. QED BY <1>9, <2>1, <2>2, <2>3 DEF Sound
  <1>14. ASSUME NEW v \in Value PROVE puts'[HashKey(v)] \subseteq {Blocks(v)}
    <2>1. HashKey(v) \in Key /\ puts[HashKey(v)] \subseteq {Blocks(v)}
      BY HashFacts DEF StoredOK
    <2>2. k0 = HashKey(v) => task[t].data = Blocks(v)
      <3>1. SUFFICES ASSUME k0 = HashKey(v) PROVE task[t].data = Blocks(v)
        OBVIOUS
      <3>2. task[t].op = "put_cas"
        BY <1>1, <1>2, <3>1, CallFacts, HashFacts
      <3>. QED BY <1>2, <3>1, <3>2, CasTarget
    <2>. QED BY <1>5, <2>1, <2>2
  <1>15. acked' \subseteq Value /\ \A v \in acked' : HashKey(v) \in gone' \/ Held(HashKey(v))'
    <2>1. \A k \in Key : Held(k) => Held(k)'
      BY <1>1, <1>6 DEF Held
    <2>. QED BY <1>1, <2>1, HashFacts DEF StoredOK
  <1>. QED BY <1>10, <1>11, <1>12, <1>13, <1>14, <1>15 DEF StoredOK

\* A block is written to a temporary file.
LEMMA StoredWritten ==
    ASSUME StoreTypes, StoredOK, FilesOK, \A u \in Task : TaskOK(task[u]), NEW t \in Task, WriteBlock(t)
    PROVE  StoredOK'
  <1> DEFINE f == task[t].fd
             b == Overwrite(inode[f], task[t].at + 1, task[t].data[task[t].at + 1])
  <1>1. /\ backend = "local" /\ Writing(t) /\ f # NoFile
        /\ task' = [task EXCEPT ![t].at = task[t].at + 1]
        /\ inode' = [inode EXCEPT ![f] = b] /\ backend' = backend
        /\ dir' = dir /\ map' = map /\ puts' = puts /\ shared' = shared /\ gone' = gone /\ acked' = acked
    BY DEF WriteBlock, Writing, Open, history
  <1>2. f \in Inode /\ TaskShape(task[t])
    BY <1>1 DEF FilesOK, Named, TaskOK
  <1>3. \A i \in Inode : i # f => inode'[i] = inode[i]
    BY <1>1 DEF StoreTypes
  <1> HIDE DEF b
  <1>4. \A u \in Task : /\ task'[u].fd = task[u].fd /\ task'[u].todo = task[u].todo
                        /\ task'[u].data = task[u].data /\ task'[u].op = task[u].op
                        /\ task'[u].res = task[u].res /\ task'[u].keys = task[u].keys
    <2>1. \A u \in Task : task'[u] = IF u = t THEN [task[t] EXCEPT !.at = task[t].at + 1] ELSE task[u]
      BY <1>1 DEF StoreTypes
    <2>. QED BY <2>1, <1>2 DEF TaskShape
  <1>5. \A u \in Task : /\ (Writing(u)' <=> Writing(u)) /\ (Reading(u)' <=> Reading(u))
                        /\ Target(u)' = Target(u)
    BY <1>4 DEF Open, Writing, Reading, Calling, Running, Target
  <1>6. \A k, d : Sound(k, d) <=> Sound(k, d)'
    BY <1>1 DEF Sound
  <1>7. ASSUME NEW k \in Key, Held(k)' PROVE Sound(k, Bytes(k))'
    <2>1. Held(k) /\ dir[k] # NoFile /\ dir[k] \in Inode /\ k \in Path
      BY <1>1, <1>7, TmpFacts DEF Held, StoreTypes
    <2>2. CASE dir[k] = f
      <3>1. TmpPath(k) = Tmp(t)
        BY <1>1, <2>1, <2>2 DEF FilesOK, Named, Writing
      <3>2. Tmp(t) \in shared
        BY <1>1, <2>1, <2>2, WritingFacts DEF FilesOK, Alone
      <3>. QED BY <1>1, <3>1, <3>2 DEF Sound
    <2>3. CASE dir[k] # f
      <3>1. Bytes(k)' = Bytes(k)
        BY <1>1, <1>3, <2>1, <2>3 DEF Bytes
      <3>2. Sound(k, Bytes(k))
        BY <2>1 DEF StoredOK
      <3>. QED BY <1>1, <3>1, <3>2 DEF Sound
    <2>. QED BY <2>2, <2>3
  <1>8. ASSUME NEW u \in Task, Reading(u)' PROVE Sound(Target(u), inode[task[u].fd])'
    <2>1. Reading(u) /\ Target(u)' = Target(u) /\ task'[u].fd = task[u].fd
      BY <1>4, <1>5, <1>8
    <2>2. CASE task[u].fd = f
      <3>1. u # t
        BY <1>1, <2>1 DEF Reading, Writing, Calling
      <3>2. Tmp(u) = Tmp(t)
        BY <2>1, <2>2 DEF FilesOK, Apart, Reading
      <3>3. Tmp(t) \in shared
        BY <1>1, <2>2, <3>1 DEF FilesOK, Alone
      <3>. QED BY <1>1, <2>1, <3>2, <3>3 DEF Sound, Tmp
    <2>3. CASE task[u].fd # f
      <3>1. task[u].fd \in Inode
        BY <2>1, WritingFacts DEF FilesOK, Named
      <3>2. Sound(Target(u), inode[task[u].fd])
        BY <2>1 DEF StoredOK
      <3>. QED BY <1>1, <1>3, <2>1, <2>3, <3>1, <3>2 DEF Sound
    <2>. QED BY <2>2, <2>3
  <1>9. \A u \in Task : Writing(u)' => task'[u].data \in puts'[Target(u)']
    BY <1>1, <1>4, <1>5 DEF StoredOK
  <1>10. ASSUME NEW u \in Task, task'[u].op = "get", task'[u].res = "ok"
         PROVE  \A k \in task'[u].keys : Sound(k, task[u].data)'
    BY <1>1, <1>4, <1>10 DEF StoredOK, Sound
  <1>11. \A v \in Value : puts'[HashKey(v)] \subseteq {Blocks(v)}
    BY <1>1 DEF StoredOK
  <1>12. acked' \subseteq Value /\ \A v \in acked' : HashKey(v) \in gone' \/ Held(HashKey(v))'
    BY <1>1 DEF StoredOK, Held
  <1>. QED BY <1>7, <1>8, <1>9, <1>10, <1>11, <1>12 DEF StoredOK

\* A put's file takes the key's name.
LEMMA StoredRenamed ==
    ASSUME StoreTypes, StoredOK, FilesOK, \A u \in Task : TaskOK(task[u]), NEW t \in Task, Writing(t),
           task[t].at = Len(task[t].data), backend = "local",
           dir[Tmp(t)] # NoFile, dir' = [dir EXCEPT ![Tmp(t)] = NoFile, ![Target(t)] = dir[Tmp(t)]],
           inode' = inode, shared' = shared, puts' = puts, gone' = gone, backend' = backend,
           task'[t].fd = NoFile, ~(task'[t].op = "get" /\ task'[t].res = "ok"),
           \A u \in Task : u # t => Same(task'[u], task[u]),
           acked' \subseteq Value, \A v \in acked' : v \in acked \/ Held(HashKey(v))'
    PROVE  StoredOK'
  <1> DEFINE tmp == Tmp(t)
             k0 == Target(t)
  <1>1. k0 \in Key /\ k0 \in Path /\ tmp \in Path /\ tmp \notin Key /\ TmpPath(k0) = tmp
    BY WritingFacts DEF Tmp
  <1>2. \A k \in Key : dir'[k] = IF k = k0 THEN dir[tmp] ELSE dir[k]
    <2>1. \A p \in Path : dir'[p] = IF p = k0 THEN dir[tmp] ELSE IF p = tmp THEN NoFile ELSE dir[p]
      BY <1>1 DEF StoreTypes
    <2>. QED BY <1>1, <2>1, TmpFacts
  <1>3. Sound(k0, inode[dir[tmp]])
    <2>1. SUFFICES ASSUME tmp \notin shared PROVE inode[dir[tmp]] \in puts[k0]
      BY <1>1 DEF Sound
    <2>2. dir[tmp] = task[t].fd /\ inode[task[t].fd] = [j \in 1..task[t].at |-> task[t].data[j]]
      BY <2>1 DEF FilesOK, Alone
    <2>3. IsData(task[t].data)
      BY DEF TaskOK
    <2>4. task[t].data = [j \in 1..Len(task[t].data) |-> task[t].data[j]]
      BY <2>3, DataFacts
    <2>5. inode[dir[tmp]] = task[t].data
      BY <2>2, <2>4
    <2>. QED BY <2>5 DEF StoredOK
  <1>4. ASSUME NEW k \in Key, Held(k)' PROVE Sound(k, Bytes(k))'
    <2>1. CASE k = k0
      BY <1>2, <1>3, <2>1 DEF Sound, Bytes
    <2>2. CASE k # k0
      <3>0. dir'[k] = dir[k]
        BY <1>2, <2>2
      <3>1. Held(k) /\ Bytes(k)' = Bytes(k)
        BY <1>4, <3>0 DEF Held, Bytes
      <3>. QED BY <3>1 DEF StoredOK, Sound
    <2>. QED BY <2>1, <2>2
  <1>5. \A u \in Task : u # t => Fixed(u)
    BY DEF Same, Fixed
  <1>6. ASSUME NEW u \in Task, Writing(u)' \/ Reading(u)' PROVE u # t
    BY <1>6 DEF Writing, Reading, Open
  <1>7. ASSUME NEW u \in Task, Writing(u)' PROVE task'[u].data \in puts'[Target(u)']
    BY <1>5, <1>6, <1>7, FixedFacts DEF StoredOK, Fixed
  <1>8. ASSUME NEW u \in Task, Reading(u)' PROVE Sound(Target(u), inode[task[u].fd])'
    <2>1. Reading(u) /\ Target(u)' = Target(u) /\ task'[u].fd = task[u].fd
      BY <1>5, <1>6, <1>8, FixedFacts DEF Fixed
    <2>2. Sound(Target(u), inode[task[u].fd])
      BY <2>1 DEF StoredOK
    <2>. QED BY <2>1, <2>2 DEF Sound
  <1>9. ASSUME NEW u \in Task, task'[u].op = "get", task'[u].res = "ok"
         PROVE  \A k \in task'[u].keys : Sound(k, task[u].data)'
    <2>1. u # t
      BY <1>9
    <2>. QED BY <1>9, <2>1 DEF StoredOK, Sound, Same
  <1>10. \A v \in Value : puts'[HashKey(v)] \subseteq {Blocks(v)}
    BY DEF StoredOK
  <1>11. \A v \in acked' : HashKey(v) \in gone' \/ Held(HashKey(v))'
    <2>1. \A k \in Key : Held(k) => Held(k)'
      BY <1>2 DEF Held
    <2>. QED BY <2>1, HashFacts DEF StoredOK
  <1>. QED BY <1>4, <1>7, <1>8, <1>9, <1>10, <1>11 DEF StoredOK

\* A get opens the file.
LEMMA StoredRead ==
    ASSUME StoreTypes, StoredOK, \A u \in Task : TaskOK(task[u]), NEW t \in Task,
           Calling(t, "get"), backend = "local", dir[Target(t)] # NoFile,
           UNCHANGED <<backend, dir, inode, map, puts, shared, gone, acked>>,
           task'[t].fd = dir[Target(t)], task'[t].todo = task[t].todo, task'[t].op = task[t].op,
           task'[t].res = task[t].res, task'[t].keys = task[t].keys, task'[t].data = task[t].data,
           \A u \in Task : u # t => Same(task'[u], task[u])
    PROVE  StoredOK'
  <1>1. \A u \in Task : u # t => Fixed(u)
    BY DEF Same, Fixed
  <1>2. Target(t) \in Key /\ Target(t)' = Target(t) /\ ~Writing(t)'
    BY CallFacts DEF Target, Writing, Calling
  <1>3. \A k \in Key : Held(k)' => Sound(k, Bytes(k))'
    BY DEF StoredOK, Held, Bytes, Sound
  <1>4. ASSUME NEW u \in Task, Writing(u)' PROVE task'[u].data \in puts'[Target(u)']
    BY <1>1, <1>2, <1>4, FixedFacts DEF StoredOK, Fixed
  <1>5. ASSUME NEW u \in Task, Reading(u)' PROVE Sound(Target(u), inode[task[u].fd])'
    <2>1. CASE u = t
      <3>1. Held(Target(t)) /\ Bytes(Target(t)) = inode[dir[Target(t)]]
        BY DEF Held, Bytes
      <3>2. Sound(Target(t), inode[dir[Target(t)]])
        BY <1>2, <3>1 DEF StoredOK
      <3>. QED BY <1>2, <2>1, <3>2 DEF Sound
    <2>2. CASE u # t
      <3>1. Reading(u) /\ Target(u)' = Target(u) /\ task'[u].fd = task[u].fd
        BY <1>1, <1>5, <2>2, FixedFacts DEF Fixed
      <3>2. Sound(Target(u), inode[task[u].fd])
        BY <3>1 DEF StoredOK
      <3>. QED BY <3>1, <3>2 DEF Sound
    <2>. QED BY <2>1, <2>2
  <1>6. ASSUME NEW u \in Task, task'[u].op = "get", task'[u].res = "ok"
         PROVE  \A k \in task'[u].keys : Sound(k, task[u].data)'
    <2>1. task'[u].op = task[u].op /\ task'[u].res = task[u].res /\ task'[u].keys = task[u].keys /\ task'[u].data = task[u].data
      BY DEF Same
    <2>. QED BY <1>6, <2>1 DEF StoredOK, Sound
  <1>7. \A v \in Value : puts'[HashKey(v)] \subseteq {Blocks(v)}
    BY DEF StoredOK
  <1>8. acked' \subseteq Value /\ \A v \in acked' : HashKey(v) \in gone' \/ Held(HashKey(v))'
    BY DEF StoredOK, Held
  <1>. QED BY <1>3, <1>4, <1>5, <1>6, <1>7, <1>8 DEF StoredOK

\* The memory store stores a blob.
LEMMA StoredPut ==
    ASSUME StoreTypes, StoredOK, \A u \in Task : TaskOK(task[u]), NEW t \in Task,
           Calling(t, "put"), backend = "memory",
           map' \in {map, [map EXCEPT ![Target(t)] = task[t].data]},
           puts' = [puts EXCEPT ![Target(t)] = @ \cup {task[t].data}],
           UNCHANGED <<backend, dir, inode, shared, gone>>,
           task'[t].fd = NoFile, ~(task'[t].op = "get" /\ task'[t].res = "ok"),
           \A u \in Task : u # t => Same(task'[u], task[u]),
           acked' \subseteq Value, \A v \in acked' : v \in acked \/ Held(HashKey(v))'
    PROVE  StoredOK'
  <1> DEFINE k0 == Target(t)
  <1>1. k0 \in Key /\ Running(t)
    BY CallFacts DEF Calling
  <1>2. \A k \in Key : puts'[k] = IF k = k0 THEN puts[k] \cup {task[t].data} ELSE puts[k]
    BY DEF StoreTypes
  <1>3. \A k \in Key : map'[k] = map[k] \/ (k = k0 /\ map'[k] = task[t].data)
    BY DEF StoreTypes
  <1>4. \A u \in Task : u # t => Fixed(u)
    BY DEF Same, Fixed
  <1>5. \A k \in Key : \A d : Sound(k, d) => Sound(k, d)'
    BY <1>2 DEF Sound
  <1>6. ASSUME NEW k \in Key, Held(k)' PROVE Sound(k, Bytes(k))'
    <2>1. CASE map'[k] = map[k]
      <3>1. Held(k) /\ Bytes(k)' = Bytes(k)
        BY <1>6, <2>1 DEF Held, Bytes
      <3>. QED BY <1>5, <3>1 DEF StoredOK, Sound
    <2>2. CASE k = k0 /\ map'[k] = task[t].data
      BY <1>2, <2>2 DEF Sound, Bytes
    <2>. QED BY <1>3, <2>1, <2>2
  <1>7. ASSUME NEW u \in Task, Writing(u)' \/ Reading(u)' PROVE u # t
    BY <1>7 DEF Writing, Reading, Open
  <1>8. ASSUME NEW u \in Task, Writing(u)' PROVE task'[u].data \in puts'[Target(u)']
    <2>1. Writing(u) /\ Target(u)' = Target(u) /\ task'[u].data = task[u].data
      BY <1>4, <1>7, <1>8, FixedFacts DEF Fixed
    <2>2. Target(u) \in Key /\ task[u].data \in puts[Target(u)]
      BY <2>1, WritingFacts DEF StoredOK
    <2>. QED BY <1>2, <2>1, <2>2
  <1>9. ASSUME NEW u \in Task, Reading(u)' PROVE Sound(Target(u), inode[task[u].fd])'
    <2>1. Reading(u) /\ Target(u)' = Target(u) /\ task'[u].fd = task[u].fd
      BY <1>4, <1>7, <1>9, FixedFacts DEF Fixed
    <2>2. Sound(Target(u), inode[task[u].fd]) /\ Target(u) \in Key
      BY <2>1, WritingFacts DEF StoredOK
    <2>. QED BY <1>5, <2>1, <2>2 DEF Sound
  <1>10. ASSUME NEW u \in Task, task'[u].op = "get", task'[u].res = "ok"
         PROVE  \A k \in task'[u].keys : Sound(k, task[u].data)'
    <2>1. u # t
      BY <1>10
    <2>2. /\ task'[u].op = task[u].op /\ task'[u].res = task[u].res /\ task'[u].keys = task[u].keys
          /\ task'[u].data = task[u].data /\ task[u].keys \in SUBSET Key
      BY <2>1 DEF Same, TaskOK
    <2>3. \A k \in task[u].keys : Sound(k, task[u].data)
      BY <1>10, <2>2 DEF StoredOK
    <2>. QED BY <1>5, <2>2, <2>3 DEF Sound
  <1>11. ASSUME NEW v \in Value PROVE puts'[HashKey(v)] \subseteq {Blocks(v)}
    <2>1. HashKey(v) \in Key /\ puts[HashKey(v)] \subseteq {Blocks(v)}
      BY HashFacts DEF StoredOK
    <2>2. k0 = HashKey(v) => task[t].data = Blocks(v)
      <3>1. SUFFICES ASSUME k0 = HashKey(v) PROVE task[t].data = Blocks(v)
        OBVIOUS
      <3>2. task[t].op = "put_cas"
        BY <1>1, <3>1, CallFacts, HashFacts
      <3>. QED BY <1>1, <3>1, <3>2, CasTarget
    <2>. QED BY <1>2, <2>1, <2>2
  <1>12. \A v \in acked' : HashKey(v) \in gone' \/ Held(HashKey(v))'
    <2>1. \A k \in Key : Held(k) => Held(k)'
      <3>1. TAKE k \in Key
      <3>2. HAVE Held(k)
      <3>3. IsData(task[t].data)
        BY DEF TaskOK
      <3>4. task[t].data # Absent
        BY <3>3, DataFacts, BlobAssumption
      <3>. QED BY <1>3, <3>2, <3>4 DEF Held
    <2>. QED BY <2>1, HashFacts DEF StoredOK
  <1>. QED BY <1>6, <1>8, <1>9, <1>10, <1>11, <1>12 DEF StoredOK

(***************************************************************************)
(* The steps.                                                              *)
(***************************************************************************)
\* A task that has returned, or does something else, has seen nothing.
LEMMA SeenNothing ==
    ASSUME NEW t \in Task, task'[t].fd = NoFile,
           \/ task'[t].todo = <<>>
           \/ task'[t].op \notin {"put_if_absent", "put_cas", "delete_if_matches", "rename"}
           \/ Len(task'[t].todo) \notin {1, 2}
           \/ Len(task'[t].todo) = 2 /\ task'[t].op # "rename"
    PROVE  SeenOK(t)'
  <1>1. ~Reading(t)'
    BY DEF Reading, Open
  <1>2. Len(<<>>) = 0
    BY TupleTails
  <1>3. \/ task'[t].op \notin {"put_if_absent", "put_cas", "delete_if_matches", "rename"}
        \/ Len(task'[t].todo) \notin {1, 2}
        \/ Len(task'[t].todo) = 2 /\ task'[t].op # "rename"
    <2>1. task'[t].todo = <<>> => Len(task'[t].todo) \notin {1, 2}
      BY <1>2
    <2>. QED BY <2>1
  <1>. QED BY <1>1, <1>3 DEF SeenOK

\* The end of a call, for everything but what t itself has seen.
LEMMA FinishStep ==
    ASSUME BlobInv, NEW t \in Task, NEW s, TaskOK(s), s.fd = NoFile, NEW changed, NEW now,
           Finish(t, s, changed, now), Keeps(changed)
    PROVE  /\ task' = [u \in Task |-> task'[u]] /\ \A u \in Task : TaskOK(task[u])'
           /\ \A u \in Task : u # t => Same(task'[u], task[u]) /\ Fixed(u) /\ SeenOK(u)'
           /\ task'[t].fd = NoFile /\ task'[t].op = s.op /\ task'[t].res = s.res
           /\ task'[t].todo = s.todo /\ task'[t].data = s.data /\ task'[t].keys = s.keys
           /\ s.todo # <<>> => task'[t].want = s.want /\ task'[t].dirty = s.dirty
           /\ acked' \subseteq Value
           /\ \A v \in acked' : v \in acked \/ (s.op = "put_cas" /\ s.res = "ok" /\ s.data = Blocks(v))
  <1>1. /\ StoreTypes /\ StoredOK
        /\ \A u \in Task : TaskOK(task[u]) /\ SeenOK(u) /\ TaskShape(task[u])
        /\ task = [u \in Task |-> task[u]] /\ TaskShape(s)
    BY DEF BlobInv, StoreTypes, TaskOK
  <1>2. /\ task' = [u \in Task |-> task'[u]]
        /\ \A u \in Task : TaskShape(task'[u])
        /\ \A u \in Task : u # t =>
             /\ Same(task'[u], task[u])
             /\ task'[u].dirty = IF Running(u) THEN task[u].dirty \cup changed ELSE task[u].dirty
        /\ Same(task'[t], Returned(s))
        /\ task'[t].dirty = Returned(s).dirty
        /\ acked' = acked \cup Acknowledge(s)
    <2>1. \A u \in Task : TaskShape(task[u])
      BY <1>1
    <2>2. task = [u \in Task |-> task[u]] /\ TaskShape(s)
      BY <1>1
    <2>. QED BY <2>1, <2>2, FinishFacts, ZenonT(30)
  <1>3. ASSUME NEW u \in Task, u # t PROVE Fixed(u) /\ SeenOK(u)' /\ TaskOK(task[u])'
    <2>1. Same(task'[u], task[u])
      BY <1>2, <1>3
    <2>2. Fixed(u)
      BY <2>1 DEF Same, Fixed
    <2>3. Reading(u)' => Reading(u) /\ task'[u].fd = task[u].fd
      BY <2>2, FixedFacts DEF Fixed
    <2>4. Running(u) => task[u].dirty \cup changed \subseteq task'[u].dirty
      BY <1>2, <1>3
    <2>5. SeenOK(u)'
      BY <1>1, <2>1, <2>3, <2>4, SeenKept DEF Same
    <2>6. TaskOK(task'[u])
      BY <1>1, <1>2, <2>1, SameOK
    <2>. QED BY <2>2, <2>5, <2>6 DEF TaskOK, TaskShape, Planned
  <1>4. /\ Returned(s).op = s.op /\ Returned(s).todo = s.todo /\ Returned(s).res = s.res
        /\ Returned(s).data = s.data /\ Returned(s).keys = s.keys
        /\ (s.todo # <<>> => Returned(s) = s)
        /\ (s.todo = <<>> => Returned(s).fd = NoFile /\ Returned(s).at = 0 /\ Returned(s).seen = {})
        /\ TaskShape(Returned(s))
    BY <1>1, ReturnedFacts
  <1>5. Returned(s).fd = NoFile /\ TaskOK(Returned(s))
    <2>1. CASE s.todo # <<>>
      BY <1>4, <2>1
    <2>2. CASE s.todo = <<>>
      <3> DEFINE z == Returned(s)
      <3>1. /\ z.op = s.op /\ z.todo = s.todo /\ z.res = s.res /\ z.data = s.data /\ z.keys = s.keys
            /\ z.fd = NoFile /\ z.at = 0 /\ z.seen = {} /\ TaskShape(z)
        BY <1>4, <2>2
      <3> HIDE DEF z
      <3>2. Planned(z)
        BY <3>1 DEF TaskOK, Planned
      <3>3. TaskOK(z)
        BY <3>1, <3>2 DEF TaskOK
      <3>. QED BY <3>1, <3>3 DEF z
    <2>. QED BY <2>1, <2>2
  <1>6. TaskOK(task'[t])
    BY <1>2, <1>5, SameOK
  <1>7. \A u \in Task : TaskOK(task'[u])
    <2>1. \A u \in Task : u # t => TaskOK(task'[u])
      BY <1>1, <1>2, SameOK
    <2>. QED BY <1>6, <2>1
  <1>8. /\ task'[t].fd = NoFile /\ task'[t].op = s.op /\ task'[t].res = s.res
        /\ task'[t].todo = s.todo /\ task'[t].data = s.data /\ task'[t].keys = s.keys
        /\ (s.todo # <<>> => task'[t].want = s.want /\ task'[t].dirty = s.dirty)
    BY <1>2, <1>4, <1>5 DEF Same
  <1>9. /\ acked' \subseteq Value
        /\ \A v \in acked' : v \in acked \/ (s.op = "put_cas" /\ s.res = "ok" /\ s.data = Blocks(v))
    BY <1>1, <1>2 DEF Acknowledge, StoredOK
  <1>10. \A u \in Task : TaskOK(task[u])'
    BY <1>7 DEF TaskOK, TaskShape, Planned
  <1>. QED BY <1>2, <1>3, <1>8, <1>9, <1>10

\* Nothing is stored or removed.
LEMMA QuietStep ==
    ASSUME BlobInv, NEW t \in Task, NEW s, TaskOK(s), s.fd = NoFile, NEW now,
           Finish(t, s, {}, now), UNCHANGED <<backend, verify, inode, map, puts, shared, gone>>,
           dir' \in [Path -> Inode \cup {NoFile}], \A p \in Path : dir'[p] \in {dir[p], NoFile},
           \A k \in Key : dir'[k] = dir[k],
           s.op = "get" /\ s.res = "ok" => \A k \in s.keys : Sound(k, s.data),
           s.op = "put_cas" /\ s.res = "ok" => \A v \in Value : s.data = Blocks(v) => Held(HashKey(v)),
           Keeps({}) /\ task'[t].fd = NoFile /\ task'[t].op = s.op /\ task'[t].data = s.data
              /\ task'[t].todo = s.todo /\ task'[t].keys = s.keys
              /\ (s.todo # <<>> => task'[t].want = s.want /\ task'[t].dirty = s.dirty) => SeenOK(t)'
    PROVE  BlobInv'
  <1>1. StoreTypes /\ FilesOK /\ StoredOK /\ \A u \in Task : TaskOK(task[u]) /\ SeenOK(u)
    BY DEF BlobInv
  <1>2. Keeps({})
    BY DEF Keeps, Content
  <1>3. /\ task' = [u \in Task |-> task'[u]] /\ \A u \in Task : TaskOK(task[u])'
        /\ \A u \in Task : u # t => Same(task'[u], task[u]) /\ Fixed(u) /\ SeenOK(u)'
        /\ task'[t].fd = NoFile /\ task'[t].op = s.op /\ task'[t].res = s.res
        /\ task'[t].todo = s.todo /\ task'[t].data = s.data /\ task'[t].keys = s.keys
        /\ (s.todo # <<>> => task'[t].want = s.want /\ task'[t].dirty = s.dirty)
        /\ acked' \subseteq Value
        /\ \A v \in acked' : v \in acked \/ (s.op = "put_cas" /\ s.res = "ok" /\ s.data = Blocks(v))
    BY <1>2, FinishStep
  <1>4. StoreTypes'
    BY <1>1, <1>3 DEF StoreTypes
  <1>5. FilesOK'
    BY <1>1, <1>3, FilesDropped
  <1>6. StoredOK'
    <2>1. \A k \in Key : Held(k) <=> Held(k)'
      BY DEF Held
    <2>2. ASSUME NEW v \in acked' PROVE v \in acked \/ Held(HashKey(v))'
      BY <1>3, <2>1, <2>2, HashFacts
    <2>3. ASSUME NEW u \in Task
          PROVE  \/ Fixed(u) /\ task'[u].op = task[u].op /\ task'[u].res = task[u].res /\ task'[u].keys = task[u].keys
                 \/ /\ task'[u].fd = NoFile
                    /\ task'[u].op = "get" /\ task'[u].res = "ok" =>
                          \A k \in task'[u].keys : Sound(k, task[u].data)'
      <3>1. CASE u = t
        BY <1>3, <3>1 DEF Sound
      <3>2. CASE u # t
        BY <1>3, <3>2 DEF Same
      <3>. QED BY <3>1, <3>2
    <2>4. gone \subseteq gone'
      OBVIOUS
    <2>5. \A k \in Key : dir'[k] \in {dir[k], NoFile} /\ map'[k] \in {map[k], Absent}
      OBVIOUS
    <2>6. \A k \in Key : Held(k) => Held(k)' \/ k \in gone'
      BY <2>1
    <2>. QED BY <1>1, <1>3, <2>2, <2>3, <2>4, <2>5, <2>6, StoredDropped
  <1>7. SeenOK(t)'
    BY <1>2, <1>3
  <1>8. \A u \in Task : SeenOK(u)'
    BY <1>3, <1>7
  <1>. QED BY <1>3, <1>4, <1>5, <1>6, <1>8 DEF BlobInv

\* What outcomes mean.
LEMMA MeaningFacts ==
    ASSUME NEW op
    PROVE  /\ \A o \in {"io", "quota_exceeded"} : \A do : Meaning(op, do, o) = o
           /\ Meaning(op, "get", "not_found") \in {"not_found", "false"}
           /\ Meaning(op, "get", "false") = "false"
           /\ Meaning(op, "get", "checksum_mismatch") = "checksum_mismatch"
           /\ Meaning(op, "get", "ok") = "go"
           /\ op \in {"put_if_absent", "put_cas"} => Meaning(op, "head", "ok") # "go" /\ Meaning(op, "head", "not_found") = "go"
           /\ op = "put_cas" => Meaning(op, "head", "ok") = "ok"
           /\ Meaning(op, "put", "ok") = "go"
           /\ Meaning(op, "delete", "ok") = "go"
           /\ Meaning(op, "sweep", "ok") = "go"
  <1>1. \A o \in {"io", "quota_exceeded"} : \A do : Meaning(op, do, o) = o
    BY DEF Meaning
  <1>2. Meaning(op, "get", "not_found") \in {"not_found", "false"}
    BY DEF Meaning
  <1>3. Meaning(op, "get", "false") = "false"
    BY DEF Meaning
  <1>4. Meaning(op, "get", "checksum_mismatch") = "checksum_mismatch"
    BY DEF Meaning
  <1>5. Meaning(op, "get", "ok") = "go"
    BY DEF Meaning
  <1>6. op \in {"put_if_absent", "put_cas"} => Meaning(op, "head", "ok") # "go" /\ Meaning(op, "head", "not_found") = "go"
    BY DEF Meaning
  <1>7. op = "put_cas" => Meaning(op, "head", "ok") = "ok"
    BY DEF Meaning
  <1>8. Meaning(op, "put", "ok") = "go" /\ Meaning(op, "delete", "ok") = "go" /\ Meaning(op, "sweep", "ok") = "go"
    BY DEF Meaning
  <1>. QED BY <1>1, <1>2, <1>3, <1>4, <1>5, <1>6, <1>7, <1>8

\* A get has read the blob.
LEMMA ReadStep ==
    ASSUME BlobInv, NEW t \in Task, Calling(t, "get"), NEW s, Same(s, task[t]), TaskShape(s),
           NEW d, IsData(d), Sound(Target(t), d), Target(t) \notin s.dirty => Content(Target(t)) = d,
           NEW now, Finish(t, Read(s, Target(t), d), {}, now),
           UNCHANGED <<storeVars, puts, shared, gone>>
    PROVE  BlobInv'
  <1> DEFINE k == Target(t)
             r == Read(s, k, d)
             meaning == Meaning(s.op, "get", Judge(s, k, d))
  <1>1. /\ StoreTypes /\ TaskOK(task[t]) /\ Running(t) /\ k \in Key /\ task[t].todo # <<>>
        /\ UNCHANGED <<backend, verify, dir, inode, map, used>>
    BY CallFacts DEF BlobInv, Calling, Running, storeVars
  <1>2. TaskOK(s)
    BY <1>1, SameOK
  <1>3. s.todo = task[t].todo /\ s.op = task[t].op /\ s.want = task[t].want /\ s.keys = task[t].keys /\ s.todo # <<>>
    BY <1>1 DEF Same
  <1>4. Head(s.todo).do = "get"
    BY <1>3 DEF Calling
  <1>5. /\ TaskOK(r)
        /\ r.op = s.op /\ r.data = d /\ r.want = s.want /\ r.keys = s.keys
        /\ r.dirty = s.dirty /\ r.fd = NoFile
        /\ r.todo = IF meaning = "go" THEN Tail(s.todo) ELSE <<>>
        /\ r.res = IF r.todo # <<>> THEN "none" ELSE IF meaning = "go" THEN "ok" ELSE meaning
    BY <1>2, <1>3, <1>4, ReadOK
  <1>6. Judge(s, k, d) \in {"ok", "false", "checksum_mismatch"}
        /\ (Judge(s, k, d) = "ok" /\ s.op = "delete_if_matches" => d = s.want)
    BY DEF Judge
  <1>7. meaning = "go" => Judge(s, k, d) = "ok"
    BY <1>6, MeaningFacts
  <1> HIDE DEF r, meaning
  <1>8. r.op = "get" /\ r.res = "ok" => \A x \in r.keys : Sound(x, r.data)
    <2>1. SUFFICES ASSUME r.op = "get" PROVE r.keys = {k}
      BY <1>5
    <2>2. PICK x \in Key : task[t].keys = {x} /\ task[t].todo \in {<<Call("get", x)>>, <<>>}
      BY <1>1, <1>3, <1>5, <2>1 DEF TaskOK, Planned
    <2>3. k = x
      BY <1>1, <2>2, TupleTails DEF Target, Call
    <2>. QED BY <1>3, <1>5, <2>2, <2>3
  <1>9. r.op # "put_cas"
    BY <1>2, <1>3, <1>4, <1>5, FirstCall DEF TaskOK
  <1>10. ASSUME Keeps({}), task'[t].fd = NoFile, task'[t].op = r.op, task'[t].data = r.data,
                task'[t].todo = r.todo, task'[t].keys = r.keys,
                r.todo # <<>> => task'[t].want = r.want /\ task'[t].dirty = r.dirty
         PROVE  SeenOK(t)'
    <2>1. CASE r.todo = <<>> \/ r.op \notin {"delete_if_matches", "rename"}
      <3>1. r.op \notin {"put_if_absent", "put_cas"} \/ r.todo = <<>>
        BY <1>2, <1>3, <1>4, <1>5, FirstCall DEF TaskOK
      <3>. QED BY <1>10, <2>1, <3>1, SeenNothing
    <2>2. CASE r.todo # <<>> /\ r.op \in {"delete_if_matches", "rename"}
      <3>1. r.todo = Tail(s.todo) /\ meaning = "go" /\ task'[t].want = s.want /\ task'[t].dirty = s.dirty
        BY <1>5, <1>10, <2>2
      <3>2. ~Reading(t)'
        BY <1>10 DEF Reading, Open
      <3>4. CASE r.op = "delete_if_matches"
        <4>1. PICK x \in Key : task[t].todo \in {<<Call("get", x), Call("delete", x)>>, <<Call("delete", x)>>, <<>>}
          BY <1>1, <1>3, <1>5, <3>4 DEF TaskOK, Planned
        <4>2. task[t].todo = <<Call("get", x), Call("delete", x)>>
          BY <1>1, <1>3, <1>4, <4>1, TupleTails DEF Call
        <4>3. k = x /\ r.todo = <<Call("delete", x)>>
          BY <1>3, <3>1, <4>2, TupleTails DEF Target, Call
        <4>4. Target(t)' = k
          BY <1>10, <4>3, TupleTails DEF Target, Call
        <4>5. d = s.want
          BY <1>5, <1>6, <1>7, <3>1, <3>4
        <4>6. k \notin task'[t].dirty => Content(k) = task'[t].want
          BY <3>1, <4>5
        <4>7. \A x2 \in Key : x2 = k => (Content(x2)' = Content(x2))
          BY <1>1 DEF Content
        <4>8. k \notin task'[t].dirty => Content(Target(t))' = task'[t].want
          BY <1>1, <4>4, <4>6, <4>7 DEF Content, Target
        <4>. QED BY <1>10, <3>2, <3>4, <4>4, <4>8 DEF SeenOK, Untouched
      <3>5. CASE r.op = "rename"
        <4>1. PICK x \in Key, y \in Key :
                 /\ task[t].keys = {x, y}
                 /\ task[t].todo \in {<<Call("get", x), Call("put", y), Call("delete", x)>>,
                                      <<Call("put", y), Call("delete", x)>>, <<Call("delete", x)>>, <<>>}
          BY <1>1, <1>3, <1>5, <3>5 DEF TaskOK, Planned
        <4>2. task[t].todo = <<Call("get", x), Call("put", y), Call("delete", x)>>
          BY <1>1, <1>3, <1>4, <4>1, TupleTails DEF Call
        <4>3. k = x /\ r.todo = <<Call("put", y), Call("delete", x)>>
          BY <1>3, <3>1, <4>2, TupleTails DEF Target, Call
        <4>4. Len(task'[t].todo) = 2 /\ task'[t].todo[2].key = k
          BY <1>10, <4>3, TupleTails DEF Call
        <4>5. \A x2 \in Key : Content(x2)' = Content(x2)
          BY <1>1 DEF Content
        <4>6. k \notin task'[t].dirty => Content(k) = task'[t].data
          BY <1>5, <1>10, <3>1
        <4>7. \A x2 \in task'[t].keys : x2 = k /\ x2 \notin task'[t].dirty => Content(x2)' = task'[t].data
          BY <1>1, <4>5, <4>6
        <4>. QED BY <1>10, <3>2, <3>5, <4>4, <4>7 DEF SeenOK, Untouched
      <3>. QED BY <2>2, <3>4, <3>5
    <2>. QED BY <2>1, <2>2
  <1>11. dir \in [Path -> Inode \cup {NoFile}]
    BY <1>1 DEF StoreTypes
  <1>12. Finish(t, r, {}, now)
    BY DEF r
  <1>. QED BY <1>1, <1>5, <1>8, <1>9, <1>10, <1>11, <1>12, QuietStep

\* A get finds nothing.
LEMMA MissStep ==
    ASSUME BlobInv, NEW t \in Task, Calling(t, "get"), NEW now,
           Finish(t, After(Fresh(task[t]), "not_found"), {}, now),
           UNCHANGED <<storeVars, puts, shared, gone>>
    PROVE  BlobInv'
  <1> DEFINE s == Fresh(task[t])
             r == After(s, "not_found")
  <1>1. /\ StoreTypes /\ TaskOK(task[t]) /\ task[t].todo # <<>>
        /\ UNCHANGED <<backend, verify, dir, inode, map, used>>
    BY DEF BlobInv, Calling, Running, storeVars
  <1>2. TaskShape(s) /\ Same(s, task[t])
    BY <1>1, EditFacts DEF TaskOK
  <1>3. TaskOK(s) /\ s.todo = task[t].todo
    BY <1>1, <1>2, SameOK DEF Same
  <1> HIDE DEF s
  <1>4. Head(s.todo).do = "get" /\ s.todo # <<>>
    BY <1>1, <1>3 DEF Calling
  <1>5. TaskOK(r) /\ r.fd = NoFile /\ r.todo = <<>> /\ r.res \in {"not_found", "false"}
    BY <1>2, <1>3, <1>4, AfterOK, AfterFacts, MeaningFacts
  <1>6. Finish(t, r, {}, now)
    BY DEF s
  <1> HIDE DEF r
  <1>7. dir \in [Path -> Inode \cup {NoFile}]
    BY <1>1 DEF StoreTypes
  <1>8. task'[t].fd = NoFile /\ task'[t].todo = r.todo => SeenOK(t)'
    BY <1>5, SeenNothing
  <1>. QED BY <1>1, <1>5, <1>6, <1>7, <1>8, QuietStep

\* The plan of a task that looks before it puts.
LEMMA HeadPlan ==
    ASSUME NEW t \in Task, TaskOK(task[t]), task[t].op \in {"put_if_absent", "put_cas"},
           task[t].todo # <<>>, Head(task[t].todo).do = "head"
    PROVE  Tail(task[t].todo) = <<Call("put", Target(t))>> /\ Tail(task[t].todo) # <<>>
  <1>1. PICK k \in Key : task[t].todo \in {<<Call("head", k), Call("put", k)>>, <<Call("put", k)>>, <<>>}
    <2>1. CASE task[t].op = "put_if_absent"
      BY <2>1 DEF TaskOK, Planned
    <2>2. CASE task[t].op = "put_cas"
      BY <2>2, HashFacts DEF TaskOK, Planned
    <2>. QED BY <2>1, <2>2
  <1>2. Head(<<Call("put", k)>>).do # "head"
    BY TupleTails DEF Call
  <1>3. task[t].todo = <<Call("head", k), Call("put", k)>>
    BY <1>1, <1>2
  <1>4. Target(t) = k /\ Tail(task[t].todo) = <<Call("put", k)>>
    BY <1>3, TupleTails DEF Target, Call
  <1>. QED BY <1>4, TupleTails

\* A head is answered.
LEMMA HeadStep ==
    ASSUME BlobInv, NEW t \in Task, Calling(t, "head"), NEW now,
           Finish(t, Headed(Fresh(task[t]), Target(t), Held(Target(t))), {}, now),
           UNCHANGED <<storeVars, puts, shared, gone>>
    PROVE  BlobInv'
  <1> DEFINE s == Fresh(task[t])
             k == Target(t)
             there == Held(k)
             next == After(s, IF there THEN "ok" ELSE "not_found")
             r == Headed(s, k, there)
  <1>1. /\ StoreTypes /\ TaskOK(task[t]) /\ Running(t) /\ k \in Key /\ task[t].todo # <<>>
        /\ UNCHANGED <<backend, verify, dir, inode, map, used>>
    BY CallFacts DEF BlobInv, Calling, Running, storeVars
  <1>2. TaskShape(s) /\ Same(s, task[t])
    BY <1>1, EditFacts DEF TaskOK
  <1>3. TaskOK(s) /\ s.todo = task[t].todo /\ s.op = task[t].op /\ s.data = task[t].data
    BY <1>1, <1>2, SameOK DEF Same
  <1>4. Head(s.todo).do = "head" /\ s.todo # <<>> /\ there \in BOOLEAN
    BY <1>1, <1>3 DEF Calling, Held
  <1>5. Finish(t, r, {}, now)
    OBVIOUS
  <1> HIDE DEF s
  <1>6. /\ TaskOK(r) /\ r.op = s.op /\ r.data = s.data /\ r.keys = s.keys /\ r.fd = NoFile
        /\ (s.op # "list_meta" => r.todo = next.todo /\ r.res = next.res)
    BY <1>3, <1>4, HeadedOK
  <1>7. s.op \in {"put_if_absent", "put_cas"} =>
            /\ there => r.todo = <<>>
            /\ ~there => r.todo = Tail(s.todo) /\ r.res # "ok"
    <2>1. SUFFICES ASSUME s.op \in {"put_if_absent", "put_cas"}
                   PROVE  /\ there => r.todo = <<>>
                          /\ ~there => r.todo = Tail(s.todo) /\ r.res # "ok"
      OBVIOUS
    <2>2. r.todo = next.todo /\ r.res = next.res
      BY <1>6, <2>1
    <2>4. Tail(s.todo) # <<>>
      BY <1>1, <1>3, <1>4, <2>1, HeadPlan
    <2>5. CASE there
      <3>1. Meaning(s.op, "head", "ok") # "go"
        BY <2>1, MeaningFacts
      <3>2. next = After(s, "ok")
        BY <2>5
      <3>3. next.todo = <<>>
        BY <1>2, <1>4, <3>1, <3>2, AfterFacts
      <3>. QED BY <2>2, <2>5, <3>3
    <2>6. CASE ~there
      <3>1. Meaning(s.op, "head", "not_found") = "go"
        BY <2>1, MeaningFacts
      <3>2. next = After(s, "not_found")
        BY <2>6
      <3>3. next.todo = Tail(s.todo)
        BY <1>2, <1>4, <3>1, <3>2, AfterFacts
      <3>4. next.res = "none"
        <4>1. After(s, "not_found").todo # <<>>
          BY <2>4, <3>2, <3>3
        <4>. QED BY <1>2, <3>2, <4>1, AfterFacts
      <3>. QED BY <2>2, <2>6, <3>3, <3>4
    <2>. QED BY <2>5, <2>6
  <1>8. s.op = "get" => FALSE
    BY <1>3, <1>4, FirstCall DEF TaskOK
  <1>9. s.op \in {"rename", "delete_if_matches"} => FALSE
    BY <1>3, <1>4, FirstCall DEF TaskOK
  <1>10. ASSUME task'[t].fd = NoFile, task'[t].op = r.op, task'[t].todo = r.todo PROVE SeenOK(t)'
    <2>1. CASE r.todo = <<>> \/ r.op \notin {"put_if_absent", "put_cas"}
      BY <1>6, <1>9, <1>10, <2>1, SeenNothing
    <2>2. CASE r.todo # <<>> /\ r.op \in {"put_if_absent", "put_cas"}
      <3>1. ~there /\ r.todo = Tail(s.todo)
        BY <1>6, <1>7, <2>2
      <3>2. task'[t].todo = <<Call("put", k)>>
        BY <1>1, <1>3, <1>4, <1>6, <1>10, <2>2, <3>1, HeadPlan
      <3>3. Target(t)' = k
        BY <3>2, TupleTails DEF Target, Call
      <3>4. \A x \in Key : Held(x)' <=> Held(x)
        BY <1>1 DEF Held
      <3>5. ~Held(Target(t))'
        BY <1>1, <3>1, <3>3, <3>4 DEF Held, Target
      <3>6. ~Reading(t)'
        BY <1>10 DEF Reading, Open
      <3>. QED BY <1>10, <2>2, <3>5, <3>6 DEF SeenOK
    <2>. QED BY <2>1, <2>2
  <1>11. r.op = "put_cas" /\ r.res = "ok" => \A v \in Value : r.data = Blocks(v) => Held(HashKey(v))
    <2>1. SUFFICES ASSUME r.op = "put_cas", r.res = "ok", NEW v \in Value, r.data = Blocks(v)
                   PROVE  Held(HashKey(v))
      OBVIOUS
    <2>2. there
      BY <1>6, <1>7, <2>1
    <2>3. k = HashKey(v)
      BY <1>1, <1>3, <1>6, <2>1, CasTarget
    <2>. QED BY <2>2, <2>3
  <1>12. dir \in [Path -> Inode \cup {NoFile}]
    BY <1>1 DEF StoreTypes
  <1> HIDE DEF r
  <1>. QED BY <1>1, <1>5, <1>6, <1>8, <1>10, <1>11, <1>12, QuietStep

\* A walk goes on, or its keys are known; no operation that tests first walks.
LEMMA ListStep ==
    ASSUME BlobInv, NEW t \in Task, NEW s, TaskOK(s), s.fd = NoFile, s.op \notin Fixedly, NEW now,
           Finish(t, s, {}, now), UNCHANGED <<backend, verify, inode, map, puts, shared, gone>>,
           dir' \in [Path -> Inode \cup {NoFile}], \A p \in Path : dir'[p] \in {dir[p], NoFile},
           \A k \in Key : dir'[k] = dir[k]
    PROVE  BlobInv'
  <1>1. s.op \notin {"put_if_absent", "put_cas", "delete_if_matches", "rename"} /\ s.op # "get" /\ s.op # "put_cas"
    BY DEF Fixedly
  <1>2. task'[t].fd = NoFile /\ task'[t].op = s.op => SeenOK(t)'
    BY <1>1, SeenNothing
  <1>. QED BY <1>1, <1>2, QuietStep

\* A call fails, and so does the operation.
LEMMA FailStep ==
    ASSUME BlobInv, NEW t \in Task, Running(t), NEW o \in {"io", "quota_exceeded"}, NEW now,
           Finish(t, After(task[t], o), {}, now), UNCHANGED <<storeVars, puts, shared, gone>>
    PROVE  BlobInv'
  <1> DEFINE r == After(task[t], o)
  <1>1. /\ StoreTypes /\ TaskOK(task[t]) /\ task[t].todo # <<>>
        /\ UNCHANGED <<backend, verify, dir, inode, map, used>>
    BY DEF BlobInv, Running, storeVars
  <1>2. Meaning(task[t].op, Head(task[t].todo).do, o) = o
    BY MeaningFacts
  <1>3. TaskOK(r) /\ r.fd = NoFile /\ r.todo = <<>> /\ r.res = o
    BY <1>1, <1>2, AfterOK, AfterFacts DEF TaskOK
  <1> HIDE DEF r
  <1>4. Finish(t, r, {}, now)
    BY DEF r
  <1>5. dir \in [Path -> Inode \cup {NoFile}]
    BY <1>1 DEF StoreTypes
  <1>6. task'[t].fd = NoFile /\ task'[t].todo = r.todo => SeenOK(t)'
    BY <1>3, SeenNothing
  <1>. QED BY <1>1, <1>3, <1>4, <1>5, <1>6, QuietStep

\* A delete.
LEMMA DeleteStep ==
    ASSUME BlobInv, NEW t \in Task, Calling(t, "delete"), NEW o \in {"ok", "not_found"}, NEW now,
           Finish(t, After(task[t], o), IF Held(Target(t)) THEN {Target(t)} ELSE {}, now),
           gone' = gone \cup {Target(t)}, UNCHANGED <<backend, verify, inode, puts, shared>>,
           \/ backend = "memory" /\ map' = [map EXCEPT ![Target(t)] = Absent] /\ dir' = dir
           \/ backend = "local" /\ dir' = [dir EXCEPT ![Target(t)] = NoFile] /\ map' = map
    PROVE  BlobInv'
  <1> DEFINE r == After(task[t], o)
             k == Target(t)
             changed == IF Held(k) THEN {k} ELSE {}
             meaning == Meaning(task[t].op, Head(task[t].todo).do, o)
  <1>1. /\ StoreTypes /\ FilesOK /\ StoredOK /\ \A u \in Task : TaskOK(task[u]) /\ SeenOK(u)
        /\ Running(t) /\ k \in Key /\ k \in Path /\ task[t].todo # <<>>
    BY CallFacts, TmpFacts DEF BlobInv, Calling, Running
  <1>2. /\ TaskOK(r) /\ r.fd = NoFile /\ r.op = task[t].op
        /\ r.todo = IF meaning = "go" THEN Tail(task[t].todo) ELSE <<>>
    BY <1>1, AfterOK, AfterFacts DEF TaskOK
  <1>3. Finish(t, r, changed, now)
    OBVIOUS
  <1>4. /\ task[t].op \in {"put_cas", "put_if_absent", "get"} => FALSE
        /\ task[t].op \in {"delete_if_matches", "rename"} => Tail(task[t].todo) = <<>>
    <2>1. Head(task[t].todo).do = "delete"
      BY DEF Calling
    <2>2. task[t].op \in {"put_cas", "put_if_absent", "get"} => FALSE
      BY <1>1, <2>1, FirstCall DEF TaskOK
    <2>3. ASSUME task[t].op = "delete_if_matches" PROVE Tail(task[t].todo) = <<>>
      <3>1. PICK x \in Key : task[t].todo \in {<<Call("get", x), Call("delete", x)>>, <<Call("delete", x)>>, <<>>}
        BY <1>1, <2>3 DEF TaskOK, Planned
      <3>2. task[t].todo = <<Call("delete", x)>>
        BY <1>1, <2>1, <3>1, TupleTails DEF Call
      <3>. QED BY <3>2, TupleTails
    <2>4. ASSUME task[t].op = "rename" PROVE Tail(task[t].todo) = <<>>
      <3>1. PICK x \in Key, y \in Key :
               /\ task[t].keys = {x, y}
               /\ task[t].todo \in {<<Call("get", x), Call("put", y), Call("delete", x)>>,
                                    <<Call("put", y), Call("delete", x)>>, <<Call("delete", x)>>, <<>>}
        BY <1>1, <2>4 DEF TaskOK, Planned
      <3>2. task[t].todo = <<Call("delete", x)>>
        BY <1>1, <2>1, <3>1, TupleTails DEF Call
      <3>. QED BY <3>2, TupleTails
    <2>. QED BY <2>2, <2>3, <2>4
  <1>5. /\ \A x \in Key : x # k => dir'[x] = dir[x] /\ map'[x] = map[x]
        /\ \A p \in Path : dir'[p] \in {dir[p], NoFile}
        /\ \A x \in Key : map'[x] \in {map[x], Absent}
        /\ dir' \in [Path -> Inode \cup {NoFile}]
        /\ map' = [x \in Key |-> map'[x]] /\ \A x \in Key : map'[x] = Absent \/ IsData(map'[x])
    <2>1. /\ dir \in [Path -> Inode \cup {NoFile}] /\ map = [x \in Key |-> map[x]]
          /\ \A x \in Key : (map[x] = Absent \/ IsData(map[x])) /\ x \in Path
      BY <1>1, TmpFacts DEF StoreTypes
    <2> HIDE DEF k
    <2>2. k \in Key /\ k \in Path
      BY <1>1
    <2>3. CASE map' = [map EXCEPT ![k] = Absent] /\ dir' = dir
      <3>1. \A x \in Key : map'[x] = IF x = k THEN Absent ELSE map[x]
        BY <2>1, <2>2, <2>3
      <3>2. map' = [x \in Key |-> map'[x]]
        BY <2>1, <2>2, <2>3
      <3>. QED BY <2>1, <2>3, <3>1, <3>2
    <2>4. CASE dir' = [dir EXCEPT ![k] = NoFile] /\ map' = map
      <3>1. \A x \in Path : dir'[x] = IF x = k THEN NoFile ELSE dir[x]
        BY <2>1, <2>2, <2>4
      <3>2. dir' \in [Path -> Inode \cup {NoFile}]
        BY <2>1, <2>2, <2>4
      <3>3. map' = map /\ map' = [x \in Key |-> map'[x]]
        BY <2>1, <2>4
      <3>. QED BY <2>1, <3>1, <3>2, <3>3
    <2>. QED BY <2>3, <2>4 DEF k
  <1>6. ~Held(k) => dir'[k] = dir[k] /\ map'[k] = map[k]
    BY <1>1 DEF StoreTypes, Held
  <1>7. Keeps(changed)
    <2>1. \A x \in Key : x \notin changed => dir'[x] = dir[x] /\ map'[x] = map[x]
      BY <1>5, <1>6
    <2>2. \A x \in Key : x \notin changed => Content(x)' = Content(x)
      BY <2>1 DEF Content
    <2> HIDE DEF changed
    <2>. QED BY <2>1, <2>2 DEF Keeps
  <1> HIDE DEF r, changed, meaning
  <1>8. /\ task' = [u \in Task |-> task'[u]] /\ \A u \in Task : TaskOK(task[u])'
        /\ \A u \in Task : u # t => Same(task'[u], task[u]) /\ Fixed(u) /\ SeenOK(u)'
        /\ task'[t].fd = NoFile /\ task'[t].op = r.op /\ task'[t].res = r.res
        /\ task'[t].todo = r.todo
        /\ acked' \subseteq Value
        /\ \A v \in acked' : v \in acked \/ (r.op = "put_cas" /\ r.res = "ok" /\ r.data = Blocks(v))
    BY <1>2, <1>3, <1>7, FinishStep
  <1>9. StoreTypes'
    BY <1>1, <1>5, <1>8 DEF StoreTypes
  <1>10. FilesOK'
    BY <1>1, <1>5, <1>8, FilesDropped
  <1>11. StoredOK'
    <2>1. \A x \in Key : Held(x) => Held(x)' \/ x \in gone'
      BY <1>5 DEF Held
    <2>2. \A u \in Task :
            \/ Fixed(u) /\ task'[u].op = task[u].op /\ task'[u].res = task[u].res /\ task'[u].keys = task[u].keys
            \/ task'[u].fd = NoFile /\ task'[u].op # "get"
      BY <1>2, <1>4, <1>8 DEF Same
    <2>3. \A v \in acked' : v \in acked
      BY <1>2, <1>4, <1>8
    <2>4. \A x \in Key : dir'[x] \in {dir[x], NoFile} /\ map'[x] \in {map[x], Absent}
      BY <1>5, TmpFacts
    <2>5. gone \subseteq gone'
      OBVIOUS
    <2>. QED BY <1>1, <1>8, <2>1, <2>2, <2>3, <2>4, <2>5, StoredDropped
  <1>12. SeenOK(t)'
    <2>1. r.todo = <<>> \/ r.op \notin {"put_if_absent", "put_cas", "delete_if_matches", "rename"}
      BY <1>2, <1>4
    <2>. QED BY <1>8, <2>1, SeenNothing
  <1>. QED BY <1>8, <1>9, <1>10, <1>11, <1>12 DEF BlobInv

\* The plan of a rename after its put.
LEMMA PutPlan ==
    ASSUME NEW t \in Task, TaskOK(task[t]), Running(t), Calling(t, "put")
    PROVE  /\ task[t].op = "rename" => \E k \in Key : Tail(task[t].todo) = <<Call("delete", k)>> /\ task[t].keys = {k, Target(t)}
           /\ task[t].op \in {"put_if_absent", "put_cas"} => Tail(task[t].todo) = <<>>
           /\ task[t].op \notin {"delete_if_matches", "get"}
  <1>1. Head(task[t].todo).do = "put" /\ task[t].todo # <<>>
    BY DEF Calling, Running
  <1>2. ASSUME task[t].op = "rename"
        PROVE  \E k \in Key : Tail(task[t].todo) = <<Call("delete", k)>> /\ task[t].keys = {k, Target(t)}
    <2>1. PICK x \in Key, y \in Key :
             /\ task[t].keys = {x, y}
             /\ task[t].todo \in {<<Call("get", x), Call("put", y), Call("delete", x)>>,
                                  <<Call("put", y), Call("delete", x)>>, <<Call("delete", x)>>, <<>>}
      BY <1>2 DEF TaskOK, Planned
    <2>2. task[t].todo = <<Call("put", y), Call("delete", x)>>
      BY <1>1, <2>1, TupleTails DEF Call
    <2>3. Tail(task[t].todo) = <<Call("delete", x)>> /\ Target(t) = y
      BY <2>2, TupleTails DEF Target, Call
    <2>. QED BY <2>1, <2>3
  <1>3. ASSUME task[t].op \in {"put_if_absent", "put_cas"} PROVE Tail(task[t].todo) = <<>>
    <2>1. PICK k \in Key : task[t].todo \in {<<Call("head", k), Call("put", k)>>, <<Call("put", k)>>, <<>>}
      <3>1. CASE task[t].op = "put_if_absent"
        BY <3>1 DEF TaskOK, Planned
      <3>2. CASE task[t].op = "put_cas"
        BY <3>2, HashFacts DEF TaskOK, Planned
      <3>. QED BY <1>3, <3>1, <3>2
    <2>2. task[t].todo = <<Call("put", k)>>
      BY <1>1, <2>1, TupleTails DEF Call
    <2>. QED BY <2>2, TupleTails
  <1>4. task[t].op \notin {"delete_if_matches", "get"}
    BY <1>1, FirstCall DEF TaskOK
  <1>. QED BY <1>2, <1>3, <1>4

\* What a rename has seen once its put is done.
LEMMA PutSeen ==
    ASSUME NEW t \in Task, TaskOK(task[t]), Running(t), Calling(t, "put"),
           task'[t].fd = NoFile, task'[t].op = task[t].op, task'[t].data = task[t].data,
           task'[t].keys = task[t].keys, task'[t].todo \in {Tail(task[t].todo), <<>>},
           task'[t].todo # <<>> /\ TmpPath(Target(t)) \notin shared' =>
              \A k \in Key : k = Target(t) => Content(k)' = task[t].data
    PROVE  SeenOK(t)'
  <1>1. CASE task'[t].todo = <<>> \/ task[t].op # "rename"
    <2>1. task'[t].todo = <<>> \/ task'[t].op \notin {"put_if_absent", "put_cas", "delete_if_matches", "rename"}
      BY <1>1, PutPlan
    <2>. QED BY <2>1, SeenNothing
  <1>2. CASE task'[t].todo # <<>> /\ task[t].op = "rename"
    <2>1. PICK x \in Key : Tail(task[t].todo) = <<Call("delete", x)>> /\ task[t].keys = {x, Target(t)}
      BY <1>2, PutPlan
    <2>2. task'[t].todo = <<Call("delete", x)>> /\ Len(task'[t].todo) = 1
      <3>1. task'[t].todo = Tail(task[t].todo)
        BY <1>2
      <3>2. task'[t].todo = <<Call("delete", x)>>
        BY <2>1, <3>1
      <3>. QED BY <3>2, TupleTails
    <2>3. Target(t)' = x
      BY <2>2, TupleTails DEF Target, Call
    <2>4. ~Reading(t)'
      BY DEF Reading, Open
    <2>5. ASSUME NEW k \in task'[t].keys, k # Target(t)', TmpPath(k) \notin shared' PROVE Content(k)' = task'[t].data
      <3>1. k = Target(t) /\ k \in Key
        BY <2>1, <2>3, <2>5 DEF TaskOK
      <3>. QED BY <1>2, <2>5, <3>1
    <2>. QED BY <1>2, <2>2, <2>4, <2>5 DEF SeenOK, Untouched
  <1>. QED BY <1>1, <1>2

\* What put, done or failed, makes of the task.
LEMMA PutTask ==
    ASSUME NEW t \in Task, TaskOK(task[t]), Calling(t, "put"), NEW o \in {"ok", "io", "quota_exceeded"}
    PROVE  LET s == task[t]
               r == After(s, o)
           IN  /\ TaskOK(r) /\ r.fd = NoFile /\ r.op = s.op /\ r.data = s.data /\ r.keys = s.keys
               /\ r.todo \in {Tail(s.todo), <<>>} /\ r.op # "get"
               /\ o # "ok" => r.todo = <<>> /\ r.res # "ok"
  <1> DEFINE s == task[t]
             r == After(s, o)
             meaning == Meaning(s.op, Head(s.todo).do, o)
  <1>1. s.todo # <<>> /\ Head(s.todo).do = "put" /\ Running(t)
    BY DEF Calling, Running
  <1>2. TaskOK(r)
    BY <1>1, AfterOK
  <1>3. /\ r.fd = NoFile /\ r.op = s.op /\ r.data = s.data /\ r.keys = s.keys
        /\ r.todo = IF meaning = "go" THEN Tail(s.todo) ELSE <<>>
        /\ r.res = IF r.todo # <<>> THEN "none" ELSE IF meaning = "go" THEN "ok" ELSE meaning
    BY AfterFacts DEF TaskOK
  <1>4. o # "ok" => meaning = o /\ o # "go"
    BY MeaningFacts
  <1>5. s.op # "get"
    BY <1>1, PutPlan
  <1> HIDE DEF r, meaning
  <1>6. r.todo \in {Tail(s.todo), <<>>} /\ r.op # "get"
    BY <1>3, <1>5
  <1>7. o # "ok" => r.todo = <<>> /\ r.res # "ok"
    BY <1>3, <1>4
  <1>. QED BY <1>2, <1>3, <1>6, <1>7 DEF r

\* MemoryBlobStore::put.
LEMMA MemoryPutInv ==
    ASSUME BlobInv, NEW t \in Task, memory_put(t)
    PROVE  BlobInv'
  <1> DEFINE s == task[t]
             k == Target(t)
             fits == used - Length(map[k]) + Len(s.data) <= Capacity
             stored == IF fits THEN [map EXCEPT ![k] = s.data] ELSE map
             o == IF fits THEN "ok" ELSE "quota_exceeded"
             r == After(s, o)
             changed == IF fits THEN {k} ELSE {}
             now == {x \in Key : stored[x] # Absent}
  <1>1. /\ backend = "memory" /\ Calling(t, "put") /\ map' = stored
        /\ puts' = [puts EXCEPT ![k] = @ \cup {s.data}]
        /\ UNCHANGED <<backend, verify, dir, inode, shared, gone>>
        /\ Finish(t, r, changed, now)
    BY DEF memory_put
  <1>2. /\ StoreTypes /\ FilesOK /\ StoredOK /\ \A u \in Task : TaskOK(task[u]) /\ SeenOK(u)
        /\ Running(t) /\ k \in Key /\ k \in Path
    BY <1>1, CallFacts, TmpFacts DEF BlobInv, Calling, Running
  <1>3. /\ TaskOK(r) /\ r.fd = NoFile /\ r.op = s.op /\ r.data = s.data /\ r.keys = s.keys
        /\ r.todo \in {Tail(s.todo), <<>>} /\ r.op # "get"
        /\ ~fits => r.todo = <<>> /\ r.res # "ok"
    BY <1>1, <1>2, PutTask
  <1>4. IsData(s.data) /\ s.data # Absent
    BY <1>2, DataFacts, BlobAssumption DEF TaskOK
  <1>5. /\ map = [x \in Key |-> map[x]] /\ \A x \in Key : map[x] = Absent \/ IsData(map[x])
        /\ puts = [x \in Key |-> puts[x]]
    BY <1>2 DEF StoreTypes
  <1> HIDE DEF r, now, fits, s, k
  <1>6. /\ \A x \in Key : map'[x] = IF fits /\ x = k THEN s.data ELSE map[x]
        /\ map' = [x \in Key |-> map'[x]]
    BY <1>1, <1>2, <1>5
  <1>7. Keeps(changed)
    <2>1. \A x \in Key : x \notin changed => dir'[x] = dir[x] /\ map'[x] = map[x]
      BY <1>1, <1>6
    <2>2. \A x \in Key : x \notin changed => Content(x)' = Content(x)
      BY <1>1, <2>1 DEF Content
    <2> HIDE DEF changed
    <2>. QED BY <1>1, <2>1, <2>2 DEF Keeps
  <1> HIDE DEF changed, stored
  <1>8. /\ task' = [u \in Task |-> task'[u]] /\ \A u \in Task : TaskOK(task[u])'
        /\ \A u \in Task : u # t => Same(task'[u], task[u]) /\ Fixed(u) /\ SeenOK(u)'
        /\ task'[t].fd = NoFile /\ task'[t].op = r.op /\ task'[t].res = r.res
        /\ task'[t].todo = r.todo /\ task'[t].data = r.data /\ task'[t].keys = r.keys
        /\ acked' \subseteq Value
        /\ \A v \in acked' : v \in acked \/ (r.op = "put_cas" /\ r.res = "ok" /\ r.data = Blocks(v))
    BY <1>1, <1>3, <1>7, FinishStep
  <1>9. StoreTypes'
    <2>1. \A x \in Key : map'[x] = Absent \/ IsData(map'[x])
      BY <1>4, <1>5, <1>6
    <2>2. puts' = [x \in Key |-> puts'[x]]
      BY <1>1, <1>2, <1>5
    <2>. QED BY <1>1, <1>2, <1>6, <1>8, <2>1, <2>2 DEF StoreTypes
  <1>10. FilesOK'
    <2>1. \A u \in Task : Fixed(u) \/ task'[u].fd = NoFile
      BY <1>8
    <2>. QED BY <1>1, <1>2, <2>1, FilesDropped
  <1>11. ASSUME NEW v \in acked' PROVE v \in acked \/ Held(HashKey(v))'
    <2>1. SUFFICES ASSUME r.op = "put_cas", r.res = "ok", r.data = Blocks(v) PROVE Held(HashKey(v))'
      BY <1>8
    <2>2. v \in Value /\ fits
      BY <1>3, <1>8, <2>1
    <2>3. k = HashKey(v)
      BY <1>2, <1>3, <2>1, <2>2, CasTarget DEF s, k
    <2>. QED BY <1>1, <1>2, <1>4, <1>6, <2>2, <2>3 DEF Held
  <1>12. StoredOK'
    <2>1. map' \in {map, [map EXCEPT ![k] = s.data]}
      BY <1>1 DEF stored
    <2>2. ~(task'[t].op = "get" /\ task'[t].res = "ok")
      BY <1>3, <1>8
    <2>. QED BY <1>1, <1>2, <1>8, <1>11, <2>1, <2>2, StoredPut DEF k, s
  <1>13. SeenOK(t)'
    <2>1. ASSUME task'[t].todo # <<>>, NEW x \in Key, x = k PROVE Content(x)' = s.data
      BY <1>1, <1>2, <1>3, <1>6, <1>8, <2>1 DEF Content
    <2>. QED BY <1>1, <1>2, <1>3, <1>8, <2>1, PutSeen DEF k, s
  <1>. QED BY <1>8, <1>9, <1>10, <1>12, <1>13 DEF BlobInv

\* fs::rename of the temporary file.
LEMMA RenameTmpInv ==
    ASSUME BlobInv, NEW t \in Task, RenameTmp(t)
    PROVE  BlobInv'
  <1> DEFINE s == task[t]
             k == Target(t)
             tmp == TmpPath(k)
  <1>1. /\ backend = "local" /\ Calling(t, "put") /\ s.fd # NoFile /\ s.at = Len(s.data)
        /\ UNCHANGED <<backend, verify, inode, map, used, puts, shared, gone>>
    BY DEF RenameTmp
  <1>2. /\ StoreTypes /\ FilesOK /\ StoredOK /\ \A u \in Task : TaskOK(task[u]) /\ SeenOK(u)
        /\ Running(t) /\ k \in Key /\ k \in Path /\ tmp \in Path /\ tmp \notin Key /\ tmp = Tmp(t)
    BY <1>1, CallFacts, TmpFacts DEF BlobInv, Calling, Running, Tmp
  <1>3. CASE dir[tmp] = NoFile
    <2>1. dir' = dir /\ Finish(t, After(s, "io"), {}, Present)
      BY <1>3 DEF RenameTmp
    <2>2. UNCHANGED <<storeVars, puts, shared, gone>>
      BY <1>1, <2>1 DEF storeVars
    <2>. QED BY <1>2, <2>1, <2>2, FailStep
  <1>4. CASE dir[tmp] # NoFile
    <2> DEFINE r == After(s, "ok")
               now == Present \cup {k}
    <2>1. dir' = [dir EXCEPT ![tmp] = NoFile, ![k] = dir[tmp]] /\ Finish(t, r, {k}, now)
      BY <1>4 DEF RenameTmp
    <2>2. /\ TaskOK(r) /\ r.fd = NoFile /\ r.op = s.op /\ r.data = s.data /\ r.keys = s.keys
          /\ r.todo \in {Tail(s.todo), <<>>} /\ r.op # "get"
      BY <1>1, <1>2, PutTask
    <2>3. dir \in [Path -> Inode \cup {NoFile}]
      BY <1>2 DEF StoreTypes
    <2> HIDE DEF r, now, tmp, k, s
    <2>4. /\ \A p \in Path : dir'[p] = IF p = k THEN dir[tmp] ELSE IF p = tmp THEN NoFile ELSE dir[p]
          /\ dir' \in [Path -> Inode \cup {NoFile}]
      BY <1>2, <2>1, <2>3
    <2>5. Keeps({k})
      <3>1. \A x \in Key : x # k => dir'[x] = dir[x] /\ map'[x] = map[x]
        BY <1>1, <1>2, <2>4, TmpFacts
      <3>2. \A x \in Key : x # k => Content(x)' = Content(x)
        BY <1>1, <3>1 DEF Content
      <3>. QED BY <1>1, <3>1, <3>2 DEF Keeps
    <2>6. /\ task' = [u \in Task |-> task'[u]] /\ \A u \in Task : TaskOK(task[u])'
          /\ \A u \in Task : u # t => Same(task'[u], task[u]) /\ Fixed(u) /\ SeenOK(u)'
          /\ task'[t].fd = NoFile /\ task'[t].op = r.op /\ task'[t].res = r.res
          /\ task'[t].todo = r.todo /\ task'[t].data = r.data /\ task'[t].keys = r.keys
          /\ acked' \subseteq Value
          /\ \A v \in acked' : v \in acked \/ (r.op = "put_cas" /\ r.res = "ok" /\ r.data = Blocks(v))
      BY <2>1, <2>2, <2>5, FinishStep
    <2>7. StoreTypes'
      BY <1>1, <1>2, <2>4, <2>6 DEF StoreTypes
    <2>8. Writing(t)
      BY <1>1 DEF Writing, Open, s
    <2>9. /\ dir[Tmp(t)] # NoFile /\ dir' = [dir EXCEPT ![Tmp(t)] = NoFile, ![Target(t)] = dir[Tmp(t)]]
          /\ task[t].at = Len(task[t].data)
      BY <1>1, <1>2, <1>4, <2>1 DEF k, s
    <2>10. FilesOK'
      BY <1>1, <1>2, <2>6, <2>8, <2>9, FilesRenamed
    <2>11. ASSUME NEW v \in acked' PROVE v \in acked \/ Held(HashKey(v))'
      <3>1. SUFFICES ASSUME r.op = "put_cas", r.data = Blocks(v) PROVE Held(HashKey(v))'
        BY <2>6
      <3>2. v \in Value
        BY <2>6
      <3>3. k = HashKey(v)
        BY <1>2, <2>2, <3>1, <3>2, CasTarget DEF s, k
      <3>. QED BY <1>1, <1>2, <1>4, <2>4, <3>3 DEF Held
    <2>12. StoredOK'
      <3>1. ~(task'[t].op = "get" /\ task'[t].res = "ok")
        BY <2>2, <2>6
      <3>. QED BY <1>1, <1>2, <2>6, <2>8, <2>9, <2>11, <3>1, StoredRenamed
    <2>13. SeenOK(t)'
      <3>1. ASSUME tmp \notin shared', NEW x \in Key, x = k PROVE Content(x)' = s.data
        <4>1. Tmp(t) \notin shared /\ inode' = inode
          BY <1>1, <1>2, <3>1
        <4>2. dir[tmp] = task[t].fd /\ inode[task[t].fd] = [j \in 1..task[t].at |-> task[t].data[j]]
          BY <1>2, <1>4, <2>8, <4>1 DEF FilesOK, Alone
        <4>3. inode[dir[tmp]] = s.data
          <5>1. IsData(s.data)
            BY <1>2 DEF TaskOK, s
          <5>2. s.data = [j \in 1..Len(s.data) |-> s.data[j]]
            BY <5>1, DataFacts
          <5>. QED BY <1>1, <4>2, <5>2 DEF s
        <4>4. dir'[k] = dir[tmp] /\ dir'[k] # NoFile
          BY <1>2, <1>4, <2>4
        <4>. QED BY <1>1, <3>1, <4>1, <4>3, <4>4 DEF Content
      <3>2. TmpPath(Target(t)) = tmp
        BY DEF tmp, k
      <3>. QED BY <1>1, <1>2, <2>2, <2>6, <3>1, <3>2, PutSeen DEF k, s
    <2>. QED BY <2>6, <2>7, <2>10, <2>12, <2>13 DEF BlobInv
  <1>. QED BY <1>3, <1>4

\* A failing system call.
LEMMA FailCallInv ==
    ASSUME BlobInv, NEW t \in Task, FailCall(t)
    PROVE  BlobInv'
  BY FailStep DEF FailCall

\* get on the memory store.
LEMMA MemoryGetInv ==
    ASSUME BlobInv, NEW t \in Task, memory_get(t)
    PROVE  BlobInv'
  <1> DEFINE s == Fresh(task[t])
             k == Target(t)
  <1>1. /\ backend = "memory" /\ Calling(t, "get") /\ UNCHANGED <<storeVars, puts, shared, gone>>
        /\ Finish(t, IF map[k] = Absent THEN After(s, "not_found") ELSE Read(s, k, map[k]), {}, Present)
    BY DEF memory_get
  <1>2. /\ StoreTypes /\ StoredOK /\ TaskOK(task[t]) /\ Running(t) /\ k \in Key
    BY <1>1, CallFacts DEF BlobInv, Calling
  <1>3. CASE map[k] = Absent
    BY <1>1, <1>3, MissStep
  <1>4. CASE map[k] # Absent
    <2>1. IsData(map[k]) /\ Sound(k, map[k]) /\ Content(k) = map[k]
      BY <1>1, <1>2, <1>4 DEF StoreTypes, StoredOK, Held, Bytes, Content
    <2>2. TaskShape(s) /\ Same(s, task[t])
      BY <1>2, EditFacts DEF TaskOK
    <2>3. Finish(t, Read(s, k, map[k]), {}, Present)
      BY <1>1, <1>4
    <2> HIDE DEF s
    <2>. QED BY <1>1, <2>1, <2>2, <2>3, ReadStep
  <1>. QED BY <1>3, <1>4

\* get on the local store: the inode opened is read, whatever name it has.
LEMMA ReadFileInv ==
    ASSUME BlobInv, NEW t \in Task, ReadFile(t)
    PROVE  BlobInv'
  <1> DEFINE s == task[t]
             k == Target(t)
  <1>1. /\ backend = "local" /\ Calling(t, "get") /\ s.fd # NoFile /\ UNCHANGED <<storeVars, puts, shared, gone>>
        /\ Finish(t, Read(s, k, inode[s.fd]), {}, Present)
    BY DEF ReadFile
  <1>2. /\ StoreTypes /\ StoredOK /\ FilesOK /\ TaskOK(task[t]) /\ SeenOK(t) /\ Running(t) /\ k \in Key
    BY <1>1, CallFacts DEF BlobInv, Calling
  <1>3. Reading(t)
    BY <1>1 DEF Reading, Open
  <1>4. s.fd \in Inode
    BY <1>1, <1>2 DEF FilesOK, Named
  <1>5. IsData(inode[s.fd]) /\ Sound(k, inode[s.fd])
    BY <1>2, <1>3, <1>4 DEF StoreTypes, StoredOK
  <1>6. k \notin s.dirty => Content(k) = inode[s.fd]
    BY <1>1, <1>2, <1>3 DEF SeenOK, Content
  <1>7. TaskShape(s) /\ Same(s, task[t])
    BY <1>2 DEF TaskOK, Same
  <1>. QED BY <1>1, <1>5, <1>6, <1>7, ReadStep

\* head on either store.
LEMMA HeadInv ==
    ASSUME BlobInv, NEW t \in Task, memory_head(t) \/ local_head(t)
    PROVE  BlobInv'
  <1>1. CASE memory_head(t)
    <2>1. Held(Target(t)) = (map[Target(t)] # Absent)
      BY <1>1 DEF memory_head, Held
    <2>2. Finish(t, Headed(Fresh(task[t]), Target(t), Held(Target(t))), {}, Present)
      BY <1>1, <2>1 DEF memory_head
    <2>. QED BY <1>1, <2>2, HeadStep DEF memory_head
  <1>2. CASE local_head(t)
    <2>1. Held(Target(t)) = (dir[Target(t)] # NoFile)
      BY <1>2 DEF local_head, Held
    <2>2. Finish(t, Headed(Fresh(task[t]), Target(t), Held(Target(t))), {}, Present)
      BY <1>2, <2>1 DEF local_head
    <2>. QED BY <1>2, <2>2, HeadStep DEF local_head
  <1>. QED BY <1>1, <1>2

\* delete on either store.
LEMMA DeleteInv ==
    ASSUME BlobInv, NEW t \in Task, memory_delete(t) \/ local_delete(t)
    PROVE  BlobInv'
  <1> DEFINE k == Target(t)
             o == IF Held(k) THEN "ok" ELSE "not_found"
  <1>1. CASE memory_delete(t)
    <2>1. Held(k) = (map[k] # Absent)
      BY <1>1 DEF memory_delete, Held
    <2>2. Finish(t, After(task[t], o), IF Held(k) THEN {k} ELSE {}, Present \ {k})
      BY <1>1, <2>1 DEF memory_delete
    <2>3. o \in {"ok", "not_found"}
      OBVIOUS
    <2> HIDE DEF o
    <2>. QED BY <1>1, <2>2, <2>3, DeleteStep DEF memory_delete
  <1>2. CASE local_delete(t)
    <2>1. Held(k) = (dir[k] # NoFile)
      BY <1>2 DEF local_delete, Held
    <2>2. Finish(t, After(task[t], o), IF Held(k) THEN {k} ELSE {}, Present \ {k})
      BY <1>2, <2>1 DEF local_delete
    <2>3. o \in {"ok", "not_found"}
      OBVIOUS
    <2> HIDE DEF o
    <2>. QED BY <1>2, <2>2, <2>3, DeleteStep DEF local_delete
  <1>. QED BY <1>1, <1>2

\* A walking task has no file open and is none that looks at single keys.
LEMMA WalkFacts ==
    ASSUME BlobInv, NEW t \in Task, Calling(t, "list") \/ Calling(t, "sweep")
    PROVE  /\ TaskOK(task[t]) /\ task[t].fd = NoFile /\ task[t].todo # <<>>
           /\ task[t].op \notin Fixedly
  <1>1. TaskOK(task[t]) /\ Named(t) /\ task[t].todo # <<>>
    BY DEF BlobInv, FilesOK, Calling, Running
  <1>2. ~Calling(t, "put") /\ ~Calling(t, "get")
    BY DEF Calling
  <1>3. task[t].fd = NoFile
    BY <1>1, <1>2 DEF Named, Open, Writing, Reading
  <1>4. task[t].op \notin Fixedly
    <2>1. Head(task[t].todo).do \in {"list", "sweep"}
      BY DEF Calling
    <2>. QED BY <1>1, <2>1, FirstCall DEF TaskOK
  <1>. QED BY <1>1, <1>3, <1>4

\* Lists on the memory store.
LEMMA MemoryListInv ==
    ASSUME BlobInv, NEW t \in Task, memory_list(t)
    PROVE  BlobInv'
  <1> DEFINE s == task[t]
             found == Present \cap s.keys
             page == SubSeq(Selected(s, found), 1, Min({s.limit, Len(Selected(s, found))}))
             paged == [s EXCEPT !.todo = <<>>, !.out = page, !.res = "ok"]
             r == IF s.op = "list_meta" THEN paged ELSE Listed(s, found)
  <1>1. /\ Calling(t, "list") /\ UNCHANGED <<storeVars, puts, shared, gone>>
        /\ Finish(t, r, {}, Present)
    BY DEF memory_list
  <1>2. TaskOK(s) /\ s.fd = NoFile /\ s.todo # <<>> /\ s.op \notin Fixedly /\ StoreTypes
    BY <1>1, WalkFacts DEF BlobInv
  <1>3. TaskOK(r) /\ r.fd = NoFile /\ r.op = s.op
    <2>1. CASE s.op = "list_meta"
      <3> HIDE DEF page
      <3>1. /\ TaskShape(paged) /\ paged.op = s.op /\ paged.todo = <<>> /\ paged.data = s.data
            /\ paged.keys = s.keys /\ paged.at = s.at /\ paged.seen = s.seen /\ paged.fd = s.fd
        BY <1>2 DEF TaskOK, TaskShape
      <3> HIDE DEF paged
      <3>2. Planned(paged)
        BY <1>2, <3>1, PlannedTail DEF TaskOK
      <3>3. TaskOK(paged)
        BY <1>2, <3>1, <3>2 DEF TaskOK
      <3>. QED BY <1>2, <2>1, <3>1, <3>3
    <2>2. CASE s.op # "list_meta"
      <3>1. Head(s.todo).do = "list"
        BY <1>1 DEF Calling
      <3> HIDE DEF found
      <3>. QED BY <1>2, <2>2, <3>1, ListedOK
    <2>. QED BY <2>1, <2>2
  <1> HIDE DEF r
  <1>4. /\ UNCHANGED <<backend, verify, inode, map, puts, shared, gone>> /\ dir' = dir
        /\ dir \in [Path -> Inode \cup {NoFile}]
    BY <1>1, <1>2 DEF storeVars, StoreTypes
  <1>. QED BY <1>1, <1>2, <1>3, <1>4, ListStep

\* A file is opened.
LEMMA OpenedOK ==
    ASSUME NEW s, TaskOK(s), NEW f
    PROVE  LET q == [s EXCEPT !.fd = f]
           IN  /\ TaskOK(q) /\ q.fd = f /\ q.at = s.at /\ q.dirty = s.dirty
               /\ q.op = s.op /\ q.todo = s.todo /\ q.res = s.res /\ q.data = s.data /\ q.want = s.want /\ q.keys = s.keys
  <1> DEFINE q == [s EXCEPT !.fd = f]
  <1>1. /\ TaskShape(q) /\ q.fd = f /\ q.at = s.at /\ q.dirty = s.dirty /\ q.seen = s.seen
        /\ q.op = s.op /\ q.todo = s.todo /\ q.res = s.res /\ q.data = s.data /\ q.want = s.want /\ q.keys = s.keys
    BY DEF TaskOK, TaskShape
  <1> HIDE DEF q
  <1>2. Planned(q)
    BY <1>1 DEF TaskOK, Planned
  <1>3. TaskOK(q)
    BY <1>1, <1>2 DEF TaskOK
  <1>. QED BY <1>1, <1>3 DEF q

\* The position in it moves.
LEMMA MovedOK ==
    ASSUME NEW s, TaskOK(s), NEW i \in Nat
    PROVE  LET q == [s EXCEPT !.at = i]
           IN  /\ TaskOK(q) /\ q.fd = s.fd /\ q.at = i /\ q.dirty = s.dirty
               /\ q.op = s.op /\ q.todo = s.todo /\ q.res = s.res /\ q.data = s.data /\ q.want = s.want /\ q.keys = s.keys
  <1> DEFINE q == [s EXCEPT !.at = i]
  <1>1. /\ TaskShape(q) /\ q.fd = s.fd /\ q.at = i /\ q.dirty = s.dirty /\ q.seen = s.seen
        /\ q.op = s.op /\ q.todo = s.todo /\ q.res = s.res /\ q.data = s.data /\ q.want = s.want /\ q.keys = s.keys
    BY DEF TaskOK, TaskShape
  <1> HIDE DEF q
  <1>2. Planned(q)
    BY <1>1 DEF TaskOK, Planned
  <1>3. TaskOK(q)
    BY <1>1, <1>2 DEF TaskOK
  <1>. QED BY <1>1, <1>3 DEF q

\* A walk comes to an entry.
LEMMA WalkedOK ==
    ASSUME NEW s, TaskOK(s), NEW i \in Nat, NEW z \in SUBSET Key
    PROVE  LET r == [s EXCEPT !.at = i, !.seen = @ \cup z]
           IN  TaskOK(r) /\ r.fd = s.fd /\ r.op = s.op
  <1> DEFINE r == [s EXCEPT !.at = i, !.seen = @ \cup z]
  <1>1. /\ TaskShape(r) /\ r.op = s.op /\ r.todo = s.todo /\ r.data = s.data /\ r.res = s.res
        /\ r.keys = s.keys /\ r.at = i /\ r.seen = s.seen \cup z /\ r.fd = s.fd
    BY DEF TaskOK, TaskShape
  <1> HIDE DEF r
  <1>2. Planned(r)
    BY <1>1 DEF TaskOK, Planned
  <1>3. TaskOK(r)
    BY <1>1, <1>2 DEF TaskOK
  <1>. QED BY <1>1, <1>3 DEF r

\* The entry a walk comes to next.
LEMMA AheadFacts ==
    ASSUME NEW s, NEW paths, Ahead(s, paths) # {}
    PROVE  Min(Ahead(s, paths)) \in Nat /\ DirOrder[Min(Ahead(s, paths))] \in paths
  <1>1. DOMAIN DirOrder \subseteq Nat
    BY BlobAssumption
  <1>2. Ahead(s, paths) \in SUBSET Nat
    BY <1>1 DEF Ahead
  <1>3. Min(Ahead(s, paths)) \in Ahead(s, paths)
    BY <1>2, LeastMember
  <1>. QED BY <1>1, <1>3 DEF Ahead

\* Lists on the local store.
LEMMA CollectInv ==
    ASSUME BlobInv, NEW t \in Task, collect_entries(t)
    PROVE  BlobInv'
  <1> DEFINE s == task[t]
             ahead == Ahead(s, s.keys)
             i == Min(ahead)
             here == IF dir[DirOrder[i]] = NoFile THEN {} ELSE {DirOrder[i]}
             r == IF ahead = {} THEN Listed(s, s.seen) ELSE [s EXCEPT !.at = i, !.seen = @ \cup here]
  <1>1. /\ Calling(t, "list") /\ UNCHANGED <<storeVars, puts, shared, gone>>
        /\ Finish(t, r, {}, Present)
    BY DEF collect_entries
  <1>2. TaskOK(s) /\ s.fd = NoFile /\ s.todo # <<>> /\ s.op \notin Fixedly /\ StoreTypes
    BY <1>1, WalkFacts DEF BlobInv
  <1>3. TaskOK(r) /\ r.fd = NoFile /\ r.op = s.op
    <2>1. CASE ahead = {}
      <3>1. Head(s.todo).do = "list"
        BY <1>1 DEF Calling
      <3>2. TaskOK(Listed(s, s.seen)) /\ Listed(s, s.seen).fd = s.fd /\ Listed(s, s.seen).op = s.op
        BY <1>2, <3>1, ListedOK
      <3>. QED BY <1>2, <2>1, <3>2
    <2>2. CASE ahead # {}
      <3>1. i \in Nat /\ DirOrder[i] \in s.keys
        BY <2>2, AheadFacts
      <3>2. here \in SUBSET Key
        BY <1>2, <3>1 DEF TaskOK
      <3> HIDE DEF here, i
      <3> DEFINE w == [s EXCEPT !.at = i, !.seen = @ \cup here]
      <3>3. TaskOK(w) /\ w.fd = s.fd /\ w.op = s.op
        <4>1. TaskOK(s) /\ i \in Nat /\ here \in SUBSET Key
          BY <1>2, <3>1, <3>2
        <4> HIDE DEF s
        <4>. QED BY <4>1, WalkedOK, ZenonT(30)
      <3>4. r = w
        BY <2>2
      <3> HIDE DEF w, r
      <3>. QED BY <1>2, <3>3, <3>4
    <2>. QED BY <2>1, <2>2
  <1> HIDE DEF r
  <1>4. /\ UNCHANGED <<backend, verify, inode, map, puts, shared, gone>> /\ dir' = dir
        /\ dir \in [Path -> Inode \cup {NoFile}]
    BY <1>1, <1>2 DEF storeVars, StoreTypes
  <1>. QED BY <1>1, <1>2, <1>3, <1>4, ListStep

\* The sweep takes temporary names only.
LEMMA SweepInv ==
    ASSUME BlobInv, NEW t \in Task, cleanup_tmp_files_sync(t)
    PROVE  BlobInv'
  <1> DEFINE s == task[t]
             ahead == Ahead(s, {p \in Path : IsTmp(p)})
             i == Min(ahead)
             r == IF ahead = {} THEN After(s, "ok") ELSE [s EXCEPT !.at = i]
  <1>1. /\ Calling(t, "sweep") /\ UNCHANGED <<backend, verify, inode, map, used, puts, shared, gone>>
        /\ Finish(t, r, {}, Present)
        /\ (ahead # {} /\ dir' = [dir EXCEPT ![DirOrder[i]] = NoFile]) \/ dir' = dir
    BY DEF cleanup_tmp_files_sync
  <1>2. TaskOK(s) /\ s.fd = NoFile /\ s.todo # <<>> /\ s.op \notin Fixedly /\ StoreTypes
    BY <1>1, WalkFacts DEF BlobInv
  <1>3. ahead # {} => i \in Nat /\ DirOrder[i] \in Path /\ IsTmp(DirOrder[i])
    BY AheadFacts
  <1>4. TaskOK(r) /\ r.fd = NoFile /\ r.op = s.op
    <2>1. CASE ahead = {}
      <3>1. TaskOK(After(s, "ok")) /\ After(s, "ok").fd = NoFile /\ After(s, "ok").op = s.op
        BY <1>2, AfterOK, AfterFacts DEF TaskOK
      <3>. QED BY <2>1, <3>1
    <2>2. CASE ahead # {}
      <3> DEFINE w == [s EXCEPT !.at = i]
      <3>1. r = w
        BY <2>2
      <3> HIDE DEF i, ahead, r
      <3>2. TaskOK(w) /\ w.fd = s.fd /\ w.op = s.op
        BY <1>2, <1>3, <2>2, MovedOK
      <3> HIDE DEF w
      <3>. QED BY <1>2, <3>1, <3>2
    <2>. QED BY <2>1, <2>2
  <1> HIDE DEF r, ahead, i
  <1>5. dir \in [Path -> Inode \cup {NoFile}]
    BY <1>2 DEF StoreTypes
  <1>6. /\ dir' \in [Path -> Inode \cup {NoFile}]
        /\ \A p \in Path : dir'[p] \in {dir[p], NoFile}
        /\ \A k \in Key : dir'[k] = dir[k]
    <2>1. CASE dir' = dir
      BY <1>5, <2>1
    <2>2. CASE ahead # {} /\ dir' = [dir EXCEPT ![DirOrder[i]] = NoFile]
      <3>1. DirOrder[i] \in Path /\ \A k \in Key : k # DirOrder[i] /\ k \in Path
        BY <1>3, <2>2, TmpFacts
      <3>2. \A p \in Path : dir'[p] = IF p = DirOrder[i] THEN NoFile ELSE dir[p]
        BY <1>5, <2>2, <3>1
      <3>3. dir' \in [Path -> Inode \cup {NoFile}]
        BY <1>5, <2>2, <3>1
      <3>. QED BY <3>1, <3>2, <3>3
    <2>. QED BY <1>1, <2>1, <2>2
  <1>. QED BY <1>1, <1>2, <1>4, <1>6, ListStep

\* A step of a put before its rename: what is stored under the keys stays.
LEMMA FileStep ==
    ASSUME BlobInv, NEW t \in Task, Calling(t, "put"), StoreTypes', FilesOK', StoredOK', Keeps({}),
           TaskOK(task'[t]), \A u \in Task : u # t => task'[u] = task[u],
           task'[t].op = task[t].op, task'[t].todo = task[t].todo, task'[t].want = task[t].want,
           task'[t].data = task[t].data, task'[t].keys = task[t].keys, task'[t].dirty = task[t].dirty
    PROVE  BlobInv'
  <1>1. \A u \in Task : TaskOK(task[u]) /\ SeenOK(u)
    BY DEF BlobInv
  <1>2. ASSUME NEW u \in Task PROVE SeenOK(u)'
    <2>1. CASE u = t
      <3>1. ~Reading(t)'
        BY DEF Reading, Calling
      <3>. QED BY <1>1, <2>1, <3>1, SeenKept
    <2>2. CASE u # t
      <3>1. Fixed(u)
        BY <2>2 DEF Fixed
      <3>2. Reading(u)' => Reading(u) /\ task'[u].fd = task[u].fd
        BY <2>2, <3>1, FixedFacts
      <3>. QED BY <1>1, <2>2, <3>2, SeenKept
    <2>. QED BY <2>1, <2>2
  <1>3. \A u \in Task : TaskOK(task[u])'
    <2>1. \A u \in Task : TaskOK(task'[u])
      BY <1>1
    <2>. QED BY <2>1 DEF TaskOK, TaskShape, Planned
  <1>. QED BY <1>2, <1>3 DEF BlobInv

\* The temporary file is created or truncated.
LEMMA OpenTmpInv ==
    ASSUME BlobInv, NEW t \in Task, OpenTmp(t)
    PROVE  BlobInv'
  <1> DEFINE s == task[t]
             k == Target(t)
             tmp == TmpPath(k)
             i == IF dir[tmp] = NoFile THEN FreeInode ELSE dir[tmp]
  <1>1. /\ backend = "local" /\ Calling(t, "put") /\ s.fd = NoFile
        /\ dir' = [dir EXCEPT ![tmp] = i]
        /\ inode' = [inode EXCEPT ![i] = <<>>]
        /\ task' = [task EXCEPT ![t].fd = i, ![t].at = 0]
        /\ shared \subseteq shared'
        /\ puts' = [puts EXCEPT ![k] = @ \cup {s.data}]
        /\ UNCHANGED <<backend, verify, map>>
    BY DEF OpenTmp
  <1>2. /\ StoreTypes /\ FilesOK /\ StoredOK /\ \A u \in Task : TaskOK(task[u]) /\ SeenOK(u)
        /\ k \in Key /\ k \in Path /\ tmp \in Path /\ tmp \notin Key
    BY <1>1, CallFacts, TmpFacts DEF BlobInv, Calling, Tmp
  <1>3. FilesOK' /\ StoredOK'
    BY <1>2, FilesOpened, StoredOpened
  <1>4. /\ dir \in [Path -> Inode \cup {NoFile}] /\ inode = [j \in Inode |-> inode[j]]
        /\ \A j \in Inode : IsData(inode[j]) /\ j # NoFile
        /\ puts = [x \in Key |-> puts[x]] /\ task = [u \in Task |-> task[u]]
    BY <1>2 DEF StoreTypes, Inode, NoFile
  <1>5. i \in Inode /\ \A p \in Path : p # tmp => dir[p] # i
    <2>1. CASE dir[tmp] = NoFile
      <3>1. \A u \in Task : task[u].fd \in Inode \cup {NoFile}
        BY <1>2 DEF FilesOK, Named
      <3>. QED BY <1>1, <1>2, <2>1, <3>1, FreeInodeFacts
    <2>2. CASE dir[tmp] # NoFile
      BY <1>2, <1>4, <2>2 DEF FilesOK, OneName
    <2>. QED BY <2>1, <2>2
  <1> HIDE DEF i, tmp, k
  <1>6. /\ task' = [u \in Task |-> task'[u]] /\ \A u \in Task : u # t => task'[u] = task[u]
        /\ task'[t] = [[s EXCEPT !.fd = i] EXCEPT !.at = 0]
    BY <1>1, <1>4
  <1>7. StoreTypes'
    <2>1. IsData(<<>>)
      BY DEF IsData, Lengths
    <2>2. dir' \in [Path -> Inode \cup {NoFile}]
      BY <1>1, <1>2, <1>4, <1>5
    <2>3. inode' = [j \in Inode |-> inode'[j]] /\ \A j \in Inode : IsData(inode'[j])
      BY <1>1, <1>4, <1>5, <2>1
    <2>4. puts' = [x \in Key |-> puts'[x]]
      BY <1>1, <1>2, <1>4
    <2>. QED BY <1>1, <1>2, <1>6, <2>2, <2>3, <2>4 DEF StoreTypes
  <1>8. Keeps({})
    <2>1. \A x \in Key : x \in Path /\ x # tmp
      BY <1>2, TmpFacts
    <2>2. \A x \in Key : dir'[x] = dir[x] /\ map'[x] = map[x]
      BY <1>1, <1>4, <2>1
    <2>3. \A x \in Key : dir[x] # NoFile => inode'[dir[x]] = inode[dir[x]]
      BY <1>1, <1>4, <1>5, <2>1
    <2>4. \A x \in Key : Content(x)' = Content(x)
      BY <1>1, <2>2, <2>3 DEF Content
    <2>. QED BY <1>1, <2>2, <2>4 DEF Keeps
  <1>9. /\ TaskOK(task'[t])
        /\ task'[t].op = s.op /\ task'[t].todo = s.todo /\ task'[t].want = s.want
        /\ task'[t].data = s.data /\ task'[t].keys = s.keys /\ task'[t].dirty = s.dirty
    <2> DEFINE q == [s EXCEPT !.fd = i]
    <2>1. TaskOK(q) /\ q.op = s.op /\ q.todo = s.todo /\ q.data = s.data /\ q.want = s.want
          /\ q.keys = s.keys /\ q.dirty = s.dirty
      BY <1>2, OpenedOK
    <2>2. task'[t] = [q EXCEPT !.at = 0]
      BY <1>6
    <2> HIDE DEF q
    <2>. QED BY <2>1, <2>2, MovedOK
  <1>. QED BY <1>1, <1>3, <1>6, <1>7, <1>8, <1>9, FileStep

\* A block is written: through a shared temporary file perhaps to a blob.
LEMMA WriteBlockInv ==
    ASSUME BlobInv, NEW t \in Task, WriteBlock(t)
    PROVE  BlobInv'
  <1> DEFINE s == task[t]
             f == s.fd
             i == s.at + 1
  <1>1. /\ backend = "local" /\ Calling(t, "put") /\ f # NoFile /\ s.at < Len(s.data)
        /\ inode' = [inode EXCEPT ![f] = Overwrite(@, i, s.data[i])]
        /\ task' = [task EXCEPT ![t].at = i]
        /\ UNCHANGED <<backend, verify, dir, map, puts, shared, gone, acked>>
    BY DEF WriteBlock, history
  <1>2. /\ StoreTypes /\ FilesOK /\ StoredOK /\ \A u \in Task : TaskOK(task[u]) /\ SeenOK(u)
    BY DEF BlobInv
  <1>3. FilesOK' /\ StoredOK'
    BY <1>2, FilesWritten, StoredWritten
  <1>4. /\ inode = [j \in Inode |-> inode[j]] /\ \A j \in Inode : IsData(inode[j])
        /\ task = [u \in Task |-> task[u]]
    BY <1>2 DEF StoreTypes
  <1>5. Writing(t) /\ Named(t) /\ Alone(t) /\ f \in Inode /\ s.at \in Nat /\ IsData(s.data)
    BY <1>1, <1>2 DEF Writing, Open, FilesOK, Named, TaskOK
  <1> HIDE DEF f, i
  <1>6. /\ task' = [u \in Task |-> task'[u]] /\ \A u \in Task : u # t => task'[u] = task[u]
        /\ task'[t] = [s EXCEPT !.at = i]
    BY <1>1, <1>4
  <1>7. StoreTypes'
    <2>1. IsData(Overwrite(inode[f], i, s.data[i]))
      BY <1>1, <1>4, <1>5, OverwriteFacts DEF i
    <2>2. inode' = [j \in Inode |-> inode'[j]] /\ \A j \in Inode : IsData(inode'[j])
      BY <1>1, <1>4, <1>5, <2>1
    <2>. QED BY <1>1, <1>2, <1>6, <2>2 DEF StoreTypes
  <1>8. Keeps({})
    <2>1. ASSUME NEW x \in Key, TmpPath(x) \notin shared, dir[x] = f PROVE FALSE
      <3>1. x \in Path /\ TmpPath(x) = Tmp(t)
        BY <1>5, <2>1, TmpFacts DEF Named, Writing, f
      <3>2. x = Tmp(t)
        BY <1>5, <2>1, <3>1 DEF Alone, f
      <3>. QED BY <1>2, <1>5, <3>2, WritingFacts
    <2>2. \A x \in Key : x \in Path /\ dir[x] \in Inode \cup {NoFile}
      BY <1>2, TmpFacts DEF StoreTypes
    <2>3. \A x \in Key : TmpPath(x) \notin shared /\ dir[x] # NoFile => inode'[dir[x]] = inode[dir[x]]
      BY <1>1, <1>4, <1>5, <2>1, <2>2
    <2>4. \A x \in Key : TmpPath(x) \notin shared => Content(x)' = Content(x)
      BY <1>1, <2>3 DEF Content
    <2>. QED BY <1>1, <2>4 DEF Keeps
  <1>9. /\ TaskOK(task'[t])
        /\ task'[t].op = s.op /\ task'[t].todo = s.todo /\ task'[t].want = s.want
        /\ task'[t].data = s.data /\ task'[t].keys = s.keys /\ task'[t].dirty = s.dirty
    <2>1. i \in Nat
      BY <1>5 DEF i
    <2>. QED BY <1>2, <1>6, <2>1, MovedOK
  <1>. QED BY <1>1, <1>3, <1>6, <1>7, <1>8, <1>9, FileStep

\* The calls left to a task that is at a get.
LEMMA GetPlan ==
    ASSUME NEW t \in Task, TaskOK(task[t]), Calling(t, "get")
    PROVE  /\ task[t].op \notin {"put_if_absent", "put_cas"}
           /\ task[t].op = "delete_if_matches" => Len(task[t].todo) = 2
           /\ task[t].op = "rename" => Len(task[t].todo) = 3
  <1>1. Head(task[t].todo).do = "get" /\ task[t].todo # <<>>
    BY DEF Calling, Running
  <1>2. task[t].op \notin {"put_if_absent", "put_cas"}
    BY <1>1, FirstCall DEF TaskOK
  <1>3. ASSUME task[t].op = "delete_if_matches" PROVE Len(task[t].todo) = 2
    <2>1. PICK x \in Key : task[t].todo \in {<<Call("get", x), Call("delete", x)>>, <<Call("delete", x)>>, <<>>}
      BY <1>3 DEF TaskOK, Planned
    <2>2. task[t].todo = <<Call("get", x), Call("delete", x)>>
      BY <1>1, <2>1, TupleTails DEF Call
    <2>. QED BY <2>2, TupleTails
  <1>4. ASSUME task[t].op = "rename" PROVE Len(task[t].todo) = 3
    <2>1. PICK x \in Key, y \in Key :
             /\ task[t].keys = {x, y}
             /\ task[t].todo \in {<<Call("get", x), Call("put", y), Call("delete", x)>>,
                                  <<Call("put", y), Call("delete", x)>>, <<Call("delete", x)>>, <<>>}
      BY <1>4 DEF TaskOK, Planned
    <2>2. task[t].todo = <<Call("get", x), Call("put", y), Call("delete", x)>>
      BY <1>1, <2>1, TupleTails DEF Call
    <2>. QED BY <2>2, TupleTails
  <1>. QED BY <1>2, <1>3, <1>4

\* get opens the file, or finds none.
LEMMA OpenFileInv ==
    ASSUME BlobInv, NEW t \in Task, OpenFile(t)
    PROVE  BlobInv'
  <1> DEFINE s == task[t]
             k == Target(t)
  <1>1. /\ backend = "local" /\ Calling(t, "get") /\ s.fd = NoFile
        /\ UNCHANGED <<storeVars, puts, shared, gone>>
    BY DEF OpenFile
  <1>2. /\ StoreTypes /\ FilesOK /\ StoredOK /\ \A u \in Task : TaskOK(task[u]) /\ SeenOK(u)
        /\ k \in Key
    BY <1>1, CallFacts DEF BlobInv, Calling
  <1>3. CASE dir[k] = NoFile
    <2>1. Finish(t, After(Fresh(task[t]), "not_found"), {}, Present)
      BY <1>3 DEF OpenFile
    <2>. QED BY <1>1, <2>1, MissStep
  <1>4. CASE dir[k] # NoFile
    <2>1. task' = [task EXCEPT ![t].fd = dir[k], ![t].dirty = {}] /\ acked' = acked
      BY <1>4 DEF OpenFile
    <2>2. UNCHANGED <<backend, verify, dir, inode, map, used, puts, shared, gone, acked>>
      BY <1>1, <2>1 DEF storeVars
    <2>3. task = [u \in Task |-> task[u]]
      BY <1>2 DEF StoreTypes
    <2> DEFINE q == [s EXCEPT !.fd = dir[k]]
    <2>4. /\ task' = [u \in Task |-> task'[u]] /\ \A u \in Task : u # t => task'[u] = task[u]
          /\ task'[t] = Fresh(q)
      BY <2>1, <2>3 DEF Fresh
    <2>5. /\ TaskOK(q) /\ q.fd = dir[k] /\ q.at = s.at /\ q.op = s.op /\ q.todo = s.todo
          /\ q.data = s.data /\ q.want = s.want /\ q.keys = s.keys /\ q.res = s.res
      BY <1>2, OpenedOK
    <2> HIDE DEF q
    <2>6. TaskShape(Fresh(q)) /\ Same(Fresh(q), q)
      BY <2>5, EditFacts DEF TaskOK
    <2>7. TaskOK(task'[t])
      BY <2>4, <2>5, <2>6, SameOK
    <2>8. /\ task'[t].fd = dir[k] /\ task'[t].op = s.op /\ task'[t].todo = s.todo
          /\ task'[t].data = s.data /\ task'[t].keys = s.keys /\ task'[t].res = s.res
      BY <2>4, <2>5, <2>6 DEF Same
    <2>9. StoreTypes'
      BY <1>2, <2>2, <2>4 DEF StoreTypes
    <2>10. \A u \in Task : u # t => Fixed(u) /\ Same(task'[u], task[u])
      BY <2>4 DEF Fixed, Same
    <2>11. FilesOK'
      BY <1>1, <1>2, <1>4, <2>2, <2>8, <2>10, FilesRead
    <2>12. StoredOK'
      BY <1>1, <1>2, <1>4, <2>2, <2>8, <2>10, StoredRead
    <2>13. Keeps({})
      BY <2>2 DEF Keeps, Content
    <2>14. ASSUME NEW u \in Task, u # t PROVE SeenOK(u)'
      <3>1. Reading(u)' => Reading(u) /\ task'[u].fd = task[u].fd
        BY <2>10, <2>14, FixedFacts DEF Same
      <3>. QED BY <1>2, <2>4, <2>13, <2>14, <3>1, SeenKept
    <2>15. SeenOK(t)'
      <3>1. Target(t)' = k
        BY <2>8 DEF Target
      <3>2. dir'[k] = task'[t].fd
        BY <2>2, <2>8
      <3>3. /\ task'[t].op \notin {"put_if_absent", "put_cas"}
            /\ task'[t].op = "delete_if_matches" => Len(task'[t].todo) = 2
            /\ task'[t].op = "rename" => Len(task'[t].todo) = 3
        BY <1>1, <1>2, <2>8, GetPlan
      <3> HIDE DEF k, s
      <3>. QED BY <3>1, <3>2, <3>3 DEF SeenOK
    <2>16. \A u \in Task : TaskOK(task[u])'
      <3>1. \A u \in Task : TaskOK(task'[u])
        BY <1>2, <2>4, <2>7
      <3>. QED BY <3>1 DEF TaskOK, TaskShape, Planned
    <2>. QED BY <2>9, <2>11, <2>12, <2>14, <2>15, <2>16 DEF BlobInv
  <1>. QED BY <1>3, <1>4

\* A task that does nothing.
LEMMA IdleTask ==
    /\ TaskOK(NoTask) /\ NoTask.fd = NoFile /\ NoTask.todo = <<>> /\ NoTask.op = "none"
    /\ NoTask.res = "none"
  <1>1. /\ TaskShape(NoTask) /\ NoTask.fd = NoFile /\ NoTask.todo = <<>> /\ NoTask.op = "none"
        /\ NoTask.res = "none" /\ NoTask.at = 0 /\ NoTask.data = <<>> /\ NoTask.keys = {} /\ NoTask.seen = {}
    BY DEF NoTask, TaskShape
  <1>2. IsData(<<>>)
    BY DEF IsData, Lengths
  <1>3. Planned(NoTask)
    BY <1>1 DEF Planned
  <1>. QED BY <1>1, <1>2, <1>3 DEF TaskOK

\* A crash, with or without a sweep at the start.
LEMMA CrashInv ==
    ASSUME BlobInv, Reopen \/ with_temp_cleanup
    PROVE  BlobInv'
  <1>1. /\ StoreTypes /\ FilesOK /\ StoredOK /\ \A u \in Task : TaskOK(task[u])
        /\ backend = "local"
    BY DEF BlobInv, Reopen, with_temp_cleanup, Crash
  <1>2. /\ UNCHANGED <<backend, inode, map, puts, shared, gone, acked>> /\ verify' \in BOOLEAN
        /\ task' = [t \in Task |-> NoTask]
    BY <1>1 DEF Reopen, with_temp_cleanup, Crash, storeVars, history, StoreTypes
  <1>3. dir \in [Path -> Inode \cup {NoFile}]
    BY <1>1 DEF StoreTypes
  <1>4. /\ dir' \in [Path -> Inode \cup {NoFile}]
        /\ \A p \in Path : dir'[p] \in {dir[p], NoFile}
        /\ \A k \in Key : dir'[k] = dir[k]
    <2>1. CASE Reopen
      BY <1>3, <2>1 DEF Reopen, storeVars
    <2>2. CASE with_temp_cleanup
      <3>1. \A k \in Key : k \in Path /\ ~IsTmp(k)
        BY TmpFacts
      <3>2. PICK kept : dir' = [p \in Path |-> IF IsTmp(p) /\ p \notin kept THEN NoFile ELSE dir[p]]
        BY <2>2 DEF with_temp_cleanup
      <3>. QED BY <1>3, <3>1, <3>2
    <2>. QED BY <2>1, <2>2
  <1>5. \A t \in Task : TaskOK(task'[t]) /\ task'[t].fd = NoFile /\ task'[t].todo = <<>> /\ task'[t].op = "none"
    BY <1>2, IdleTask
  <1>6. StoreTypes'
    BY <1>1, <1>2, <1>4 DEF StoreTypes
  <1>7. FilesOK'
    BY <1>1, <1>2, <1>4, <1>5, FilesDropped
  <1>8. StoredOK'
    <2>1. \A k \in Key : Held(k) => Held(k)'
      BY <1>2, <1>4 DEF Held
    <2>2. \A t \in Task : task'[t].fd = NoFile /\ task'[t].op # "get"
      BY <1>5
    <2>3. acked' \subseteq Value
      BY <1>1, <1>2 DEF StoredOK
    <2>. QED BY <1>1, <1>2, <1>4, <2>1, <2>2, <2>3, StoredDropped
  <1>9. \A t \in Task : SeenOK(t)'
    BY <1>5, SeenNothing
  <1>10. \A u \in Task : TaskOK(task[u])'
    BY <1>5 DEF TaskOK, TaskShape, Planned
  <1>. QED BY <1>6, <1>7, <1>8, <1>9, <1>10 DEF BlobInv

(***************************************************************************)
(* Operations begin.                                                       *)
(***************************************************************************)
\* The record of an operation that begins.
IsNew(s, name, d, keys) ==
    /\ TaskShape(s) /\ s.op = name /\ s.data = d /\ s.keys = keys
    /\ s.res = "none" /\ s.fd = NoFile /\ s.at = 0 /\ s.seen = {}

\* What its calls must be for it to be a plan.
PlanOK(name, d, keys, plan) ==
    \A r : r.op = name /\ r.data = d /\ r.keys = keys /\ r.todo = plan => Planned(r)

\* Its arguments do not matter.
LEMMA NewEdited ==
    ASSUME NEW s, NEW name, NEW d, NEW keys, IsNew(s, name, d, keys)
    PROVE  /\ \A want : IsNew([s EXCEPT !.want = want], name, d, keys)
           /\ \A some : IsNew([s EXCEPT !.keys = some], name, d, some)
           /\ \A after, limit : IsNew([s EXCEPT !.after = after, !.limit = limit], name, d, keys)
           /\ \A some, limit : IsNew([s EXCEPT !.keys = some, !.limit = limit], name, d, some)
  <1>1. ASSUME NEW want PROVE IsNew([s EXCEPT !.want = want], name, d, keys)
    BY DEF IsNew, TaskShape
  <1>2. ASSUME NEW some PROVE IsNew([s EXCEPT !.keys = some], name, d, some)
    BY DEF IsNew, TaskShape
  <1>3. ASSUME NEW after, NEW limit
        PROVE  IsNew([s EXCEPT !.after = after, !.limit = limit], name, d, keys)
    BY DEF IsNew, TaskShape
  <1>4. ASSUME NEW some, NEW limit
        PROVE  IsNew([s EXCEPT !.keys = some, !.limit = limit], name, d, some)
    BY DEF IsNew, TaskShape
  <1>. QED BY <1>1, <1>2, <1>3, <1>4

\* The records the operations begin with.
LEMMA NewFacts ==
    ASSUME NEW name, NEW d
    PROVE  /\ IsNew(Op(name, d), name, d, {})
           /\ \A keys : IsNew([Op(name, d) EXCEPT !.keys = keys], name, d, keys)
           /\ \A want : IsNew([Op(name, d) EXCEPT !.want = want], name, d, {})
           /\ \A keys : IsNew(Walking(name, keys), name, <<>>, keys)
           /\ \A keys, after, limit :
                 IsNew([Walking(name, keys) EXCEPT !.after = after, !.limit = limit], name, <<>>, keys)
  <1>1. IsNew(Op(name, d), name, d, {}) /\ IsNew(Op(name, <<>>), name, <<>>, {})
    BY DEF IsNew, Op, NoTask, TaskShape
  <1>2. \A keys : IsNew([Op(name, d) EXCEPT !.keys = keys], name, d, keys)
    BY <1>1, NewEdited
  <1>3. \A want : IsNew([Op(name, d) EXCEPT !.want = want], name, d, {})
    BY <1>1, NewEdited
  <1>4. ASSUME NEW keys PROVE IsNew(Walking(name, keys), name, <<>>, keys)
    BY <1>1, NewEdited DEF Walking
  <1>5. ASSUME NEW keys, NEW after, NEW limit
        PROVE  IsNew([Walking(name, keys) EXCEPT !.after = after, !.limit = limit], name, <<>>, keys)
    BY <1>4, NewEdited
  <1>. QED BY <1>1, <1>2, <1>3, <1>4, <1>5

\* An operation begins.
LEMMA StartStep ==
    ASSUME BlobInv, NEW t \in Task, NEW s, NEW plan, Begin(t, s, plan),
           NEW name, NEW d, NEW keys \in SUBSET Key, IsNew(s, name, d, keys), IsData(d),
           PlanOK(name, d, keys, plan),
           \/ name \notin {"put_if_absent", "put_cas", "delete_if_matches", "rename"}
           \/ Len(plan) = 2 /\ name # "rename"
           \/ Len(plan) = 3
    PROVE  BlobInv'
  <1> DEFINE r == [s EXCEPT !.todo = plan, !.ever = Present, !.always = Present]
  <1>1. /\ StoreTypes /\ FilesOK /\ StoredOK /\ \A u \in Task : TaskOK(task[u]) /\ SeenOK(u)
    BY DEF BlobInv
  <1>2. /\ task' = [task EXCEPT ![t] = r]
        /\ UNCHANGED <<backend, verify, dir, inode, map, used, puts, shared, gone, acked>>
    BY DEF Begin, storeVars, history
  <1>3. /\ TaskShape(r) /\ r.op = name /\ r.data = d /\ r.keys = keys /\ r.todo = plan
        /\ r.res = "none" /\ r.fd = NoFile /\ r.at = 0 /\ r.seen = {}
    BY DEF IsNew, TaskShape
  <1> HIDE DEF r
  <1>4. Planned(r)
    BY <1>3 DEF PlanOK
  <1>5. TaskOK(r)
    BY <1>3, <1>4 DEF TaskOK
  <1>6. task = [u \in Task |-> task[u]]
    BY <1>1 DEF StoreTypes
  <1>7. /\ task' = [u \in Task |-> task'[u]] /\ \A u \in Task : u # t => task'[u] = task[u]
        /\ task'[t] = r
    BY <1>2, <1>6
  <1>8. StoreTypes'
    BY <1>1, <1>2, <1>7 DEF StoreTypes
  <1>9. \A u \in Task : u # t => Fixed(u)
    BY <1>7 DEF Fixed
  <1>10. \A p \in Path : dir'[p] \in {dir[p], NoFile}
    BY <1>2
  <1>11. FilesOK'
    <2>1. \A u \in Task : Fixed(u) \/ task'[u].fd = NoFile
      BY <1>3, <1>7, <1>9
    <2>. QED BY <1>1, <1>2, <1>10, <2>1, FilesDropped
  <1>12. StoredOK'
    <2>1. \A k \in Key : Held(k) <=> Held(k)'
      BY <1>2 DEF Held
    <2>2. \A u \in Task :
            \/ Fixed(u) /\ task'[u].op = task[u].op /\ task'[u].res = task[u].res /\ task'[u].keys = task[u].keys
            \/ task'[u].fd = NoFile /\ task'[u].res # "ok"
      BY <1>3, <1>7, <1>9
    <2>3. acked' \subseteq Value
      BY <1>1, <1>2 DEF StoredOK
    <2>. QED BY <1>1, <1>2, <2>1, <2>2, <2>3, StoredDropped
  <1>13. Keeps({})
    BY <1>2 DEF Keeps, Content
  <1>14. ASSUME NEW u \in Task, u # t PROVE SeenOK(u)'
    <2>1. Reading(u)' => Reading(u) /\ task'[u].fd = task[u].fd
      BY <1>9, <1>14, FixedFacts DEF Fixed
    <2>. QED BY <1>1, <1>7, <1>13, <1>14, <2>1, SeenKept
  <1>15. SeenOK(t)'
    <2>1. task'[t].fd = NoFile /\ task'[t].op = name /\ task'[t].todo = plan
      BY <1>3, <1>7
    <2>2. CASE name \notin {"put_if_absent", "put_cas", "delete_if_matches", "rename"}
      BY <2>1, <2>2, SeenNothing
    <2>3. CASE Len(plan) = 2 /\ name # "rename"
      <3>1. Len(task'[t].todo) = 2 /\ task'[t].op # "rename"
        BY <2>1, <2>3
      <3>. QED BY <2>1, <3>1, SeenNothing
    <2>4. CASE Len(plan) = 3
      <3>1. Len(task'[t].todo) \notin {1, 2}
        BY <2>1, <2>4
      <3>. QED BY <2>1, <3>1, SeenNothing
    <2>. QED BY <2>2, <2>3, <2>4
  <1>16. \A u \in Task : TaskOK(task[u])'
    <2>1. \A u \in Task : TaskOK(task'[u])
      BY <1>1, <1>5, <1>7
    <2>. QED BY <2>1 DEF TaskOK, TaskShape, Planned
  <1>. QED BY <1>8, <1>11, <1>12, <1>14, <1>15, <1>16 DEF BlobInv

\* The calls there are.
LEMMA CallTypes ==
    /\ \A k \in Key : Call("put", k) \in Calls /\ Call("get", k) \in Calls
    /\ \A k \in Key : Call("delete", k) \in Calls /\ Call("head", k) \in Calls
    /\ Call("list", NoExt) \in Calls /\ Call("sweep", NoExt) \in Calls
  BY DEF Call, Calls

\* The plans of the operations on single keys.
LEMMA KeyPlans ==
    ASSUME NEW k \in Key, NEW d
    PROVE  /\ k \in NamedKey => PlanOK("put", d, {}, <<Call("put", k)>>)
           /\ PlanOK("get", d, {k}, <<Call("get", k)>>)
           /\ PlanOK("delete", d, {}, <<Call("delete", k)>>)
           /\ PlanOK("exists", d, {}, <<Call("head", k)>>)
           /\ PlanOK("get_cas", d, {}, <<Call("get", k)>>)
  <1>1. /\ <<Call("put", k)>> \in Seq(Calls) /\ <<Call("get", k)>> \in Seq(Calls)
        /\ <<Call("delete", k)>> \in Seq(Calls) /\ <<Call("head", k)>> \in Seq(Calls)
    BY CallTypes
  <1>2. \A c : \A i \in DOMAIN <<c>> : <<c>>[i] = c
    OBVIOUS
  <1>3. k \in NamedKey => PlanOK("put", d, {}, <<Call("put", k)>>)
    BY <1>1, <1>2 DEF PlanOK, Planned, Call
  <1>4. PlanOK("get", d, {k}, <<Call("get", k)>>)
    BY <1>1, <1>2 DEF PlanOK, Planned, Call
  <1>5. PlanOK("delete", d, {}, <<Call("delete", k)>>)
    BY <1>1, <1>2 DEF PlanOK, Planned, Call
  <1>6. PlanOK("exists", d, {}, <<Call("head", k)>>)
    BY <1>1, <1>2 DEF PlanOK, Planned, Call
  <1>7. PlanOK("get_cas", d, {}, <<Call("get", k)>>)
    BY <1>1, <1>2 DEF PlanOK, Planned, Call
  <1>. QED BY <1>3, <1>4, <1>5, <1>6, <1>7

\* The plans of the operations of two and three calls.
LEMMA PairPlans ==
    ASSUME NEW k \in NamedKey, NEW l \in NamedKey, NEW d
    PROVE  /\ PlanOK("put_if_absent", d, {}, <<Call("head", k), Call("put", k)>>)
           /\ PlanOK("delete_if_matches", d, {}, <<Call("get", k), Call("delete", k)>>)
           /\ PlanOK("copy", d, {}, <<Call("get", k), Call("put", l)>>)
           /\ PlanOK("rename", d, {k, l}, <<Call("get", k), Call("put", l), Call("delete", k)>>)
  <1>1. k \in Key /\ l \in Key
    BY HashFacts
  <1>2. \A c \in Calls, e \in Calls, f \in Calls : <<c, e>> \in Seq(Calls) /\ <<c, e, f>> \in Seq(Calls)
    OBVIOUS
  <1>3. /\ <<Call("head", k), Call("put", k)>> \in Seq(Calls)
        /\ <<Call("get", k), Call("delete", k)>> \in Seq(Calls)
        /\ <<Call("get", k), Call("put", l)>> \in Seq(Calls)
        /\ <<Call("get", k), Call("put", l), Call("delete", k)>> \in Seq(Calls)
    BY <1>1, <1>2, CallTypes
  <1>4. /\ \A c, e : \A i \in DOMAIN <<c, e>> : <<c, e>>[i] \in {c, e}
        /\ \A c, e, f : \A i \in DOMAIN <<c, e, f>> : <<c, e, f>>[i] \in {c, e, f}
    OBVIOUS
  <1>5. \A m \in {k, l} : /\ Call("head", m).do # "put" /\ Call("get", m).do # "put"
                          /\ Call("delete", m).do # "put" /\ Call("put", m).key \in NamedKey
    BY DEF Call
  <1>6. \A i \in DOMAIN <<Call("head", k), Call("put", k)>> :
           <<Call("head", k), Call("put", k)>>[i].do = "put" => <<Call("head", k), Call("put", k)>>[i].key \in NamedKey
    BY <1>4, <1>5
  <1>7. \A i \in DOMAIN <<Call("get", k), Call("delete", k)>> :
           <<Call("get", k), Call("delete", k)>>[i].do # "put"
    BY <1>4, <1>5
  <1>8. \A i \in DOMAIN <<Call("get", k), Call("put", l)>> :
           <<Call("get", k), Call("put", l)>>[i].do = "put" => <<Call("get", k), Call("put", l)>>[i].key \in NamedKey
    BY <1>4, <1>5
  <1>9. \A i \in DOMAIN <<Call("get", k), Call("put", l), Call("delete", k)>> :
           <<Call("get", k), Call("put", l), Call("delete", k)>>[i].do = "put" =>
              <<Call("get", k), Call("put", l), Call("delete", k)>>[i].key \in NamedKey
    BY <1>4, <1>5
  <1>10. PlanOK("put_if_absent", d, {}, <<Call("head", k), Call("put", k)>>)
    BY <1>1, <1>3, <1>6 DEF PlanOK, Planned
  <1>11. PlanOK("delete_if_matches", d, {}, <<Call("get", k), Call("delete", k)>>)
    BY <1>1, <1>3, <1>7 DEF PlanOK, Planned
  <1>12. PlanOK("copy", d, {}, <<Call("get", k), Call("put", l)>>)
    BY <1>1, <1>3, <1>8 DEF PlanOK, Planned
  <1>13. PlanOK("rename", d, {k, l}, <<Call("get", k), Call("put", l), Call("delete", k)>>)
    BY <1>1, <1>3, <1>9 DEF PlanOK, Planned
  <1>. QED BY <1>10, <1>11, <1>12, <1>13

\* The plan of put_cas.
LEMMA CasPlan ==
    ASSUME NEW v \in Value
    PROVE  PlanOK("put_cas", Blocks(v), {}, <<Call("head", HashKey(v)), Call("put", HashKey(v))>>)
  <1>1. HashKey(v) \in Key
    BY HashFacts
  <1>2. \A c \in Calls, e \in Calls : <<c, e>> \in Seq(Calls)
    OBVIOUS
  <1>3. <<Call("head", HashKey(v)), Call("put", HashKey(v))>> \in Seq(Calls)
    BY <1>1, <1>2, CallTypes
  <1>. QED BY <1>3 DEF PlanOK, Planned

\* The plans of the walks.
LEMMA WalkPlans ==
    ASSUME NEW name \in {"list", "list_meta", "delete_prefix", "cleanup", "delete_many"}, NEW keys, NEW d
    PROVE  /\ PlanOK(name, d, keys, <<Call("list", NoExt)>>)
           /\ PlanOK(name, d, keys, <<Call("sweep", NoExt)>>)
           /\ PlanOK(name, d, keys, [i \in DOMAIN KeyOrder |-> Call("delete", KeyOrder[i])])
  <1>1. <<Call("list", NoExt)>> \in Seq(Calls) /\ <<Call("sweep", NoExt)>> \in Seq(Calls)
    BY CallTypes
  <1>2. \A c : \A i \in DOMAIN <<c>> : <<c>>[i] = c
    OBVIOUS
  <1>3. PlanOK(name, d, keys, <<Call("list", NoExt)>>)
    BY <1>1, <1>2 DEF PlanOK, Planned, Call
  <1>4. PlanOK(name, d, keys, <<Call("sweep", NoExt)>>)
    BY <1>1, <1>2 DEF PlanOK, Planned, Call
  <1> DEFINE each == [i \in DOMAIN KeyOrder |-> Call("delete", KeyOrder[i])]
  <1>5. DOMAIN KeyOrder = 1..Len(KeyOrder) /\ Len(KeyOrder) \in Nat /\ \A i \in DOMAIN KeyOrder : KeyOrder[i] \in Key
    BY BlobAssumption
  <1>6. \A i \in DOMAIN KeyOrder : Call("delete", KeyOrder[i]) \in Calls
    BY <1>5, CallTypes
  <1>7. each \in Seq(Calls)
    BY <1>5, <1>6
  <1>8. \A i \in DOMAIN each : each[i].do # "put"
    BY DEF Call
  <1> HIDE DEF each
  <1>9. PlanOK(name, d, keys, each)
    BY <1>7, <1>8 DEF PlanOK, Planned
  <1>. QED BY <1>3, <1>4, <1>9 DEF each

\* Every operation begins well.
LEMMA StartInv ==
    ASSUME BlobInv, NEW t \in Task, Start(t)
    PROVE  BlobInv'
  <1>1. IsData(<<>>) /\ \A v \in Value : IsData(Blocks(v))
    <2>1. IsData(<<>>)
      BY DEF IsData, Lengths
    <2>. QED BY <2>1, BlocksFacts
  <1>2. /\ \A c : Len(<<c>>) = 1
        /\ \A c, e : Len(<<c, e>>) = 2
        /\ \A c, e, f : Len(<<c, e, f>>) = 3
    BY TupleTails
  <1>3. NamedKey \subseteq Key /\ \A v \in Value : HashKey(v) \in Key
    BY HashFacts
  <1>4. ASSUME NEW k \in NamedKey, NEW v \in Value, put(t, k, v) \/ put_chunked(t, k, v) PROVE BlobInv'
    <2>1. Begin(t, Op("put", Blocks(v)), <<Call("put", k)>>)
      BY <1>4 DEF put, put_chunked
    <2>2. IsNew(Op("put", Blocks(v)), "put", Blocks(v), {}) /\ PlanOK("put", Blocks(v), {}, <<Call("put", k)>>)
      BY <1>3, NewFacts, KeyPlans
    <2>. QED BY <1>1, <2>1, <2>2, StartStep
  <1>5. ASSUME NEW k \in NamedKey, NEW v \in Value, put_if_absent(t, k, v) PROVE BlobInv'
    <2>1. Begin(t, Op("put_if_absent", Blocks(v)), <<Call("head", k), Call("put", k)>>)
      BY <1>5 DEF put_if_absent
    <2>2. /\ IsNew(Op("put_if_absent", Blocks(v)), "put_if_absent", Blocks(v), {})
          /\ PlanOK("put_if_absent", Blocks(v), {}, <<Call("head", k), Call("put", k)>>)
          /\ Len(<<Call("head", k), Call("put", k)>>) = 2
      BY <1>2, NewFacts, PairPlans
    <2>. QED BY <1>1, <2>1, <2>2, StartStep
  <1>6. ASSUME NEW k \in NamedKey, NEW v \in Value, delete_if_matches(t, k, v) PROVE BlobInv'
    <2> DEFINE s == [Op("delete_if_matches", <<>>) EXCEPT !.want = Blocks(v)]
    <2>1. Begin(t, s, <<Call("get", k), Call("delete", k)>>)
      BY <1>6 DEF delete_if_matches
    <2>2. /\ IsNew(s, "delete_if_matches", <<>>, {})
          /\ PlanOK("delete_if_matches", <<>>, {}, <<Call("get", k), Call("delete", k)>>)
          /\ Len(<<Call("get", k), Call("delete", k)>>) = 2
      BY <1>2, NewFacts, PairPlans
    <2> HIDE DEF s
    <2>. QED BY <1>1, <2>1, <2>2, StartStep
  <1>7. ASSUME NEW k \in Key, get(t, k) PROVE BlobInv'
    <2> DEFINE s == [Op("get", <<>>) EXCEPT !.keys = {k}]
    <2>1. Begin(t, s, <<Call("get", k)>>)
      BY <1>7 DEF get
    <2>2. IsNew(s, "get", <<>>, {k}) /\ PlanOK("get", <<>>, {k}, <<Call("get", k)>>)
      BY NewFacts, KeyPlans
    <2> HIDE DEF s
    <2>. QED BY <1>1, <2>1, <2>2, StartStep
  <1>8. ASSUME NEW k \in Key, exists(t, k) PROVE BlobInv'
    <2>1. Begin(t, Op("exists", <<>>), <<Call("head", k)>>)
      BY <1>8 DEF exists
    <2>2. IsNew(Op("exists", <<>>), "exists", <<>>, {}) /\ PlanOK("exists", <<>>, {}, <<Call("head", k)>>)
      BY NewFacts, KeyPlans
    <2>. QED BY <1>1, <2>1, <2>2, StartStep
  <1>9. ASSUME NEW k \in Key, delete(t, k) PROVE BlobInv'
    <2>1. Begin(t, Op("delete", <<>>), <<Call("delete", k)>>)
      BY <1>9 DEF delete
    <2>2. IsNew(Op("delete", <<>>), "delete", <<>>, {}) /\ PlanOK("delete", <<>>, {}, <<Call("delete", k)>>)
      BY NewFacts, KeyPlans
    <2>. QED BY <1>1, <2>1, <2>2, StartStep
  <1>10. ASSUME NEW k \in NamedKey, NEW l \in NamedKey, copy(t, k, l) PROVE BlobInv'
    <2>1. Begin(t, Op("copy", <<>>), <<Call("get", k), Call("put", l)>>)
      BY <1>10 DEF copy
    <2>2. /\ IsNew(Op("copy", <<>>), "copy", <<>>, {})
          /\ PlanOK("copy", <<>>, {}, <<Call("get", k), Call("put", l)>>)
      BY NewFacts, PairPlans
    <2>. QED BY <1>1, <2>1, <2>2, StartStep
  <1>11. ASSUME NEW k \in NamedKey, NEW l \in NamedKey, rename(t, k, l) PROVE BlobInv'
    <2> DEFINE s == [Op("rename", <<>>) EXCEPT !.keys = {k, l}]
               calls3 == <<Call("get", k), Call("put", l), Call("delete", k)>>
    <2>1. Begin(t, s, calls3)
      BY <1>11 DEF rename
    <2>2. IsNew(s, "rename", <<>>, {k, l}) /\ PlanOK("rename", <<>>, {k, l}, calls3) /\ Len(calls3) = 3
      BY <1>2, NewFacts, PairPlans
    <2>3. {k, l} \in SUBSET Key
      BY <1>3
    <2> HIDE DEF s, calls3
    <2>. QED BY <1>1, <2>1, <2>2, <2>3, StartStep
  <1>12. ASSUME NEW v \in Value, put_cas(t, v) \/ put_streaming(t, v) PROVE BlobInv'
    <2> DEFINE two == <<Call("head", HashKey(v)), Call("put", HashKey(v))>>
    <2>1. Begin(t, Op("put_cas", Blocks(v)), two)
      BY <1>12 DEF put_cas, put_streaming
    <2>2. IsNew(Op("put_cas", Blocks(v)), "put_cas", Blocks(v), {}) /\ PlanOK("put_cas", Blocks(v), {}, two)
          /\ Len(two) = 2
      BY <1>2, NewFacts, CasPlan
    <2> HIDE DEF two
    <2>. QED BY <1>1, <2>1, <2>2, StartStep
  <1>13. ASSUME NEW v \in Value, get_cas(t, v) PROVE BlobInv'
    <2> DEFINE s == [Op("get_cas", <<>>) EXCEPT !.want = Blocks(v)]
    <2>1. Begin(t, s, <<Call("get", HashKey(v))>>)
      BY <1>13 DEF get_cas
    <2>2. IsNew(s, "get_cas", <<>>, {}) /\ PlanOK("get_cas", <<>>, {}, <<Call("get", HashKey(v))>>)
      BY <1>3, NewFacts, KeyPlans
    <2> HIDE DEF s
    <2>. QED BY <1>1, <2>1, <2>2, StartStep
  <1>14. ASSUME NEW v \in Value, exists_cas(t, v) PROVE BlobInv'
    BY <1>3, <1>8, <1>14 DEF exists_cas
  <1>15. ASSUME NEW p \in Prefix, NEW name \in {"list", "list_meta", "delete_prefix"},
                Begin(t, Walking(name, p), <<Call("list", NoExt)>>)
         PROVE  BlobInv'
    <2>1. IsNew(Walking(name, p), name, <<>>, p) /\ PlanOK(name, <<>>, p, <<Call("list", NoExt)>>)
      BY NewFacts, WalkPlans
    <2>2. p \in SUBSET Key
      BY BlobAssumption
    <2>. QED BY <1>1, <1>15, <2>1, <2>2, StartStep
  <1>16. ASSUME NEW p \in Prefix, list(t, p) \/ list_meta(t, p) \/ delete_prefix(t, p) PROVE BlobInv'
    BY <1>15, <1>16 DEF list, list_meta, delete_prefix
  <1>17. ASSUME NEW p \in Prefix, NEW after, NEW limit, list_meta_page(t, p, after, limit) PROVE BlobInv'
    <2> DEFINE s == [Walking("list_meta", p) EXCEPT !.after = after, !.limit = limit]
    <2>1. Begin(t, s, <<Call("list", NoExt)>>)
      BY <1>17 DEF list_meta_page
    <2>2. IsNew(s, "list_meta", <<>>, p) /\ PlanOK("list_meta", <<>>, p, <<Call("list", NoExt)>>)
      BY NewFacts, WalkPlans
    <2>3. p \in SUBSET Key
      BY BlobAssumption
    <2> HIDE DEF s
    <2>. QED BY <1>1, <2>1, <2>2, <2>3, StartStep
  <1>18. ASSUME delete_many(t, KeyOrder) PROVE BlobInv'
    <2> DEFINE each == [i \in DOMAIN KeyOrder |-> Call("delete", KeyOrder[i])]
    <2>1. Begin(t, Op("delete_many", <<>>), each)
      BY <1>18 DEF delete_many
    <2>2. IsNew(Op("delete_many", <<>>), "delete_many", <<>>, {}) /\ PlanOK("delete_many", <<>>, {}, each)
      BY NewFacts, WalkPlans
    <2> HIDE DEF each
    <2>. QED BY <1>1, <2>1, <2>2, StartStep
  <1>19. ASSUME cleanup_temp_files(t) PROVE BlobInv'
    <2>1. Begin(t, Op("cleanup", <<>>), <<Call("sweep", NoExt)>>)
      BY <1>19 DEF cleanup_temp_files
    <2>2. IsNew(Op("cleanup", <<>>), "cleanup", <<>>, {}) /\ PlanOK("cleanup", <<>>, {}, <<Call("sweep", NoExt)>>)
      BY NewFacts, WalkPlans
    <2>. QED BY <1>1, <2>1, <2>2, StartStep
  <1>. QED BY <1>4, <1>5, <1>6, <1>7, <1>8, <1>9, <1>10, <1>11, <1>12, <1>13, <1>14, <1>16, <1>17, <1>18, <1>19
           DEF Start

\* What a step of the stores does.
LEMMA BlobNextInv ==
    ASSUME BlobInv, BlobNext
    PROVE  BlobInv'
  <1>1. ASSUME NEW t \in Task, MemoryStep(t) PROVE BlobInv'
    BY <1>1, MemoryPutInv, MemoryGetInv, DeleteInv, HeadInv, MemoryListInv DEF MemoryStep
  <1>2. ASSUME NEW t \in Task, LocalStep(t) PROVE BlobInv'
    BY <1>2, OpenTmpInv, WriteBlockInv, FailCallInv, RenameTmpInv, OpenFileInv, ReadFileInv, DeleteInv,
       HeadInv, CollectInv, SweepInv DEF LocalStep
  <1>. QED BY <1>1, <1>2, StartInv, CrashInv DEF BlobNext

\* The places of the keys, each an inode at the start.
LEMMA PositionFacts ==
    /\ \A k \in Key : Position(k) \in DOMAIN KeyOrder /\ KeyOrder[Position(k)] = k
    /\ \A i \in DOMAIN KeyOrder : KeyOrder[i] \in Key
    /\ DOMAIN KeyOrder \subseteq Inode
  <1>1. /\ DOMAIN KeyOrder = 1..Len(KeyOrder) /\ Len(KeyOrder) \in Nat
        /\ \A i \in DOMAIN KeyOrder : KeyOrder[i] \in Key
    BY BlobAssumption
  <1>2. \A k \in Key : \E i \in DOMAIN KeyOrder : KeyOrder[i] = k
    BY BlobAssumption
  <1>3. \A k \in Key : Position(k) \in DOMAIN KeyOrder /\ KeyOrder[Position(k)] = k
    BY <1>2 DEF Position
  <1>4. Len(KeyOrder) <= Cardinality(Key)
    <2> DEFINE g == [k \in Key |-> Position(k)]
    <2>1. \A i \in DOMAIN KeyOrder : Position(KeyOrder[i]) = i
      BY <1>1, <1>3, BlobAssumption
    <2>2. {g[k] : k \in Key} = 1..Len(KeyOrder)
      BY <1>1, <1>3, <2>1
    <2> HIDE DEF g
    <2>3. Cardinality({g[k] : k \in Key}) <= Cardinality(Key)
      BY FinitePaths, ImageCardinality
    <2>4. Cardinality(1..Len(KeyOrder)) = Len(KeyOrder)
      BY <1>1, FS_Interval
    <2>. QED BY <2>2, <2>3, <2>4
  <1>5. Cardinality(Key) <= Cardinality(Path) /\ Cardinality(Path) \in Nat /\ Cardinality(Key) \in Nat
    BY FinitePaths, FS_Subset, FS_CardinalityType DEF Path
  <1>6. Cardinality(Task) \in Nat
    BY BlobAssumption, FS_CardinalityType
  <1>. QED BY <1>1, <1>3, <1>4, <1>5, <1>6 DEF Inode

\* The stores as they are found.
LEMMA BlobInitInv ==
    ASSUME BlobInit
    PROVE  BlobInv
  <1> DEFINE local == backend = "local"
  <1>1. PICK stock \in Stock :
          LET content(k) == IF stock[k] = Absent THEN Absent ELSE Blocks(stock[k])
              there(p) == p \in Key /\ stock[p] # Absent
          IN  /\ dir = [p \in Path |-> IF local /\ there(p) THEN Position(p) ELSE NoFile]
              /\ inode = [i \in Inode |-> IF local /\ i \in DOMAIN KeyOrder /\ there(KeyOrder[i])
                                         THEN content(KeyOrder[i]) ELSE <<>>]
              /\ map = [k \in Key |-> IF local THEN Absent ELSE content(k)]
              /\ puts = [k \in Key |-> {content(k)} \ {Absent}]
              /\ acked = {x \in Value : there(HashKey(x))}
    BY DEF BlobInit
  <1>2. /\ task = [t \in Task |-> NoTask] /\ shared = {} /\ gone = {}
        /\ backend \in {"local", "memory"} /\ verify \in BOOLEAN
    BY DEF BlobInit
  <1> DEFINE content(k) == IF stock[k] = Absent THEN Absent ELSE Blocks(stock[k])
             there(p) == p \in Key /\ stock[p] # Absent
  <1>3. /\ dir = [p \in Path |-> IF local /\ there(p) THEN Position(p) ELSE NoFile]
        /\ inode = [i \in Inode |-> IF local /\ i \in DOMAIN KeyOrder /\ there(KeyOrder[i])
                                    THEN content(KeyOrder[i]) ELSE <<>>]
        /\ map = [k \in Key |-> IF local THEN Absent ELSE content(k)]
        /\ puts = [k \in Key |-> {content(k)} \ {Absent}]
        /\ acked = {x \in Value : there(HashKey(x))}
    BY <1>1
  <1>4. \A k \in Key : there(k) => content(k) \in {Blocks(v) : v \in Value} /\ IsData(content(k)) /\ content(k) # Absent
    <2>1. ASSUME NEW k \in Key, there(k) PROVE stock[k] \in Value
      <3>1. stock[k] \in {Absent} \cup (IF k \in NamedKey THEN Value ELSE {k.stem})
        BY BlobAssumption
      <3>2. CASE k \in NamedKey
        BY <2>1, <3>1, <3>2
      <3>3. CASE k \notin NamedKey
        <4>1. PICK v \in Value : k = HashKey(v)
          BY <3>3 DEF Key
        <4>. QED BY <2>1, <3>1, <3>3, <4>1, HashFacts
      <3>. QED BY <3>2, <3>3
    <2>2. \A v \in Value : IsData(Blocks(v)) /\ Blocks(v) # Absent
      BY BlocksFacts, DataFacts, BlobAssumption
    <2>. QED BY <2>1, <2>2
  <1>5. \A v \in Value : there(HashKey(v)) => content(HashKey(v)) = Blocks(v)
    <2>1. ASSUME NEW v \in Value, there(HashKey(v)) PROVE stock[HashKey(v)] = v
      <3>1. HashKey(v) \in Key /\ HashKey(v) \notin NamedKey /\ HashKey(v).stem = v
        BY HashFacts
      <3>2. stock[HashKey(v)] \in {Absent} \cup {HashKey(v).stem}
        BY <3>1, BlobAssumption
      <3>. QED BY <2>1, <3>1, <3>2
    <2>. QED BY <2>1
  <1>6. \A k \in Key : ~there(k) => content(k) = Absent
    OBVIOUS
  <1>7. \A k \in Key : content(k) # Absent => there(k)
    OBVIOUS
  <1> HIDE DEF content, there, local
  <1>8. \A p \in Path : dir[p] = IF local /\ there(p) THEN Position(p) ELSE NoFile
    BY <1>3
  <1>9. \A p : there(p) => p \in Key /\ Position(p) \in Inode /\ Position(p) \in DOMAIN KeyOrder /\ KeyOrder[Position(p)] = p
    BY PositionFacts DEF there
  <1>10. \A i \in Inode : i # NoFile
    BY DEF Inode, NoFile
  <1>11. StoreTypes
    <2>1. dir \in [Path -> Inode \cup {NoFile}]
      BY <1>3, <1>9
    <2>2. inode = [i \in Inode |-> inode[i]]
      BY <1>3
    <2>3. ASSUME NEW i \in Inode PROVE IsData(inode[i])
      <3>1. IsData(<<>>)
        BY DEF IsData, Lengths
      <3>2. CASE local /\ i \in DOMAIN KeyOrder /\ there(KeyOrder[i])
        <4>1. inode[i] = content(KeyOrder[i]) /\ KeyOrder[i] \in Key
          BY <1>3, <3>2, PositionFacts
        <4>. QED BY <1>4, <3>2, <4>1
      <3>3. CASE ~(local /\ i \in DOMAIN KeyOrder /\ there(KeyOrder[i]))
        BY <1>3, <3>1, <3>3
      <3>. QED BY <3>2, <3>3
    <2>4. map = [k \in Key |-> map[k]] /\ puts = [k \in Key |-> puts[k]]
      BY <1>3
    <2>5. \A k \in Key : map[k] = Absent \/ IsData(map[k])
      BY <1>3, <1>4, <1>6
    <2>6. task = [t \in Task |-> task[t]]
      BY <1>2
    <2>. QED BY <1>2, <2>1, <2>2, <2>3, <2>4, <2>5, <2>6 DEF StoreTypes
  <1>12. \A t \in Task : TaskOK(task[t]) /\ task[t].fd = NoFile /\ task[t].todo = <<>> /\ task[t].op = "none"
    BY <1>2, IdleTask
  <1>13. \A t \in Task : ~Open(t) /\ ~Writing(t) /\ ~Reading(t)
    BY <1>12, ClosedFacts
  <1>14. FilesOK
    <2>1. OneName
      BY <1>8, <1>9 DEF OneName
    <2>2. \A t \in Task : Named(t) /\ Alone(t)
      BY <1>12, <1>13 DEF Named, Alone
    <2>3. \A t, u \in Task : Apart(t, u)
      BY <1>13 DEF Apart
    <2>. QED BY <2>1, <2>2, <2>3 DEF FilesOK
  <1>15. StoredOK
    <2>1. \A k \in Key : puts[k] = {content(k)} \ {Absent} /\ k \in Path
      BY <1>3, TmpFacts
    <2>2. ASSUME NEW k \in Key, Held(k) PROVE Sound(k, Bytes(k))
      <3>1. CASE local
        <4>1. there(k) /\ dir[k] = Position(k)
          BY <1>2, <1>8, <2>1, <2>2, <3>1 DEF Held, local
        <4>2. inode[dir[k]] = content(k)
          BY <1>3, <1>9, <3>1, <4>1
        <4>. QED BY <1>2, <1>4, <2>1, <3>1, <4>1, <4>2 DEF Sound, Bytes, local
      <3>2. CASE ~local
        BY <1>2, <1>3, <2>1, <2>2, <3>2 DEF Sound, Bytes, Held, local
      <3>. QED BY <3>1, <3>2
    <2>3. \A v \in Value : puts[HashKey(v)] \subseteq {Blocks(v)}
      BY <1>5, <1>7, <2>1, HashFacts
    <2>4. ASSUME NEW v \in acked PROVE Held(HashKey(v))
      <3>1. v \in Value /\ there(HashKey(v)) /\ HashKey(v) \in Key
        BY <1>3, <2>4, HashFacts
      <3>2. CASE local
        BY <1>2, <1>8, <1>9, <1>10, <2>1, <3>1, <3>2 DEF Held, local
      <3>3. CASE ~local
        BY <1>2, <1>3, <1>4, <3>1, <3>3 DEF Held, local
      <3>. QED BY <3>2, <3>3
    <2>5. acked \subseteq Value
      BY <1>3
    <2>. QED BY <1>12, <1>13, <2>2, <2>3, <2>4, <2>5 DEF StoredOK
  <1>16. \A t \in Task : SeenOK(t)
    BY <1>12, <1>13 DEF SeenOK
  <1>. QED BY <1>11, <1>12, <1>14, <1>15, <1>16 DEF BlobInv

\* The invariant of the stores in the process.
LEMMA BlobInductive == Spec => []BlobInv
  <1>1. Init => BlobInv
    BY BlobInitInv DEF Init
  <1>2. ASSUME BlobInv, [Next]_vars PROVE BlobInv'
    <2>1. CASE BlobNext
      BY <1>2, <2>1, BlobNextInv
    <2>2. CASE UNCHANGED blobVars
      <3>1. UNCHANGED <<backend, verify, dir, inode, map, used, task, puts, shared, gone, acked>>
        BY <2>2 DEF blobVars, storeVars, history
      <3>2. StoreTypes' /\ FilesOK' /\ StoredOK'
        <4>1. StoreTypes /\ FilesOK /\ StoredOK /\ \A t \in Task : TaskOK(task[t])
          BY <1>2 DEF BlobInv
        <4>2. StoreTypes'
          BY <3>1, <4>1 DEF StoreTypes
        <4>3. \A t \in Task : Fixed(t) /\ task'[t] = task[t]
          BY <3>1 DEF Fixed
        <4>4. \A p : dir'[p] \in {dir[p], NoFile} /\ map'[p] \in {map[p], Absent}
          BY <3>1
        <4>5. FilesOK'
          BY <3>1, <4>1, <4>3, <4>4, FilesDropped
        <4>6. \A k \in Key : Held(k) <=> Held(k)'
          BY <3>1 DEF Held
        <4>7. acked' \subseteq Value
          BY <3>1, <4>1 DEF StoredOK
        <4>8. StoredOK'
          BY <3>1, <4>1, <4>3, <4>4, <4>6, <4>7, StoredDropped
        <4>. QED BY <4>2, <4>5, <4>8
      <3>3. ASSUME NEW t \in Task PROVE TaskOK(task[t])' /\ SeenOK(t)'
        <4>1. TaskOK(task[t])'
          BY <1>2, <3>1 DEF BlobInv, TaskOK, TaskShape, Planned
        <4>2. Keeps({}) /\ Fixed(t)
          BY <3>1 DEF Keeps, Content, Fixed
        <4>3. Reading(t)' => Reading(t) /\ task'[t].fd = task[t].fd
          BY <4>2, FixedFacts DEF Fixed
        <4>. QED BY <1>2, <3>1, <4>1, <4>2, <4>3, SeenKept DEF BlobInv
      <3>. QED BY <3>2, <3>3 DEF BlobInv
    <2>. QED BY <1>2, <2>1, <2>2 DEF Next, vars
  <1>. QED BY <1>1, <1>2, PTL DEF Spec

\* What is there is held.
LEMMA ContentFacts ==
    ASSUME BlobInv, NEW k \in Key
    PROVE  /\ Content(k) = Absent <=> ~Held(k)
           /\ Held(k) => Content(k) = Bytes(k) /\ IsData(Content(k))
  <1>1. StoreTypes /\ k \in Path
    BY TmpFacts DEF BlobInv
  <1>2. Absent \notin Datum /\ \A d : IsData(d) => d # Absent
    BY DataFacts, BlobAssumption
  <1>3. /\ backend = "memory" /\ map[k] # Absent => IsData(map[k])
        /\ dir[k] # NoFile => IsData(inode[dir[k]])
    BY <1>1 DEF StoreTypes
  <1>. QED BY <1>2, <1>3 DEF Content, Held, Bytes

\* Neither a stored blob nor one read is torn.
LEMMA TornFacts ==
    ASSUME BlobInv
    PROVE  NeverTorn
  <1>1. ASSUME NEW k \in Present PROVE Content(k) \in puts[k] \/ TmpPath(k) \in shared
    <2>1. k \in Key /\ Held(k) /\ Content(k) = Bytes(k)
      BY <1>1, ContentFacts DEF Present
    <2>2. Sound(k, Bytes(k))
      BY <2>1 DEF BlobInv, StoredOK
    <2>. QED BY <2>1, <2>2 DEF Sound
  <1>2. \A t \in Task : task[t].op = "get" /\ task[t].res = "ok" =>
           \A k \in task[t].keys : task[t].data \in puts[k] \/ TmpPath(k) \in shared
    BY DEF BlobInv, StoredOK, Sound
  <1>. QED BY <1>1, <1>2 DEF NeverTorn

\* An acknowledged digest can be read.
LEMMA CasFacts ==
    ASSUME BlobInv
    PROVE  CasReadable
  <1>1. SUFFICES ASSUME NEW v \in acked, HashKey(v) \notin gone, TmpPath(HashKey(v)) \notin shared
                 PROVE  Content(HashKey(v)) = Blocks(v)
    BY DEF CasReadable
  <1>2. v \in Value /\ HashKey(v) \in Key /\ Held(HashKey(v))
    BY <1>1, HashFacts DEF BlobInv, StoredOK
  <1>3. Bytes(HashKey(v)) \in puts[HashKey(v)]
    BY <1>1, <1>2 DEF BlobInv, StoredOK, Sound
  <1>4. puts[HashKey(v)] \subseteq {Blocks(v)}
    BY <1>2 DEF BlobInv, StoredOK
  <1>. QED BY <1>2, <1>3, <1>4, ContentFacts

\* A blob being renamed is there.
LEMMA RenameFacts ==
    ASSUME BlobInv
    PROVE  RenameKeepsBlob
  <1>1. SUFFICES ASSUME NEW t \in Task, task[t].op = "rename", Len(task[t].todo) \in {1, 2},
                        Cardinality(task[t].keys) = 2, task[t].dirty \cap task[t].keys = {},
                        \A k \in task[t].keys : TmpPath(k) \notin shared
                 PROVE  \E k \in task[t].keys : Content(k) = task[t].data
    BY DEF RenameKeepsBlob
  <1>2. TaskOK(task[t]) /\ SeenOK(t)
    BY DEF BlobInv
  <1>3. PICK x \in Key, y \in Key :
           /\ task[t].keys = {x, y}
           /\ task[t].todo \in {<<Call("get", x), Call("put", y), Call("delete", x)>>,
                                <<Call("put", y), Call("delete", x)>>, <<Call("delete", x)>>, <<>>}
    BY <1>1, <1>2 DEF TaskOK, Planned
  <1>4. x # y
    <2>1. SUFFICES ASSUME x = y PROVE FALSE
      OBVIOUS
    <2>2. task[t].keys = {x}
      BY <1>3, <2>1
    <2>3. Cardinality({x}) = 1
      BY FS_Singleton
    <2>. QED BY <1>1, <2>2, <2>3
  <1>5. \A k \in task[t].keys : Untouched(task[t], k)
    BY <1>1 DEF Untouched
  <1>6. CASE Len(task[t].todo) = 2
    <2>1. task[t].todo = <<Call("put", y), Call("delete", x)>>
      <3>1. /\ Len(<<Call("get", x), Call("put", y), Call("delete", x)>>) = 3
            /\ Len(<<Call("delete", x)>>) = 1 /\ Len(<<>>) = 0
        BY TupleTails
      <3>. QED BY <1>3, <1>6, <3>1
    <2>2. task[t].todo[2].key = x
      BY <2>1, TupleTails DEF Call
    <2>3. Content(x) = task[t].data
      BY <1>1, <1>2, <1>3, <1>5, <1>6, <2>2 DEF SeenOK
    <2>. QED BY <1>3, <2>3
  <1>7. CASE Len(task[t].todo) = 1
    <2>1. task[t].todo = <<Call("delete", x)>>
      <3>1. /\ Len(<<Call("get", x), Call("put", y), Call("delete", x)>>) = 3
            /\ Len(<<Call("put", y), Call("delete", x)>>) = 2 /\ Len(<<>>) = 0
        BY TupleTails
      <3>. QED BY <1>3, <1>7, <3>1
    <2>2. Target(t) = x
      BY <2>1, TupleTails DEF Target, Call
    <2>3. Content(y) = task[t].data
      BY <1>1, <1>2, <1>3, <1>4, <1>5, <1>7, <2>2 DEF SeenOK
    <2>. QED BY <1>3, <2>3
  <1>. QED BY <1>1, <1>6, <1>7

(***************************************************************************)
(* No reader sees a torn blob, an acknowledged put_cas stays readable, and *)
(* a rename never has its blob nowhere.                                    *)
(***************************************************************************)
THEOREM Whole == Spec => []BlobsWhole
  <1>1. BlobInv => BlobsWhole
    BY TornFacts, CasFacts, RenameFacts DEF BlobsWhole
  <1>. QED BY <1>1, BlobInductive, PTL

(***************************************************************************)
(* The operations that look first act only on what they saw.               *)
(***************************************************************************)
THEOREM Conditions == Spec => ConditionsHonoured
  <1> DEFINE acts(t) == Len(task[t].todo) = 1 /\ task'[t].todo = <<>> /\ task'[t].res = "ok"
             A == \A t \in Task :
                    acts(t) /\ Target(t) \notin task[t].dirty =>
                      /\ task[t].op \in {"put_if_absent", "put_cas"} /\ Calling(t, "put") =>
                            Content(Target(t)) = Absent
                      /\ task[t].op = "delete_if_matches" /\ TmpPath(Target(t)) \notin shared =>
                            Content(Target(t)) = task[t].want
  <1>1. BlobInv => A
    <2>1. SUFFICES ASSUME BlobInv, NEW t \in Task, acts(t), Target(t) \notin task[t].dirty
                   PROVE  /\ task[t].op \in {"put_if_absent", "put_cas"} /\ Calling(t, "put") =>
                                Content(Target(t)) = Absent
                          /\ task[t].op = "delete_if_matches" /\ TmpPath(Target(t)) \notin shared =>
                                Content(Target(t)) = task[t].want
      OBVIOUS
    <2>2. SeenOK(t) /\ TaskOK(task[t])
      BY <2>1 DEF BlobInv
    <2>3. ASSUME task[t].op \in {"put_if_absent", "put_cas"}, Calling(t, "put")
          PROVE  Content(Target(t)) = Absent
      <3>1. ~Held(Target(t))
        BY <2>1, <2>2, <2>3 DEF SeenOK
      <3>2. Target(t) \in Key
        BY <2>2, <2>3, CallFacts DEF Calling
      <3>. QED BY <2>1, <3>1, <3>2, ContentFacts
    <2>4. ASSUME task[t].op = "delete_if_matches", TmpPath(Target(t)) \notin shared
          PROVE  Content(Target(t)) = task[t].want
      BY <2>1, <2>2, <2>4 DEF SeenOK, Untouched
    <2>. QED BY <2>3, <2>4
  <1>2. BlobInv => [A]_blobVars
    BY <1>1
  <1> HIDE DEF A
  <1>3. Spec => [][A]_blobVars
    BY <1>2, BlobInductive, PTL
  <1>. QED BY <1>3 DEF ConditionsHonoured, A
-----------------------------------------------------------------------------
(***************************************************************************)
(* The quota of the memory store.                                          *)
(***************************************************************************)
\* The blocks of one blob are as many as its length.
LEMMA BoxFacts ==
    ASSUME NEW k, NEW n \in Nat
    PROVE  IsFiniteSet({k} \X (1..n)) /\ Cardinality({k} \X (1..n)) = n
  <1>1. IsFiniteSet({k}) /\ Cardinality({k}) = 1
    BY FS_Singleton
  <1>2. IsFiniteSet(1..n) /\ Cardinality(1..n) = n
    BY FS_Interval
  <1>3. /\ IsFiniteSet({k} \X (1..n))
        /\ Cardinality({k} \X (1..n)) = Cardinality({k}) * Cardinality(1..n)
    BY <1>1, <1>2, FS_Product
  <1>. QED BY <1>1, <1>2, <1>3

\* The blocks taken are finitely many.
LEMMA TakenFinite ==
    ASSUME NEW m, \A l \in Key : Length(m[l]) \in Nat
    PROVE  IsFiniteSet(Taken(m)) /\ Cardinality(Taken(m)) \in Nat
  <1> DEFINE box == [l \in Key |-> {l} \X (1..Length(m[l]))]
             All == {box[l] : l \in Key}
  <1>1. \A l \in Key : IsFiniteSet(box[l])
    BY BoxFacts
  <1>2. IsFiniteSet(Key)
    BY FinitePaths
  <1>3. Taken(m) = UNION All
    BY DEF Taken
  <1> HIDE DEF box
  <1>4. IsFiniteSet(All)
    BY <1>2, ImageCardinality
  <1>5. \A S \in All : IsFiniteSet(S)
    BY <1>1
  <1> HIDE DEF All
  <1>6. IsFiniteSet(UNION All)
    BY <1>4, <1>5, FS_UNION
  <1>. QED BY <1>3, <1>6, FS_CardinalityType

\* What the other blobs take and what k takes, added up.
LEMMA TakenSplit ==
    ASSUME NEW m, \A l \in Key : Length(m[l]) \in Nat, NEW k \in Key
    PROVE  LET rest == {p \in Taken(m) : p[1] # k}
           IN  /\ IsFiniteSet(rest) /\ Cardinality(rest) \in Nat
               /\ Cardinality(Taken(m)) = Cardinality(rest) + Length(m[k])
  <1> DEFINE rest == {p \in Taken(m) : p[1] # k}
             own == {k} \X (1..Length(m[k]))
  <1>1. IsFiniteSet(Taken(m))
    BY TakenFinite
  <1>2. Taken(m) = rest \cup own /\ rest \cap own = {}
    BY DEF Taken
  <1>3. IsFiniteSet(own) /\ Cardinality(own) = Length(m[k])
    BY BoxFacts
  <1>4. IsFiniteSet(rest) /\ Cardinality(rest) \in Nat
    BY <1>1, FS_Subset, FS_CardinalityType
  <1> HIDE DEF rest, own
  <1>5. Cardinality(rest \cup own) = Cardinality(rest) + Cardinality(own) - Cardinality(rest \cap own)
    BY <1>3, <1>4, FS_Union
  <1>6. Cardinality(rest \cap own) = 0
    BY <1>2, FS_EmptySet
  <1>7. Cardinality(Taken(m)) = Cardinality(rest) + Length(m[k])
    BY <1>2, <1>3, <1>4, <1>5, <1>6
  <1>. QED BY <1>4, <1>7 DEF rest

\* Replacing one blob changes the sum by the difference of the lengths.
LEMMA TakenReplaced ==
    ASSUME NEW m, NEW n, \A l \in Key : Length(m[l]) \in Nat, NEW k \in Key, Length(n[k]) \in Nat,
           \A l \in Key : l # k => n[l] = m[l]
    PROVE  /\ Cardinality(Taken(m)) \in Nat /\ Cardinality(Taken(n)) \in Nat
           /\ Cardinality(Taken(n)) = Cardinality(Taken(m)) - Length(m[k]) + Length(n[k])
  <1> DEFINE before == {p \in Taken(m) : p[1] # k}
             after == {p \in Taken(n) : p[1] # k}
  <1>1. \A l \in Key : Length(n[l]) \in Nat
    OBVIOUS
  <1>2. before = after
    <2>1. ASSUME NEW p PROVE p \in before => p \in after
      BY DEF Taken
    <2>2. ASSUME NEW p PROVE p \in after => p \in before
      BY DEF Taken
    <2>. QED BY <2>1, <2>2
  <1>3. Cardinality(Taken(m)) = Cardinality(before) + Length(m[k]) /\ Cardinality(before) \in Nat
    BY TakenSplit
  <1>4. Cardinality(Taken(n)) = Cardinality(after) + Length(n[k])
    BY <1>1, TakenSplit
  <1>5. Cardinality(Taken(m)) \in Nat /\ Cardinality(Taken(n)) \in Nat
    BY <1>1, TakenFinite
  <1> HIDE DEF before, after
  <1>. QED BY <1>2, <1>3, <1>4, <1>5

\* The length of what the memory store holds.
LEMMA LengthFacts ==
    ASSUME StoreTypes
    PROVE  Length(Absent) = 0 /\ \A k \in Key : Length(map[k]) \in Nat
  BY DataFacts DEF StoreTypes, Length

\* put replaces a blob only if the new sum fits.
LEMMA QuotaPut ==
    ASSUME BlobInv, QuotaExact, NEW t \in Task, memory_put(t)
    PROVE  QuotaExact'
  <1> DEFINE s == task[t]
             k == Target(t)
             would_be == used - Length(map[k]) + Len(s.data)
  <1>1. StoreTypes /\ TaskOK(task[t]) /\ backend = "memory" /\ backend' = backend /\ Running(t)
        /\ Calling(t, "put")
    BY DEF BlobInv, memory_put, Calling
  <1>2. k \in Key
    BY <1>1, CallFacts
  <1>3. \A l \in Key : Length(map[l]) \in Nat
    BY <1>1, LengthFacts
  <1>4. IsData(s.data) /\ s.data # Absent /\ Length(s.data) = Len(s.data) /\ Len(s.data) \in Nat
    <2>1. IsData(s.data)
      BY <1>1 DEF TaskOK
    <2>2. s.data \in Datum /\ Len(s.data) \in Nat
      BY <2>1, DataFacts
    <2>. QED BY <2>1, <2>2, BlobAssumption DEF Length
  <1>5. used = Cardinality(Taken(map)) /\ used <= Capacity
    BY <1>1 DEF QuotaExact
  <1>6. CASE would_be <= Capacity
    <2>1. map' = [map EXCEPT ![k] = s.data] /\ used' = would_be
      BY <1>6 DEF memory_put
    <2>2. map' = [l \in Key |-> IF l = k THEN s.data ELSE map[l]]
      BY <1>1, <2>1 DEF StoreTypes
    <2>3. \A l \in Key : l # k => map'[l] = map[l]
      BY <2>2
    <2>4. map'[k] = s.data
      BY <1>2, <2>2
    <2>5. Cardinality(Taken(map')) = Cardinality(Taken(map)) - Length(map[k]) + Length(map'[k])
      BY <1>2, <1>3, <1>4, <2>3, <2>4, TakenReplaced
    <2>6. used' = Cardinality(Taken(map')) /\ used' <= Capacity
      BY <1>4, <1>5, <1>6, <2>1, <2>4, <2>5
    <2>. QED BY <2>6 DEF QuotaExact, Taken
  <1>7. CASE ~(would_be <= Capacity)
    <2>1. map' = map /\ used' = used
      BY <1>7 DEF memory_put
    <2>. QED BY <1>5, <2>1 DEF QuotaExact, Taken
  <1>. QED BY <1>6, <1>7

\* delete gives back what the blob took.
LEMMA QuotaDelete ==
    ASSUME BlobInv, QuotaExact, NEW t \in Task, memory_delete(t)
    PROVE  QuotaExact'
  <1> DEFINE k == Target(t)
  <1>1. StoreTypes /\ TaskOK(task[t]) /\ backend = "memory" /\ backend' = backend /\ Running(t)
        /\ Calling(t, "delete")
    BY DEF BlobInv, memory_delete, Calling
  <1>2. k \in Key
    BY <1>1, CallFacts
  <1>3. /\ \A l \in Key : Length(map[l]) \in Nat
        /\ Length(Absent) = 0
    BY <1>1, LengthFacts
  <1>4. used = Cardinality(Taken(map)) /\ used <= Capacity
    BY <1>1 DEF QuotaExact
  <1>5. map' = [map EXCEPT ![k] = Absent] /\ used' = used - Length(map[k])
    BY DEF memory_delete
  <1>6. map' = [l \in Key |-> IF l = k THEN Absent ELSE map[l]]
    BY <1>1, <1>5 DEF StoreTypes
  <1>7. /\ \A l \in Key : l # k => map'[l] = map[l]
        /\ map'[k] = Absent
    BY <1>2, <1>6
  <1>8. /\ Cardinality(Taken(map')) = Cardinality(Taken(map)) - Length(map[k]) + Length(map'[k])
        /\ Cardinality(Taken(map)) \in Nat
    BY <1>2, <1>3, <1>7, TakenReplaced
  <1>9. used' = Cardinality(Taken(map')) /\ used' <= Capacity
    BY <1>2, <1>3, <1>4, <1>5, <1>7, <1>8, BlobAssumption
  <1>. QED BY <1>9 DEF QuotaExact, Taken

\* No other step touches the memory store's blobs or their count.
LEMMA QuotaStep ==
    ASSUME BlobInv, QuotaExact, BlobNext
    PROVE  QuotaExact'
  <1>1. ASSUME UNCHANGED <<backend, map, used>> PROVE QuotaExact'
    BY <1>1 DEF QuotaExact, Taken
  <1>2. ASSUME NEW t \in Task, Start(t) PROVE UNCHANGED <<backend, map, used>>
    BY <1>2 DEF Start, put, put_chunked, get, delete, exists, copy, rename, delete_many, put_if_absent,
       delete_if_matches, put_cas, put_streaming, get_cas, exists_cas, list, list_meta, list_meta_page,
       delete_prefix, cleanup_temp_files, Begin, storeVars
  <1>3. ASSUME NEW t \in Task, MemoryStep(t) PROVE QuotaExact'
    <2>1. CASE memory_get(t) \/ memory_head(t) \/ memory_list(t)
      BY <1>1, <2>1 DEF memory_get, memory_head, memory_list, storeVars
    <2>. QED BY <1>3, <2>1, QuotaPut, QuotaDelete DEF MemoryStep
  <1>4. ASSUME NEW t \in Task, LocalStep(t) PROVE UNCHANGED <<backend, map, used>>
    BY <1>4 DEF LocalStep, OpenTmp, WriteBlock, FailCall, RenameTmp, OpenFile, ReadFile, local_delete,
       local_head, collect_entries, cleanup_tmp_files_sync, storeVars
  <1>5. ASSUME Reopen \/ with_temp_cleanup PROVE UNCHANGED <<backend, map, used>>
    BY <1>5 DEF Reopen, with_temp_cleanup, storeVars
  <1>. QED BY <1>1, <1>2, <1>3, <1>4, <1>5 DEF BlobNext

\* The quota is exact, whatever is overwritten, refused or deleted.
LEMMA QuotaInductive == Spec => []QuotaExact
  <1>1. Init => QuotaExact
    BY DEF Init, BlobInit, QuotaExact
  <1>2. BlobInv /\ QuotaExact /\ [Next]_vars => QuotaExact'
    <2>1. ASSUME UNCHANGED blobVars, QuotaExact PROVE QuotaExact'
      BY <2>1 DEF blobVars, storeVars, QuotaExact, Taken
    <2>. QED BY <2>1, QuotaStep DEF Next, vars
  <1>. QED BY <1>1, <1>2, BlobInductive, PTL DEF Spec

\* The types of the stores in the process.
LEMMA BlobTypes ==
    ASSUME BlobInv
    PROVE  BlobTypeOK
  <1>1. StoreTypes /\ FilesOK /\ \A t \in Task : TaskOK(task[t])
    BY DEF BlobInv
  <1>2. \A k \in Key : Content(k) \in Datum \cup {Absent}
    BY ContentFacts, DataFacts
  <1>3. \A t \in Task : task[t].data \in Datum
    BY <1>1, DataFacts DEF TaskOK
  <1>. QED BY <1>1, <1>2, <1>3 DEF BlobTypeOK, StoreTypes, FilesOK, OneName, Named
-----------------------------------------------------------------------------
(***************************************************************************)
(* Listings on the stores.  A task that lists walks the directory, then    *)
(* looks at the keys found one by one, then is done; ever and always are   *)
(* the keys that were there at some and at every instant so far.           *)
(***************************************************************************)
Lister == {"list", "list_meta"}

\* The keys handed out so far are in order, past start_after, and were there.
Handed(s, ever) ==
    /\ s.after \in Nat /\ s.limit \in Nat /\ s.out \in Seq(Key)
    /\ \A i, j \in 1..Len(s.out) : i < j => Position(s.out[i]) < Position(s.out[j])
    /\ \A i \in 1..Len(s.out) : s.out[i] \in ever \cap s.keys /\ Position(s.out[i]) > s.after

\* Walking: every entry passed that was there all along has been seen.
Walks(s, ever, always) ==
    /\ s.todo = <<Call("list", NoExt)>> /\ s.out = <<>> /\ s.seen \subseteq ever \cap s.keys
    /\ \A i \in DOMAIN DirOrder : i <= s.at /\ DirOrder[i] \in always \cap s.keys => DirOrder[i] \in s.seen
    /\ s.op = "list" => s.limit = Len(KeyOrder)

\* Looking: the keys left are in order and come after those handed out.
Looks(s, ever, always) ==
    /\ s.op = "list_meta" /\ s.todo # <<>> /\ Len(s.out) < s.limit
    /\ \A i \in DOMAIN s.todo : /\ s.todo[i].do = "head" /\ s.todo[i].key \in s.keys
                                /\ Position(s.todo[i].key) > s.after
    /\ \A i, j \in DOMAIN s.todo : i < j => Position(s.todo[i].key) < Position(s.todo[j].key)
    /\ \A i \in 1..Len(s.out), j \in DOMAIN s.todo : Position(s.out[i]) < Position(s.todo[j].key)
    /\ \A k \in always \cap s.keys :
          \/ Position(k) <= s.after
          \/ \E i \in 1..Len(s.out) : s.out[i] = k
          \/ \E j \in DOMAIN s.todo : s.todo[j].key = k

\* Done: nothing is missing up to where a full page stops, unless it failed.
Ends(s, ever, always) ==
    /\ s.todo = <<>>
    /\ s.res = "ok" =>
        /\ Len(s.out) <= s.limit
        /\ \A k \in always \cap s.keys :
              \/ Position(k) <= s.after
              \/ \E i \in 1..Len(s.out) : s.out[i] = k
              \/ Len(s.out) = s.limit /\ (Len(s.out) > 0 => Position(k) > Position(s.out[Len(s.out)]))

ListOK(s, ever, always) ==
    s.op \in Lister =>
        /\ Handed(s, ever)
        /\ Walks(s, ever, always) \/ Looks(s, ever, always) \/ Ends(s, ever, always)

Listing == \A t \in Task : ListOK(task[t], task[t].ever, task[t].always)

\* What a listing knows holds when fewer keys were there all along and more
\* at some time.
LEMMA ListKept ==
    ASSUME NEW s, NEW r, NEW ever, NEW always, NEW more, NEW less, ListOK(s, ever, always),
           ever \subseteq more, less \subseteq always, r.op = s.op, r.todo = s.todo,
           r.keys = s.keys, r.after = s.after, r.limit = s.limit, r.out = s.out, r.res = s.res,
           s.todo # <<>> => r.at = s.at /\ r.seen = s.seen
    PROVE  ListOK(r, more, less)
  <1>1. SUFFICES ASSUME s.op \in Lister PROVE ListOK(r, more, less)
    BY DEF ListOK
  <1>2. Handed(r, more)
    BY <1>1 DEF ListOK, Handed
  <1>3. CASE Walks(s, ever, always)
    <2>1. s.todo # <<>>
      BY <1>3, TupleTails DEF Walks
    <2>2. Walks(r, more, less)
      BY <1>3, <2>1 DEF Walks
    <2>. QED BY <1>2, <2>2 DEF ListOK
  <1>4. CASE Looks(s, ever, always)
    <2>1. Looks(r, more, less)
      BY <1>4 DEF Looks
    <2>. QED BY <1>2, <2>1 DEF ListOK
  <1>5. CASE Ends(s, ever, always)
    <2>1. Ends(r, more, less)
      BY <1>5 DEF Ends
    <2>. QED BY <1>2, <2>1 DEF ListOK
  <1>. QED BY <1>1, <1>3, <1>4, <1>5 DEF ListOK

\* A listing calls list or head, nothing else.
LEMMA ListCalls ==
    ASSUME NEW s, NEW ever, NEW always, ListOK(s, ever, always), s.op \in Lister, s.todo # <<>>,
           s.todo \in Seq(Calls)
    PROVE  /\ Head(s.todo).do \in {"list", "head"}
           /\ Head(s.todo).do = "list" => Handed(s, ever) /\ Walks(s, ever, always)
           /\ Head(s.todo).do = "head" => Handed(s, ever) /\ Looks(s, ever, always)
  <1>1. ~Ends(s, ever, always) /\ Handed(s, ever)
    BY DEF ListOK, Ends
  <1>2. CASE Walks(s, ever, always)
    <2>1. Head(s.todo) = Call("list", NoExt)
      BY <1>2, TupleTails DEF Walks
    <2>2. Head(s.todo).do = "list"
      BY <2>1 DEF Call
    <2>. QED BY <1>1, <1>2, <2>2
  <1>3. CASE Looks(s, ever, always)
    <2>1. 1 \in DOMAIN s.todo /\ Head(s.todo) = s.todo[1]
      OBVIOUS
    <2>2. Head(s.todo).do = "head"
      BY <1>3, <2>1 DEF Looks
    <2>. QED BY <1>1, <1>3, <2>2
  <1>. QED BY <1>1, <1>2, <1>3 DEF ListOK

\* A call ends and s is what its task is now.
LEMMA ListFinish ==
    ASSUME BlobInv, Listing, NEW t \in Task, NEW s, TaskShape(s), NEW changed, NEW now,
           Finish(t, s, changed, now), ListOK(s, s.ever \cup now, s.always \cap now)
    PROVE  Listing'
  <1>1. task = [u \in Task |-> task[u]] /\ \A u \in Task : TaskShape(task[u])
    BY DEF BlobInv, StoreTypes, TaskOK
  <1>2. /\ \A u \in Task : u # t =>
             /\ Same(task'[u], task[u])
             /\ task'[u].ever = IF Running(u) THEN task[u].ever \cup now ELSE task[u].ever
             /\ task'[u].always = IF Running(u) THEN task[u].always \cap now ELSE task[u].always
        /\ Same(task'[t], Returned(s))
        /\ task'[t].ever = s.ever \cup now /\ task'[t].always = s.always \cap now
    <2>1. \A u \in Task : TaskShape(task[u])
      BY <1>1
    <2>2. task = [u \in Task |-> task[u]] /\ TaskShape(s)
      BY <1>1
    <2>3. /\ task' = [u \in Task |-> task'[u]]
          /\ \A u \in Task : TaskShape(task'[u])
          /\ \A u \in Task : u # t =>
               /\ Same(task'[u], task[u])
               /\ task'[u].dirty = IF Running(u) THEN task[u].dirty \cup changed ELSE task[u].dirty
               /\ task'[u].ever = IF Running(u) THEN task[u].ever \cup now ELSE task[u].ever
               /\ task'[u].always = IF Running(u) THEN task[u].always \cap now ELSE task[u].always
          /\ Same(task'[t], Returned(s))
          /\ task'[t].dirty = Returned(s).dirty
          /\ task'[t].ever = s.ever \cup now /\ task'[t].always = s.always \cap now
          /\ acked' = acked \cup Acknowledge(s)
          /\ begun' = begun /\ crashes' = crashes
      BY <2>1, <2>2, FinishFacts, ZenonT(30)
    <2>. QED BY <2>3
  <1>3. ASSUME NEW u \in Task, u # t PROVE ListOK(task'[u], task'[u].ever, task'[u].always)
    <2>1. ListOK(task[u], task[u].ever, task[u].always)
      BY DEF Listing
    <2>2. task[u].ever \subseteq task'[u].ever /\ task'[u].always \subseteq task[u].always
      BY <1>2, <1>3
    <2>3. Same(task'[u], task[u])
      BY <1>2, <1>3
    <2>. QED BY <2>1, <2>2, <2>3, ListKept DEF Same
  <1>4. ListOK(task'[t], task'[t].ever, task'[t].always)
    <2>1. /\ s.todo # <<>> => Returned(s) = s
          /\ Returned(s).op = s.op /\ Returned(s).todo = s.todo /\ Returned(s).res = s.res
          /\ Returned(s).keys = s.keys /\ Returned(s).out = s.out
          /\ Returned(s).after = s.after /\ Returned(s).limit = s.limit
      BY ReturnedFacts
    <2>2. /\ task'[t].op = s.op /\ task'[t].todo = s.todo /\ task'[t].res = s.res
          /\ task'[t].keys = s.keys /\ task'[t].out = s.out
          /\ task'[t].after = s.after /\ task'[t].limit = s.limit
          /\ s.todo # <<>> => task'[t].at = s.at /\ task'[t].seen = s.seen
      BY <1>2, <2>1 DEF Same
    <2>3. s.ever \cup now \subseteq task'[t].ever /\ task'[t].always \subseteq s.always \cap now
      BY <1>2
    <2>. QED BY <2>2, <2>3, ListKept
  <1>5. \A u \in Task : ListOK(task'[u], task'[u].ever, task'[u].always)
    BY <1>3, <1>4
  <1>. QED BY <1>5 DEF Listing, ListOK, Handed, Walks, Looks, Ends

\* The step of another operation.
LEMMA OtherFinish ==
    ASSUME BlobInv, Listing, NEW t \in Task, NEW s, TaskShape(s), NEW changed, NEW now,
           Finish(t, s, changed, now), s.op \notin Lister
    PROVE  Listing'
  BY ListFinish DEF ListOK

\* A task that calls something else is not listing.
LEMMA NotListing ==
    ASSUME BlobInv, Listing, NEW t \in Task, Running(t),
           Head(task[t].todo).do \in {"put", "get", "delete", "sweep"}
    PROVE  task[t].op \notin Lister
  <1>1. task[t].todo \in Seq(Calls) /\ task[t].todo # <<>>
    BY DEF BlobInv, TaskOK, Planned, Running
  <1>2. ListOK(task[t], task[t].ever, task[t].always)
    BY DEF Listing
  <1>. QED BY <1>1, <1>2, ListCalls

\* The position of a key is where KeyOrder has it.
LEMMA PositionOf ==
    /\ \A k \in Key : Position(k) \in DOMAIN KeyOrder /\ KeyOrder[Position(k)] = k /\ Position(k) \in Nat
    /\ \A i \in DOMAIN KeyOrder : Position(KeyOrder[i]) = i
    /\ DOMAIN KeyOrder = 1..Len(KeyOrder) /\ Len(KeyOrder) \in Nat
  <1>1. DOMAIN KeyOrder = 1..Len(KeyOrder) /\ Len(KeyOrder) \in Nat
    BY BlobAssumption
  <1>2. \A k \in Key : Position(k) \in DOMAIN KeyOrder /\ KeyOrder[Position(k)] = k
    BY PositionFacts
  <1>3. ASSUME NEW i \in DOMAIN KeyOrder PROVE Position(KeyOrder[i]) = i
    <2>1. KeyOrder[i] \in Key
      BY PositionFacts
    <2>2. Position(KeyOrder[i]) \in DOMAIN KeyOrder /\ KeyOrder[Position(KeyOrder[i])] = KeyOrder[i]
      BY <1>2, <2>1
    <2>. QED BY <2>2, BlobAssumption
  <1>. QED BY <1>1, <1>2, <1>3

\* Selected hands out the keys found past start_after, all of them, in order.
LEMMA SelectedOrder ==
    ASSUME NEW s, NEW found \in SUBSET Key
    PROVE  LET keys == Selected(s, found)
           IN  /\ keys \in Seq(Key) /\ Len(keys) \in Nat /\ Len(keys) <= Len(KeyOrder)
               /\ \A i \in 1..Len(keys) : keys[i] \in found /\ Position(keys[i]) > s.after
               /\ \A i, j \in 1..Len(keys) : i < j => Position(keys[i]) < Position(keys[j])
               /\ \A k \in found : Position(k) > s.after => \E i \in 1..Len(keys) : keys[i] = k
  <1> DEFINE S == {i \in DOMAIN KeyOrder : KeyOrder[i] \in found /\ i > s.after}
             n == Cardinality(S)
             q == Sorted(S)
             keys == Selected(s, found)
  <1>1. DOMAIN KeyOrder \subseteq Nat /\ IsFiniteSet(DOMAIN KeyOrder)
    BY FinitePaths, PositionOf
  <1>2. IsFiniteSet(S) /\ S \in SUBSET Nat /\ Cardinality(S) <= Cardinality(DOMAIN KeyOrder)
    BY <1>1, FS_Subset
  <1>3. Cardinality(DOMAIN KeyOrder) = Len(KeyOrder)
    <2>1. DOMAIN KeyOrder = 1..Len(KeyOrder) /\ Len(KeyOrder) \in Nat
      BY PositionOf
    <2>2. Cardinality(1..Len(KeyOrder)) = Len(KeyOrder)
      <3> DEFINE len == Len(KeyOrder)
      <3>1. len \in Nat
        BY <2>1
      <3> HIDE DEF len
      <3>2. Cardinality(1..len) = IF 1 > len THEN 0 ELSE len - 1 + 1
        BY <3>1, FS_Interval
      <3>3. Cardinality(1..len) = len
        BY <3>1, <3>2
      <3>. QED BY <3>3 DEF len
    <2>. QED BY <2>1, <2>2
  <1>4. keys = [i \in DOMAIN q |-> KeyOrder[q[i]]]
    BY DEF Selected
  <1>5. /\ \A i \in S : i \in DOMAIN KeyOrder /\ KeyOrder[i] \in found /\ i > s.after
        /\ \A k \in found : Position(k) > s.after => Position(k) \in S
    <2>1. \A k \in found : Position(k) \in DOMAIN KeyOrder /\ KeyOrder[Position(k)] = k
      BY PositionOf
    <2>. QED BY <2>1
  <1> HIDE DEF S
  <1>6. /\ n \in Nat /\ q \in [1..n -> S]
        /\ \A i, j \in 1..n : i < j => q[i] < q[j]
        /\ \A x \in S : \E i \in 1..n : q[i] = x
    BY <1>2, SortedFacts
  <1> HIDE DEF q, keys
  <1>7. /\ DOMAIN q = 1..n
        /\ \A i \in 1..n : q[i] \in S /\ q[i] \in DOMAIN KeyOrder /\ KeyOrder[q[i]] \in found /\ q[i] > s.after
    BY <1>5, <1>6
  <1> HIDE DEF n
  <1>8. /\ \A i \in 1..n : keys[i] = KeyOrder[q[i]] /\ keys[i] \in found /\ Position(keys[i]) = q[i]
        /\ keys = [i \in 1..n |-> keys[i]]
    BY <1>4, <1>7, PositionOf
  <1>9. keys \in Seq(Key) /\ Len(keys) = n
    BY <1>6, <1>8
  <1>10. \A i \in 1..n : keys[i] \in found /\ Position(keys[i]) > s.after
    BY <1>7, <1>8
  <1>11. \A i, j \in 1..n : i < j => Position(keys[i]) < Position(keys[j])
    BY <1>6, <1>8
  <1>12. ASSUME NEW k \in found, Position(k) > s.after PROVE \E i \in 1..n : keys[i] = k
    <2>1. Position(k) \in S
      BY <1>5, <1>12
    <2>2. PICK i \in 1..n : q[i] = Position(k)
      BY <1>6, <2>1
    <2>3. KeyOrder[Position(k)] = k
      BY PositionOf
    <2>. QED BY <1>8, <2>2, <2>3
  <1>13. n <= Len(KeyOrder)
    BY <1>2, <1>3 DEF n
  <1>. QED BY <1>6, <1>9, <1>10, <1>11, <1>12, <1>13 DEF keys

\* The keys found are handed out, or about to be looked at.
LEMMA ListedList ==
    ASSUME NEW s, TaskShape(s), s.op \in Lister, NEW found \in SUBSET Key, NEW ever, NEW always,
           s.keys \in SUBSET Key, s.after \in Nat, s.limit \in Nat, s.op = "list" => s.limit = Len(KeyOrder),
           found \subseteq ever \cap s.keys, always \cap s.keys \subseteq found
    PROVE  TaskShape(Listed(s, found)) /\ ListOK(Listed(s, found), ever, always)
  <1> DEFINE keys == Selected(s, found)
             rest == IF s.op = "list_meta" /\ s.limit > 0 THEN Each("head", keys) ELSE <<>>
             out == IF s.op = "list" THEN keys ELSE <<>>
             r == Listed(s, found)
             res == IF rest = <<>> THEN "ok" ELSE "none"
  <1>0. <<>> \in Seq(Key) /\ \A i \in 1..0 : FALSE
    OBVIOUS
  <1>1. r = [s EXCEPT !.todo = rest, !.at = 0, !.seen = {}, !.out = out, !.res = res]
    BY DEF Listed, Lister
  <1>2. /\ keys \in Seq(Key) /\ Len(keys) \in Nat /\ Len(keys) <= Len(KeyOrder)
        /\ \A i \in 1..Len(keys) : keys[i] \in found /\ Position(keys[i]) > s.after
        /\ \A i, j \in 1..Len(keys) : i < j => Position(keys[i]) < Position(keys[j])
        /\ \A k \in found : Position(k) > s.after => \E i \in 1..Len(keys) : keys[i] = k
    BY SelectedOrder
  <1> HIDE DEF keys, res
  <1>3. /\ Each("head", keys) = [i \in 1..Len(keys) |-> Call("head", keys[i])]
        /\ \A i \in 1..Len(keys) : Call("head", keys[i]).do = "head" /\ Call("head", keys[i]).key = keys[i]
    BY <1>2 DEF Each, Call
  <1> DEFINE each == Each("head", keys)
  <1>4. /\ DOMAIN each = 1..Len(keys)
        /\ \A i \in 1..Len(keys) : each[i].do = "head" /\ each[i].key = keys[i]
        /\ each = <<>> <=> Len(keys) = 0
    <2>1. each \in Seq({Call("head", keys[i]) : i \in 1..Len(keys)}) /\ Len(each) = Len(keys)
      BY <1>2, <1>3
    <2>. QED BY <1>2, <1>3, <2>1
  <1> HIDE DEF each
  <1>5. /\ TaskShape(r) /\ r.op = s.op /\ r.todo = rest /\ r.out = out /\ r.keys = s.keys
        /\ r.after = s.after /\ r.limit = s.limit
    BY <1>1 DEF TaskShape
  <1> HIDE DEF r
  <1>6. \A k \in always \cap s.keys : Position(k) <= s.after \/ \E i \in 1..Len(keys) : keys[i] = k
    <2>1. \A k \in always \cap s.keys : k \in found /\ Position(k) \in Nat
      BY PositionOf
    <2>. QED BY <1>2, <2>1
  <1>7. CASE s.op = "list"
    <2>1. out = keys /\ rest = <<>> /\ s.limit = Len(KeyOrder)
      BY <1>7
    <2>2. Handed(r, ever)
      BY <1>2, <1>5, <2>1 DEF Handed
    <2>3. Ends(r, ever, always)
      BY <1>2, <1>5, <1>6, <2>1 DEF Ends
    <2>. QED BY <1>5, <2>2, <2>3 DEF ListOK, r
  <1>8. CASE s.op = "list_meta" /\ ~(s.limit > 0)
    <2>1. out = <<>> /\ rest = <<>> /\ s.limit = 0 /\ Len(<<>>) = 0
      BY <1>8
    <2>2. Handed(r, ever)
      BY <1>0, <1>5, <2>1 DEF Handed
    <2>3. Ends(r, ever, always)
      BY <1>5, <2>1 DEF Ends
    <2>. QED BY <1>5, <2>2, <2>3 DEF ListOK, r
  <1>9. CASE s.op = "list_meta" /\ s.limit > 0 /\ Len(keys) = 0
    <2>1. out = <<>> /\ rest = <<>> /\ Len(<<>>) = 0
      BY <1>4, <1>9 DEF each
    <2>2. Handed(r, ever)
      BY <1>0, <1>5, <2>1 DEF Handed
    <2>3. \A k \in always \cap s.keys : Position(k) <= s.after
      BY <1>6, <1>9
    <2>4. Ends(r, ever, always)
      BY <1>5, <1>9, <2>1, <2>3 DEF Ends
    <2>. QED BY <1>5, <2>2, <2>4 DEF ListOK, r
  <1>10. CASE s.op = "list_meta" /\ s.limit > 0 /\ Len(keys) # 0
    <2>1. out = <<>> /\ rest = each /\ Len(<<>>) = 0 /\ each # <<>>
      BY <1>4, <1>10 DEF each
    <2>2. Handed(r, ever)
      BY <1>5, <2>1 DEF Handed
    <2>3. r.op = "list_meta" /\ r.todo # <<>> /\ Len(r.out) < r.limit
      BY <1>5, <1>10, <2>1
    <2>4. \A i \in DOMAIN r.todo :
             r.todo[i].do = "head" /\ r.todo[i].key \in r.keys /\ Position(r.todo[i].key) > r.after
      BY <1>2, <1>4, <1>5, <2>1
    <2>5. \A i, j \in DOMAIN r.todo : i < j => Position(r.todo[i].key) < Position(r.todo[j].key)
      BY <1>2, <1>4, <1>5, <2>1
    <2>6. \A i \in 1..Len(r.out), j \in DOMAIN r.todo : Position(r.out[i]) < Position(r.todo[j].key)
      BY <1>5, <2>1
    <2>7. \A k \in always \cap r.keys :
             \/ Position(k) <= r.after
             \/ \E j \in DOMAIN r.todo : r.todo[j].key = k
      BY <1>4, <1>5, <1>6, <2>1
    <2>8. Looks(r, ever, always)
      BY <2>3, <2>4, <2>5, <2>6, <2>7 DEF Looks
    <2>. QED BY <1>5, <2>2, <2>8 DEF ListOK, r
  <1>. QED BY <1>7, <1>8, <1>9, <1>10 DEF Lister

\* What the outcome of looking at a key means to a listing.
LEMMA LookMeaning ==
    /\ Meaning("list_meta", "head", "ok") = "go"
    /\ Meaning("list_meta", "head", "not_found") = "go"
  BY DEF Meaning

\* A key handed out.
LEMMA AppendFacts ==
    ASSUME NEW q \in Seq(Key), NEW k \in Key
    PROVE  /\ Append(q, k) \in Seq(Key) /\ Len(Append(q, k)) = Len(q) + 1
           /\ Append(q, k)[Len(q) + 1] = k
           /\ \A i \in 1..Len(q) : Append(q, k)[i] = q[i]
  OBVIOUS

\* A listing looks at the next key.
LEMMA LookedAt ==
    ASSUME NEW s, TaskShape(s), s.todo \in Seq(Calls), NEW there \in BOOLEAN, NEW ever, NEW always,
           Handed(s, ever), Looks(s, ever, always), NEW k, k = Head(s.todo).key,
           there => k \in ever, ~there => k \notin always
    PROVE  ListOK(Headed(s, k, there), ever, always)
  <1> DEFINE next == After(s, IF there THEN "ok" ELSE "not_found")
             out == IF there THEN Append(s.out, k) ELSE s.out
             full == there /\ Len(out) >= s.limit
             todo == IF full THEN <<>> ELSE Tail(s.todo)
             res == IF full THEN "ok" ELSE next.res
             r == Headed(s, k, there)
  <1>1. s.op = "list_meta" /\ s.todo # <<>> /\ Head(s.todo) = s.todo[1] /\ 1 \in DOMAIN s.todo
    BY DEF Looks
  <1>2. Head(s.todo).do = "head" /\ k = s.todo[1].key
    BY <1>1 DEF Looks
  <1>3. /\ TaskShape(next) /\ next.op = s.op /\ next.keys = s.keys /\ next.after = s.after
        /\ next.limit = s.limit /\ next.todo = Tail(s.todo)
    <2> DEFINE o == IF there THEN "ok" ELSE "not_found"
    <2>1. Meaning(s.op, Head(s.todo).do, o) = "go"
      BY <1>1, <1>2, LookMeaning
    <2> HIDE DEF o
    <2>2. /\ TaskShape(After(s, o)) /\ After(s, o).op = s.op /\ After(s, o).keys = s.keys
          /\ After(s, o).after = s.after /\ After(s, o).limit = s.limit
          /\ After(s, o).todo = IF Meaning(s.op, Head(s.todo).do, o) = "go" THEN Tail(s.todo) ELSE <<>>
      BY AfterFacts
    <2>. QED BY <2>1, <2>2 DEF o
  <1>4. r = [next EXCEPT !.out = out, !.todo = todo, !.res = res]
    BY <1>1, <1>3 DEF Headed
  <1> HIDE DEF next, out, todo, res
  <1>5. /\ r.op = "list_meta" /\ r.keys = s.keys /\ r.after = s.after /\ r.limit = s.limit
        /\ r.out = out /\ r.todo = todo
    BY <1>1, <1>3, <1>4 DEF TaskShape
  <1> HIDE DEF r
  <1>6. s.out \in Seq(Key) /\ Len(s.out) \in Nat /\ s.limit \in Nat /\ Len(s.out) < s.limit /\ s.after \in Nat
    BY DEF Handed, Looks
  <1>7. k \in Key /\ k \in s.keys /\ Position(k) > s.after /\ Position(k) \in Nat
    <2>1. s.todo[1] \in Calls /\ s.todo[1].do = "head"
      BY <1>1, <1>2
    <2>2. k \in Key
      BY <1>2, <2>1 DEF Calls
    <2>. QED BY <1>1, <1>2, <2>2, PositionOf DEF Looks
  <1>8. \A i \in 1..Len(s.out) : Position(s.out[i]) < Position(k) /\ s.out[i] \in Key /\ Position(s.out[i]) \in Nat
    <2>1. \A i \in 1..Len(s.out) : Position(s.out[i]) < Position(k)
      BY <1>1, <1>2 DEF Looks
    <2>2. \A i \in 1..Len(s.out) : s.out[i] \in Key
      BY <1>6
    <2>. QED BY <2>1, <2>2, PositionOf
  <1> DEFINE rest == Tail(s.todo)
  <1>9. /\ rest \in Seq(Calls) /\ DOMAIN rest = 1..(Len(s.todo) - 1) /\ Len(s.todo) \in Nat /\ Len(s.todo) > 0
        /\ DOMAIN s.todo = 1..Len(s.todo) /\ (rest = <<>> <=> Len(s.todo) = 1)
        /\ \A i \in DOMAIN rest : i + 1 \in DOMAIN s.todo /\ rest[i] = s.todo[i + 1]
        /\ \A j \in DOMAIN s.todo : j # 1 => j - 1 \in DOMAIN rest /\ rest[j - 1] = s.todo[j]
    <2>1. Len(s.todo) \in Nat /\ Len(s.todo) # 0 /\ rest \in Seq(Calls) /\ DOMAIN s.todo = 1..Len(s.todo)
      BY <1>1
    <2>2. Len(rest) = Len(s.todo) - 1 /\ DOMAIN rest = 1..(Len(s.todo) - 1)
      BY <1>1, <2>1
    <2>3. ASSUME NEW i \in DOMAIN rest PROVE i + 1 \in DOMAIN s.todo /\ rest[i] = s.todo[i + 1]
      BY <1>1, <2>1, <2>2
    <2>4. ASSUME NEW j \in DOMAIN s.todo, j # 1 PROVE j - 1 \in DOMAIN rest /\ rest[j - 1] = s.todo[j]
      <3>1. j - 1 \in DOMAIN rest /\ (j - 1) + 1 = j
        BY <2>1, <2>2, <2>4
      <3>. QED BY <2>3, <3>1
    <2>5. rest = <<>> <=> Len(s.todo) = 1
      <3> HIDE DEF rest
      <3>1. rest = <<>> <=> Len(rest) = 0
        BY <2>1
      <3>. QED BY <2>1, <2>2, <3>1
    <2>. QED BY <2>1, <2>2, <2>3, <2>4, <2>5
  <1> HIDE DEF rest
  <1>10. /\ out \in Seq(Key) /\ Len(out) \in Nat
         /\ \A i, j \in 1..Len(out) : i < j => Position(out[i]) < Position(out[j])
         /\ \A i \in 1..Len(out) : out[i] \in ever \cap s.keys /\ Position(out[i]) > s.after
         /\ \A i \in 1..Len(out) : Position(out[i]) <= Position(k) /\ Position(out[i]) \in Nat
         /\ \A x : (\E i \in 1..Len(s.out) : s.out[i] = x) => \E i \in 1..Len(out) : out[i] = x
         /\ there => Len(out) = Len(s.out) + 1 /\ out[Len(out)] = k
         /\ ~there => out = s.out
    <2>1. CASE ~there
      <3>1. out = s.out
        BY <2>1 DEF out
      <3>. QED BY <1>6, <1>7, <1>8, <2>1, <3>1 DEF Handed
    <2>2. CASE there
      <3>1. out = Append(s.out, k)
        BY <2>2 DEF out
      <3>2. /\ out \in Seq(Key) /\ Len(out) = Len(s.out) + 1 /\ out[Len(s.out) + 1] = k
            /\ \A i \in 1..Len(s.out) : out[i] = s.out[i]
        BY <1>6, <1>7, <3>1, AppendFacts
      <3>3. \A i \in 1..Len(out) : i \in 1..Len(s.out) \/ i = Len(s.out) + 1
        BY <1>6, <3>2
      <3>4. \A i, j \in 1..Len(out) : i < j => Position(out[i]) < Position(out[j])
        <4>1. SUFFICES ASSUME NEW i \in 1..Len(out), NEW j \in 1..Len(out), i < j
                       PROVE  Position(out[i]) < Position(out[j])
          OBVIOUS
        <4>2. i \in 1..Len(s.out)
          BY <1>6, <3>2, <4>1
        <4>3. CASE j \in 1..Len(s.out)
          BY <3>2, <4>1, <4>2, <4>3 DEF Handed
        <4>4. CASE j = Len(s.out) + 1
          BY <1>8, <3>2, <4>2, <4>4
        <4>. QED BY <3>3, <4>3, <4>4
      <3>5. \A i \in 1..Len(out) : out[i] \in ever \cap s.keys /\ Position(out[i]) > s.after
        BY <1>7, <2>2, <3>2, <3>3 DEF Handed
      <3>6. \A i \in 1..Len(out) : Position(out[i]) <= Position(k) /\ Position(out[i]) \in Nat
        <4>1. \A i \in 1..Len(s.out) : Position(out[i]) <= Position(k) /\ Position(out[i]) \in Nat
          BY <1>7, <1>8, <3>2
        <4>. QED BY <1>7, <3>2, <3>3, <4>1
      <3>7. ASSUME NEW x, NEW i \in 1..Len(s.out), s.out[i] = x PROVE \E j \in 1..Len(out) : out[j] = x
        <4>1. i \in 1..Len(out) /\ out[i] = x
          BY <1>6, <3>2, <3>7
        <4>. QED BY <4>1
      <3>8. \A x : (\E i \in 1..Len(s.out) : s.out[i] = x) => \E i \in 1..Len(out) : out[i] = x
        BY <3>7
      <3>9. out[Len(out)] = k /\ Len(out) \in Nat
        BY <1>6, <3>2
      <3>. QED BY <2>2, <3>2, <3>4, <3>5, <3>6, <3>8, <3>9
    <2>. QED BY <2>1, <2>2
  <1>11. Handed(r, ever)
    BY <1>5, <1>6, <1>10 DEF Handed
  <1>12. \A x \in always \cap s.keys :
            \/ Position(x) <= s.after
            \/ \E i \in 1..Len(out) : out[i] = x
            \/ \E j \in DOMAIN rest : rest[j].key = x
    <2>1. SUFFICES ASSUME NEW x \in always \cap s.keys, ~(Position(x) <= s.after)
                   PROVE  (\E i \in 1..Len(out) : out[i] = x) \/ (\E j \in DOMAIN rest : rest[j].key = x)
      OBVIOUS
    <2>2. (\E i \in 1..Len(s.out) : s.out[i] = x) \/ (\E j \in DOMAIN s.todo : s.todo[j].key = x)
      BY <2>1 DEF Looks
    <2>3. CASE \E i \in 1..Len(s.out) : s.out[i] = x
      BY <1>10, <2>3
    <2>4. ASSUME NEW j \in DOMAIN s.todo, s.todo[j].key = x
          PROVE  (\E i \in 1..Len(out) : out[i] = x) \/ (\E i \in DOMAIN rest : rest[i].key = x)
      <3>1. CASE j = 1
        <4>1. x = k /\ there
          BY <1>2, <2>1, <2>4, <3>1
        <4>2. Len(out) \in 1..Len(out) /\ out[Len(out)] = k
          BY <1>6, <1>10, <4>1
        <4>. QED BY <4>1, <4>2
      <3>2. CASE j # 1
        BY <1>9, <2>4, <3>2
      <3>. QED BY <3>1, <3>2
    <2>. QED BY <2>2, <2>3, <2>4
  <1>13. \A j \in DOMAIN rest : /\ rest[j].do = "head" /\ rest[j].key \in s.keys /\ Position(rest[j].key) > s.after
                                /\ Position(rest[j].key) > Position(k) /\ Position(rest[j].key) \in Nat
    <2>1. SUFFICES ASSUME NEW j \in DOMAIN rest
                   PROVE  /\ rest[j].do = "head" /\ rest[j].key \in s.keys /\ Position(rest[j].key) > s.after
                          /\ Position(rest[j].key) > Position(k) /\ Position(rest[j].key) \in Nat
      OBVIOUS
    <2>2. j + 1 \in DOMAIN s.todo /\ rest[j] = s.todo[j + 1] /\ rest[j] \in Calls /\ 1 < j + 1
      BY <1>9, <2>1
    <2>3. rest[j].do = "head" /\ rest[j].key \in s.keys /\ Position(rest[j].key) > s.after
      BY <2>2 DEF Looks
    <2>4. Position(s.todo[1].key) < Position(s.todo[j + 1].key)
      BY <1>1, <2>2 DEF Looks
    <2>5. rest[j].key \in Key
      BY <2>2, <2>3 DEF Calls
    <2>. QED BY <1>2, <1>7, <2>2, <2>3, <2>4, <2>5, PositionOf
  <1>14. CASE full
    <2>1. r.todo = <<>> /\ there /\ Len(out) = s.limit
      BY <1>5, <1>6, <1>10, <1>14 DEF todo
    <2>2. ASSUME NEW x \in always \cap s.keys
          PROVE  \/ Position(x) <= s.after
                 \/ \E i \in 1..Len(out) : out[i] = x
                 \/ Position(x) > Position(out[Len(out)])
      <3>1. CASE \E j \in DOMAIN rest : rest[j].key = x
        BY <1>10, <1>13, <2>1, <3>1
      <3>. QED BY <1>12, <2>2, <3>1
    <2>3. Ends(r, ever, always)
      BY <1>5, <1>6, <1>10, <2>1, <2>2 DEF Ends
    <2>. QED BY <1>11, <2>3 DEF ListOK, r
  <1>15. CASE ~full /\ rest = <<>>
    <2>1. r.todo = <<>> /\ Len(out) <= s.limit
      BY <1>5, <1>6, <1>10, <1>15 DEF todo, rest
    <2>2. \A x \in always \cap s.keys : Position(x) <= s.after \/ \E i \in 1..Len(out) : out[i] = x
      BY <1>12, <1>15
    <2>3. Ends(r, ever, always)
      BY <1>5, <2>1, <2>2 DEF Ends
    <2>. QED BY <1>11, <2>3 DEF ListOK, r
  <1>16. CASE ~full /\ rest # <<>>
    <2>1. r.todo = rest /\ Len(out) < s.limit
      BY <1>5, <1>6, <1>10, <1>16 DEF todo, rest
    <2>2. \A i, j \in DOMAIN rest : i < j => Position(rest[i].key) < Position(rest[j].key)
      <3>1. SUFFICES ASSUME NEW i \in DOMAIN rest, NEW j \in DOMAIN rest, i < j
                     PROVE  Position(rest[i].key) < Position(rest[j].key)
        OBVIOUS
      <3>2. i + 1 \in DOMAIN s.todo /\ rest[i] = s.todo[i + 1] /\ j + 1 \in DOMAIN s.todo /\ rest[j] = s.todo[j + 1]
            /\ i + 1 < j + 1
        BY <1>9, <3>1
      <3>. QED BY <3>2 DEF Looks
    <2>3. \A i \in 1..Len(out), j \in DOMAIN rest : Position(out[i]) < Position(rest[j].key)
      <3>1. SUFFICES ASSUME NEW i \in 1..Len(out), NEW j \in DOMAIN rest
                     PROVE  Position(out[i]) < Position(rest[j].key)
        OBVIOUS
      <3>2. Position(out[i]) <= Position(k) /\ Position(out[i]) \in Nat
        BY <1>10
      <3>3. Position(rest[j].key) > Position(k) /\ Position(rest[j].key) \in Nat
        BY <1>13
      <3>. QED BY <1>7, <3>2, <3>3
    <2>4. Looks(r, ever, always)
      BY <1>5, <1>12, <1>13, <1>16, <2>1, <2>2, <2>3 DEF Looks
    <2>. QED BY <1>11, <2>4 DEF ListOK, r
  <1>. QED BY <1>14, <1>15, <1>16 DEF r

\* What a listing knows before a step, at the instant of the step.
LEMMA ListNow ==
    ASSUME BlobInv, Listing, NEW t \in Task, NEW s, Same(s, task[t]), s.ever = task[t].ever,
           s.always = task[t].always
    PROVE  ListOK(s, s.ever \cup Present, s.always \cap Present)
  <1>1. ListOK(task[t], task[t].ever, task[t].always)
    BY DEF Listing
  <1>2. task[t].ever \subseteq s.ever \cup Present /\ s.always \cap Present \subseteq task[t].always
    OBVIOUS
  <1>. QED BY <1>1, <1>2, ListKept DEF Same

\* A head on either store.
LEMMA ListHead ==
    ASSUME BlobInv, Listing, NEW t \in Task, memory_head(t) \/ local_head(t)
    PROVE  Listing'
  <1> DEFINE s == Fresh(task[t])
             k == Target(t)
             r == Headed(s, k, Held(k))
  <1>1. Calling(t, "head") /\ Finish(t, r, {}, Present)
    <2>1. CASE memory_head(t)
      <3>1. Held(k) = (map[k] # Absent)
        BY <2>1 DEF memory_head, Held
      <3>. QED BY <2>1, <3>1 DEF memory_head
    <2>2. CASE local_head(t)
      <3>1. Held(k) = (dir[k] # NoFile)
        BY <2>2 DEF local_head, Held
      <3>. QED BY <2>2, <3>1 DEF local_head
    <2>. QED BY <2>1, <2>2
  <1>2. TaskOK(task[t]) /\ TaskShape(task[t]) /\ task[t].todo # <<>> /\ k \in Key
    BY <1>1, CallFacts DEF BlobInv, TaskOK, Calling, Running
  <1>3. TaskShape(s) /\ Same(s, task[t]) /\ s.ever = task[t].ever /\ s.always = task[t].always
    BY <1>2, EditFacts
  <1>4. TaskOK(s) /\ s.todo # <<>> /\ Head(s.todo).do = "head" /\ k = Head(s.todo).key /\ s.todo \in Seq(Calls)
    BY <1>1, <1>2, <1>3, SameOK DEF Same, Calling, Target, TaskOK, Planned
  <1>5. ListOK(s, s.ever \cup Present, s.always \cap Present)
    BY <1>3, ListNow
  <1>6. Held(k) \in BOOLEAN /\ (Held(k) <=> k \in Present)
    BY <1>2, ContentFacts DEF Present, Held
  <1> HIDE DEF s, k
  <1>7. TaskOK(r) /\ r.op = s.op /\ r.ever = s.ever /\ r.always = s.always
    <2>1. TaskOK(r) /\ r.op = s.op
      BY <1>4, <1>6, HeadedOK
    <2>2. r.ever = s.ever /\ r.always = s.always
      <3> DEFINE o == IF Held(k) THEN "ok" ELSE "not_found"
                 next == After(s, o)
                 listing == s.op = "list_meta" /\ Held(k)
                 out == IF listing THEN Append(s.out, k) ELSE s.out
                 full == listing /\ Len(out) >= s.limit
                 todo == IF full THEN <<>> ELSE next.todo
                 res == IF full THEN "ok" ELSE next.res
      <3>1. TaskShape(next) /\ next.ever = s.ever /\ next.always = s.always
        <4> HIDE DEF o
        <4>. QED BY <1>4, AfterFacts DEF TaskOK
      <3>2. r = [next EXCEPT !.out = out, !.todo = todo, !.res = res]
        BY DEF Headed
      <3> HIDE DEF next, out, todo, res
      <3>. QED BY <3>1, <3>2 DEF TaskShape
    <2>. QED BY <2>1, <2>2
  <1>8. TaskShape(r)
    BY <1>7 DEF TaskOK
  <1>9. CASE s.op \notin Lister
    <2> HIDE DEF r
    <2>. QED BY <1>1, <1>7, <1>8, <1>9, OtherFinish
  <1>10. CASE s.op \in Lister
    <2>1. Handed(s, s.ever \cup Present) /\ Looks(s, s.ever \cup Present, s.always \cap Present)
      BY <1>4, <1>5, <1>10, ListCalls
    <2>2. ListOK(r, s.ever \cup Present, s.always \cap Present)
      BY <1>3, <1>4, <1>6, <2>1, LookedAt
    <2> HIDE DEF r
    <2>3. ListOK(r, r.ever \cup Present, r.always \cap Present)
      BY <1>7, <2>2
    <2>. QED BY <1>1, <1>8, <2>3, ListFinish
  <1>. QED BY <1>9, <1>10

\* What Listed leaves of the task.
LEMMA ListedSame ==
    ASSUME NEW s, TaskShape(s), NEW found
    PROVE  /\ TaskShape(Listed(s, found)) /\ Listed(s, found).op = s.op
           /\ Listed(s, found).ever = s.ever /\ Listed(s, found).always = s.always
  <1> DEFINE keys == Selected(s, found)
             rest == CASE s.op = "delete_prefix" -> Each("delete", keys)
                       [] s.op = "list_meta" /\ s.limit > 0 -> Each("head", keys)
                       [] OTHER -> <<>>
             out == IF s.op = "list" THEN keys ELSE <<>>
             res == IF rest = <<>> THEN "ok" ELSE "none"
  <1>1. Listed(s, found) = [s EXCEPT !.todo = rest, !.at = 0, !.seen = {}, !.out = out, !.res = res]
    BY DEF Listed
  <1> HIDE DEF rest, out, res
  <1>. QED BY <1>1 DEF TaskShape

\* The end of a walk, or the keys of the memory store at one instant.
LEMMA ListedStep ==
    ASSUME BlobInv, Listing, NEW t \in Task, Calling(t, "list"), NEW found,
           Finish(t, Listed(task[t], found), {}, Present),
           task[t].op \in Lister =>
              /\ found \subseteq (task[t].ever \cup Present) \cap task[t].keys
              /\ (task[t].always \cap Present) \cap task[t].keys \subseteq found
    PROVE  Listing'
  <1> DEFINE s == task[t]
             r == Listed(s, found)
  <1>1. TaskOK(s) /\ TaskShape(s) /\ s.keys \in SUBSET Key /\ s.todo # <<>> /\ s.todo \in Seq(Calls)
    BY WalkFacts DEF TaskOK, Planned
  <1>2. TaskShape(r) /\ r.op = s.op /\ r.ever = s.ever /\ r.always = s.always
    BY <1>1, ListedSame
  <1>3. CASE s.op \notin Lister
    <2> HIDE DEF r
    <2>1. Finish(t, r, {}, Present)
      BY DEF r
    <2>. QED BY <1>2, <1>3, <2>1, OtherFinish
  <1>4. CASE s.op \in Lister
    <2>1. ListOK(s, s.ever, s.always) /\ Head(s.todo).do = "list"
      BY DEF Listing, Calling
    <2>2. Handed(s, s.ever) /\ Walks(s, s.ever, s.always)
      BY <1>1, <1>4, <2>1, ListCalls
    <2>3. s.after \in Nat /\ s.limit \in Nat /\ (s.op = "list" => s.limit = Len(KeyOrder))
      BY <2>2 DEF Handed, Walks
    <2>4. /\ found \subseteq (s.ever \cup Present) \cap s.keys
          /\ (s.always \cap Present) \cap s.keys \subseteq found /\ found \in SUBSET Key
      BY <1>1, <1>4
    <2> HIDE DEF s
    <2>5. ListOK(Listed(s, found), s.ever \cup Present, s.always \cap Present)
      BY <1>1, <1>4, <2>3, <2>4, ListedList
    <2>6. ListOK(r, r.ever \cup Present, r.always \cap Present) /\ Finish(t, r, {}, Present)
      BY <1>2, <2>5 DEF s
    <2> HIDE DEF r
    <2>. QED BY <1>2, <2>6, ListFinish
  <1>. QED BY <1>3, <1>4

\* A walk over the directory.
LEMMA ListWalk ==
    ASSUME BlobInv, Listing, NEW t \in Task, collect_entries(t)
    PROVE  Listing'
  <1> DEFINE s == task[t]
             ahead == Ahead(s, s.keys)
             i == Min(ahead)
             here == IF dir[DirOrder[i]] = NoFile THEN {} ELSE {DirOrder[i]}
             w == [s EXCEPT !.at = i, !.seen = @ \cup here]
  <1>1. /\ backend = "local" /\ Calling(t, "list")
        /\ Finish(t, IF ahead = {} THEN Listed(s, s.seen) ELSE w, {}, Present)
    BY DEF collect_entries
  <1>2. TaskOK(s) /\ TaskShape(s) /\ s.keys \in SUBSET Key /\ s.todo # <<>> /\ s.todo \in Seq(Calls) /\ s.at \in Nat
    BY <1>1, WalkFacts DEF TaskOK, Planned
  <1>3. s.op \in Lister => Handed(s, s.ever) /\ Walks(s, s.ever, s.always)
    <2>1. ListOK(s, s.ever, s.always) /\ Head(s.todo).do = "list"
      BY <1>1 DEF Listing, Calling
    <2>. QED BY <1>2, <2>1, ListCalls
  <1>4. DOMAIN DirOrder \subseteq Nat /\ Path \subseteq {DirOrder[j] : j \in DOMAIN DirOrder}
    BY BlobAssumption
  <1>5. CASE ahead = {}
    <2>1. ASSUME s.op \in Lister
          PROVE  /\ s.seen \subseteq (s.ever \cup Present) \cap s.keys
                 /\ (s.always \cap Present) \cap s.keys \subseteq s.seen
      <3>1. s.seen \subseteq s.ever \cap s.keys
        BY <1>3, <2>1 DEF Walks
      <3>2. ASSUME NEW x \in s.always \cap s.keys PROVE x \in s.seen
        <4>1. PICK j \in DOMAIN DirOrder : DirOrder[j] = x
          BY <1>2, <1>4, <3>2, TmpFacts
        <4>2. j \notin ahead
          BY <1>5
        <4>3. j <= s.at
          BY <1>2, <1>4, <3>2, <4>1, <4>2 DEF Ahead
        <4>. QED BY <1>3, <2>1, <3>2, <4>1, <4>3 DEF Walks
      <3>. QED BY <3>1, <3>2
    <2>2. Finish(t, Listed(s, s.seen), {}, Present)
      BY <1>1, <1>5
    <2>. QED BY <1>1, <2>1, <2>2, ListedStep
  <1>6. CASE ahead # {}
    <2>1. Finish(t, w, {}, Present)
      BY <1>1, <1>6
    <2>2. i \in DOMAIN DirOrder /\ DirOrder[i] \in s.keys /\ i > s.at /\ i \in Nat /\ \A j \in ahead : i <= j
      <3>1. ahead \in SUBSET Nat
        BY <1>4 DEF Ahead
      <3>2. i \in ahead /\ \A j \in ahead : i <= j
        BY <1>6, <3>1, LeastMember
      <3>. QED BY <1>4, <3>2 DEF Ahead
    <2>3. /\ TaskShape(w) /\ w.op = s.op /\ w.todo = s.todo /\ w.keys = s.keys /\ w.after = s.after
          /\ w.limit = s.limit /\ w.out = s.out /\ w.at = i /\ w.seen = s.seen \cup here
          /\ w.ever = s.ever /\ w.always = s.always
      <3> HIDE DEF s, i, here
      <3>. QED BY <1>2 DEF TaskShape
    <2>4. DirOrder[i] \in Key /\ (dir[DirOrder[i]] # NoFile <=> DirOrder[i] \in Present)
      <3> DEFINE x == DirOrder[i]
      <3>1. x \in Key
        BY <1>2, <2>2
      <3> HIDE DEF x
      <3>2. Content(x) = Absent <=> ~Held(x)
        BY <3>1, ContentFacts
      <3>3. dir[x] # NoFile <=> x \in Present
        BY <1>1, <3>1, <3>2 DEF Present, Held
      <3>. QED BY <3>1, <3>3 DEF x
    <2> HIDE DEF w
    <2>5. CASE s.op \notin Lister
      BY <2>1, <2>3, <2>5, OtherFinish
    <2>6. CASE s.op \in Lister
      <3> DEFINE ever == s.ever \cup Present
                 always == s.always \cap Present
      <3>1. Handed(s, s.ever) /\ Walks(s, s.ever, s.always)
        BY <1>3, <2>6
      <3>2. Handed(w, ever)
        BY <2>3, <3>1 DEF Handed
      <3>3. w.seen \subseteq ever \cap w.keys
        BY <2>2, <2>3, <2>4, <3>1 DEF Walks
      <3>4. ASSUME NEW j \in DOMAIN DirOrder, j <= w.at, DirOrder[j] \in always \cap w.keys
            PROVE  DirOrder[j] \in w.seen
        <4>1. CASE j <= s.at
          BY <2>3, <3>1, <3>4, <4>1 DEF Walks
        <4>2. CASE j > s.at
          <5>1. j \in ahead /\ j \in Nat
            BY <1>4, <2>3, <3>4, <4>2 DEF Ahead
          <5>2. j = i
            BY <2>2, <2>3, <3>4, <5>1
          <5>. QED BY <2>3, <2>4, <3>4, <5>2
        <4>3. j \in Nat /\ s.at \in Nat
          BY <1>2, <1>4
        <4>. QED BY <4>1, <4>2, <4>3
      <3>5. Walks(w, ever, always)
        BY <2>3, <3>1, <3>3, <3>4 DEF Walks
      <3>6. ListOK(w, w.ever \cup Present, w.always \cap Present)
        BY <2>3, <3>2, <3>5 DEF ListOK
      <3>. QED BY <2>1, <2>3, <3>6, ListFinish
    <2>. QED BY <2>5, <2>6
  <1>. QED BY <1>5, <1>6

\* The first n keys of a sequence.
LEMMA PageFirst ==
    ASSUME NEW q \in Seq(Key), NEW n \in Nat, n <= Len(q)
    PROVE  /\ SubSeq(q, 1, n) \in Seq(Key) /\ Len(SubSeq(q, 1, n)) = n
           /\ \A i \in 1..n : SubSeq(q, 1, n)[i] = q[i]
  OBVIOUS

\* The less of two numbers.
LEMMA LessOf ==
    ASSUME NEW a \in Nat, NEW b \in Nat
    PROVE  Min({a, b}) \in Nat /\ Min({a, b}) <= a /\ Min({a, b}) <= b /\ Min({a, b}) \in {a, b}
  <1>1. {a, b} \in SUBSET Nat /\ {a, b} # {}
    OBVIOUS
  <1>2. Min({a, b}) \in {a, b} /\ \A y \in {a, b} : Min({a, b}) <= y
    BY <1>1, LeastMember
  <1>. QED BY <1>2

\* A listing of the memory store, at one instant.
LEMMA ListMemory ==
    ASSUME BlobInv, Listing, NEW t \in Task, memory_list(t)
    PROVE  Listing'
  <1> DEFINE s == task[t]
             found == Present \cap s.keys
             keys == Selected(s, found)
             n == Min({s.limit, Len(keys)})
             page == SubSeq(keys, 1, n)
             r == [s EXCEPT !.todo = <<>>, !.out = page, !.res = "ok"]
  <1>1. /\ Calling(t, "list")
        /\ Finish(t, IF s.op = "list_meta" THEN r ELSE Listed(s, found), {}, Present)
    BY DEF memory_list
  <1>2. CASE s.op # "list_meta"
    <2>1. Finish(t, Listed(s, found), {}, Present)
      BY <1>1, <1>2
    <2>2. /\ found \subseteq (s.ever \cup Present) \cap s.keys
          /\ (s.always \cap Present) \cap s.keys \subseteq found
      OBVIOUS
    <2>. QED BY <1>1, <2>1, <2>2, ListedStep
  <1>3. CASE s.op = "list_meta"
    <2>1. Finish(t, r, {}, Present)
      BY <1>1, <1>3
    <2>2. TaskOK(s) /\ TaskShape(s) /\ s.keys \in SUBSET Key /\ s.todo # <<>> /\ s.todo \in Seq(Calls)
      BY <1>1, WalkFacts DEF TaskOK, Planned
    <2>3. Handed(s, s.ever) /\ Walks(s, s.ever, s.always)
      <3>1. ListOK(s, s.ever, s.always) /\ Head(s.todo).do = "list" /\ s.op \in Lister
        BY <1>1, <1>3 DEF Listing, Calling, Lister
      <3>. QED BY <2>2, <3>1, ListCalls
    <2>4. s.after \in Nat /\ s.limit \in Nat /\ found \in SUBSET Key
      BY <2>2, <2>3 DEF Handed
    <2> HIDE DEF found
    <2>5. /\ keys \in Seq(Key) /\ Len(keys) \in Nat
          /\ \A i \in 1..Len(keys) : keys[i] \in found /\ Position(keys[i]) > s.after
          /\ \A i, j \in 1..Len(keys) : i < j => Position(keys[i]) < Position(keys[j])
          /\ \A k \in found : Position(k) > s.after => \E i \in 1..Len(keys) : keys[i] = k
      BY <2>4, SelectedOrder
    <2> HIDE DEF keys
    <2>6. n \in Nat /\ n <= s.limit /\ n <= Len(keys) /\ n \in {s.limit, Len(keys)}
      BY <2>4, <2>5, LessOf
    <2> HIDE DEF n
    <2>7. page \in Seq(Key) /\ Len(page) = n /\ \A i \in 1..n : page[i] = keys[i]
      BY <2>5, <2>6, PageFirst
    <2> HIDE DEF page
    <2>8. /\ TaskShape(r) /\ r.op = s.op /\ r.todo = <<>> /\ r.keys = s.keys /\ r.after = s.after
          /\ r.limit = s.limit /\ r.out = page /\ r.ever = s.ever /\ r.always = s.always
      <3> HIDE DEF s
      <3>. QED BY <2>2 DEF TaskShape
    <2> HIDE DEF r
    <2> DEFINE ever == s.ever \cup Present
               always == s.always \cap Present
    <2>9. \A i \in 1..n : i \in 1..Len(keys)
      BY <2>5, <2>6
    <2>10. \A i \in 1..n : page[i] \in ever \cap s.keys /\ Position(page[i]) > s.after
      BY <2>5, <2>7, <2>9 DEF found
    <2>11. \A i, j \in 1..n : i < j => Position(page[i]) < Position(page[j])
      BY <2>5, <2>7, <2>9
    <2>12. Handed(r, ever)
      BY <2>4, <2>7, <2>8, <2>10, <2>11 DEF Handed
    <2>13. ASSUME NEW k \in always \cap s.keys
           PROVE  \/ Position(k) <= s.after
                  \/ \E i \in 1..n : page[i] = k
                  \/ n = s.limit /\ (n > 0 => Position(k) > Position(page[n]))
      <3>1. k \in found /\ k \in Key /\ Position(k) \in Nat
        BY <2>4, <2>13, PositionOf DEF found
      <3>2. CASE Position(k) > s.after
        <4>1. PICK i \in 1..Len(keys) : keys[i] = k
          BY <2>5, <3>1, <3>2
        <4>2. CASE i <= n
          <5>1. i \in 1..n
            BY <2>5, <2>6, <4>2
          <5>. QED BY <2>7, <4>1, <5>1
        <4>3. CASE i > n
          <5>1. n = s.limit
            BY <2>5, <2>6, <4>3
          <5>2. ASSUME n > 0 PROVE Position(k) > Position(page[n])
            <6>1. n \in 1..n /\ n \in 1..Len(keys) /\ n < i
              BY <2>5, <2>6, <4>3, <5>2
            <6>2. Position(keys[n]) < Position(keys[i]) /\ page[n] = keys[n]
              BY <2>5, <2>7, <6>1
            <6>3. keys[n] \in Key /\ Position(keys[n]) \in Nat
              BY <2>5, <6>1, PositionOf
            <6>. QED BY <3>1, <4>1, <6>2, <6>3
          <5>. QED BY <5>1, <5>2
        <4>4. n \in Nat /\ i \in Nat
          BY <2>5, <2>6
        <4>. QED BY <4>2, <4>3, <4>4
      <3>. QED BY <2>4, <3>1, <3>2
    <2>14. Ends(r, ever, always)
      BY <2>6, <2>7, <2>8, <2>13 DEF Ends
    <2>15. ListOK(r, r.ever \cup Present, r.always \cap Present)
      BY <2>8, <2>12, <2>14 DEF ListOK
    <2>. QED BY <2>1, <2>8, <2>15, ListFinish
  <1>. QED BY <1>2, <1>3

\* A listing begins.
LEMMA ListBegins ==
    ASSUME BlobInv, Listing, NEW t \in Task, NEW s, NEW plan, Begin(t, s, plan), TaskShape(s),
           s.op \in Lister =>
              /\ plan = <<Call("list", NoExt)>> /\ s.out = <<>> /\ s.at = 0 /\ s.seen = {}
              /\ s.after \in Nat /\ s.limit \in Nat /\ (s.op = "list" => s.limit = Len(KeyOrder))
    PROVE  Listing'
  <1> DEFINE r == [s EXCEPT !.todo = plan, !.ever = Present, !.always = Present]
  <1>1. task' = [task EXCEPT ![t] = r] /\ task = [u \in Task |-> task[u]]
    BY DEF Begin, BlobInv, StoreTypes
  <1>2. /\ r.op = s.op /\ r.todo = plan /\ r.out = s.out /\ r.at = s.at /\ r.seen = s.seen
        /\ r.after = s.after /\ r.limit = s.limit /\ r.keys = s.keys
    BY DEF TaskShape
  <1> HIDE DEF r
  <1>3. ListOK(r, r.ever, r.always)
    <2>1. CASE s.op \in Lister
      <3>1. <<>> \in Seq(Key) /\ Len(<<>>) = 0 /\ \A i \in 1..0 : FALSE
        OBVIOUS
      <3>2. Handed(r, r.ever)
        BY <1>2, <2>1, <3>1 DEF Handed
      <3>3. \A i \in DOMAIN DirOrder : ~(i <= 0)
        <4>1. DOMAIN DirOrder = 1..Len(DirOrder) /\ Len(DirOrder) \in Nat
          BY BlobAssumption
        <4>. QED BY <4>1
      <3>4. Walks(r, r.ever, r.always)
        BY <1>2, <2>1, <3>3 DEF Walks
      <3>. QED BY <3>2, <3>4 DEF ListOK
    <2>. QED BY <1>2, <2>1 DEF ListOK
  <1>4. \A u \in Task : ListOK(task'[u], task'[u].ever, task'[u].always)
    BY <1>1, <1>3 DEF Listing
  <1>. QED BY <1>4 DEF Listing, ListOK, Handed, Walks, Looks, Ends

\* The records of the listings.
Fitting(w, name, after, limit) ==
    /\ TaskShape(w) /\ w.op = name /\ w.out = <<>> /\ w.at = 0 /\ w.seen = {}
    /\ w.after = after /\ w.limit = limit

\* Their fields.
LEMMA WalkingFacts ==
    ASSUME NEW name, NEW keys
    PROVE  /\ Fitting(Walking(name, keys), name, 0, Len(KeyOrder))
           /\ \A after, limit :
                 Fitting([Walking(name, keys) EXCEPT !.after = after, !.limit = limit], name, after, limit)
  <1> DEFINE w == Walking(name, keys)
  <1>1. Fitting(w, name, 0, Len(KeyOrder))
    BY DEF Fitting, Walking, Op, NoTask, TaskShape
  <1> HIDE DEF w
  <1>2. ASSUME NEW after, NEW limit
        PROVE  Fitting([w EXCEPT !.after = after, !.limit = limit], name, after, limit)
    BY <1>1 DEF Fitting, TaskShape
  <1>. QED BY <1>1, <1>2 DEF w

\* Every operation begins with nothing handed out.
LEMMA ListStart ==
    ASSUME BlobInv, Listing, NEW t \in Task, Start(t)
    PROVE  Listing'
  <1>1. ASSUME NEW s, NEW name, NEW d, NEW keys, NEW plan, IsNew(s, name, d, keys), Begin(t, s, plan),
               name \notin Lister
        PROVE  Listing'
    BY <1>1, ListBegins DEF IsNew
  <1>2. ASSUME NEW k, NEW v, put(t, k, v) \/ put_chunked(t, k, v) PROVE Listing'
    <2>1. IsNew(Op("put", Blocks(v)), "put", Blocks(v), {})
      BY NewFacts
    <2>. QED BY <1>1, <1>2, <2>1 DEF put, put_chunked, Lister
  <1>3. ASSUME NEW k, NEW v, put_if_absent(t, k, v) PROVE Listing'
    <2>1. IsNew(Op("put_if_absent", Blocks(v)), "put_if_absent", Blocks(v), {})
      BY NewFacts
    <2>. QED BY <1>1, <1>3, <2>1 DEF put_if_absent, Lister
  <1>4. ASSUME NEW k, NEW v, delete_if_matches(t, k, v) PROVE Listing'
    <2> DEFINE s == [Op("delete_if_matches", <<>>) EXCEPT !.want = Blocks(v)]
    <2>1. IsNew(s, "delete_if_matches", <<>>, {})
      BY NewFacts
    <2>2. Begin(t, s, <<Call("get", k), Call("delete", k)>>)
      BY <1>4 DEF delete_if_matches
    <2> HIDE DEF s
    <2>. QED BY <1>1, <2>1, <2>2 DEF Lister
  <1>5. ASSUME NEW k, get(t, k) PROVE Listing'
    <2> DEFINE s == [Op("get", <<>>) EXCEPT !.keys = {k}]
    <2>1. IsNew(s, "get", <<>>, {k})
      BY NewFacts
    <2>2. Begin(t, s, <<Call("get", k)>>)
      BY <1>5 DEF get
    <2> HIDE DEF s
    <2>. QED BY <1>1, <2>1, <2>2 DEF Lister
  <1>6. ASSUME NEW k, exists(t, k) \/ delete(t, k) PROVE Listing'
    <2>1. IsNew(Op("exists", <<>>), "exists", <<>>, {}) /\ IsNew(Op("delete", <<>>), "delete", <<>>, {})
      BY NewFacts
    <2>. QED BY <1>1, <1>6, <2>1 DEF exists, delete, Lister
  <1>7. ASSUME NEW k, NEW l, copy(t, k, l) PROVE Listing'
    <2>1. IsNew(Op("copy", <<>>), "copy", <<>>, {})
      BY NewFacts
    <2>. QED BY <1>1, <1>7, <2>1 DEF copy, Lister
  <1>8. ASSUME NEW k, NEW l, rename(t, k, l) PROVE Listing'
    <2> DEFINE s == [Op("rename", <<>>) EXCEPT !.keys = {k, l}]
    <2>1. IsNew(s, "rename", <<>>, {k, l})
      BY NewFacts
    <2>2. Begin(t, s, <<Call("get", k), Call("put", l), Call("delete", k)>>)
      BY <1>8 DEF rename
    <2> HIDE DEF s
    <2>. QED BY <1>1, <2>1, <2>2 DEF Lister
  <1>9. ASSUME NEW v, put_cas(t, v) \/ put_streaming(t, v) PROVE Listing'
    <2>1. IsNew(Op("put_cas", Blocks(v)), "put_cas", Blocks(v), {})
      BY NewFacts
    <2>. QED BY <1>1, <1>9, <2>1 DEF put_cas, put_streaming, Lister
  <1>10. ASSUME NEW v, get_cas(t, v) PROVE Listing'
    <2> DEFINE s == [Op("get_cas", <<>>) EXCEPT !.want = Blocks(v)]
    <2>1. IsNew(s, "get_cas", <<>>, {})
      BY NewFacts
    <2>2. Begin(t, s, <<Call("get", HashKey(v))>>)
      BY <1>10 DEF get_cas
    <2> HIDE DEF s
    <2>. QED BY <1>1, <2>1, <2>2 DEF Lister
  <1>11. ASSUME NEW v, exists_cas(t, v) PROVE Listing'
    BY <1>6, <1>11 DEF exists_cas
  <1>12. ASSUME NEW p, delete_prefix(t, p) PROVE Listing'
    <2>1. IsNew(Walking("delete_prefix", p), "delete_prefix", <<>>, p)
      BY NewFacts
    <2>. QED BY <1>1, <1>12, <2>1 DEF delete_prefix, Lister
  <1>13. ASSUME delete_many(t, KeyOrder) \/ cleanup_temp_files(t) PROVE Listing'
    <2>1. IsNew(Op("delete_many", <<>>), "delete_many", <<>>, {}) /\ IsNew(Op("cleanup", <<>>), "cleanup", <<>>, {})
      BY NewFacts
    <2>. QED BY <1>1, <1>13, <2>1 DEF delete_many, cleanup_temp_files, Lister
  <1>14. Len(KeyOrder) \in Nat
    BY PositionOf
  <1>15. ASSUME NEW p, list(t, p) \/ list_meta(t, p) PROVE Listing'
    <2>1. PICK name \in {"list", "list_meta"} : Begin(t, Walking(name, p), <<Call("list", NoExt)>>)
      BY <1>15 DEF list, list_meta
    <2> DEFINE w == Walking(name, p)
    <2>2. Fitting(w, name, 0, Len(KeyOrder))
      BY WalkingFacts
    <2>3. Begin(t, w, <<Call("list", NoExt)>>)
      BY <2>1
    <2> HIDE DEF w
    <2>. QED BY <1>14, <2>2, <2>3, ListBegins DEF Fitting
  <1>16. ASSUME NEW p, NEW after \in 0..1, NEW limit \in 0..1, list_meta_page(t, p, after, limit) PROVE Listing'
    <2> DEFINE w == [Walking("list_meta", p) EXCEPT !.after = after, !.limit = limit]
    <2>2. Fitting(w, "list_meta", after, limit)
      BY WalkingFacts
    <2>3. Begin(t, w, <<Call("list", NoExt)>>)
      BY <1>16 DEF list_meta_page
    <2> HIDE DEF w
    <2>. QED BY <2>2, <2>3, ListBegins DEF Fitting
  <1>. QED BY <1>2, <1>3, <1>4, <1>5, <1>6, <1>7, <1>8, <1>9, <1>10, <1>11, <1>12, <1>13, <1>15, <1>16 DEF Start

\* A step that moves a file of t, which is not listing.
LEMMA ListFiles ==
    ASSUME BlobInv, Listing, NEW t \in Task, task[t].op \notin Lister, task'[t].op = task[t].op,
           \A u \in Task : u # t => task'[u] = task[u]
    PROVE  Listing'
  <1>1. \A u \in Task : ListOK(task'[u], task'[u].ever, task'[u].always)
    BY DEF Listing, ListOK
  <1>. QED BY <1>1 DEF Listing, ListOK, Handed, Walks, Looks, Ends

\* The end of a call that is not part of a listing.
LEMMA ListPast ==
    ASSUME BlobInv, Listing, NEW t \in Task, NEW s, TaskShape(s), s.op = task[t].op, NEW changed, NEW now,
           Finish(t, s, changed, now),
           Calling(t, "put") \/ Calling(t, "get") \/ Calling(t, "delete") \/ Calling(t, "sweep")
    PROVE  Listing'
  <1>1. Running(t) /\ Head(task[t].todo).do \in {"put", "get", "delete", "sweep"}
    BY DEF Calling
  <1>. QED BY <1>1, NotListing, OtherFinish

\* After and Read leave the operation what it is.
LEMMA PastFacts ==
    ASSUME NEW s, TaskShape(s), NEW o, NEW k, NEW d
    PROVE  /\ TaskShape(After(s, o)) /\ After(s, o).op = s.op
           /\ TaskShape(Fresh(s)) /\ Fresh(s).op = s.op
           /\ TaskShape(Read(s, k, d)) /\ Read(s, k, d).op = s.op
  <1>1. TaskShape(After(s, o)) /\ After(s, o).op = s.op
    BY AfterFacts
  <1>2. TaskShape(Fresh(s)) /\ Fresh(s).op = s.op
    BY EditFacts DEF Same
  <1>3. TaskShape(Read(s, k, d)) /\ Read(s, k, d).op = s.op
    <2> DEFINE e == [s EXCEPT !.data = d]
               x == Judge(s, k, d)
    <2>1. TaskShape(e) /\ e.op = s.op
      BY DEF TaskShape
    <2>2. Read(s, k, d) = After(e, x)
      BY DEF Read
    <2> HIDE DEF e, x
    <2>3. TaskShape(After(e, x)) /\ After(e, x).op = e.op
      BY <2>1, AfterFacts
    <2>. QED BY <2>1, <2>2, <2>3
  <1>. QED BY <1>1, <1>2, <1>3

\* Puts, gets, deletes and sweeps.
LEMMA ListOthers ==
    ASSUME BlobInv, Listing, NEW t \in Task,
           \/ memory_put(t) \/ memory_get(t) \/ memory_delete(t)
           \/ OpenTmp(t) \/ WriteBlock(t) \/ RenameTmp(t) \/ OpenFile(t) \/ ReadFile(t)
           \/ local_delete(t) \/ cleanup_tmp_files_sync(t)
    PROVE  Listing'
  <1> DEFINE s == task[t]
             k == Target(t)
  <1>1. TaskShape(s) /\ task = [u \in Task |-> task[u]] /\ s = task[t]
    BY DEF BlobInv, TaskOK, StoreTypes
  <1>2. TaskShape(Fresh(s)) /\ Fresh(s).op = s.op
    BY <1>1, PastFacts
  <1>3. CASE memory_put(t)
    <2> DEFINE fits == used - Length(map[k]) + Len(s.data) <= Capacity
               stored == IF fits THEN [map EXCEPT ![k] = s.data] ELSE map
               o == IF fits THEN "ok" ELSE "quota_exceeded"
               now == {x \in Key : stored[x] # Absent}
               changed == IF fits THEN {k} ELSE {}
    <2>1. Calling(t, "put") /\ Finish(t, After(s, o), changed, now)
      BY <1>3 DEF memory_put
    <2> HIDE DEF o, changed, now
    <2>2. TaskShape(After(s, o)) /\ After(s, o).op = s.op
      BY <1>1, PastFacts
    <2>. QED BY <2>1, <2>2, ListPast
  <1>4. CASE memory_get(t)
    <2> DEFINE f == Fresh(s)
               r == IF map[k] = Absent THEN After(f, "not_found") ELSE Read(f, k, map[k])
    <2>1. Calling(t, "get") /\ Finish(t, r, {}, Present)
      BY <1>4 DEF memory_get
    <2>2. TaskShape(r) /\ r.op = s.op
      <3> HIDE DEF f
      <3>1. TaskShape(f) /\ f.op = s.op
        BY <1>2 DEF f
      <3>2. /\ TaskShape(After(f, "not_found")) /\ After(f, "not_found").op = s.op
            /\ TaskShape(Read(f, k, map[k])) /\ Read(f, k, map[k]).op = s.op
        BY <3>1, PastFacts
      <3>. QED BY <3>2
    <2> HIDE DEF r
    <2>. QED BY <2>1, <2>2, ListPast
  <1>5. CASE memory_delete(t) \/ local_delete(t)
    <2> DEFINE there == IF backend = "memory" THEN map[k] # Absent ELSE dir[k] # NoFile
               o == IF there THEN "ok" ELSE "not_found"
               changed == IF there THEN {k} ELSE {}
               now == Present \ {k}
    <2>1. Calling(t, "delete") /\ Finish(t, After(s, o), changed, now)
      <3>1. CASE memory_delete(t)
        <4>1. there <=> map[k] # Absent
          BY <3>1 DEF memory_delete
        <4>. QED BY <3>1, <4>1 DEF memory_delete
      <3>2. CASE local_delete(t)
        <4>1. there <=> dir[k] # NoFile
          BY <3>2 DEF local_delete
        <4>. QED BY <3>2, <4>1 DEF local_delete
      <3>. QED BY <1>5, <3>1, <3>2
    <2> HIDE DEF o, changed, now
    <2>2. TaskShape(After(s, o)) /\ After(s, o).op = s.op
      BY <1>1, PastFacts
    <2>. QED BY <2>1, <2>2, ListPast
  <1>6. CASE OpenTmp(t) \/ WriteBlock(t)
    <2>1. /\ Calling(t, "put")
          /\ \E i, j : task' = [task EXCEPT ![t].fd = i, ![t].at = j] \/ task' = [task EXCEPT ![t].at = j]
      <3>1. CASE OpenTmp(t)
        BY <3>1 DEF OpenTmp
      <3>2. CASE WriteBlock(t)
        BY <3>2 DEF WriteBlock
      <3>. QED BY <1>6, <3>1, <3>2
    <2>2. s.op \notin Lister
      BY <2>1, NotListing DEF Calling
    <2>3. task'[t].op = s.op /\ \A u \in Task : u # t => task'[u] = task[u]
      <3>1. PICK i, j : task' = [task EXCEPT ![t].fd = i, ![t].at = j] \/ task' = [task EXCEPT ![t].at = j]
        BY <2>1
      <3>2. CASE task' = [task EXCEPT ![t].fd = i, ![t].at = j]
        BY <1>1, <3>2 DEF TaskShape
      <3>3. CASE task' = [task EXCEPT ![t].at = j]
        BY <1>1, <3>3 DEF TaskShape
      <3>. QED BY <3>1, <3>2, <3>3
    <2>. QED BY <2>2, <2>3, ListFiles
  <1>8. CASE RenameTmp(t)
    <2> DEFINE there == dir[TmpPath(k)] # NoFile
               o == IF there THEN "ok" ELSE "io"
               changed == IF there THEN {k} ELSE {}
               now == IF there THEN Present \cup {k} ELSE Present
    <2>1. Calling(t, "put") /\ Finish(t, After(s, o), changed, now)
      BY <1>8 DEF RenameTmp
    <2> HIDE DEF o, changed, now
    <2>2. TaskShape(After(s, o)) /\ After(s, o).op = s.op
      BY <1>1, PastFacts
    <2>. QED BY <2>1, <2>2, ListPast
  <1>9. CASE OpenFile(t)
    <2>1. Calling(t, "get")
      BY <1>9 DEF OpenFile
    <2>2. CASE dir[k] = NoFile
      <3> DEFINE f == Fresh(s)
      <3>1. Finish(t, After(f, "not_found"), {}, Present)
        BY <1>9, <2>2 DEF OpenFile
      <3>2. TaskShape(After(f, "not_found")) /\ After(f, "not_found").op = s.op
        <4> HIDE DEF f
        <4>1. TaskShape(f) /\ f.op = s.op
          BY <1>2 DEF f
        <4>. QED BY <4>1, PastFacts
      <3>. QED BY <2>1, <3>1, <3>2, ListPast
    <2>3. CASE dir[k] # NoFile
      <3>1. task' = [task EXCEPT ![t].fd = dir[k], ![t].dirty = {}]
        BY <1>9, <2>3 DEF OpenFile
      <3>2. s.op \notin Lister
        BY <2>1, NotListing DEF Calling
      <3>3. task'[t].op = s.op /\ \A u \in Task : u # t => task'[u] = task[u]
        BY <1>1, <3>1 DEF TaskShape
      <3>. QED BY <3>2, <3>3, ListFiles
    <2>. QED BY <2>2, <2>3
  <1>10. CASE ReadFile(t)
    <2> DEFINE d == inode[s.fd]
    <2>1. Calling(t, "get") /\ Finish(t, Read(s, k, d), {}, Present)
      BY <1>10 DEF ReadFile
    <2> HIDE DEF d, k
    <2>2. TaskShape(Read(s, k, d)) /\ Read(s, k, d).op = s.op
      BY <1>1, PastFacts
    <2>. QED BY <2>1, <2>2, ListPast
  <1>11. CASE cleanup_tmp_files_sync(t)
    <2> DEFINE ahead == Ahead(s, {p \in Path : IsTmp(p)})
               i == Min(ahead)
               r == IF ahead = {} THEN After(s, "ok") ELSE [s EXCEPT !.at = i]
    <2>1. Calling(t, "sweep") /\ Finish(t, r, {}, Present)
      BY <1>11 DEF cleanup_tmp_files_sync
    <2>2. TaskShape(r) /\ r.op = s.op
      <3>1. TaskShape(After(s, "ok")) /\ After(s, "ok").op = s.op
        BY <1>1, PastFacts
      <3>2. TaskShape([s EXCEPT !.at = i]) /\ [s EXCEPT !.at = i].op = s.op
        <4> HIDE DEF i
        <4>. QED BY <1>1 DEF TaskShape
      <3>. QED BY <3>1, <3>2
    <2> HIDE DEF r
    <2>. QED BY <2>1, <2>2, ListPast
  <1>. QED BY <1>3, <1>4, <1>5, <1>6, <1>8, <1>9, <1>10, <1>11

\* A failing call: a listing that fails hands out nothing.
LEMMA ListFails ==
    ASSUME BlobInv, Listing, NEW t \in Task, FailCall(t)
    PROVE  Listing'
  <1> DEFINE s == task[t]
             r == After(s, "io")
  <1>1. TaskShape(s) /\ TaskOK(s) /\ s.todo # <<>> /\ Finish(t, r, {}, Present)
    BY DEF FailCall, Running, BlobInv, TaskOK
  <1>2. Meaning(s.op, Head(s.todo).do, "io") = "io"
    BY MeaningFacts
  <1>3. /\ TaskShape(r) /\ r.op = s.op /\ r.todo = <<>> /\ r.res = "io" /\ r.keys = s.keys
        /\ r.after = s.after /\ r.limit = s.limit /\ r.out = s.out /\ r.ever = s.ever
    BY <1>1, <1>2, AfterFacts
  <1>4. ListOK(s, s.ever, s.always)
    BY DEF Listing
  <1> HIDE DEF r, s
  <1>5. s.op \in Lister => Handed(r, r.ever \cup Present)
    BY <1>3, <1>4 DEF ListOK, Handed
  <1>6. Ends(r, r.ever \cup Present, r.always \cap Present)
    BY <1>3 DEF Ends
  <1>7. ListOK(r, r.ever \cup Present, r.always \cap Present)
    BY <1>3, <1>5, <1>6 DEF ListOK
  <1>. QED BY <1>1, <1>3, <1>7, ListFinish

\* Every step keeps what listings know.
LEMMA ListStepOK ==
    ASSUME BlobInv, Listing, BlobNext
    PROVE  Listing'
  <1>1. ASSUME NEW t \in Task, MemoryStep(t) PROVE Listing'
    BY <1>1, ListOthers, ListHead, ListMemory DEF MemoryStep
  <1>2. ASSUME NEW t \in Task, LocalStep(t) PROVE Listing'
    BY <1>2, ListOthers, ListHead, ListWalk, ListFails DEF LocalStep
  <1>3. ASSUME Reopen \/ with_temp_cleanup PROVE Listing'
    <2>1. task' = [u \in Task |-> NoTask]
      BY <1>3 DEF Reopen, with_temp_cleanup, Crash
    <2>2. \A u \in Task : ListOK(task'[u], task'[u].ever, task'[u].always)
      BY <2>1, IdleTask DEF ListOK, Lister
    <2>. QED BY <2>2 DEF Listing, ListOK, Handed, Walks, Looks, Ends
  <1>. QED BY <1>1, <1>2, <1>3, ListStart DEF BlobNext

\* The invariant of the listings.
LEMMA ListInductive == Spec => []Listing
  <1>1. Init => Listing
    <2>1. ASSUME Init PROVE Listing
      <3>1. task = [u \in Task |-> NoTask]
        BY <2>1 DEF Init, BlobInit
      <3>. QED BY <3>1, IdleTask DEF Listing, ListOK, Lister
    <2>. QED BY <2>1
  <1>2. BlobInv /\ Listing /\ [Next]_vars => Listing'
    <2>1. ASSUME UNCHANGED blobVars, Listing PROVE Listing'
      <3>1. task' = task
        BY <2>1 DEF blobVars
      <3>. QED BY <2>1, <3>1 DEF Listing, ListOK, Handed, Walks, Looks, Ends
    <2>. QED BY <2>1, ListStepOK DEF Next, vars
  <1>. QED BY <1>1, <1>2, BlobInductive, PTL DEF Spec

\* What a listing returned is right.
LEMMA ListingFacts ==
    ASSUME BlobInv, Listing
    PROVE  ListingRight
  <1>1. ASSUME NEW t \in Task, task[t].op \in {"list", "list_meta"}, task[t].res = "ok"
        PROVE  Handed(task[t], task[t].ever) /\ Ends(task[t], task[t].ever, task[t].always)
    <2>1. task[t].todo = <<>>
      BY <1>1 DEF BlobInv, TaskOK
    <2>2. ~Walks(task[t], task[t].ever, task[t].always) /\ ~Looks(task[t], task[t].ever, task[t].always)
      BY <2>1, TupleTails DEF Walks, Looks
    <2>. QED BY <1>1, <2>2 DEF Listing, ListOK, Lister
  <1>. QED BY <1>1 DEF ListingRight, Handed, Ends
-----------------------------------------------------------------------------
(***************************************************************************)
(* The properties.                                                         *)
(***************************************************************************)
\* Every store's and client's state has its shape, and the memory store's
\* count of used bytes is exactly what its map holds and within capacity.
THEOREM StateOK == Spec => []BlobStateOK
  <1>1. BlobInv => BlobTypeOK
    BY BlobTypes
  <1>2. RemoteInv /\ KeptOK => RemoteTypeOK
    BY RemoteTypeFacts
  <1>3. BlobTypeOK /\ RemoteTypeOK /\ QuotaExact => BlobStateOK
    BY DEF BlobStateOK
  <1>. QED BY <1>1, <1>2, <1>3, BlobInductive, RemoteInvariance, KeptInductive, QuotaInductive, PTL

\* A listing names what was there all along and nothing that never was, on
\* every store, from a walk of the directories, from the map or from pages.
THEOREM Listings == Spec => []ListingsRight
  <1>1. BlobInv /\ Listing => ListingRight
    BY ListingFacts
  <1>2. PagesInv => PagesComplete
    BY PagesCompleteFacts
  <1>3. ListingRight /\ PagesComplete => ListingsRight
    BY DEF ListingsRight
  <1>. QED BY <1>1, <1>2, <1>3, BlobInductive, ListInductive, PagesInductive, PTL
=============================================================================
