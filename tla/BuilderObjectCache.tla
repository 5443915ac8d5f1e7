------------------------ MODULE BuilderObjectCache ------------------------
(***************************************************************************)
(* A builder's object cache (builder/ObjectCache.ts and its users in       *)
(* builder/fisk-builder.ts): objects that finished compiles write into a   *)
(* directory, objects fetched from other builders that are renamed into    *)
(* it, the index of what is there, its size and its purge.  The index is   *)
(* made anew, from the directory, on every connection to the scheduler;    *)
(* what an older index has begun to write goes on.                         *)
(***************************************************************************)
EXTENDS Integers, FiniteSets, FiniteSetsExt, Queues

CONSTANTS Objects,                \* the objects
          ObjectSize,            \* their sizes, as compiled here and as fetched
          MaxSize, PurgeSize,  \* object-cache-size, object-cache-purge-size
          Gens,                \* bound: 1..n, the indexes made in one life of the builder
          MaxFetches           \* bound: downloads of one object at a time

Froms == {"compile", "fetch"}

ASSUME CacheAssumption ==
    /\ IsFiniteSet(Objects)
    /\ ObjectSize \in [Objects -> [Froms -> Nat \ {0}]]
    /\ {MaxSize, PurgeSize, MaxFetches} \subseteq Nat
    /\ PurgeSize <= MaxSize
    /\ Gens \subseteq Nat \ {0}

VARIABLES
    connected,     \* connected to the scheduler
    cur,      \* the index that objectCache is, 0 if it is undefined
    cache,    \* of every index: its items in the order they would be purged, its size
    writing,  \* of every index: pending, the objects it is writing
    fetching, \* the downloads of every object
    disk,     \* the file of every object's name, or None
    told,     \* what the scheduler has been told over this connection
    shared    \* history: two owners have met at one name (see Meet, NewIndex)

cacheVars == <<connected, cur, cache, writing, fetching, disk, told, shared>>

\* A file: where its contents are from, whether they are all there, and the index
\* that is writing it, 0 if none is.
Files == [from : Froms, whole : BOOLEAN, by : Gens \cup {0}]
None == [from |-> "compile", whole |-> FALSE, by |-> -1]
Items == [sha : Objects, from : Froms]

ShasOf(items) == {item.sha : item \in ToSet(items)}
ItemOf(items, s) == CHOOSE item \in ToSet(items) : item.sha = s

\* An object has one item.
Keyed(items) == \A i, j \in 1..Len(items) : items[i].sha = items[j].sha => i = j

\* The bytes of a set of items, each a pair of its object and its place, and how many
\* they are in a sequence.
SizeOf(item) == ObjectSize[item.sha][item.from]
BytesOf(T) == UNION {{item.sha} \X (1..SizeOf(item)) : item \in T}
Bytes(items) == Cardinality(BytesOf(ToSet(items)))

Empty == [items |-> <<>>, size |-> 0]

CacheTypeOK ==
    /\ connected \in BOOLEAN
    /\ cur \in Gens \cup {0}
    /\ cache \in [Gens -> [items : Seq(Items), size : Nat]]
    /\ \A g \in Gens : Keyed(cache[g].items)
    /\ writing \in [Gens -> SUBSET Objects]
    /\ fetching \in [Objects -> 0..MaxFetches]
    /\ disk \in [Objects -> Files \cup {None}]
    /\ told \in SUBSET Objects
    /\ shared \in BOOLEAN

CacheInit ==
    /\ connected = FALSE
    /\ cur = 0
    /\ cache = [g \in Gens |-> Empty]
    /\ writing = [g \in Gens |-> {}]
    /\ fetching = [s \in Objects |-> 0]
    /\ disk = [s \in Objects |-> None]
    /\ told = {}
    /\ shared = FALSE

----------------------------------------------------------------------------
(* The index *)

\* purge: the oldest items go until the size is at most target.
Purge(c, target) ==
    LET after(n) == c.size - Bytes(SubSeq(c.items, 1, n))
        n == Min({k \in 0..Len(c.items) : after(k) <= target \/ k = Len(c.items)})
    IN [items |-> SubSeq(c.items, n + 1, Len(c.items)), size |-> after(n)]

\* cache[sha] = item, in its old place if the object has one, and size.
Set(c, item) ==
    [items |-> IF item.sha \in ShasOf(c.items)
               THEN [i \in 1..Len(c.items) |->
                       IF c.items[i].sha = item.sha THEN item ELSE c.items[i]]
               ELSE Append(c.items, item),
     size |-> c.size + SizeOf(item)]

\* Mutant of Put: it purges before the item is counted.
PutLate(c, item) ==
    LET d == IF c.size > MaxSize THEN Purge(c, PurgeSize) ELSE c IN Set(d, item)

\* An item is set, and what is too much is purged.
Put(c, item) ==
    LET d == Set(c, item) IN IF d.size > MaxSize THEN Purge(d, PurgeSize) ELSE d

\* remove
Drop(c, s) ==
    LET item == ItemOf(c.items, s)
    IN [items |-> Without(c.items, item), size |-> c.size - SizeOf(item)]

\* state(s) = "none", for the index in use.
Unknown(s) == cur # 0 /\ s \notin ShasOf(cache[cur].items) \cup writing[cur]

\* Index g becomes c, after s was added to it or with s = {}: what it loses is
\* unlinked, and the scheduler hears of either in this order.
Becomes(g, c, s, files) ==
    LET lost == (ShasOf(cache[g].items) \cup s) \ ShasOf(c.items)
    IN /\ cache' = [cache EXCEPT ![g] = c]
       /\ disk' = [t \in Objects |-> IF t \in lost THEN None ELSE files[t]]
       /\ told' = IF connected THEN (told \cup s) \ lost ELSE told

\* history: a file arrives at a name that has an owner already.
Meet(s) == s \in ShasOf(cache[cur].items) \/ \E g \in Gens : s \in writing[g]

----------------------------------------------------------------------------
(* The connection to the scheduler *)

\* Mutant of Loadable: a file's size is not compared with its header's.
LoadableIfThere(s) == disk[s] # None

\* loadFile checks name, header and size.
Loadable(s) == disk[s] # None /\ disk[s].whole

\* The files are loaded by age, which is any order here; the rest is removed.
Load(order) ==
    LET loaded[n \in 0..Len(order)] ==
          IF n = 0 THEN Empty
          ELSE IF Loadable(order[n])
               THEN Put(loaded[n - 1], [sha |-> order[n], from |-> disk[order[n]].from])
               ELSE loaded[n - 1]
    IN loaded[Len(order)]

\* "objectCache" and "connect": a new index, or none, and all of it is announced.
NewIndex ==
    /\ ~connected
    /\ connected' = TRUE
    /\ \/ /\ cur' = 0
          /\ told' = {}
          /\ UNCHANGED <<cache, disk, shared>>
       \/ \E g \in Gens, order \in SetToSeqs(Objects) :
          /\ g = Max({cur, 0} \cup {h \in Gens : cache[h] # Empty \/ writing[h] # {}}) + 1
          /\ cur' = g
          /\ cache' = [cache EXCEPT ![g] = Load(order)]
          /\ disk' = [s \in Objects |-> IF s \in ShasOf(Load(order).items) THEN disk[s] ELSE None]
          /\ told' = ShasOf(Load(order).items)
          /\ shared' = (shared \/ \E h \in Gens : writing[h] # {})
    /\ UNCHANGED <<writing, fetching>>

\* "close"; what goes on, goes on unheard.
Close ==
    /\ connected
    /\ connected' = FALSE
    /\ UNCHANGED <<cur, cache, writing, fetching, disk, told, shared>>

\* The builder dies and is started again; the directory is as it was.
Restart ==
    /\ connected' = FALSE
    /\ cur' = 0
    /\ cache' = [g \in Gens |-> Empty]
    /\ writing' = [g \in Gens |-> {}]
    /\ fetching' = [s \in Objects |-> 0]
    /\ disk' = [s \in Objects |-> IF disk[s] = None THEN None ELSE [disk[s] EXCEPT !.by = 0]]
    /\ told' = {}
    /\ UNCHANGED shared

\* "clearObjectCache"
ClearIndex ==
    /\ connected /\ cur # 0
    /\ Becomes(cur, Purge(cache[cur], 0), {}, disk)
    /\ UNCHANGED <<connected, cur, writing, fetching, shared>>

----------------------------------------------------------------------------
(* Objects that are compiled *)

\* "finished": add creates, or truncates, the file.
Compiled(s) ==
    /\ Unknown(s)
    /\ writing' = [writing EXCEPT ![cur] = @ \cup {s}]
    /\ disk' = [disk EXCEPT ![s] = [from |-> "compile", whole |-> FALSE, by |-> cur]]
    /\ UNCHANGED <<connected, cur, cache, fetching, told, shared>>

\* The stream's last write reaches its file, if that still has a name.
Flush(s) ==
    /\ disk[s] # None /\ ~disk[s].whole /\ disk[s].by # 0
    /\ disk' = [disk EXCEPT ![s].whole = TRUE]
    /\ UNCHANGED <<connected, cur, cache, writing, fetching, told, shared>>

\* What is at the path has the size that the object would have, as compiled.
LooksDone(s) ==
    /\ disk[s] # None /\ disk[s].whole
    /\ ObjectSize[s][disk[s].from] = ObjectSize[s]["compile"]

\* end() resolves, which may be before the last write when the stream had to drain.
\* What is at the path is taken for the object, or unlinked; also unlinked if nobody
\* is there to hear "added".
End(g, s) ==
    LET item == [sha |-> s, from |-> "compile"]
        done == IF disk[s].by = g THEN [disk EXCEPT ![s].by = 0] ELSE disk
    IN /\ s \in writing[g]
       /\ writing' = [writing EXCEPT ![g] = @ \ {s}]
       /\ IF LooksDone(s) /\ cur # 0
          THEN Becomes(g, Put(cache[g], item), {s}, done)
          ELSE /\ disk' = [disk EXCEPT ![s] = None]
               /\ cache' = IF LooksDone(s) THEN [cache EXCEPT ![g] = Set(@, item)] ELSE cache
               /\ UNCHANGED told
       /\ UNCHANGED <<connected, cur, fetching, shared>>

\* The stream fails: what it wrote stays.
WriteError(g, s) ==
    /\ s \in writing[g]
    /\ writing' = [writing EXCEPT ![g] = @ \ {s}]
    /\ disk' = IF disk[s].by = g THEN [disk EXCEPT ![s].by = 0] ELSE disk
    /\ UNCHANGED <<connected, cur, cache, fetching, told, shared>>

----------------------------------------------------------------------------
(* Objects that are fetched and served *)

\* A turn of "fetch_cache_objects": a download into a file of its own.
Fetch(s) ==
    /\ Unknown(s)
    /\ fetching[s] < MaxFetches
    /\ fetching' = [fetching EXCEPT ![s] = @ + 1]
    /\ UNCHANGED <<connected, cur, cache, writing, disk, told, shared>>

\* "finish" with the right size: renamed, and loaded unless the index has it.
Fetched(s) ==
    LET files == [disk EXCEPT ![s] = [from |-> "fetch", whole |-> TRUE, by |-> 0]]
    IN /\ fetching[s] > 0
       /\ fetching' = [fetching EXCEPT ![s] = @ - 1]
       /\ IF cur = 0 \/ s \in ShasOf(cache[cur].items)
          THEN disk' = files /\ UNCHANGED <<cache, told>>
          ELSE Becomes(cur, Put(cache[cur], [sha |-> s, from |-> "fetch"]), {s}, files)
       /\ shared' = (shared \/ (cur # 0 /\ Meet(s)) \/ \E g \in Gens : s \in writing[g])
       /\ UNCHANGED <<connected, cur, writing>>

\* It fails; the file of its own is unlinked.
FetchFails(s) ==
    /\ fetching[s] > 0
    /\ fetching' = [fetching EXCEPT ![s] = @ - 1]
    /\ UNCHANGED <<connected, cur, cache, writing, disk, told, shared>>

\* getFromCache: the item is removed if its file is not there; otherwise it becomes
\* the youngest, and is read.
Serve(s) ==
    /\ cur # 0 /\ s \in ShasOf(cache[cur].items)
    /\ IF disk[s] = None
       THEN Becomes(cur, Drop(cache[cur], s), {}, disk)
       ELSE /\ cache' = [cache EXCEPT ![cur].items = Append(Without(@, ItemOf(@, s)), ItemOf(@, s))]
            /\ UNCHANGED <<disk, told>>
    /\ UNCHANGED <<connected, cur, writing, fetching, shared>>

\* A read for some job failed: the item is removed, if it still is there.
ServeFails(s) ==
    /\ cur # 0 /\ s \in ShasOf(cache[cur].items)
    /\ Becomes(cur, Drop(cache[cur], s), {}, disk)
    /\ UNCHANGED <<connected, cur, writing, fetching, shared>>

CacheNext ==
    \/ NewIndex \/ Close \/ Restart \/ ClearIndex
    \/ \E s \in Objects :
       \/ Compiled(s) \/ Flush(s) \/ Fetch(s) \/ Fetched(s) \/ FetchFails(s)
       \/ Serve(s) \/ ServeFails(s)
       \/ \E g \in Gens : End(g, s) \/ WriteError(g, s)

CacheSpec == CacheInit /\ [][CacheNext]_cacheVars

----------------------------------------------------------------------------
(* Properties *)

(* Whatever meets at a name, the index in use never holds more bytes than its maximum:
   its size is never less than that of its items, and purged when it is too large,
   and no removal, however late, takes it below zero (CacheTypeOK). *)
NeverOverfull ==
    /\ CacheTypeOK
    /\ cur # 0 => /\ Bytes(cache[cur].items) <= cache[cur].size
                   /\ cache[cur].size <= MaxSize

\* Every item of the index in use describes the file that will be read for it.
ItemsMatchFiles ==
    cur # 0 =>
        \A item \in ToSet(cache[cur].items) :
            disk[item.sha].whole /\ disk[item.sha].from = item.from

(* As long as no two owners met at one name: the index tells the truth about the
   directory, over crashes too, its size is the sum of its items, and the scheduler
   knows all of it and nothing else. *)
SoundUnlessShared ==
    ~shared => /\ ItemsMatchFiles
               /\ cur # 0 => cache[cur].size = Bytes(cache[cur].items)
               /\ connected => told = IF cur = 0 THEN {} ELSE ShasOf(cache[cur].items)
=============================================================================
