------------------------------ MODULE LevelDb -------------------------------
(***************************************************************************)
(* The parts of ComponentsW that were taken from LevelDB. The skip lists   *)
(* of skiplist.leveldb: skiplist_iterator.h with a writer and a reader,    *)
(* skiplist_arena.h, the version before it, and skiplist_lite.cpp, the     *)
(* first one; the cache and its hash table of cache.leveldb; and the arena *)
(* of common.                                                              *)
(***************************************************************************)
EXTENDS Integers, FiniteSets, Sequences, SequencesExt, FiniteSetsExt

-----------------------------------------------------------------------------
(***************************************************************************)
(* The skip list of ComponentsW/skiplist.leveldb (skiplist_iterator.h):    *)
(* one writer that inserts and removes, linking a node level by level from *)
(* the top, and a reader whose iterator takes no lock.  Node 0 is head_;   *)
(* nodes come from the arena and are never freed, and their next_ are not  *)
(* initialised.  A search of the writer sees a list nobody else changes    *)
(* and is one step; the reader reads one pointer per step.                 *)
(***************************************************************************)

CONSTANTS Keys, MaxHeight, MaxNodes

VARIABLES key, height, next, nodes,    \* the nodes, and how many there are
          present,                     \* the keys linked at level 0
          wpc, wnode, pre, wlevel,     \* the writer: "idle", "link" or "unlink"
          rpc, node_, level, target,   \* the iterator
          seen, kept,                  \* keys the scan has met; keys present since it began
          met

Nodes == 1 .. MaxNodes
NULL == -1
Junk == -2          \* a pointer that was never stored

listVars == <<key, height, next, nodes, present, wpc, wnode, pre, wlevel, rpc, node_, level, target, seen, kept, met>>
reader == <<rpc, node_, level, target, seen>>

Levels == 0 .. MaxHeight - 1

ListInit ==
    /\ key = [n \in Nodes |-> 0] /\ height = [n \in Nodes |-> 0] /\ nodes = 0 /\ present = {}
    /\ next = [n \in 0 .. MaxNodes |-> [l \in Levels |-> IF n = 0 THEN NULL ELSE Junk]]
    /\ wpc = "idle" /\ wnode = 0 /\ pre = [l \in Levels |-> 0] /\ wlevel = 0
    /\ rpc = "idle" /\ node_ = NULL /\ level = 0 /\ target = 0 /\ seen = {} /\ kept = {} /\ met = {}

\* FindPre: the last node before k on each level, the search on a level going on from the one above
ListFindPre(k) ==
    LET walk[l \in Levels, n \in 0 .. MaxNodes] ==
            IF next[n][l] # NULL /\ key[next[n][l]] < k THEN walk[l, next[n][l]] ELSE n
        found[l \in Levels] == walk[l, IF l = MaxHeight - 1 THEN 0 ELSE found[l + 1]]
    IN found

\* Contains, and the level FindPre returns: how many levels hold k
LevelOf(k) == Cardinality({l \in Levels : next[ListFindPre(k)[l]][l] # NULL /\ key[next[ListFindPre(k)[l]][l]] = k})
ListContains(k) == LevelOf(k) # 0

\* RandomLevel and NewNode
ListNewNode(k, h) ==
    /\ nodes < MaxNodes /\ nodes' = nodes + 1
    /\ key' = [key EXCEPT ![nodes + 1] = k] /\ height' = [height EXCEPT ![nodes + 1] = h]

ListInsertBegin(k, h) ==
    /\ wpc = "idle" /\ ~ListContains(k) /\ ListNewNode(k, h)
    /\ wpc' = "link" /\ wnode' = nodes + 1 /\ pre' = ListFindPre(k) /\ wlevel' = h - 1
    /\ UNCHANGED <<next, present, kept, met>> /\ UNCHANGED reader

\* The loops go from the top level of the node down to 0
NextLevel ==
    /\ wlevel' = (IF wlevel = 0 THEN 0 ELSE wlevel - 1) /\ wpc' = (IF wlevel = 0 THEN "idle" ELSE wpc)
    /\ pre' = (IF wlevel = 0 THEN [l \in Levels |-> 0] ELSE pre)

\* Wrong on purpose: the node does not take over what its predecessor points to
InsertLinkSwapped ==
    /\ wpc = "link"
    /\ next' = [next EXCEPT ![wnode][wlevel] = NULL, ![pre[wlevel]][wlevel] = wnode]
    /\ present' = IF wlevel = 0 THEN present \cup {key[wnode]} ELSE present
    /\ NextLevel /\ UNCHANGED <<key, height, nodes, wnode, kept, met>> /\ UNCHANGED reader

\* One turn of Insert's loop: the node's own pointer, then its predecessor's, with release
ListInsertLink ==
    /\ wpc = "link"
    /\ next' = [next EXCEPT ![wnode][wlevel] = next[pre[wlevel]][wlevel], ![pre[wlevel]][wlevel] = wnode]
    /\ present' = IF wlevel = 0 THEN present \cup {key[wnode]} ELSE present
    /\ NextLevel /\ UNCHANGED <<key, height, nodes, wnode, kept, met>> /\ UNCHANGED reader

ListRemoveBegin(k) ==
    /\ wpc = "idle" /\ ListContains(k)
    /\ wpc' = "unlink" /\ pre' = ListFindPre(k) /\ wlevel' = LevelOf(k) - 1 /\ UNCHANGED <<key, height, next, nodes, wnode, present, kept, met>> /\ UNCHANGED reader

\* One turn of Remove's loop
ListRemoveUnlink ==
    /\ wpc = "unlink"
    /\ LET n == next[pre[wlevel]][wlevel]
       IN  /\ next' = [next EXCEPT ![pre[wlevel]][wlevel] = next[n][wlevel]]
           /\ present' = IF wlevel = 0 THEN present \ {key[n]} ELSE present
    /\ kept' = kept \cap present'
    /\ NextLevel /\ UNCHANGED <<key, height, nodes, wnode, met>> /\ UNCHANGED reader

Writer == ListInsertLink \/ ListRemoveUnlink \/ \E k \in Keys : ListRemoveBegin(k) \/ \E h \in 1 .. MaxHeight : ListInsertBegin(k, h)

-----------------------------------------------------------------------------
(* The iterator *)

shared == <<key, height, next, nodes, present, wpc, wnode, pre, wlevel>>

\* A pointer that was never stored leads anywhere: the reader is not followed further
Wild(how) == met' = met \cup {how} /\ rpc' = "wild" /\ UNCHANGED <<node_, level, target, seen, kept>>

SeekToFirst ==
    /\ rpc = "idle" /\ rpc' = "scan" /\ kept' = present
    /\ node_' = next[0][0] /\ seen' = IF next[0][0] = NULL THEN {} ELSE {key[next[0][0]]}
    /\ UNCHANGED <<level, target, met>> /\ UNCHANGED shared

\* Next reads level 0 only
IterNext ==
    /\ rpc = "scan" /\ node_ # NULL
    /\ LET n == next[node_][0]
       IN  \/ n = Junk /\ Wild("scan")
           \/ /\ n # Junk /\ node_' = n /\ seen' = IF n = NULL THEN seen ELSE seen \cup {key[n]}
              /\ UNCHANGED <<rpc, level, target, kept, met>>
    /\ UNCHANGED shared

\* Valid() fails, or the caller is done
ScanEnds ==
    /\ rpc = "scan" /\ node_ = NULL /\ rpc' = "idle" /\ seen' = {} /\ kept' = {}
    /\ UNCHANGED <<node_, level, target, met>> /\ UNCHANGED shared

Down(mode, k) == rpc' = mode /\ node_' = 0 /\ level' = MaxHeight - 1 /\ target' = k /\ kept' = present /\ UNCHANGED <<seen, met>> /\ UNCHANGED shared

Seek(k) == rpc = "idle" /\ Down("Seek", k)
SeekToLast == rpc = "idle" /\ Down("SeekToLast", 0)
Prev == rpc = "found" /\ node_ # NULL /\ Down("Prev", key[node_])

KeyIsAfterNode(k, n) == n # NULL /\ key[n] < k

\* One pointer of FindGreaterOrEqual (Seek), FindLessThan (Prev) or FindLast: go on along the level, go
\* down, or end: with the node behind for Seek, with the node reached for the others, head_ being none
SeekStep ==
    /\ rpc \in {"Seek", "Prev", "SeekToLast"}
    /\ LET n == next[node_][level]
           on == IF rpc = "SeekToLast" THEN n # NULL ELSE KeyIsAfterNode(target, n)
       IN  \/ n = Junk /\ Wild("seek")
           \/ n # Junk /\ on /\ node_' = n /\ UNCHANGED <<rpc, level, target, seen, kept, met>>
           \/ n # Junk /\ ~on /\ level > 0 /\ level' = level - 1 /\ UNCHANGED <<rpc, node_, target, seen, kept, met>>
           \/ /\ n # Junk /\ ~on /\ level = 0
              /\ node_' = (IF rpc = "Seek" THEN n ELSE IF node_ = 0 THEN NULL ELSE node_)
              /\ rpc' = "found" /\ seen' = {rpc} /\ UNCHANGED <<level, target, kept, met>>
    /\ UNCHANGED shared

SeekEnds ==
    /\ rpc = "found" /\ rpc' = "idle" /\ node_' = NULL /\ target' = 0 /\ seen' = {} /\ kept' = {}
    /\ UNCHANGED <<level, met>> /\ UNCHANGED shared

Reader == SeekToFirst \/ IterNext \/ ScanEnds \/ SeekToLast \/ Prev \/ SeekStep \/ SeekEnds \/ \E k \in Keys : Seek(k)

\* After a wild read nothing is known of the process
ListNext == rpc # "wild" /\ (Writer \/ Reader)

-----------------------------------------------------------------------------
\* A scan by SeekToFirst and Next follows stored pointers only and meets every key that is in the list
\* from its begin to its end, whatever is inserted and removed meanwhile
ScanMeetsAll == "scan" \notin met /\ (rpc = "scan" /\ node_ = NULL => kept \subseteq seen)

\* Seek, Prev and SeekToLast end on the right side of their target, and pass no key that was there all
\* the time, when they end at all: between the top level of an Insert and its lowest they may come to
\* a pointer the new node does not hold yet
SeekRight ==
    rpc = "found" =>
        CASE seen = {"Seek"} -> /\ node_ # NULL => key[node_] >= target
                                /\ \A k \in kept : k >= target => node_ # NULL /\ key[node_] <= k
          [] seen = {"Prev"} -> /\ node_ # NULL => key[node_] < target
                                /\ \A k \in kept : k < target => node_ # NULL /\ key[node_] >= k
          [] OTHER -> \A k \in kept : node_ # NULL /\ key[node_] >= k

\* Between two calls of the writer a node is linked on all of its levels or on none, each level in
\* ascending order: so that FindPre, which continues below from where it was above, is right
LevelsAgree ==
    wpc = "idle" => \A l \in Levels, n \in 0 .. MaxNodes :
        LET m == next[n][l]
            linked == n = 0 \/ (key[n] \in present /\ \E o \in 0 .. MaxNodes : next[o][0] = n)
        IN  linked /\ (n = 0 \/ l < height[n]) => m = NULL \/ (m \in Nodes /\ key[m] \in present /\ (n = 0 \/ key[n] < key[m]))
-----------------------------------------------------------------------------
(***************************************************************************)
(* The skip list of ComponentsW/skiplist.leveldb/skiplist_arena.h, the     *)
(* version before skiplist_iterator.h: its nodes, too, come from the       *)
(* arena, but it has no iterator, so that Contains, by the thread that     *)
(* inserts and removes, is all that reads it.  The steps are those of      *)
(* SkipList without its reader.                                            *)
(***************************************************************************)

ArenaInit == ListInit

RandomLevel == 1 .. MaxHeight
ArenaNewNode(k, h) == ListNewNode(k, h)
ArenaFindPre(k) == ListFindPre(k)
ArenaContains(k) == ListContains(k)

ArenaInsertBegin(k, h) ==
    /\ wpc = "idle" /\ ~ArenaContains(k) /\ ArenaNewNode(k, h)
    /\ wpc' = "link" /\ wnode' = nodes + 1 /\ pre' = ArenaFindPre(k) /\ wlevel' = h - 1
    /\ UNCHANGED <<next, present, kept, met, reader>>

ArenaInsertLink == ListInsertLink
ArenaRemoveBegin(k) == ListRemoveBegin(k)
ArenaRemoveUnlink == ListRemoveUnlink

ArenaNext == ArenaInsertLink \/ ArenaRemoveUnlink \/ \E k \in Keys : ArenaRemoveBegin(k) \/ \E h \in RandomLevel : ArenaInsertBegin(k, h)

-----------------------------------------------------------------------------
\* Contains finds exactly the keys that were inserted and not removed, whatever levels their nodes and the
\* nodes before them were given.
FoundExactly == wpc = "idle" => \A k \in Keys : ArenaContains(k) <=> k \in present
-----------------------------------------------------------------------------
(***************************************************************************)
(* The first skip list of ComponentsW/skiplist.leveldb (skiplist_lite.cpp; *)
(* skiplist.h is its template): nodes are new'd and deleted, a tail_ ends  *)
(* every level, and a key may be inserted again.  Single threaded: each    *)
(* call is one step.  Node 0 is head_, TailNode is tail_.                      *)
(***************************************************************************)

VARIABLES alive, pc

TailNode == MaxNodes + 1

liteVars == <<key, height, next, nodes, alive, pc>>

LiteInit ==
    /\ key = [n \in 1 .. MaxNodes |-> 0] /\ height = [n \in 1 .. MaxNodes |-> 0] /\ nodes = 0
    /\ next = [n \in 0 .. TailNode |-> [l \in Levels |-> TailNode]] /\ alive = {0, TailNode} /\ pc = "open"

\* The predecessors of k from level top down, each search going on from the one above
PreFrom(top, k) ==
    LET walk[l \in Levels, n \in 0 .. MaxNodes] ==
            IF next[n][l] # TailNode /\ key[next[n][l]] < k THEN walk[l, next[n][l]] ELSE n
        found[l \in 0 .. top] == walk[l, IF l = top THEN 0 ELSE found[l + 1]]
    IN found

\* FindPre: predecessors on all levels, and the levels on which k is behind its predecessor
LiteFindPre(k) == PreFrom(MaxHeight - 1, k)
HasAt(k, l) == next[LiteFindPre(k)[l]][l] # TailNode /\ key[next[LiteFindPre(k)[l]][l]] = k
LiteContains(k) == \E l \in Levels : HasAt(k, l)

\* Insert, with the height RandomLevel returned: the search begins at the node's own top level
LiteInsert(k, h) ==
    /\ pc = "open" /\ nodes < MaxNodes /\ nodes' = nodes + 1
    /\ key' = [key EXCEPT ![nodes + 1] = k] /\ height' = [height EXCEPT ![nodes + 1] = h] /\ alive' = alive \cup {nodes + 1}
    /\ LET before == PreFrom(h - 1, k)
       IN  next' = [n \in 0 .. TailNode |-> [l \in Levels |->
                        CASE l < h /\ n = nodes + 1 -> next[before[l]][l]
                          [] l < h /\ n # nodes + 1 /\ n = before[l] -> nodes + 1
                          [] OTHER -> next[n][l]]]
    /\ UNCHANGED pc

\* Remove: after the unlinking, what is behind the predecessor is the SUCCESSOR of the node, and that is
\* what is deleted (skiplist_lite.cpp:115): a node still linked, or tail_
LiteRemove(k) ==
    /\ pc = "open" /\ LiteContains(k)
    /\ LET before == LiteFindPre(k)
           top == CHOOSE l \in Levels : HasAt(k, l) /\ \A m \in Levels : HasAt(k, m) => m <= l
       IN  /\ next' = [n \in 0 .. TailNode |-> [l \in Levels |-> IF l <= top /\ n = before[l] THEN next[next[n][l]][l] ELSE next[n][l]]]
           /\ alive' = alive \ {next[next[before[0]][0]][0]}
    /\ pc' = "corrupt" /\ UNCHANGED <<key, height, nodes>>

Elements(s) == {s[i] : i \in DOMAIN s}

Chain(l) ==
    LET from[i \in 0 .. MaxNodes] == IF i = 0 THEN <<0>> ELSE
            LET s == from[i - 1] IN IF next[s[Len(s)]][l] = TailNode THEN s ELSE Append(s, next[s[Len(s)]][l])
    IN Tail(from[MaxNodes])

\* ~SkipList deletes level 0 node by node
Destroy ==
    /\ pc = "open" /\ pc' = "destroyed" /\ alive' = alive \ ({0, TailNode} \cup Elements(Chain(0)))
    /\ UNCHANGED <<key, height, next, nodes>>

LiteNext == Destroy \/ \E k \in Keys : LiteRemove(k) \/ \E h \in 1 .. MaxHeight : LiteInsert(k, h)

-----------------------------------------------------------------------------
\* On every level the keys ascend, and are those of the nodes that reach it: also where a key is there
\* several times, with different heights
LevelsSorted ==
    pc = "open" => \A l \in Levels :
        /\ Elements(Chain(l)) = {n \in 1 .. nodes : height[n] > l}
        /\ \A i \in 1 .. Len(Chain(l)) - 1 : key[Chain(l)[i]] <= key[Chain(l)[i + 1]]

\* The destructor leaves nothing allocated
AllDeleted == pc = "destroyed" => alive = {}
-----------------------------------------------------------------------------
(***************************************************************************)
(* LRUCache of ComponentsW/cache.leveldb, one shard of ShardedLRUCache:    *)
(* entries with reference counts on two lists, lru_ (in the cache and used *)
(* by nobody) and in_use_.  Every operation holds mutex_, so it is one     *)
(* step.  table_ is a map, as HandleTable shows.  An entry is the number   *)
(* of the Insert that made it.                                             *)
(***************************************************************************)

CONSTANTS CacheKeys, Charges, Capacities, CacheMaxInserts, MaxHeld

VARIABLES e,        \* per entry: key, charge, refs, in_cache, and whether it has been freed
          lru_, in_use_,
          table_,   \* per key: the entry, 0 if there is none
          usage_, capacity_,
          held      \* per entry: handles the clients have not released

cacheVars == <<e, lru_, in_use_, table_, usage_, capacity_, held>>

Entries == DOMAIN e

\* The whole of the cache, for operations that consist of several steps
State == [e |-> e, lru |-> lru_, use |-> in_use_, table |-> table_, usage |-> usage_]

Becomes(s) == e' = s.e /\ lru_' = s.lru /\ in_use_' = s.use /\ table_' = s.table /\ usage_' = s.usage

LRU_Remove(s, x) == [s EXCEPT !.lru = Remove(@, x), !.use = Remove(@, x)]

Ref(s, x) ==
    LET moved == IF s.e[x].refs = 1 /\ s.e[x].in_cache
                 THEN [s EXCEPT !.lru = Remove(@, x), !.use = Append(@, x)] ELSE s IN
    [moved EXCEPT !.e[x].refs = @ + 1]

\* The last reference frees the entry, the last one of a client's makes it the newest of lru_
Unref(s, x) ==
    LET less == [s EXCEPT !.e[x].refs = @ - 1] IN
    IF less.e[x].refs = 0 THEN [less EXCEPT !.e[x].freed = TRUE]
    ELSE IF less.e[x].in_cache /\ less.e[x].refs = 1 THEN [LRU_Remove(less, x) EXCEPT !.lru = Append(@, x)]
    ELSE less

\* x has been taken out of table_, or is 0
FinishErase(s, x) ==
    IF x = 0 THEN s
    ELSE Unref([LRU_Remove(s, x) EXCEPT !.e[x].in_cache = FALSE, !.usage = @ - s.e[x].charge], x)

RemoveKey(s, k) == FinishErase([s EXCEPT !.table[k] = 0], s.table[k])

\* How many of the oldest entries have to go
Excess(s) ==
    LET fits == {n \in 0 .. Len(s.lru) :
                    s.usage - MapThenSumSet(LAMBDA i : s.e[s.lru[i]].charge, 1 .. n) <= capacity_} IN
    IF fits = {} THEN Len(s.lru) ELSE Min(fits)

\* while (usage_ > capacity_ && lru_.next != &lru_): the oldest goes
Evict(s) == FoldLeft(LAMBDA t, x : RemoveKey(t, t.e[x].key), s, SubSeq(s.lru, 1, Excess(s)))

CacheInit == /\ e = <<>> /\ lru_ = <<>> /\ in_use_ = <<>> /\ table_ = [k \in CacheKeys |-> 0] /\ usage_ = 0
             /\ capacity_ \in Capacities /\ held = <<>>

\* The new entry is given to the caller; with a capacity of 0 the cache does not keep it
CacheInsert(k, charge) ==
    LET x == Len(e) + 1
        new == [key |-> k, charge |-> charge, refs |-> 1, in_cache |-> FALSE, freed |-> FALSE]
        made == [State EXCEPT !.e = Append(@, new)]
        added == [made EXCEPT !.e[x].refs = 2, !.e[x].in_cache = TRUE, !.use = Append(@, x),
                              !.usage = @ + charge, !.table[k] = x] IN
    /\ Len(e) < CacheMaxInserts
    /\ Becomes(Evict(IF capacity_ > 0 THEN FinishErase(added, table_[k]) ELSE made))
    /\ held' = Append(held, 1) /\ UNCHANGED capacity_

CacheLookup(k) == /\ table_[k] # 0 /\ held[table_[k]] < MaxHeld /\ Becomes(Ref(State, table_[k]))
                  /\ held' = [held EXCEPT ![table_[k]] = @ + 1] /\ UNCHANGED capacity_

Release(x) == /\ held[x] > 0 /\ Becomes(Unref(State, x))
              /\ held' = [held EXCEPT ![x] = @ - 1] /\ UNCHANGED capacity_

Erase(k) == Becomes(RemoveKey(State, k)) /\ UNCHANGED <<held, capacity_>>

Prune == /\ Becomes(FoldLeft(LAMBDA t, x : RemoveKey(t, t.e[x].key), State, lru_))
         /\ UNCHANGED <<held, capacity_>>

CacheNext == \/ \E k \in CacheKeys : (\E c \in Charges : CacheInsert(k, c)) \/ CacheLookup(k) \/ Erase(k)
             \/ (\E x \in Entries : Release(x)) \/ Prune

CacheSpec == CacheInit /\ [][CacheNext]_cacheVars

-----------------------------------------------------------------------------
Cached == {x \in Entries : e[x].in_cache}

\* The references of an entry are those of its clients and, while it is in the cache, the
\* cache's own; an entry is freed when there is none, so no client holds a freed one - though
\* Insert, Erase and an eviction may take it out of the cache under the client.
ReferencesExact ==
    \A x \in Entries : /\ e[x].refs = held[x] + (IF e[x].in_cache THEN 1 ELSE 0)
                       /\ e[x].freed = (e[x].refs = 0)

\* Entries in the cache are those of table_, each on one list and once: on lru_ if nobody uses
\* it, on in_use_ otherwise; usage_ is what they are charged for.
ListsMatchTable ==
    /\ Cached = {table_[k] : k \in CacheKeys} \ {0}
    /\ ToSet(lru_) = {x \in Cached : held[x] = 0} /\ ToSet(in_use_) = Cached \ ToSet(lru_)
    /\ Len(lru_) + Len(in_use_) = Cardinality(Cached)
    /\ usage_ = MapThenSumSet(LAMBDA x : e[x].charge, Cached)

-----------------------------------------------------------------------------
(***************************************************************************)
(* HandleTable of ComponentsW/cache.leveldb: a hash table of chained       *)
(* handles that doubles its buckets when it holds more handles than        *)
(* buckets.  A handle is a pair of its key and the number of its Insert;   *)
(* a bucket is the sequence of the handles linked by next_hash.            *)
(***************************************************************************)

CONSTANTS TableKeys,    \* numbers
          Hash(_),      \* of a key
          Start,        \* the least number of buckets: 4
          TableMaxInserts

VARIABLES list_,    \* buckets, indexed from 0
          elems_,
          map,      \* what the callers expect: the handle of each key
          serial    \* inserts so far

tableVars == <<list_, elems_, map, serial>>

Null == <<>>
length_ == Cardinality(DOMAIN list_)
Empty(n) == [i \in 0 .. n - 1 |-> <<>>]

\* hash & (length - 1), the length being a power of two
Bucket(x, n) == Hash(x) % n

\* Where FindPointer stops in the chain of the key's bucket: at its handle, or behind the last
FindPointer(x) ==
    LET chain == list_[Bucket(x, length_)] IN
    IF \E i \in DOMAIN chain : chain[i][1] = x
    THEN CHOOSE i \in DOMAIN chain : chain[i][1] = x /\ \A j \in 1 .. i - 1 : chain[j][1] # x
    ELSE Len(chain) + 1

TableLookup(x) ==
    LET chain == list_[Bucket(x, length_)] i == FindPointer(x) IN IF i > Len(chain) THEN Null ELSE chain[i]

NewLength[n \in Nat, elems \in Nat] == IF n < elems THEN NewLength[2 * n, elems] ELSE n

Pushed(list, h) == LET b == Bucket(h[1], Cardinality(DOMAIN list)) IN [list EXCEPT ![b] = <<h>> \o @]

\* Bucket after bucket, each handle is pushed to the front of its new bucket
Resize(list, elems) ==
    LET n == Cardinality(DOMAIN list)
        all == FlattenSeq([i \in 1 .. n |-> list[i - 1]]) IN
    FoldLeft(Pushed, Empty(NewLength[Start, elems]), all)

TableInit == list_ = Resize(Empty(0), 0) /\ elems_ = 0 /\ map = [k \in TableKeys |-> Null] /\ serial = 0

\* The new handle takes the place of the old one of its key, or goes to the end of the chain
TableInsert(x) ==
    LET h == <<x, serial + 1>> b == Bucket(x, length_) i == FindPointer(x)
        old == TableLookup(x)
        put == [list_ EXCEPT ![b] = IF old = Null THEN Append(@, h) ELSE [@ EXCEPT ![i] = h]] IN
    /\ serial < TableMaxInserts /\ serial' = serial + 1
    /\ map' = [map EXCEPT ![x] = h]
    /\ elems_' = IF old = Null THEN elems_ + 1 ELSE elems_
    /\ list_' = IF elems_' > elems_ /\ elems_' > length_ THEN Resize(put, elems_') ELSE put

RemoveHandle(x) ==
    LET b == Bucket(x, length_) IN
    /\ map' = [map EXCEPT ![x] = Null] /\ UNCHANGED serial
    /\ IF TableLookup(x) = Null THEN UNCHANGED <<list_, elems_>>
       ELSE list_' = [list_ EXCEPT ![b] = RemoveAt(@, FindPointer(x))] /\ elems_' = elems_ - 1

TableNext == \E k \in TableKeys : TableInsert(k) \/ RemoveHandle(k)

TableSpec == TableInit /\ [][TableNext]_tableVars

-----------------------------------------------------------------------------
\* The table is the map its callers expect, before and after it has grown and although keys
\* share buckets: a lookup finds the last handle inserted for the key and not removed since,
\* no other handle is left in it, and elems_ counts them.
TableIsMap ==
    /\ \A k \in TableKeys : TableLookup(k) = map[k]
    /\ elems_ = Cardinality({k \in TableKeys : map[k] # Null})
    /\ \A b \in DOMAIN list_ : \A i \in DOMAIN list_[b] : list_[b][i] = map[list_[b][i][1]]
-----------------------------------------------------------------------------
(***************************************************************************)
(* The arena of ComponentsW/common/arena.cpp: memory is cut from the front *)
(* of the newest block, large requests get a block of their own, and all   *)
(* is freed at the end.  Addresses are offsets in a block; new char[]      *)
(* returns aligned memory.  memcached_slab/leveldb_arena.cpp holds the     *)
(* same code for C++11 atomics.                                            *)
(***************************************************************************)

CONSTANTS BlockSize, Align, Requests, MaxAllocs

VARIABLES blocks_,                  \* the sizes of the blocks
          block, alloc_ptr_,        \* the block in use, and the offset in it
          remaining,                \* alloc_bytes_remaining_
          memory_usage_,
          given                     \* what was handed out: [block, at, bytes, aligned]

memVars == <<blocks_, block, alloc_ptr_, remaining, memory_usage_, given>>

Header == 1     \* sizeof(char*), counted for each block

MemInit == blocks_ = <<>> /\ block = 0 /\ alloc_ptr_ = 0 /\ remaining = 0 /\ memory_usage_ = 0 /\ given = {}

Give(b, at, bytes, aligned) == given' = given \cup {[block |-> b, at |-> at, bytes |-> bytes, aligned |-> aligned]}

AllocateNewBlock(bytes) == blocks_' = Append(blocks_, bytes) /\ memory_usage_' = memory_usage_ + bytes + Header

\* A large request leaves the block in use as it is; any other drops what remains of it
AllocateFallback(bytes, aligned) ==
    IF bytes > BlockSize \div 4
    THEN AllocateNewBlock(bytes) /\ Give(Len(blocks_) + 1, 0, bytes, aligned) /\ UNCHANGED <<block, alloc_ptr_, remaining>>
    ELSE /\ AllocateNewBlock(BlockSize) /\ Give(Len(blocks_) + 1, 0, bytes, aligned)
         /\ block' = Len(blocks_) + 1 /\ alloc_ptr_' = bytes /\ remaining' = BlockSize - bytes

Allocate(bytes) ==
    /\ Cardinality(given) < MaxAllocs
    /\ IF remaining >= bytes
       THEN /\ Give(block, alloc_ptr_, bytes, FALSE) /\ alloc_ptr_' = alloc_ptr_ + bytes /\ remaining' = remaining - bytes
            /\ UNCHANGED <<blocks_, block, memory_usage_>>
       ELSE AllocateFallback(bytes, FALSE)

SlopFits(bytes, slop) == bytes + slop <= remaining

Slop == IF alloc_ptr_ % Align = 0 THEN 0 ELSE Align - (alloc_ptr_ % Align)

AllocateAligned(bytes) ==
    /\ Cardinality(given) < MaxAllocs
    /\ IF SlopFits(bytes, Slop)
       THEN /\ Give(block, alloc_ptr_ + Slop, bytes, TRUE)
            /\ alloc_ptr_' = alloc_ptr_ + bytes + Slop /\ remaining' = remaining - (bytes + Slop)
            /\ UNCHANGED <<blocks_, block, memory_usage_>>
       ELSE AllocateFallback(bytes, TRUE)

MemNext == \E bytes \in Requests : Allocate(bytes) \/ AllocateAligned(bytes)

-----------------------------------------------------------------------------
Cells(g) == {<<g.block, i>> : i \in g.at .. g.at + g.bytes - 1}

\* Every region lies in its block and no two share a byte, whatever mix of plain, aligned and large
\* requests came before
RegionsApart ==
    /\ \A g \in given : g.at + g.bytes <= blocks_[g.block]
    /\ \A g, h \in given : g # h => Cells(g) \cap Cells(h) = {}

\* What AllocateAligned returns is aligned, also behind odd requests and at the start of a block
ResultsAligned == \A g \in given : g.aligned => g.at % Align = 0
=============================================================================
