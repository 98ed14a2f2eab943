--------------------------- MODULE ClusterRouting ---------------------------
(***************************************************************************)
(* RedisClient in CLUSTER_MODE (gb/downdatarestorer_norah/redisclient.cpp):*)
(* the maps from slots to nodes and from nodes to connection pools, the    *)
(* write commands that read them and follow MOVED replies                  *)
(* (doRedisCommandCluster), and the thread that refreshes them on a signal *)
(* (CheckClusterNodesThreadFunc).  A command copies a pool's pointer under *)
(* the map's lock and uses it after the unlock; the thread deletes pools   *)
(* of nodes that left.                                                     *)
(***************************************************************************)
EXTENDS Integers, FiniteSets

CONSTANTS NumNodes, Slots, Threads,
          MaxChanges,       \* changes of the cluster's topology
          MaxPools,         \* pools that are created
          MaxCommands,      \* commands per thread
          Disagree,         \* TRUE: a node may redirect to any other, also in circles
          Failures          \* subset of {"fetch", "connect"}

RoutingAssumption ==
    /\ NumNodes \in Nat \ {0} /\ MaxChanges \in Nat /\ MaxPools \in Nat /\ MaxPools >= NumNodes
    /\ MaxCommands \in Nat /\ Disagree \in BOOLEAN /\ Failures \subseteq {"fetch", "connect"}

Nodes == 1 .. NumNodes      \* in the order of the map's keys
NoNode == 0
NoPool == 0

VARIABLES members, owner, version,      \* the Redis cluster
          slotMap, clusterMap, unused,  \* m_slotMap, m_clusterMap, m_unusedHandlers
          live, npools,                 \* pools that exist, pools created
          signal,                       \* m_signalQueue is not empty
          rstate, got,                     \* the refresh thread, and what it fetched
          seen, saved,                  \* versions: at the last MOVED reply, of the maps
          failed,                       \* how refreshes have failed so far
          pc, cmd                       \* the commands

cluster == <<members, owner, version>>
maps == <<slotMap, clusterMap, unused, live, npools>>
refresher == <<rstate, got, saved, failed>>
threads == <<pc, cmd>>
vars == <<cluster, maps, signal, refresher, seen, threads>>

NoCmd == [slot |-> CHOOSE s \in Slots : TRUE, node |-> NoNode, pool |-> NoPool, redirects |-> {}, left |-> MaxCommands]
View == [members |-> members, owner |-> owner, version |-> version]

Init ==
    /\ members \in {m \in SUBSET Nodes : 1 \in m} /\ owner \in [Slots -> members] /\ version = 0
    /\ slotMap = owner /\ clusterMap = [n \in Nodes |-> IF n \in members THEN n ELSE NoPool]
    /\ unused = [n \in Nodes |-> NoPool] /\ live = members /\ npools = NumNodes
    /\ signal = FALSE /\ rstate = "wait" /\ got = View /\ seen = 0 /\ saved = 0 /\ failed = {}
    /\ pc = [t \in Threads |-> "idle"] /\ cmd = [t \in Threads |-> NoCmd]

-----------------------------------------------------------------------------
(* The cluster *)

Change == version < MaxChanges /\ version' = version + 1 /\ UNCHANGED <<maps, signal, refresher, seen, threads>>
MoveSlot(s, n) == Change /\ n \in members \ {owner[s]} /\ owner' = [owner EXCEPT ![s] = n] /\ UNCHANGED members
Join(n) == Change /\ n \notin members /\ members' = members \cup {n} /\ UNCHANGED owner
Leave(n) == Change /\ n \in members /\ (\A s \in Slots : owner[s] # n) /\ members' = members \ {n} /\ UNCHANGED owner

-----------------------------------------------------------------------------
(* doRedisCommandCluster *)

End(t) == pc' = [pc EXCEPT ![t] = "idle"] /\ cmd' = [cmd EXCEPT ![t].node = NoNode, ![t].pool = NoPool, ![t].redirects = {}]

\* getClusterIdBySlot: a slot that is not in the map fails the command
Begin(t, s) ==
    /\ pc[t] = "idle" /\ cmd[t].left > 0
    /\ cmd' = [cmd EXCEPT ![t].slot = s, ![t].node = slotMap[s], ![t].redirects = {}, ![t].left = @ - 1]
    /\ pc' = [pc EXCEPT ![t] = IF slotMap[s] = NoNode THEN "idle" ELSE "routed"]
    /\ UNCHANGED <<cluster, maps, signal, refresher, seen>>

\* getRedisClusterInfo copies the pointer under the lock
GetClusterInfo(t) ==
    /\ pc[t] = "routed"
    /\ LET p == clusterMap[cmd[t].node]
       IN  IF p = NoPool THEN End(t)
           ELSE pc' = [pc EXCEPT ![t] = "copied"] /\ cmd' = [cmd EXCEPT ![t].pool = p]
    /\ UNCHANGED <<cluster, maps, signal, refresher, seen>>

\* getAvailableConnection of that pool
GetConnection(t) ==
    /\ pc[t] = "copied" /\ pc' = [pc EXCEPT ![t] = "inuse"]
    /\ UNCHANGED <<cluster, maps, signal, refresher, seen, cmd>>

\* The command succeeds, or fails: a write is not sent to another node
Answer(t) == pc[t] = "inuse" /\ End(t) /\ UNCHANGED <<cluster, maps, signal, refresher, seen>>

\* Wrong on purpose: follows the redirect without a signal to the refresh thread
MovedNoSignal(t, n) ==
    /\ pc[t] = "inuse" /\ n # cmd[t].node
    /\ n = owner[cmd[t].slot] \/ Disagree
    /\ seen' = version
    /\ IF n \in cmd[t].redirects THEN End(t)
       ELSE /\ pc' = [pc EXCEPT ![t] = "routed"]
            /\ cmd' = [cmd EXCEPT ![t].node = n, ![t].pool = NoPool, ![t].redirects = @ \cup {n}]
    /\ UNCHANGED <<cluster, maps, signal, refresher>>

\* MOVED: signal the refresh thread, and go on at that node unless it was tried before
Moved(t, n) ==
    /\ pc[t] = "inuse" /\ n # cmd[t].node
    /\ n = owner[cmd[t].slot] \/ Disagree
    /\ signal' = TRUE /\ seen' = version
    /\ IF n \in cmd[t].redirects THEN End(t)
       ELSE /\ pc' = [pc EXCEPT ![t] = "routed"]
            /\ cmd' = [cmd EXCEPT ![t].node = n, ![t].pool = NoPool, ![t].redirects = @ \cup {n}]
    /\ UNCHANGED <<cluster, maps, refresher>>

-----------------------------------------------------------------------------
(* CheckClusterNodesThreadFunc and DoCheckClusterNodes *)

Wake == /\ rstate = "wait" /\ signal /\ signal' = FALSE /\ rstate' = "release"
        /\ UNCHANGED <<cluster, maps, got, saved, failed, seen, threads>>

\* Wrong on purpose: takes every pool for idle
checkIfCanFreeAlways(p) == TRUE

checkIfCanFree(p) == \A t \in Threads : ~(pc[t] = "inuse" /\ cmd[t].pool = p)

releaseUnusedClusterHandler ==
    /\ rstate = "release" /\ rstate' = "fetch"
    /\ LET free == {n \in Nodes : unused[n] # NoPool /\ checkIfCanFree(unused[n])}
       IN  /\ live' = live \ {unused[n] : n \in free}
           /\ unused' = [n \in Nodes |-> IF n \in free THEN NoPool ELSE unused[n]]
    /\ UNCHANGED <<cluster, slotMap, clusterMap, npools, signal, got, saved, failed, seen, threads>>

\* getRedisClustersByCommand
Fetch ==
    /\ rstate = "fetch" /\ rstate' = "save" /\ got' = View
    /\ UNCHANGED <<cluster, maps, signal, saved, failed, seen, threads>>

FetchFails ==
    /\ rstate = "fetch" /\ "fetch" \in Failures /\ rstate' = "wait" /\ failed' = failed \cup {"fetch"}
    /\ UNCHANGED <<cluster, maps, signal, got, saved, seen, threads>>

Pooled == {n \in Nodes : clusterMap[n] # NoPool}
New == got.members \ Pooled
Gone == Pooled \ got.members
PoolOf(n) == npools + Cardinality({m \in New : m <= n})

\* Nothing changed: the maps stay
NoChange ==
    /\ rstate = "save" /\ got.members = Pooled /\ got.owner = slotMap
    /\ rstate' = "wait" /\ saved' = got.version
    /\ UNCHANGED <<cluster, maps, signal, got, failed, seen, threads>>

\* checkAndSaveRedisClusters: the pools of known nodes are kept, those of nodes that left
\* wait in m_unusedHandlers (one per node: an earlier one is forgotten)
Save ==
    /\ rstate = "save" /\ (got.members # Pooled \/ got.owner # slotMap)
    /\ npools + Cardinality(New) <= MaxPools /\ npools' = npools + Cardinality(New)
    /\ slotMap' = got.owner
    /\ clusterMap' = [n \in Nodes |-> IF n \in New THEN PoolOf(n) ELSE IF n \in Gone THEN NoPool ELSE clusterMap[n]]
    /\ live' = live \cup {PoolOf(n) : n \in New}
    /\ unused' = [n \in Nodes |-> IF n \in Gone THEN clusterMap[n] ELSE unused[n]]
    /\ rstate' = "wait" /\ saved' = got.version
    /\ UNCHANGED <<cluster, signal, got, failed, seen, threads>>

\* The pool of a new node cannot be connected: return at once.  m_slotMap was cleared,
\* and only the slots of the nodes before it are back.
SaveFails(f) ==
    /\ rstate = "save" /\ "connect" \in Failures /\ f \in New
    /\ LET added == {n \in New : n < f}
       IN  /\ npools + Cardinality(added) <= MaxPools /\ npools' = npools + Cardinality(added)
           /\ clusterMap' = [n \in Nodes |-> IF n \in added THEN PoolOf(n) ELSE clusterMap[n]]
           /\ live' = live \cup {PoolOf(n) : n \in added}
    /\ slotMap' = [s \in Slots |-> IF got.owner[s] < f THEN got.owner[s] ELSE NoNode]
    /\ rstate' = "wait" /\ failed' = failed \cup {"connect"}
    /\ UNCHANGED <<cluster, unused, signal, got, saved, seen, threads>>

Refresh == Wake \/ releaseUnusedClusterHandler \/ Fetch \/ FetchFails \/ NoChange \/ Save
           \/ \E f \in Nodes : SaveFails(f)

Step(t) == GetClusterInfo(t) \/ GetConnection(t) \/ Answer(t) \/ \E n \in Nodes : Moved(t, n)

Next == \/ \E n \in Nodes : Join(n) \/ Leave(n) \/ \E s \in Slots : MoveSlot(s, n)
        \/ \E t \in Threads : Step(t) \/ \E s \in Slots : Begin(t, s)
        \/ Refresh

Spec == Init /\ [][Next]_vars

\* The threads run: a command that has begun goes on, and so does a refresh
FairSpec == Spec /\ WF_vars(Refresh) /\ \A t \in Threads : WF_vars(Step(t))

-----------------------------------------------------------------------------
TypeOK ==
    /\ members \subseteq Nodes /\ owner \in [Slots -> members] /\ slotMap \in [Slots -> Nodes \cup {NoNode}]
    /\ clusterMap \in [Nodes -> 0 .. MaxPools] /\ live \subseteq 1 .. MaxPools
    /\ {clusterMap[n] : n \in Pooled} \subseteq live

KeepsConnections == \A t \in Threads : pc[t] = "inuse" /\ cmd[t].pool \in live => cmd[t].pool \in live'

\* A pool one of whose connections is in use is not deleted: releaseUnusedClusterHandler
\* asks checkIfCanFree.
ConnectionsKept == [][KeepsConnections]_vars

\* Every command returns, even if the nodes redirect it in circles: it goes to no node twice
\* by redirect.
CommandReturns == \A t \in Threads : (pc[t] # "idle") ~> (pc[t] = "idle")

\* After a MOVED reply the maps are refreshed with a state of the cluster that is at least
\* as new as the reply, whatever the refresh thread was doing when the signal came, unless
\* a refresh fails: a failed refresh is not repeated.
RefreshFollows == \A v \in 1 .. MaxChanges : (seen = v) ~> (saved >= v \/ failed # {})

\* Every slot is routed to some node.
SlotsAlwaysMapped == \A s \in Slots : slotMap[s] # NoNode

\* Every slot is routed to some node unless the connect to a new node failed.
SlotsMapped == "connect" \notin failed => SlotsAlwaysMapped
=============================================================================
