---------------------------- MODULE LinkerPools -----------------------------
(***************************************************************************)
(* The connection pools of the Redis client of gb_down_linker              *)
(* (redis_client/rediscluster.cpp, redisclient.cpp): the pool and its      *)
(* users, the pools of a cluster while its nodes come and go, and the      *)
(* lives of all pools. The code is that of downdatarestorer_norah but for  *)
(* log calls and what the sections say.                                    *)
(***************************************************************************)
EXTENDS Integers, Sequences, FiniteSets

CONSTANTS Threads, Addrs, Num, ReleaseTime, MaxTime, Incidents, MaxIncidents

VARIABLES clock, live, conn, slots, tmp, pc, mine, start, closed, met

CONSTANTS NumNodes, Slots, MaxChanges, MaxPools, MaxCommands, Disagree, Failures

VARIABLES members, owner, version, slotMap, clusterMap, unused, alive, npools, signal, rstate, got, seen, saved,
          failed, cpc, cmd

CONSTANTS LifeNum, MaxInits, MaxStale

VARIABLES pools, phase, master, leaked, hurt, inits, freed, partial, gaveUp

pool == INSTANCE RedisPool
routing == INSTANCE ClusterRouting WITH live <- alive, pc <- cpc
life == INSTANCE PoolLife WITH Num <- LifeNum

-----------------------------------------------------------------------------
(***************************************************************************)
(* The connection pool of gb_down_linker (redis_client/rediscluster.cpp)   *)
(* and its use by single commands and transactions: the code of            *)
(* downdatarestorer_norah.  The linker's RedisClient has no optimistic     *)
(* locks; its only caller of doRedisCommandOneConnection is a transaction, *)
(* which brings its connection along.                                      *)
(***************************************************************************)

PoolInit == pool!Init

releaseConnection(a) == pool!Release(a)

TakeAvailable(t, state) == pool!TakeAvailable(t, state)
Steal(t, state) == pool!Steal(t, state)
StealFails(t, state) == pool!StealFails(t, state)
NoneAvailable(t, state) == pool!NoneAvailable(t, state)

getAvailableConnection(t, state, otherwise) ==
    TakeAvailable(t, state) \/ Steal(t, state) \/ StealFails(t, otherwise) \/ NoneAvailable(t, otherwise)

BeginCommand(t) ==
    ~closed /\ pc[t] = "idle" /\ getAvailableConnection(t, "command", "once") /\ UNCHANGED <<clock, closed>>
EndCommand(t) ==
    /\ pc[t] = "command" /\ releaseConnection(mine[t]) /\ pool!Becomes(t, "idle", pool!Null)
    /\ UNCHANGED <<clock, start, closed, met>>
OnceConnect(t) == pool!OnceConnect(t)
OnceDone(t) == pool!OnceDone(t)

PrepareTransaction(t) ==
    ~closed /\ pc[t] = "idle" /\ getAvailableConnection(t, "pinning", "idle") /\ UNCHANGED <<clock, closed>>
SetCanRelease(t) == pool!SetCanRelease(t)
FinishTransaction(t) ==
    /\ pc[t] = "transaction" /\ releaseConnection(mine[t]) /\ pool!Becomes(t, "idle", pool!Null)
    /\ UNCHANGED <<clock, start, closed, met>>

freeConnectPool == pool!FreePool

PoolNext ==
    \/ pool!Tick \/ freeConnectPool
    \/ \E t \in Threads :
          \/ BeginCommand(t) \/ EndCommand(t) \/ OnceConnect(t) \/ OnceDone(t)
          \/ PrepareTransaction(t) \/ SetCanRelease(t) \/ FinishTransaction(t)

-----------------------------------------------------------------------------
\* A thread that works on a connection works on an object that exists, however long
\* transactions take; a command that takes as long as the pool waits is the exception.
HolderLive == pool!HolderLive
-----------------------------------------------------------------------------
(***************************************************************************)
(* RedisClient of gb_down_linker in CLUSTER_MODE                           *)
(* (redis_client/redisclient.cpp, redisclient.h): the maps, the write      *)
(* commands that follow MOVED, and CheckClusterNodesThreadFunc, as in      *)
(* downdatarestorer_norah.                                                 *)
(***************************************************************************)

Nodes == 1 .. NumNodes

RoutingInit == routing!Init
Begin(t, s) == routing!Begin(t, s)
GetClusterInfo(t) == routing!GetClusterInfo(t)
GetConnection(t) == routing!GetConnection(t)
Answer(t) == routing!Answer(t)
Moved(t, n) == routing!Moved(t, n)
Wake == routing!Wake

checkIfCanFree(p) == routing!checkIfCanFree(p)

releaseUnusedClusterHandler ==
    /\ rstate = "release" /\ rstate' = "fetch"
    /\ LET free == {n \in Nodes : unused[n] # 0 /\ checkIfCanFree(unused[n])}
       IN  /\ alive' = alive \ {unused[n] : n \in free}
           /\ unused' = [n \in Nodes |-> IF n \in free THEN 0 ELSE unused[n]]
    /\ UNCHANGED <<members, owner, version, slotMap, clusterMap, npools, signal, got, seen, saved, failed, cpc, cmd>>

Fetch == routing!Fetch
FetchFails == routing!FetchFails
NoChange == routing!NoChange
Save == routing!Save
SaveFails(f) == routing!SaveFails(f)

RoutingNext ==
    \/ \E n \in Nodes : routing!Join(n) \/ routing!Leave(n) \/ \E s \in Slots : routing!MoveSlot(s, n)
    \/ \E t \in Threads : GetClusterInfo(t) \/ GetConnection(t) \/ Answer(t) \/ \E n \in Nodes : Moved(t, n)
    \/ \E t \in Threads, s \in Slots : Begin(t, s)
    \/ Wake \/ releaseUnusedClusterHandler \/ Fetch \/ FetchFails \/ NoChange \/ Save
    \/ \E f \in Nodes : SaveFails(f)

-----------------------------------------------------------------------------
\* Every node of m_clusterMap has a pool that exists, also after a refresh that failed
\* half way and while pools of nodes that left are deleted.
MappedPoolsExist == \A n \in Nodes : clusterMap[n] # 0 => clusterMap[n] \in alive
-----------------------------------------------------------------------------
(***************************************************************************)
(* The pools of the client of gb_down_linker (redis_client/redisclient.cpp *)
(* and rediscluster.cpp) in stand-alone and in cluster mode: the functions *)
(* of downdatarestorer_norah with other log calls.  Sentinel mode is left  *)
(* out: initMasterSlaves indexes m_dataNodes with a member of the very     *)
(* reference that it initialises.                                          *)
(***************************************************************************)

LifeInit == life!Init
initRedisProxy(k) == life!initRedisProxy(k)
initRedisCluster(k1, k2, thread) == life!initRedisCluster(k1, k2, thread)
doRedisCommand(o) == life!doRedisCommand(o)
freeRedisProxy == life!freeRedisProxy
freeRedisCluster == life!freeRedisCluster
freeRedisClient ==
    /\ \/ phase = "proxy" /\ freeRedisProxy
       \/ phase = "cluster" /\ freeRedisCluster
    /\ phase' = "none" /\ freed' = TRUE
    /\ UNCHANGED <<master, inits, partial, gaveUp>>

LifeNext ==
    \/ \E k \in 0..LifeNum : initRedisProxy(k)
    \/ \E k1, k2 \in 0..LifeNum, thread \in BOOLEAN : initRedisCluster(k1, k2, thread)
    \/ \E o \in life!Owners : doRedisCommand(o)
    \/ freeRedisClient

-----------------------------------------------------------------------------
\* After freeRedisClient no connection is left (redis_client/redisclient.cpp:77, 1051, 1065)
AllFreed == life!AllFreed
=============================================================================
