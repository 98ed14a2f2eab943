------------------------------- MODULE PoolLife -------------------------------
(***************************************************************************)
(* The life of a client's connection pools (gb/downdatarestorer_norah,     *)
(* redisclient.cpp and rediscluster.cpp): init creates a pool for the      *)
(* proxy, for each cluster node, or for each sentinel and data node; what  *)
(* happens to the pools when one of several connects fails; and            *)
(* freeRedisClient.  Any number of the connects of a pool may succeed      *)
(* before one fails.  RedisPool takes over where initConnectPool has       *)
(* succeeded.                                                              *)
(***************************************************************************)
EXTENDS Integers, FiniteSetsExt

CONSTANTS Num,             \* m_connectionNum, and the connections to a sentinel
          MaxInits,
          MaxStale         \* bounds the retries of a pool that keeps failing half way

Nodes == {"n1", "n2"}      \* m_clusterMap, in its order
Sentinels == {"s1", "s2"}  \* m_sentinelHandlers
DataNodes == {"m", "r"}    \* m_dataNodes: the master and a slave
Owners == {"proxy"} \cup Nodes \cup Sentinels \cup DataNodes

VARIABLES pools,           \* of each owner: made (clusterHandler # NULL), live and stale (deleted) connections in its list, alive
          phase,           \* "none", "sentinels" (initSentinels has returned), or the mode that m_connected is about
          master,          \* m_masterClusterId
          leaked,          \* connections that no pool has any more
          hurt,            \* a deleted connection was used or deleted again
          inits, freed,    \* freed: the last call of freeRedisClient or init was a freeRedisClient that returned true
          partial,         \* a pool that is kept failed after its first connection
          gaveUp           \* init returned false when some of its pools were up

vars == <<pools, phase, master, leaked, hurt, inits, freed, partial, gaveUp>>

NoPool == [made |-> FALSE, live |-> 0, stale |-> 0, alive |-> FALSE]
NewPool == [NoPool EXCEPT !.made = TRUE]

Init ==
    /\ pools = [o \in Owners |-> NoPool] /\ phase = "none" /\ master = "m" /\ leaked = 0 /\ hurt = FALSE
    /\ inits = 0 /\ freed = FALSE /\ partial = FALSE /\ gaveUp = FALSE

-----------------------------------------------------------------------------
(* RedisCluster: the pool p after k of the connects succeeded; k = Num when all did *)

\* What it has put into m_connections stays there when CLEAR deletes it
initConnectPool(p, k) == IF k = Num THEN [p EXCEPT !.live = @ + Num] ELSE [p EXCEPT !.live = 0, !.stale = @ + p.live + k]
ClearHurts(p, k) == k < Num /\ p.stale > 0

freeConnectPool(p) == [p EXCEPT !.live = 0, !.stale = 0]
FreeHurts(p) == p.made /\ p.stale > 0

\* The connections that nothing refers to once the pools of os are forgotten
Forgotten(os) == MapThenSumSet(LAMBDA o : pools[o].live, os)
Used(os) == \E o \in os : pools[o].made /\ pools[o].stale > 0
With(os, new) == [o \in Owners |-> IF o \in os THEN new[o] ELSE pools[o]]
Without(os) == With(os, [o \in os |-> NoPool])

-----------------------------------------------------------------------------
(* init *)

Starts == phase = "none" /\ inits < MaxInits /\ inits' = inits + 1 /\ freed' = FALSE

initRedisProxy(k) ==
    /\ Starts
    /\ hurt' = (hurt \/ FreeHurts(pools["proxy"]))
    /\ pools' = [pools EXCEPT !["proxy"] = IF k = Num THEN initConnectPool(NewPool, k) ELSE NoPool]
    /\ phase' = IF k = Num THEN "proxy" ELSE "none"
    /\ leaked' = leaked + (IF k = Num THEN 0 ELSE initConnectPool(NewPool, k).live)
    /\ UNCHANGED <<master, partial, gaveUp>>

\* getRedisClusterNodes fills m_clusterMap anew; initRedisCluster stops at the first node that fails
initRedisCluster(k1, k2, thread) ==
    LET n1 == initConnectPool(NewPool, k1)
        n2 == initConnectPool(NewPool, k2)
        all == k1 = Num /\ k2 = Num
    IN
    /\ Starts
    /\ leaked' = leaked + Forgotten(Nodes) + (IF k1 < Num THEN n1.live ELSE IF k2 < Num THEN n2.live ELSE 0)
    /\ pools' = [pools EXCEPT !["n1"] = IF k1 = Num THEN n1 ELSE NoPool,
                              !["n2"] = IF all THEN n2 ELSE NoPool]
    /\ phase' = IF all /\ thread THEN "cluster" ELSE "none"
    /\ gaveUp' = (gaveUp \/ (k1 = Num /\ ~(all /\ thread)))
    /\ UNCHANGED <<master, hurt, partial>>

\* got: some sentinel that is alive has named a master and taken the subscription
initSentinels(k, got) ==
    LET new == [s \in Sentinels |-> [initConnectPool(NewPool, k[s]) EXCEPT !.alive = (k[s] = Num)]]
        kept == \E s \in Sentinels : k[s] > 0 /\ k[s] < Num
    IN
    /\ Starts
    /\ got => \E s \in Sentinels : k[s] = Num
    /\ leaked' = leaked + Forgotten(Sentinels)
    /\ partial' = (partial \/ kept)
    /\ pools' = IF got THEN With(Sentinels, new) ELSE Without(Sentinels)  \* CLEAR_SENTINELS
    /\ hurt' = (hurt \/ (~got /\ \E s \in Sentinels : FreeHurts(new[s])))
    /\ phase' = IF got THEN "sentinels" ELSE "none"
    /\ UNCHANGED <<master, gaveUp>>

\* slaves: the master has named its slave
initMasterSlaves(k, slaves, kr) ==
    LET m == initConnectPool(NewPool, k)
        r == initConnectPool(NewPool, kr)
        ok == k = Num /\ slaves
    IN
    /\ phase = "sentinels"
    /\ leaked' = leaked + (IF k < Num THEN m.live ELSE 0)
    /\ pools' = IF ok THEN With(DataNodes, [o \in DataNodes |-> IF o = "m" THEN [m EXCEPT !.alive = TRUE]
                                                                ELSE [r EXCEPT !.alive = (kr = Num)]])
                      ELSE Without(DataNodes)                             \* CLEAR_DATANODES
    /\ partial' = (partial \/ (ok /\ kr > 0 /\ kr < Num))
    /\ master' = IF k = Num THEN "m" ELSE master
    /\ phase' = IF ok THEN "sentinel" ELSE "none"
    /\ gaveUp' = (gaveUp \/ ~ok)
    /\ UNCHANGED <<hurt, inits, freed>>

-----------------------------------------------------------------------------
(* While the client is connected *)

\* Another connect of a pool that is not alive, in the list that the last one left
Retry(o, k) ==
    /\ pools[o].made /\ ~pools[o].alive /\ pools[o].stale <= MaxStale
    /\ hurt' = (hurt \/ ClearHurts(pools[o], k))
    /\ pools' = [pools EXCEPT ![o] = [initConnectPool(@, k) EXCEPT !.alive = (k = Num)]]
    /\ partial' = (partial \/ (k > 0 /\ k < Num))
    /\ UNCHANGED <<phase, leaked, inits, freed, gaveUp>>

\* The health check thread; it runs from initSentinels on
SentinelReinit(s, k) == phase \in {"sentinels", "sentinel"} /\ Retry(s, k) /\ UNCHANGED master

DoSwitchMaster(o, k) ==
    /\ phase = "sentinel" /\ master' = o
    /\ \/ Retry(o, k)
       \/ pools[o].alive /\ k = Num /\ UNCHANGED <<pools, phase, leaked, hurt, inits, freed, partial, gaveUp>>

InUse(o) ==
    \/ phase = "proxy" /\ o = "proxy"
    \/ phase = "cluster" /\ o \in Nodes
    \/ phase = "sentinel" /\ (o = master \/ (o \in Sentinels \cup DataNodes /\ pools[o].alive))

\* A command looks for an available connection in the list of the pool
doRedisCommand(o) ==
    /\ InUse(o)
    /\ hurt' = (hurt \/ Used({o}))
    /\ UNCHANGED <<pools, phase, master, leaked, inits, freed, partial, gaveUp>>

-----------------------------------------------------------------------------
(* freeRedisClient.  Each of the four: the pools it leaves, what it forgets, whether it deletes twice *)

\* Wrong on purpose: the handler is not set to NULL
freeRedisProxyKeeps ==
    /\ hurt' = (hurt \/ FreeHurts(pools["proxy"])) /\ UNCHANGED leaked
    /\ pools' = [pools EXCEPT !["proxy"] = [@ EXCEPT !.live = 0, !.stale = pools["proxy"].live]]
freeRedisProxy ==
    /\ hurt' = (hurt \/ FreeHurts(pools["proxy"])) /\ UNCHANGED leaked
    /\ pools' = Without({"proxy"})

freeRedisCluster ==
    /\ hurt' = (hurt \/ \E o \in Nodes : FreeHurts(pools[o])) /\ UNCHANGED leaked
    /\ pools' = Without(Nodes)

\* freeMasterSlaves frees the pools of these, and deletes the handlers of all
FreedDataNodes == {o \in DataNodes : pools[o].alive}

freeSentinelsMasterSlaves ==
    /\ hurt' = (hurt \/ \E o \in Sentinels \cup FreedDataNodes : FreeHurts(pools[o]))
    /\ leaked' = leaked + Forgotten(DataNodes \ FreedDataNodes)
    /\ pools' = Without(Sentinels \cup DataNodes)

freeRedisClient ==
    /\ \/ phase = "proxy" /\ freeRedisProxy
       \/ phase = "cluster" /\ freeRedisCluster
       \/ phase = "sentinel" /\ freeSentinelsMasterSlaves
    /\ phase' = "none" /\ freed' = TRUE
    /\ UNCHANGED <<master, inits, partial, gaveUp>>

Next ==
    \/ \E k \in 0..Num : initRedisProxy(k)
    \/ \E k1, k2 \in 0..Num, thread \in BOOLEAN : initRedisCluster(k1, k2, thread)
    \/ \E k \in [Sentinels -> 0..Num], got \in BOOLEAN : initSentinels(k, got)
    \/ \E k, kr \in 0..Num, slaves \in BOOLEAN : initMasterSlaves(k, slaves, kr)
    \/ \E s \in Sentinels, k \in 0..Num : SentinelReinit(s, k)
    \/ \E o \in DataNodes, k \in 0..Num : DoSwitchMaster(o, k)
    \/ \E o \in Owners : doRedisCommand(o)
    \/ freeRedisClient

Spec == Init /\ [][Next]_vars

-----------------------------------------------------------------------------
(* No connection is deleted twice or used once deleted, through any        *)
(* sequence of failed and repeated inits, retries of sentinels, switches   *)
(* of the master and frees, unless the pool of a sentinel or a slave, which *)
(* stays in its map when it fails, failed after its first connection: the  *)
(* list of that pool then keeps pointers that CLEAR has deleted.           *)
DeletedOnce == hurt => partial

(* After freeRedisClient has returned true the client owns no connection   *)
(* and has forgotten none, unless an earlier init had given up with some   *)
(* of its pools up: freeRedisClient refuses while m_connected is false, so *)
(* nobody frees those.                                                     *)
AllFreed == freed /\ ~gaveUp => leaked = 0 /\ \A o \in Owners : pools[o].live = 0

(* A pool that commands may use holds as many live connections as asked    *)
(* for, and without a partial failure no deleted one.                      *)
UsablePoolsFull ==
    \A o \in Owners : InUse(o) /\ (o \in Sentinels \cup DataNodes => pools[o].alive)
        => pools[o].live = Num /\ (~partial => pools[o].stale = 0)
=============================================================================
