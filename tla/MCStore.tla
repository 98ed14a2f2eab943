------------------------------- MODULE MCStore ------------------------------
(***************************************************************************)
(* The pool of connections, and one instance of each other part between    *)
(* the managers and the sockets: the stored entities, the routing in a     *)
(* cluster, the lives of the pools, and the linker's copies.  part picks   *)
(* the one that runs; the pool has its own variables, the others share     *)
(* x1 .. x16.                                                              *)
(***************************************************************************)
EXTENDS RedisPool, TLC

CONSTANTS Vals          \* values of entities

Symmetric == Permutations(Vals) \cup Permutations(Threads) \cup Permutations(Addrs)

VARIABLES part, x1, x2, x3, x4, x5, x6, x7, x8, x9, x10, x11, x12, x13, x14, x15, x16

others == <<x1, x2, x3, x4, x5, x6, x7, x8, x9, x10, x11, x12, x13, x14, x15, x16>>
storeVars == <<part, vars, others>>

entity == INSTANCE EntityStore
    WITH Ids <- {"i1", "i2"}, Modes <- {"stand_alone", "cluster"}, UndoOther <- FALSE, Reinsert <- TRUE,
         Kinds <- {"insert", "delete", "clear", "update"}, MaxFaults <- 2, MaxOps <- 2,
         Failures <- {"refused", "lost", "unanswered", "late", "drop", "crash"},
         mode <- x1, db <- x2, session <- x3, pending <- x4, op <- x5, acked <- x6, faults <- x7, ops <- x8,
         happened <- x9

\* More operations, fewer faults
longer == INSTANCE EntityStore
    WITH Ids <- {"i1", "i2"}, Modes <- {"stand_alone", "cluster"}, UndoOther <- FALSE, Reinsert <- TRUE,
         Kinds <- {"insert", "delete", "clear", "update"}, MaxFaults <- 1, MaxOps <- 3,
         Failures <- {"refused", "lost", "unanswered", "late", "drop", "crash"},
         mode <- x1, db <- x2, session <- x3, pending <- x4, op <- x5, acked <- x6, faults <- x7, ops <- x8,
         happened <- x9

\* ExecutingInviteCmdMgr: its undo addresses another key
invites == INSTANCE EntityStore
    WITH Ids <- {"i1"}, Modes <- {"cluster"}, UndoOther <- TRUE, Reinsert <- TRUE,
         Kinds <- {"insert", "delete", "clear", "update"}, MaxFaults <- 1, MaxOps <- 3,
         Failures <- {"refused", "lost", "unanswered", "late", "drop", "crash"},
         mode <- x1, db <- x2, session <- x3, pending <- x4, op <- x5, acked <- x6, faults <- x7, ops <- x8,
         happened <- x9

routing == INSTANCE ClusterRouting
    WITH NumNodes <- 2, Slots <- {"s1"}, MaxChanges <- 2, MaxPools <- 4, MaxCommands <- 2, Disagree <- FALSE,
         Failures <- {"fetch", "connect"},
         members <- x1, owner <- x2, version <- x3, slotMap <- x4, clusterMap <- x5, unused <- x6, live <- x7,
         npools <- x8, signal <- x9, rstate <- x10, got <- x11, seen <- x12, saved <- x13, failed <- x14,
         pc <- x15, cmd <- x16

life == INSTANCE PoolLife
    WITH Num <- 2, MaxInits <- 3, MaxStale <- 2,
         pools <- x1, phase <- x2, master <- x3, leaked <- x4, hurt <- x5, inits <- x6, freed <- x7,
         partial <- x8, gaveUp <- x9

linker == INSTANCE LinkerPools
    WITH Num <- 1, Incidents <- {"late", "reconnect"}, LifeNum <- 2, MaxInits <- 3, MaxStale <- 2,
         NumNodes <- 3, Slots <- {"s1"}, MaxChanges <- 2, MaxPools <- 5, MaxCommands <- 1, Disagree <- FALSE,
         Failures <- {"fetch", "connect"},
         clock <- x1, live <- x2, conn <- x3, slots <- x4, tmp <- x5, pc <- x6, mine <- x7, start <- x8,
         closed <- x9, met <- x10, members <- x1, owner <- x2, version <- x3, slotMap <- x4, clusterMap <- x5,
         unused <- x6, alive <- x7, npools <- x8, signal <- x9, rstate <- x10, got <- x11, seen <- x12,
         saved <- x13, failed <- x14, cpc <- x15, cmd <- x16, pools <- x1, phase <- x2, master <- x3,
         leaked <- x4, hurt <- x5, inits <- x6, freed <- x7, partial <- x8, gaveUp <- x9

ASSUME Assumptions ==
    /\ PoolAssumption /\ entity!EntityAssumption /\ longer!EntityAssumption
    /\ invites!EntityAssumption /\ routing!RoutingAssumption

Zero11 == x11 = 0 /\ x12 = 0 /\ x13 = 0 /\ x14 = 0 /\ x15 = 0 /\ x16 = 0
Zero10 == x10 = 0 /\ Zero11
Zero1 == x1 = 0 /\ x2 = 0 /\ x3 = 0 /\ x4 = 0 /\ x5 = 0 /\ x6 = 0 /\ x7 = 0 /\ x8 = 0 /\ x9 = 0 /\ Zero10

StoreInit ==
    /\ Init
    /\ \/ part = "pool" /\ Zero1
       \/ part = "lpool" /\ linker!PoolInit /\ Zero11
       \/ part = "entity" /\ entity!Init /\ Zero10
       \/ part = "longer" /\ longer!Init /\ Zero10
       \/ part = "invites" /\ invites!Init /\ Zero10
       \/ part = "routing" /\ routing!Init
       \/ part = "lrouting" /\ linker!RoutingInit
       \/ part = "life" /\ life!Init /\ Zero10
       \/ part = "llife" /\ linker!LifeInit /\ Zero10

Rest11 == <<part, vars, x11, x12, x13, x14, x15, x16>>
Rest10 == <<x10, Rest11>>

StoreNext ==
    \/ part = "pool" /\ Next /\ UNCHANGED <<part, others>>
    \/ part = "lpool" /\ linker!PoolNext /\ UNCHANGED Rest11
    \/ part = "entity" /\ entity!Next /\ UNCHANGED Rest10
    \/ part = "longer" /\ longer!Next /\ UNCHANGED Rest10
    \/ part = "invites" /\ invites!Next /\ UNCHANGED Rest10
    \/ part = "routing" /\ routing!Next /\ UNCHANGED <<part, vars>>
    \/ part = "lrouting" /\ linker!RoutingNext /\ UNCHANGED <<part, vars>>
    \/ part = "life" /\ life!Next /\ UNCHANGED Rest10
    \/ part = "llife" /\ linker!LifeNext /\ UNCHANGED Rest10

StoreSpec == StoreInit /\ [][StoreNext]_storeVars

-----------------------------------------------------------------------------
\* Acknowledged inserts and deletes stay, and the undo of the plain modes restores agreement of keys and set
\* (EntityStore).
Durable ==
    /\ part = "entity" => entity!TypeOK /\ entity!Durable /\ entity!UndoneWhenIdle /\ entity!StoreInv
    /\ part = "longer" => longer!TypeOK /\ longer!Durable /\ longer!UndoneWhenIdle /\ longer!StoreInv
    /\ part = "invites" => invites!TypeOK /\ invites!Durable /\ invites!StoreInv

\* A transaction changes key and id together (EntityStore).
PairsTogether == [][(part = "entity" => entity!KeepsPairs) /\ (part = "longer" => longer!KeepsPairs)]_storeVars

\* Nobody works on a connection that a refresh, a release or a deleted pool took away: a pool one of whose connections
\* is in use is not deleted, only a failed connect leaves slots unrouted, and the nodes of the linker's map have pools
\* that exist (ClusterRouting, LinkerPools).
ConnectionsKept ==
    /\ [][part = "routing" => routing!KeepsConnections]_storeVars
    /\ [](part = "routing" => routing!TypeOK /\ routing!SlotsMapped)
    /\ [](part = "lrouting" => linker!MappedPoolsExist)
    /\ [](part = "lpool" => linker!HolderLive)

\* Pools end: a connection is deleted once and only after its last use unless a pool came up in part, and
\* freeRedisClient leaves none unless an earlier init gave up; a pool that commands may use is full (PoolLife,
\* LinkerPools).
PoolsFreed ==
    /\ part = "life" => life!DeletedOnce /\ life!AllFreed /\ life!UsablePoolsFull
    /\ part = "llife" => linker!AllFreed
=============================================================================
