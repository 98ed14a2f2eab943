------------------------------- MODULE Sentinel -----------------------------
(***************************************************************************)
(* RedisClient in sentinel mode (gb/downdatarestorer_norah/                *)
(* redisclient.cpp): initSentinels connects and subscribes to every        *)
(* sentinel, one thread per subscription waits for +switch-master, a       *)
(* health check thread repeats what failed, initMasterSlaves connects the  *)
(* data nodes, and freeRedisClient ends it all.  The environment moves the *)
(* master, refuses connections and drops subscriptions.                    *)
(*                                                                         *)
(* A subscription is numbered by the thread that is started for it.  Four  *)
(* windows of the code in which a switch can be missed are recorded in     *)
(* met, so that the properties can name them.                              *)
(***************************************************************************)
EXTENDS Integers, FiniteSets, SequencesExt

CONSTANTS Nodes,
          Shapes        \* instances: [sentinels, sessions, failovers, refusals], the last three bounds

NoNode == 0
PoolSize == 2                    \* connection_num_to_sentinel

VARIABLES shape,        \* the instance
          pc,           \* of the thread that calls init and freeRedisClient
          sentinel,     \* m_sentinelHandlers: [alive, subscribed, free]
          cursor,       \* the sentinel that the loop of initSentinels is at
          initMaster,   \* m_initMasterAddr when masterNodeGot
          threads,      \* subscription threads: [con, msg, state]
          threadArg,    \* m_threadArg.con
          wire,         \* per subscription: [live, queue] as the sentinel sees it
          health,       \* the health check thread: Off, Asleep, or the sentinel that it is at
          allDone,      \* sentinel_reinit_work_all_done
          started,      \* m_sentinelHealthCheckThreadStarted
          node,         \* m_dataNodes: "unknown", "blank", "dead" or "alive"
          masterId,     \* m_masterClusterId
          master,       \* the master that the sentinels agree on
          session, failovers, refusals,
          met           \* windows that were hit: "arg", "early", "lost", "late", "cancelled", "pins", "half"

vars == <<shape, pc, sentinel, cursor, initMaster, threads, threadArg, wire, health, allDone, started,
          node, masterId, master, session, failovers, refusals, met>>
mainVars == <<shape, pc, cursor, initMaster, session>>
healthVars == <<health, allDone, started>>
nodeVars == <<node, masterId>>
envVars == <<master, failovers, refusals>>

NSentinels == shape.sentinels
Sentinels == 1 .. NSentinels
Off == 0                         \* states of the health check thread, besides the
Asleep == NSentinels + 1         \* sentinel that it is at

Absent == [alive |-> FALSE, subscribed |-> FALSE, free |-> 0]

Init == /\ shape \in Shapes
        /\ pc = "down" /\ session = 0 /\ cursor = 1 /\ initMaster = NoNode
        /\ sentinel = [s \in Sentinels |-> Absent]
        /\ threads = <<>> /\ wire = <<>> /\ threadArg = 0
        /\ health = Off /\ allDone = FALSE /\ started = FALSE
        /\ node = [n \in Nodes |-> "unknown"] /\ masterId = NoNode
        /\ master = CHOOSE n \in Nodes : TRUE
        /\ failovers = 0 /\ refusals = 0 /\ met = {}

May(refused) == refusals' = refusals + refused /\ refusals' <= shape.refusals
AnyLive == \E t \in DOMAIN wire : wire[t].live

-----------------------------------------------------------------------------
(* SubscribeSwitchMaster takes a connection from the pool for good, also   *)
(* when the subscription fails, and hands it to the new thread in the      *)
(* shared m_threadArg.                                                     *)

Pinned(h) == [h EXCEPT !.free = @ - 1]

SubscribeSwitchMaster(s, h, ok) ==
    \/ /\ h.free = 0 /\ ~ok
       /\ sentinel' = [sentinel EXCEPT ![s] = h]
       /\ met' = met \union {"pins"} /\ UNCHANGED <<threads, wire, threadArg>>
    \/ /\ h.free > 0 /\ ~ok
       /\ sentinel' = [sentinel EXCEPT ![s] = Pinned(h)]
       /\ UNCHANGED <<threads, wire, threadArg, met>>
    \/ /\ h.free > 0 /\ ok
       /\ sentinel' = [sentinel EXCEPT ![s] = [Pinned(h) EXCEPT !.subscribed = TRUE]]
       /\ threads' = Append(threads, [con |-> 0, msg |-> NoNode, state |-> "new"])
       /\ wire' = Append(wire, [live |-> TRUE, queue |-> <<>>])
       /\ threadArg' = Len(threads) + 1
       /\ UNCHANGED met

\* initConnectPool
Filled(h) == [h EXCEPT !.alive = TRUE, !.free = PoolSize]

\* initConnectPool, when the k-th connection fails: what was connected before is deleted but
\* stays listed, and what a pool with such pointers does is undefined
FillFails(k) == met' = IF k > 1 THEN met \union {"half"} ELSE met

\* Connect sentinel s unless it is alive, and subscribe unless it is subscribed
Attach(s, h) ==
    \/ /\ ~h.alive
       /\ \E k \in 1 .. PoolSize : FillFails(k)
       /\ sentinel' = [sentinel EXCEPT ![s] = h]
       /\ May(1) /\ UNCHANGED <<threads, wire, threadArg>>
    \/ /\ ~h.subscribed
       /\ \E ok \in BOOLEAN :
            /\ SubscribeSwitchMaster(s, IF h.alive THEN h ELSE Filled(h), ok)
            /\ May(IF ok \/ (h.alive /\ h.free = 0) THEN 0 ELSE 1)
    \/ /\ h.alive /\ h.subscribed /\ UNCHANGED <<sentinel, threads, wire, threadArg, met, refusals>>

-----------------------------------------------------------------------------
(* init                                                                    *)

BeginInit ==
    /\ pc = "down" /\ session < shape.sessions
    /\ pc' = "sentinels" /\ cursor' = 1 /\ initMaster' = NoNode /\ session' = session + 1
    /\ UNCHANGED <<shape, sentinel, threads, threadArg, wire, healthVars, nodeVars, envVars, met>>

InitSentinel ==
    /\ pc = "sentinels" /\ cursor <= NSentinels
    /\ Attach(cursor, Absent)
    /\ pc' = "ask"
    /\ UNCHANGED <<shape, cursor, initMaster, session, healthVars, nodeVars, master, failovers>>

\* The address that a sentinel answers
ParseSentinelGetMasterReply == master

\* SentinelGetMasterAddrByName, from the first sentinel that answers
AskMaster ==
    /\ pc = "ask"
    /\ pc' = "sentinels" /\ cursor' = cursor + 1
    /\ \/ initMaster = NoNode /\ sentinel[cursor].alive /\ initMaster' = ParseSentinelGetMasterReply /\ UNCHANGED refusals
       \/ initMaster = NoNode /\ sentinel[cursor].alive /\ May(1) /\ UNCHANGED initMaster
       \/ (initMaster # NoNode \/ ~sentinel[cursor].alive) /\ UNCHANGED <<initMaster, refusals>>
    /\ UNCHANGED <<shape, sentinel, threads, threadArg, wire, session, healthVars, nodeVars, master, failovers, met>>

StartSentinelHealthCheckTask ==
    IF started THEN UNCHANGED healthVars
    ELSE health' = 1 /\ allDone' = TRUE /\ started' = TRUE

SentinelsDone ==
    /\ pc = "sentinels" /\ cursor > NSentinels
    /\ StartSentinelHealthCheckTask
    /\ pc' = IF initMaster # NoNode /\ \E s \in Sentinels : sentinel[s].subscribed THEN "nodes" ELSE "clear"
    /\ UNCHANGED <<shape, sentinel, cursor, initMaster, session, threads, threadArg, wire, nodeVars, envVars, met>>

\* The slaves that the master lists, some of which cannot be connected
ParseInfoReplicationReply ==
    {found \in [Nodes -> {"unknown", "dead", "alive"}] : found[initMaster] = "alive"}

\* initMasterSlaves: the master, and the slaves it lists.  When the master does not answer the
\* data nodes are dropped, and the sentinels and their threads are left as they are.
InitMasterSlaves ==
    /\ pc = "nodes"
    /\ \/ /\ pc' = "connected" /\ masterId' = initMaster /\ UNCHANGED refusals
          /\ node' \in ParseInfoReplicationReply
       \/ /\ pc' = "down" /\ May(1)
          /\ masterId' \in {masterId, initMaster} /\ node' = [n \in Nodes |-> "unknown"]
    /\ UNCHANGED <<shape, sentinel, cursor, initMaster, session, threads, threadArg, wire, healthVars, master, failovers, met>>

\* A command of a caller: looks the master up with m_dataNodes[m_masterClusterId], which
\* makes an empty entry for a master that is not known
Command ==
    /\ pc = "connected" /\ masterId # NoNode /\ node[masterId] = "unknown"
    /\ node' = [node EXCEPT ![masterId] = "blank"]
    /\ UNCHANGED <<mainVars, sentinel, threads, threadArg, wire, healthVars, masterId, envVars, met>>

-----------------------------------------------------------------------------
(* freeRedisClient, and CLEAR_SENTINELS of a failed initSentinels: the     *)
(* pools go first, then the threads.                                       *)

FreeSentinels ==
    /\ pc \in {"connected", "clear"}
    /\ pc' = IF pc = "clear" THEN "cancel" ELSE "cancelAll"
    /\ sentinel' = [s \in Sentinels |-> Absent]
    /\ wire' = [t \in DOMAIN wire |-> [wire[t] EXCEPT !.live = FALSE]]
    /\ UNCHANGED <<shape, cursor, initMaster, session, threads, threadArg, healthVars, nodeVars, envVars, met>>

\* A thread that waits ends; one that handles a message may finish it
CancelThreads ==
    threads' = [t \in DOMAIN threads |->
                   IF threads[t].state = "ended" THEN threads[t]
                   ELSE [threads[t] EXCEPT !.state = IF threads[t].msg = NoNode THEN "ended" ELSE "cancelled"]]

freeMasterSlaves == [n \in Nodes |-> "unknown"]

\* m_sentinelHealthCheckThreadStarted stays set when the thread is cancelled
Cancel ==
    /\ pc \in {"cancel", "cancelAll"} /\ pc' = "down"
    /\ health' = IF started THEN Off ELSE health
    /\ met' = IF started THEN met \union {"cancelled"} ELSE met
    /\ CancelThreads
    /\ node' = IF pc = "cancelAll" THEN freeMasterSlaves ELSE node
    /\ UNCHANGED <<shape, cursor, initMaster, session, sentinel, threadArg, wire, allDone, started, masterId, envVars>>

-----------------------------------------------------------------------------
(* SentinelHealthCheckTask                                                 *)

\* One sentinel of SentinelReinit.  The loop runs over a map that freeRedisClient clears and
\* init fills without a lock: what it does meanwhile is undefined and is not modelled.
HealthVisit ==
    /\ health \in Sentinels /\ pc # "cancel" /\ pc # "cancelAll"
    /\ Attach(health, sentinel[health])
    /\ LET ok == sentinel'[health].alive /\ sentinel'[health].subscribed
       IN  IF health < NSentinels THEN health' = health + 1 /\ allDone' = (allDone /\ ok)
           ELSE health' = Asleep /\ allDone' = (allDone /\ ok)
    /\ UNCHANGED started
    /\ UNCHANGED <<mainVars, nodeVars, master, failovers>>

HealthWake ==
    /\ health = Asleep
    /\ IF allDone THEN health' = Off /\ started' = FALSE /\ UNCHANGED allDone
       ELSE health' = 1 /\ allDone' = TRUE /\ UNCHANGED started
    /\ UNCHANGED <<mainVars, sentinel, threads, threadArg, wire, nodeVars, envVars, met>>

-----------------------------------------------------------------------------
(* SubscribeSwitchMasterThreadFun                                          *)

ThreadStart(t) ==
    /\ threads[t].state = "new"
    /\ threads' = [threads EXCEPT ![t].state = "wait", ![t].con = threadArg]
    /\ met' = IF threadArg = t THEN met ELSE met \union {"arg"}
    /\ UNCHANGED <<mainVars, sentinel, threadArg, wire, healthVars, nodeVars, envVars>>

\* The new master is the last address of a message
ParseSwithMasterMessage(queue) == Head(queue)

ThreadTake(t) ==
    /\ threads[t].state = "wait" /\ threads[t].msg = NoNode
    /\ LET c == threads[t].con
       IN  /\ wire[c].queue # <<>>
           /\ threads' = [threads EXCEPT ![t].msg = ParseSwithMasterMessage(wire[c].queue)]
           /\ wire' = [wire EXCEPT ![c].queue = Tail(@)]
    /\ UNCHANGED <<mainVars, sentinel, threadArg, healthVars, nodeVars, envVars, met>>

\* Wrong on purpose: an unknown master is not remembered
DoSwitchMasterKnown(n) ==
    IF node[n] \in {"unknown", "blank"} THEN UNCHANGED <<node, masterId, refusals>>
    ELSE masterId' = n /\ node' = [node EXCEPT ![n] = "alive"] /\ UNCHANGED refusals

\* The master is remembered even if it is not known or cannot be connected
DoSwitchMaster(n) ==
    /\ masterId' = n
    /\ \/ node[n] = "dead" /\ node' = [node EXCEPT ![n] = "alive"] /\ UNCHANGED refusals
       \/ node[n] = "dead" /\ May(1) /\ UNCHANGED node
       \/ node[n] # "dead" /\ UNCHANGED <<node, refusals>>

ThreadSwitch(t) ==
    /\ threads[t].msg # NoNode /\ threads[t].state \in {"wait", "cancelled"}
    /\ DoSwitchMaster(threads[t].msg)
    /\ threads' = [threads EXCEPT ![t].msg = NoNode,
                                  ![t].state = IF @ = "cancelled" THEN "ended" ELSE @]
    /\ met' = met \union (IF threads[t].state = "cancelled" THEN {"late"} ELSE {})
                  \union (IF pc \in {"sentinels", "ask", "nodes"} THEN {"early"} ELSE {})
    /\ UNCHANGED <<mainVars, sentinel, threadArg, wire, healthVars, master, failovers>>

-----------------------------------------------------------------------------
(* The environment                                                         *)

Failover ==
    /\ failovers < shape.failovers /\ failovers' = failovers + 1
    /\ master' \in Nodes \ {master}
    /\ wire' = [t \in DOMAIN wire |-> IF wire[t].live THEN [wire[t] EXCEPT !.queue = Append(@, master')] ELSE wire[t]]
    /\ met' = IF initMaster # NoNode /\ ~AnyLive THEN met \union {"early"} ELSE met
    /\ UNCHANGED <<mainVars, sentinel, threads, threadArg, healthVars, nodeVars, refusals>>

\* The connection of a subscription breaks: WaitMessage connects it again, unsubscribed
LoseSubscription(t) ==
    /\ wire[t].live /\ wire' = [wire EXCEPT ![t].live = FALSE]
    /\ met' = met \union {"lost"}
    /\ UNCHANGED <<mainVars, sentinel, threads, threadArg, healthVars, nodeVars, envVars>>

Thread(t) == ThreadStart(t) \/ ThreadTake(t) \/ ThreadSwitch(t)
AnyThread == \E t \in DOMAIN threads : Thread(t)
\* What the calling thread goes on with once it is in init or freeRedisClient
Main == InitSentinel \/ AskMaster \/ SentinelsDone \/ InitMasterSlaves \/ Cancel \/ (pc = "clear" /\ FreeSentinels)
Health == HealthVisit \/ HealthWake

Next ==
    \/ BeginInit \/ Main \/ (pc = "connected" /\ FreeSentinels) \/ Command \/ Health
    \/ AnyThread \/ (\E t \in DOMAIN wire : LoseSubscription(t))
    \/ Failover

\* Threads run.  The steps of init and of the subscription threads are few; those of the
\* health check may go on for ever.
Fairness == WF_vars(Main \/ AnyThread) /\ WF_vars(Health)

Spec == Init /\ [][Next]_vars /\ Fairness

-----------------------------------------------------------------------------
IsConnected == pc = "connected"

\* While the client is connected, every move of the master reaches m_masterClusterId, unless
\* one of the windows was hit: two threads read the same m_threadArg, the switch was handled
\* or announced before initMasterSlaves, a subscription was lost, or a thread of an earlier
\* session finished late.
MasterFollowed ==
    IsConnected ~> (masterId = master \/ ~IsConnected \/ met \intersect {"arg", "early", "lost", "late"} # {})

\* A sentinel that is down when the client starts is connected and subscribed later by the
\* health check, unless a check was cancelled before (its flag stays set), both connections
\* of its pool are pinned by failed subscriptions, or a pool was filled half.
SentinelsJoin ==
    IsConnected ~> ((\A s \in Sentinels : sentinel[s].alive /\ sentinel[s].subscribed)
                    \/ ~IsConnected \/ met \intersect {"cancelled", "pins", "half"} # {})

\* Every thread that was started for a subscription ends after freeRedisClient.
ReleaseEndsThreads ==
    pc = "cancelAll" ~> ((\A t \in DOMAIN threads : threads[t].state = "ended") \/ pc \notin {"cancelAll", "down"})

\* There is a health check thread exactly while its flag is set, unless one was cancelled.
HealthFlagTrue == "cancelled" \notin met => (started <=> health # Off)
=============================================================================
