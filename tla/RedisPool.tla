----------------------------- MODULE RedisPool ------------------------------
(***************************************************************************)
(* RedisCluster (gb/downdatarestorer_norah/rediscluster.cpp): the pool of  *)
(* connections to one Redis server, and the ways RedisClient uses it: a    *)
(* single command, a transaction (PrepareTransaction .. FinishTransaction) *)
(* and an optimistic lock (WATCH .. EXEC or UNWATCH).  A connection is an  *)
(* object at an address; an address may be used again after a delete.      *)
(* Every operation of the pool runs under m_lockAvailableConnection and is *)
(* one step; between them time passes and other threads run.               *)
(***************************************************************************)
EXTENDS Integers, Sequences, FiniteSetsExt

CONSTANTS Threads,
          Addrs,            \* addresses the allocator may return
          Num,              \* m_connectionNum
          ReleaseTime,      \* CONNECTION_RELEASE_TIME
          MaxTime,          \* bound of the clock
          Incidents,        \* what may happen: subset of {"late", "reconnect", "unwatch"}
          MaxIncidents      \* bound of their number

Null == "null"

PoolAssumption ==
    /\ Num \in Nat \ {0} /\ ReleaseTime \in Nat \ {0} /\ MaxTime \in Nat
    /\ Cardinality(Addrs) > Num
    /\ Incidents \subseteq {"late", "reconnect", "unwatch"} /\ MaxIncidents \in Nat
    /\ Null \notin Addrs

VARIABLES clock,
          live,         \* addresses of connection objects that exist
          conn,         \* per address: m_available, m_connectTime, m_canRelease
          slots,        \* m_connections
          tmp,          \* m_tmpConnections
          pc, mine,     \* per thread: what it is doing, and its connection
          start,        \* per thread: when it got the connection
          closed,       \* freeConnectPool was called
          met           \* the incidents so far: a command or lock that held its connection for
                        \* ReleaseTime, a reconnect that failed inside the pool, an UNWATCH that
                        \* was answered with QUEUED because the SET inside MULTI was refused

vars == <<clock, live, conn, slots, tmp, pc, mine, start, closed, met>>

Meet(i) == i \in Incidents /\ Len(met) < MaxIncidents /\ met' = Append(met, i)
Calm == met = <<>>

New(avail) == [avail |-> avail, since |-> clock, canRelease |-> TRUE]

\* initConnectPool succeeded
Init ==
    /\ clock = 0 /\ met = <<>> /\ closed = FALSE /\ tmp = {}
    /\ \E s \in [1 .. Num -> Addrs] :
          /\ \A i, j \in 1 .. Num : i # j => s[i] # s[j]
          /\ slots = s /\ live = {s[i] : i \in 1 .. Num}
    /\ conn = [a \in Addrs |-> [avail |-> TRUE, since |-> 0, canRelease |-> TRUE]]
    /\ pc = [t \in Threads |-> "idle"] /\ mine = [t \in Threads |-> Null]
    /\ start = [t \in Threads |-> 0]

Becomes(t, state, a) == pc' = [pc EXCEPT ![t] = state] /\ mine' = [mine EXCEPT ![t] = a]

-----------------------------------------------------------------------------
(* getAvailableConnection.  It first deletes the temporary connections     *)
(* that are too old, and then looks for an available slot, else for one to *)
(* take away from its holder.                                              *)

Old(a) == clock >= conn[a].since + ReleaseTime
Expired == {a \in tmp : Old(a)}
AfterReap == live \ Expired

AvailableSlots == {i \in 1 .. Num : conn[slots[i]].avail}
\* Wrong on purpose: takes away connections of transactions as well
StealableAll == {i \in 1 .. Num : Old(slots[i])}
Stealable == {i \in 1 .. Num : conn[slots[i]].canRelease /\ Old(slots[i])}

TakeAvailable(t, state) ==
    /\ AvailableSlots # {}
    /\ LET a == slots[Min(AvailableSlots)]
       IN  /\ conn' = [conn EXCEPT ![a].avail = FALSE, ![a].since = clock]
           /\ Becomes(t, state, a)
    /\ live' = AfterReap /\ tmp' = tmp \ Expired /\ UNCHANGED <<slots, met>>
    /\ start' = [start EXCEPT ![t] = clock]

\* The old connection is closed and deleted, a new one takes its slot
Steal(t, state) ==
    /\ AvailableSlots = {} /\ Stealable # {}
    /\ LET i == Min(Stealable)
           kept == AfterReap \ {slots[i]}
       IN  \E b \in Addrs \ kept :
             /\ live' = kept \cup {b} /\ conn' = [conn EXCEPT ![b] = New(FALSE)]
             /\ slots' = [slots EXCEPT ![i] = b]
             /\ Becomes(t, state, b)
    /\ tmp' = tmp \ Expired /\ start' = [start EXCEPT ![t] = clock] /\ UNCHANGED met

\* The new connection cannot be connected: the slot keeps the deleted one, NULL is returned
StealFails(t, state) ==
    /\ Meet("reconnect") /\ AvailableSlots = {} /\ Stealable # {}
    /\ LET kept == AfterReap \ {slots[Min(Stealable)]}
       IN  \E b \in Addrs \ kept : live' = kept \cup {b} /\ conn' = [conn EXCEPT ![b] = New(FALSE)]
    /\ tmp' = tmp \ Expired /\ Becomes(t, state, Null) /\ UNCHANGED <<slots, start>>

NoneAvailable(t, state) ==
    /\ AvailableSlots = {} /\ Stealable = {}
    /\ live' = AfterReap /\ tmp' = tmp \ Expired
    /\ Becomes(t, state, Null) /\ UNCHANGED <<conn, slots, start, met>>

Get(t, state, otherwise) ==
    TakeAvailable(t, state) \/ Steal(t, state) \/ StealFails(t, otherwise) \/ NoneAvailable(t, otherwise)

\* releaseConnection looks for the address, not for the object that was handed out
Release(a) ==
    /\ IF \E i \in 1 .. Num : slots[i] = a
       THEN conn' = [conn EXCEPT ![a].avail = TRUE] /\ UNCHANGED <<live, tmp>>
       ELSE /\ live' = IF a \in tmp THEN live \ {a} ELSE live
            /\ tmp' = tmp \ {a} /\ UNCHANGED conn
    /\ UNCHANGED slots

-----------------------------------------------------------------------------
(* doRedisCommand: a single command on a pool connection, or on one that   *)
(* is made for it and deleted afterwards.                                  *)

BeginCommand(t) == ~closed /\ pc[t] = "idle" /\ Get(t, "command", "once") /\ UNCHANGED <<clock, closed>>

\* Wrong on purpose: keeps the pointer of the connection it has given back
EndCommandKeepsPointer(t) ==
    /\ pc[t] = "command" /\ Release(mine[t]) /\ Becomes(t, "idle", mine[t])
    /\ UNCHANGED <<clock, start, closed, met>>

EndCommand(t) ==
    /\ pc[t] = "command" /\ Release(mine[t]) /\ Becomes(t, "idle", Null)
    /\ UNCHANGED <<clock, start, closed, met>>

OnceConnect(t) ==
    /\ pc[t] = "once" /\ mine[t] = Null
    /\ \/ \E b \in Addrs \ live :
            live' = live \cup {b} /\ conn' = [conn EXCEPT ![b] = New(FALSE)] /\ Becomes(t, "once", b)
       \/ Becomes(t, "idle", Null) /\ UNCHANGED <<live, conn>>
    /\ UNCHANGED <<clock, slots, tmp, start, closed, met>>

OnceDone(t) ==
    /\ pc[t] = "once" /\ mine[t] # Null
    /\ live' = live \ {mine[t]} /\ Becomes(t, "idle", Null)
    /\ UNCHANGED <<clock, conn, slots, tmp, start, closed, met>>

(* Transactions: the connection is pinned after it was handed out, and     *)
(* stays pinned when it is back in the pool.                               *)

PrepareTransaction(t) == ~closed /\ pc[t] = "idle" /\ Get(t, "pinning", "idle") /\ UNCHANGED <<clock, closed>>

SetCanRelease(t) ==
    /\ pc[t] = "pinning" /\ conn' = [conn EXCEPT ![mine[t]].canRelease = FALSE]
    /\ Becomes(t, "transaction", mine[t])
    /\ UNCHANGED <<clock, live, slots, tmp, start, closed, met>>

FinishTransaction(t) ==
    /\ pc[t] = "transaction" /\ Release(mine[t]) /\ Becomes(t, "idle", Null)
    /\ UNCHANGED <<clock, start, closed, met>>

(* Optimistic locks: doRedisCommandOneConnection with the connection kept  *)
(* in RedisLockInfo from WATCH to EXEC or UNWATCH.                         *)

BeginLock(t) == ~closed /\ pc[t] = "idle" /\ Get(t, "lock", "newtmp") /\ UNCHANGED <<clock, closed>>

\* No connection available: a new one, which joins m_tmpConnections after its first command.
\* If it cannot be connected it is never deleted.
TmpConnect(t) ==
    /\ pc[t] = "newtmp"
    /\ \E b \in Addrs \ live :
          /\ live' = live \cup {b} /\ conn' = [conn EXCEPT ![b] = New(FALSE)]
          /\ \/ Becomes(t, "tmp", b) /\ start' = [start EXCEPT ![t] = clock]
             \/ Becomes(t, "idle", Null) /\ UNCHANGED start
    /\ UNCHANGED <<clock, slots, tmp, closed, met>>

TmpListed(t) ==
    /\ pc[t] = "tmp" /\ tmp' = tmp \cup {mine[t]} /\ Becomes(t, "lock", mine[t])
    /\ UNCHANGED <<clock, live, conn, slots, start, closed, met>>

\* EXEC, or an UNWATCH that is answered with OK
EndLock(t) ==
    /\ pc[t] = "lock" /\ Release(mine[t]) /\ Becomes(t, "idle", Null)
    /\ UNCHANGED <<clock, start, closed, met>>

\* WATCH failed: getSerialWithLock returns and nobody gives the connection back
WatchFails(t) ==
    /\ pc[t] = "lock" /\ Becomes(t, "idle", Null)
    /\ UNCHANGED <<clock, live, conn, slots, tmp, start, closed, met>>

\* UNWATCH inside the open MULTI is answered with QUEUED: the connection is back in the
\* pool, and will be freed
UnwatchQueued(t) ==
    /\ Meet("unwatch") /\ pc[t] = "lock" /\ Release(mine[t]) /\ Becomes(t, "freeing", mine[t])
    /\ UNCHANGED <<clock, start, closed>>

\* freeConnection: a new one takes the slot, unavailable until it is old enough
FreeConnection(t) ==
    /\ pc[t] = "freeing"
    /\ LET at == {i \in 1 .. Num : slots[i] = mine[t]}
           kept == live \ {mine[t]}
       IN  IF at = {} THEN UNCHANGED <<live, conn, slots, met>>
           ELSE \E b \in Addrs \ kept :
                  /\ live' = kept \cup {b} /\ conn' = [conn EXCEPT ![b] = New(FALSE)]
                  /\ \/ slots' = [slots EXCEPT ![Min(at)] = b] /\ UNCHANGED met
                     \/ Meet("reconnect") /\ UNCHANGED slots
    /\ Becomes(t, "idle", Null)
    /\ UNCHANGED <<clock, tmp, start, closed>>

\* freeConnectPool, called when nobody uses the client any more
FreePool ==
    /\ ~closed /\ \A t \in Threads : pc[t] = "idle"
    /\ closed' = TRUE /\ live' = live \ ({slots[i] : i \in 1 .. Num} \cup tmp) /\ tmp' = {}
    /\ UNCHANGED <<clock, conn, slots, pc, mine, start, met>>

\* The states in which the pool may take the connection away
Exposed(t) == pc[t] \in {"command", "pinning", "tmp", "lock"}

Tick ==
    /\ clock < MaxTime
    /\ IF \E t \in Threads : Exposed(t) /\ clock + 1 = start[t] + ReleaseTime THEN Meet("late") ELSE UNCHANGED met
    /\ clock' = clock + 1 /\ UNCHANGED <<live, conn, slots, tmp, pc, mine, start, closed>>

ThreadStep(t) ==
    \/ BeginCommand(t) \/ EndCommand(t) \/ OnceConnect(t) \/ OnceDone(t)
    \/ PrepareTransaction(t) \/ SetCanRelease(t) \/ FinishTransaction(t)
    \/ BeginLock(t) \/ TmpConnect(t) \/ TmpListed(t) \/ EndLock(t) \/ WatchFails(t)
    \/ UnwatchQueued(t) \/ FreeConnection(t)

Next == Tick \/ FreePool \/ \E t \in Threads : ThreadStep(t)

Spec == Init /\ [][Next]_vars

-----------------------------------------------------------------------------
Using(t) == pc[t] \in {"command", "once", "pinning", "transaction", "tmp", "lock"} /\ mine[t] # Null

TypeOK ==
    /\ clock \in 0 .. MaxTime /\ live \subseteq Addrs /\ tmp \subseteq Addrs
    /\ slots \in [1 .. Num -> Addrs] /\ mine \in [Threads -> Addrs \cup {Null}]
    /\ \A t \in Threads : pc[t] = "idle" => mine[t] = Null

\* A thread that works on a connection works on an object that exists: the pool does not
\* delete it before the thread has given it back.
HolderAlwaysLive == \A t \in Threads : Using(t) => mine[t] \in live

\* Without an incident this holds, however long transactions take: the pin keeps their
\* connection, and getAvailableConnection takes away only what is old.
HolderLive == Calm => HolderAlwaysLive

\* Two threads never work on the same connection, so that a reply goes to the thread that
\* sent the command, and a transaction contains only its own commands.
ExclusiveUse == Calm => \A t, u \in Threads : t # u /\ Using(t) /\ Using(u) => mine[t] # mine[u]

\* No thread goes on without a connection, incidents included: the NULL of
\* getAvailableConnection, which also a failed reconnect inside it returns, is met by a
\* connection of the caller's own or ends the operation.
NullHandled == \A t \in Threads : pc[t] \in {"command", "pinning", "transaction", "tmp", "lock"} => mine[t] # Null

OnlyLate == \A i \in DOMAIN met : met[i] = "late"
SlotsAlwaysLive == ~closed => \A i \in 1 .. Num : slots[i] \in live

\* The slots of the pool hold connections that exist, because getAvailableConnection reads
\* them; a late command does not change that, only a reconnect that failed and a
\* connection that is freed after its release do.
SlotsLive == OnlyLate => SlotsAlwaysLive

\* What the pool promises to those that hold its connections, and to those that come for one.
HoldersSafe == HolderLive /\ ExclusiveUse /\ NullHandled /\ SlotsLive

Shared(t) == pc[t] \in {"command", "pinning", "transaction", "lock"}
Private(t) == pc[t] \in {"once", "tmp"} /\ mine[t] # Null
InSlot(a) == \E i \in 1 .. Num : slots[i] = a

Connections == [avail : BOOLEAN, since : Nat, canRelease : BOOLEAN]
States == {"idle", "command", "once", "pinning", "transaction", "newtmp", "tmp", "lock", "freeing"}

PoolTypes ==
    /\ TypeOK /\ NullHandled /\ met \in Seq(Incidents)
    /\ conn \in [Addrs -> Connections]
    /\ pc \in [Threads -> States] /\ start \in [Threads -> Nat]
    /\ closed \in BOOLEAN
    /\ closed => \A t \in Threads : pc[t] = "idle"

\* A connection is in one place: in one slot, in the list of temporary ones, or with the
\* one thread that made it
PlacesInv ==
    /\ \A i, j \in 1 .. Num : i # j => slots[i] # slots[j]
    /\ \A i \in 1 .. Num : slots[i] \notin tmp
    /\ tmp \subseteq live
    /\ \A t \in Threads : pc[t] # "freeing"
    /\ \A t \in Threads : Private(t) => mine[t] \in live \ tmp /\ ~InSlot(mine[t])
    /\ \A t, u \in Threads : t # u /\ Private(t) /\ Private(u) => mine[t] # mine[u]

\* A connection in use is marked so and not old enough to be taken away, or pinned
HoldersInv ==
    /\ \A t \in Threads : Shared(t) =>
          /\ mine[t] \in live
          /\ \/ InSlot(mine[t]) /\ ~conn[mine[t]].avail
             \/ pc[t] = "lock" /\ mine[t] \in tmp
    /\ \A t \in Threads : Exposed(t) => conn[mine[t]].since = start[t] /\ clock < start[t] + ReleaseTime
    /\ \A t \in Threads : pc[t] = "transaction" => InSlot(mine[t]) /\ ~conn[mine[t]].canRelease
    /\ \A t, u \in Threads : t # u /\ Using(t) /\ Using(u) => mine[t] # mine[u]

\* Why holders keep their connection: connections are in one place each, and those in use
\* are neither available nor old.  The first part survives late holders, the second does not.
PoolInv == PoolTypes /\ (OnlyLate => PlacesInv /\ SlotsAlwaysLive) /\ (Calm => HoldersInv)
=============================================================================
