---------------------------- MODULE OptimisticLock --------------------------
(***************************************************************************)
(* The optimistic lock of RedisClient (gb/downdatarestorer_norah/          *)
(* redisclient.cpp): getSerialWithLock watches and reads a key,            *)
(* setSerialWithLock writes it in a transaction that the server refuses if *)
(* the key has changed, releaseLock gives up.  Each caller counts the key  *)
(* up by one, with a new RedisLockInfo each time.  A command is sent and   *)
(* answered in one step; replies that come late are the subject of         *)
(* RedisConnection, and a pool that runs dry the subject of RedisPool.     *)
(***************************************************************************)
EXTENDS Integers, FiniteSets

CONSTANTS Callers, Rounds, MaxDrops

ASSUME LockAssumption == IsFiniteSet(Callers) /\ Rounds \in Nat /\ MaxDrops \in Nat

Home == "home"          \* the cluster that the slot map names for the key
Backup == "backup"      \* its backup
Other == "other"        \* where the slot moves
NoCluster == ""         \* lockInfo.clusterId.empty()
NoCon == 0
Cons == 1 .. Cardinality(Callers)       \* the pool of Home

VARIABLES pc,           \* per caller: "idle", the next command, or "think"
          round,        \* per caller: rounds begun
          lock,         \* per caller: RedisLockInfo [cluster, con]
          read,         \* per caller: the value that GET read
          avail,        \* m_available of the connections
          ses,          \* the server's side of a connection: [watch, multi, queued]
          val,          \* the value of the key
          execs,        \* transactions that the server executed
          commits,      \* transactions that were reported as executed
          moved,        \* the slot has moved to Other
          drops,        \* connections that the server closed
          met           \* "unwatched", "stranded"

vars == <<pc, round, lock, read, avail, ses, val, execs, commits, moved, drops, met>>

Fresh == [watch |-> "none", multi |-> FALSE, queued |-> FALSE, value |-> 0]

Init == /\ pc = [c \in Callers |-> "idle"] /\ round = [c \in Callers |-> 0]
        /\ lock = [c \in Callers |-> [cluster |-> NoCluster, con |-> NoCon]]
        /\ read = [c \in Callers |-> 0]
        /\ avail = [k \in Cons |-> TRUE] /\ ses = [k \in Cons |-> Fresh]
        /\ val = 0 /\ execs = 0 /\ commits = 0 /\ moved = FALSE /\ drops = 0 /\ met = {}

-----------------------------------------------------------------------------
(* The connection that doRedisCommandOneConnection uses, and gives back    *)
(* into the pool of the cluster that it is asked for.                      *)

Take(c) == IF lock[c].con # NoCon THEN {lock[c].con} ELSE {k \in Cons : avail[k]}

\* Wrong on purpose: gives nothing back
GiveBackNot(k, cluster) == UNCHANGED avail

\* Only the pool of Home finds the connection
GiveBack(k, cluster) == IF cluster = Home THEN avail' = [avail EXCEPT ![k] = TRUE] ELSE UNCHANGED avail

Holding(c, k) == avail' = [avail EXCEPT ![k] = FALSE]

-----------------------------------------------------------------------------
(* getSerialWithLock                                                       *)

Begin(c) ==
    /\ pc[c] = "idle" /\ round[c] < Rounds
    /\ round' = [round EXCEPT ![c] = @ + 1] /\ pc' = [pc EXCEPT ![c] = "watch"]
    /\ lock' = [lock EXCEPT ![c] = [cluster |-> NoCluster, con |-> NoCon]]
    /\ UNCHANGED <<read, avail, ses, val, execs, commits, moved, drops, met>>

\* A redirect is followed once; the second time it falls through, and the lock notes its cluster
ClusterAfter(cluster) == IF moved THEN Other ELSE cluster

\* Wrong on purpose: goes on to GET without a watch
WatchSkipped(c) ==
    /\ pc[c] = "watch" /\ pc' = [pc EXCEPT ![c] = "get"]
    /\ \E k \in Take(c) : Holding(c, k) /\ lock' = [lock EXCEPT ![c] = [cluster |-> Home, con |-> k]]
    /\ UNCHANGED <<round, read, ses, val, execs, commits, moved, drops, met>>

\* Accepted by Home; by the same connection in the name of the backup, after the connection to
\* Home failed once; or refused twice with MOVED, which falls through and counts as success
Watch(c) ==
    /\ pc[c] = "watch"
    /\ \E k \in Take(c), cluster \in {Home, Backup} :
        /\ ~ses[k].multi /\ Holding(c, k)
        /\ ses' = IF moved THEN ses ELSE [ses EXCEPT ![k].watch = "clean"]
        /\ lock' = [lock EXCEPT ![c] = [cluster |-> ClusterAfter(cluster), con |-> k]]
        /\ met' = IF cluster = Home /\ ~moved THEN met ELSE met \union {"stranded"}
    /\ pc' = [pc EXCEPT ![c] = "get"]
    /\ UNCHANGED <<round, read, val, execs, commits, moved, drops>>

\* The connection, or the cluster that MOVED names, cannot be reached: releaseLock has no
\* cluster to give the connection back to
WatchFails(c) ==
    /\ pc[c] = "watch" /\ drops < MaxDrops /\ drops' = drops + 1
    /\ \E k \in Take(c) : Holding(c, k) /\ ses' = [ses EXCEPT ![k] = Fresh]
    /\ pc' = [pc EXCEPT ![c] = "idle"] /\ met' = met \union {"stranded"}
    /\ UNCHANGED <<round, lock, read, val, execs, commits, moved>>

\* WATCH is an error on a connection that was given back within a transaction
WatchRefused(c) ==
    /\ pc[c] = "watch" /\ pc' = [pc EXCEPT ![c] = "idle"]
    /\ \E k \in Take(c) : ses[k].multi /\ Holding(c, k)
    /\ met' = met \union {"stranded"}
    /\ UNCHANGED <<round, lock, read, ses, val, execs, commits, moved, drops>>

\* A value, or MOVED or nil, upon which the watch is dropped
Get(c) ==
    /\ pc[c] = "get"
    /\ \/ ~moved /\ read' = [read EXCEPT ![c] = val] /\ pc' = [pc EXCEPT ![c] = "think"]
       \/ moved /\ pc' = [pc EXCEPT ![c] = "unwatch"] /\ UNCHANGED read
    /\ UNCHANGED <<round, lock, avail, ses, val, execs, commits, moved, drops, met>>

-----------------------------------------------------------------------------
(* setSerialWithLock and releaseLock                                       *)

Decide(c) ==
    /\ pc[c] = "think" /\ \E next \in {"multi", "unwatch"} : pc' = [pc EXCEPT ![c] = next]
    /\ UNCHANGED <<round, lock, read, avail, ses, val, execs, commits, moved, drops, met>>

Multi(c) ==
    /\ pc[c] = "multi"
    /\ ses' = [ses EXCEPT ![lock[c].con].multi = TRUE]
    /\ pc' = [pc EXCEPT ![c] = "set"]
    /\ UNCHANGED <<round, lock, read, avail, val, execs, commits, moved, drops, met>>

\* The other sessions that watch the key
Touched(k) == [j \in Cons |-> IF j # k /\ ses[j].watch = "clean" THEN [ses[j] EXCEPT !.watch = "dirty"] ELSE ses[j]]

\* Queued in a transaction; executed at once outside of one; or refused
Set(c) ==
    /\ pc[c] = "set"
    /\ LET k == lock[c].con
       IN  \/ /\ ~moved /\ ses[k].multi
              /\ ses' = [ses EXCEPT ![k] = [watch |-> @.watch, multi |-> TRUE, queued |-> TRUE, value |-> read[c] + 1]]
              /\ pc' = [pc EXCEPT ![c] = "exec"] /\ UNCHANGED val
           \/ /\ ~moved /\ ~ses[k].multi
              /\ ses' = Touched(k) /\ val' = read[c] + 1 /\ pc' = [pc EXCEPT ![c] = "exec"]
           \/ /\ moved /\ pc' = [pc EXCEPT ![c] = "unwatch"] /\ UNCHANGED <<ses, val>>
    /\ UNCHANGED <<round, lock, read, avail, execs, commits, moved, drops, met>>

\* What the server does with EXEC
Executes(k) == ses[k].multi /\ ses[k].queued /\ ses[k].watch # "dirty" /\ ~moved

\* parseExecReply: an array of answers; the answer is -1 if the key has changed
parseExecReply(executed, k) == executed

Exec(c) ==
    /\ pc[c] = "exec"
    /\ LET k == lock[c].con
       IN  /\ IF Executes(k)
              THEN val' = ses[k].value /\ execs' = execs + 1 /\ ses' = [Touched(k) EXCEPT ![k] = Fresh]
              ELSE ses' = [ses EXCEPT ![k] = Fresh] /\ UNCHANGED <<val, execs>>
           /\ commits' = IF parseExecReply(Executes(k), k) THEN commits + 1 ELSE commits
           /\ GiveBack(k, lock[c].cluster)
    /\ pc' = [pc EXCEPT ![c] = "idle"]
    /\ UNCHANGED <<round, lock, read, moved, drops, met>>

\* The connection is given back; the answer in a transaction is QUEUED, not OK
Unwatch(c) ==
    /\ pc[c] = "unwatch"
    /\ LET k == lock[c].con
       IN  /\ ses' = IF ses[k].multi THEN ses ELSE [ses EXCEPT ![k] = Fresh]
           /\ pc' = [pc EXCEPT ![c] = IF ses[k].multi THEN "free" ELSE "idle"]
           /\ GiveBack(k, lock[c].cluster)
    /\ UNCHANGED <<round, lock, read, val, execs, commits, moved, drops, met>>

\* freeConnection replaces a connection of the pool of Home, even one that another caller has
\* taken meanwhile, and marks it as used
FreeConnection(c) ==
    /\ pc[c] = "free" /\ pc' = [pc EXCEPT ![c] = "idle"]
    /\ LET k == lock[c].con
       IN  /\ IF lock[c].cluster = Home
              THEN ses' = [ses EXCEPT ![k] = Fresh] /\ avail' = [avail EXCEPT ![k] = FALSE]
              ELSE UNCHANGED <<ses, avail>>
           /\ met' = met \union {"stranded"} \union (IF ses[k].watch = "none" THEN {} ELSE {"unwatched"})
    /\ UNCHANGED <<round, lock, read, val, execs, commits, moved, drops>>

\* A command between WATCH and EXEC cannot be sent: unwatch, and when that fails too the
\* connection is given back all the same
Fails(c) ==
    /\ pc[c] \in {"get", "multi", "set", "exec", "unwatch"} /\ drops < MaxDrops /\ drops' = drops + 1
    /\ LET k == lock[c].con
       IN  /\ ses' = [ses EXCEPT ![k] = Fresh]
           /\ IF pc[c] \in {"exec", "unwatch"}
              THEN GiveBack(k, lock[c].cluster) /\ pc' = [pc EXCEPT ![c] = "idle"]
              ELSE UNCHANGED avail /\ pc' = [pc EXCEPT ![c] = "unwatch"]
    /\ UNCHANGED <<round, lock, read, val, execs, commits, moved, met>>

-----------------------------------------------------------------------------
\* The server closes a connection; the next command connects it again without a word
Drop(k) ==
    /\ drops < MaxDrops /\ drops' = drops + 1
    /\ ses' = [ses EXCEPT ![k] = Fresh]
    /\ met' = IF ses[k] # Fresh THEN met \union {"unwatched"} ELSE met
    /\ UNCHANGED <<pc, round, lock, read, avail, val, execs, commits, moved>>

Move ==
    /\ ~moved /\ moved' = TRUE
    /\ UNCHANGED <<pc, round, lock, read, avail, ses, val, execs, commits, drops, met>>

Caller(c) == Begin(c) \/ Watch(c) \/ WatchFails(c) \/ WatchRefused(c) \/ Get(c) \/ Decide(c) \/ Multi(c) \/ Set(c) \/ Exec(c) \/ Unwatch(c) \/ FreeConnection(c)
             \/ Fails(c)

Next == (\E c \in Callers : Caller(c)) \/ (\E k \in Cons : Drop(k)) \/ Move

Spec == Init /\ [][Next]_vars

-----------------------------------------------------------------------------
\* No update is lost: as long as no connection with a watch was replaced behind the caller's
\* back, the key was counted up once for each transaction that the server executed.
NoLostUpdate == "unwatched" \notin met => val = execs

\* setSerialWithLock returns true exactly for the transactions that the server executed.
CommitsReported == commits = execs

\* A free connection is in no transaction and watches nothing, so that the next caller's
\* commands are executed and answered as usual; only between UNWATCH and freeConnection a
\* connection within a transaction is free.
FreeConnectionsClean ==
    \A k \in Cons : avail[k] => ses[k] = Fresh \/ \E c \in Callers : pc[c] = "free" /\ lock[c].con = k

\* A connection is taken exactly while one caller works with it, unless a failed WATCH, a
\* redirection, a backup or an UNWATCH within a transaction stranded it.
ConnectionsReturned ==
    "stranded" \notin met =>
        \A k \in Cons :
            Cardinality({c \in Callers : pc[c] \notin {"idle", "watch", "free"} /\ lock[c].con = k}) = (IF avail[k] THEN 0 ELSE 1)

\* What setSerialWithLock promises: no update is lost, and its result tells whether there was one.
UpdatesCounted == NoLostUpdate /\ CommitsReported

\* Connections go back into the pool as the next caller needs them: one for each caller, in no transaction.
ConnectionsHandedOn == FreeConnectionsClean /\ ConnectionsReturned

-----------------------------------------------------------------------------
(* Why this is so                                                          *)

States == {"idle", "watch", "get", "think", "multi", "set", "exec", "unwatch", "free"}

Sessions == [watch : {"none", "clean", "dirty"}, multi : BOOLEAN, queued : BOOLEAN, value : Int]

LockTypes ==
    /\ pc \in [Callers -> States]
    /\ lock \in [Callers -> [cluster : {NoCluster, Home, Backup, Other}, con : Cons \cup {NoCon}]]
    /\ read \in [Callers -> Int] /\ avail \in [Cons -> BOOLEAN] /\ ses \in [Cons -> Sessions]
    /\ val \in Int /\ execs \in Int /\ commits = execs /\ moved \in BOOLEAN

\* Between WATCH and the end of the lock
Working(c) == pc[c] \in {"get", "think", "multi", "set", "exec", "unwatch"}

\* A caller that works has a connection of its own, which is not free.  A connection that was
\* taken in another name than Home's stays taken when its caller is done.
PlacesInv ==
    /\ \A c \in Callers : pc[c] = "watch" => lock[c].con = NoCon
    /\ \A c \in Callers : Working(c) => lock[c].con \in Cons /\ ~avail[lock[c].con]
    /\ \A c, d \in Callers : Working(c) /\ Working(d) /\ c # d => lock[c].con # lock[d].con
    /\ \A c \in Callers : pc[c] = "free" => lock[c].con \in Cons
    /\ \A c \in Callers : pc[c] = "free" /\ lock[c].cluster # Home =>
          ~avail[lock[c].con] /\ \A d \in Callers : Working(d) => lock[d].con # lock[c].con

\* Unless it was stranded, a connection that is not free belongs to a caller that will give it back to Home.
ReturnInv ==
    "stranded" \notin met =>
        /\ \A c \in Callers : Working(c) => lock[c].cluster = Home
        /\ \A k \in Cons : ~avail[k] => \E c \in Callers : Working(c) /\ lock[c].con = k

\* What the server knows of a caller that works: its transaction, and a watch that is dirty unless what the caller has
\* read is still the value.
Watched(c) ==
    LET s == ses[lock[c].con] IN
    /\ pc[c] \in {"set", "exec"} => s.multi
    /\ pc[c] = "exec" => s.value = read[c] + 1
    /\ pc[c] \in {"get", "think", "multi", "set", "exec"} /\ ~moved => s.watch # "none"
    /\ pc[c] \in {"think", "multi", "set", "exec"} /\ s.watch = "clean" => read[c] = val

\* As long as no connection with a watch was replaced: a caller that still has to replace its connection shares it with
\* nobody, since WATCH is refused within its transaction.
WatchInv ==
    "unwatched" \notin met =>
        /\ val = execs
        /\ \A c \in Callers : Working(c) => Watched(c)
        /\ \A c \in Callers : pc[c] = "free" =>
              /\ avail[lock[c].con] => ses[lock[c].con].multi
              /\ \A d \in Callers : Working(d) => lock[d].con # lock[c].con

\* The inductive invariant of the lock.
LockInv == LockTypes /\ PlacesInv /\ FreeConnectionsClean /\ ReturnInv /\ WatchInv
=============================================================================
