-------------------------------- MODULE Bak ---------------------------------
(***************************************************************************)
(* gb/bak, an earlier client library: its readers-writer lock              *)
(* (rwmutex.cpp), its thread pool (threadpool.cpp) and the timer on top of *)
(* it (timer.cpp), and the monitor of the cluster's nodes                  *)
(* (redismonitor.cpp).                                                     *)
(***************************************************************************)
EXTENDS Integers, FiniteSets, Sequences, Functions, TLC

-----------------------------------------------------------------------------
(***************************************************************************)
(* The readers-writer lock of gb/bak/rwmutex.cpp and its guards.  A thread *)
(* makes a guard, holds it, and destroys it.  m_rwLock protects every call,*)
(* so a call is one step up to a wait; a thread that waits on a condition  *)
(* goes on in a step of its own after a signal.  rwLock is "kept" when a   *)
(* call returned without unlocking it.  use tells which guards the threads *)
(* make: ReadGuard and WriteGuard with m_maxOperationNumber 1 ("single")   *)
(* or 2 ("several"), or CertainWriteGuard ("certain").                     *)
(***************************************************************************)

CONSTANTS Threads,
          Num,       \* the num of every CertainWriteGuard
          MaxGuards  \* bound: guards that a thread makes

VARIABLES use, refCount, numWaitingWriters, numWaitingReads, rwLock, pc, guard, made

rwVars == <<use, refCount, numWaitingWriters, numWaitingReads, rwLock, pc, guard, made>>

RwInit ==
    /\ use \in {"single", "several", "certain"}
    /\ refCount = 0 /\ numWaitingWriters = 0 /\ numWaitingReads = 0 /\ rwLock = "free"
    /\ pc = [t \in Threads |-> "idle"] /\ guard = [t \in Threads |-> "read"] /\ made = [t \in Threads |-> 0]

\* The constructors of the guards: ReadGuard, WriteGuard, CertainWriteGuard
MakeGuard(t, g) ==
    /\ pc[t] = "idle" /\ made[t] < MaxGuards
    /\ g \in (IF use = "certain" THEN {"certain"} ELSE {"read", "write"})
    /\ pc' = [pc EXCEPT ![t] = "acquire"] /\ guard' = [guard EXCEPT ![t] = g] /\ made' = [made EXCEPT ![t] = @ + 1]
    /\ UNCHANGED <<use, refCount, numWaitingWriters, numWaitingReads, rwLock>>

\* Which acquire function a guard calls
Acquires(t) ==
    CASE guard[t] = "certain" -> "acquireCertainWrite"
      [] guard[t] = "read"    -> IF use = "single" THEN "acquireRead" ELSE "acquireWrite"
      [] guard[t] = "write"   -> IF use = "single" THEN "acquireWrite" ELSE "acquireCertainWrite"

Limit(t) == IF guard[t] = "certain" THEN Num ELSE 1

\* The condition of the while loop of each acquire function; a thread that is woken takes itself
\* off the waiting ones first
Blocked(t, writers) ==
    CASE Acquires(t) = "acquireRead"         -> refCount < 0 \/ writers > 0
      [] Acquires(t) = "acquireWrite"        -> refCount # 0
      [] Acquires(t) = "acquireCertainWrite" -> refCount >= Limit(t)

Waits(t, writers, readers) ==
    /\ pc' = [pc EXCEPT ![t] = "wait"]
    /\ IF Acquires(t) = "acquireRead"
       THEN numWaitingReads' = readers + 1 /\ numWaitingWriters' = writers
       ELSE numWaitingReads' = readers /\ numWaitingWriters' = writers + 1
    /\ UNCHANGED refCount

Enters(t, writers, readers) ==
    /\ pc' = [pc EXCEPT ![t] = "holds"]
    /\ refCount' = IF Acquires(t) = "acquireWrite" THEN -1 ELSE refCount + 1
    /\ numWaitingWriters' = writers /\ numWaitingReads' = readers

Acquire(t) ==
    /\ pc[t] \in {"acquire", "woken"} /\ rwLock = "free"
    /\ LET back == pc[t] = "woken"
           reads == Acquires(t) = "acquireRead"
           writers == numWaitingWriters - (IF back /\ ~reads THEN 1 ELSE 0)
           readers == numWaitingReads - (IF back /\ reads THEN 1 ELSE 0)
       IN IF Blocked(t, writers) THEN Waits(t, writers, readers) ELSE Enters(t, writers, readers)
    /\ UNCHANGED <<use, rwLock, guard, made>>

Waiting(reads) == {t \in Threads : pc[t] = "wait" /\ (Acquires(t) = "acquireRead") = reads}

\* The threads that a signal to m_waitingWriters may wake, and the wake-up of all readers
SignalWriter(t) ==
    IF Waiting(FALSE) = {} THEN pc' = [pc EXCEPT ![t] = "idle"]
    ELSE \E w \in Waiting(FALSE) : pc' = [pc EXCEPT ![t] = "idle", ![w] = "woken"]
BroadcastReads(t) == pc' = [u \in Threads |-> IF u = t THEN "idle" ELSE IF u \in Waiting(TRUE) THEN "woken" ELSE pc[u]]
Leave(t) == pc' = [pc EXCEPT ![t] = "idle"]

\* Wrong on purpose: only writers are told
releaseWritersOnly(t) == IF numWaitingWriters > 0 THEN SignalWriter(t) ELSE Leave(t)

\* What release tells the waiting threads, with the count after the decrement
releaseSignals(t) ==
    IF numWaitingWriters > 0 /\ refCount' = 0 THEN SignalWriter(t)
    ELSE IF numWaitingReads > 0 /\ numWaitingWriters = 0 THEN BroadcastReads(t) ELSE Leave(t)

releaseCertainSignals(t) == IF numWaitingWriters > 0 THEN SignalWriter(t) ELSE Leave(t)

\* The destructors of the guards: release or releaseCertain; with nothing to release both return
\* with m_rwLock locked
Release(t) ==
    /\ pc[t] = "holds" /\ rwLock = "free"
    /\ IF refCount > 0 \/ refCount = -1
       THEN /\ refCount' = IF refCount > 0 THEN refCount - 1 ELSE 0
            /\ IF use = "single" THEN releaseSignals(t) ELSE releaseCertainSignals(t)
            /\ UNCHANGED rwLock
       ELSE rwLock' = "kept" /\ Leave(t) /\ UNCHANGED refCount
    /\ UNCHANGED <<use, numWaitingWriters, numWaitingReads, guard, made>>

RwNext == \E t \in Threads : (\E g \in {"read", "write", "certain"} : MakeGuard(t, g)) \/ Acquire(t) \/ Release(t)

-----------------------------------------------------------------------------
Holders == {t \in Threads : pc[t] = "holds"}

\* Guards exclude each other as their names say: with m_maxOperationNumber 1, which is the only
\* value the repository uses, a WriteGuard is alone; of CertainWriteGuards there are at most num
Exclusion ==
    /\ use = "single" => \A t \in Holders : guard[t] = "write" => Holders = {t}
    /\ use = "certain" => Cardinality(Holders) <= Num

\* No wake-up is lost: when nobody holds the lock and a thread waits, another thread is on its way
\* to it; and no call returns with m_rwLock locked.  With m_maxOperationNumber above 1 neither
\* holds: a WriteGuard enters beside a ReadGuard, whose release then finds nothing to release
NobodyForgotten ==
    use # "several" =>
        /\ rwLock = "free"
        /\ Holders = {} /\ (\E t \in Threads : pc[t] = "wait") => \E t \in Threads : pc[t] \in {"acquire", "woken"}
-----------------------------------------------------------------------------
(***************************************************************************)
(* The thread pool of gb/bak/threadpool.cpp.  Its owner starts threads,    *)
(* adds some, closes them and joins them, in any order; each thread runs   *)
(* svc, which ends by itself or by cancellation, and then counts itself    *)
(* off.  m_lock is held through every call, so a call is one step, and     *)
(* join is one step that repeats.  ids is m_thd_ids: a null pointer, an    *)
(* array (a sequence of threads, 0 for an entry not yet written), or an    *)
(* array that was deleted while the pointer was kept.                      *)
(***************************************************************************)

CONSTANTS MaxThreads,   \* bound: threads over the life of the pool
          Batch         \* the values of threadNum

VARIABLES ids, thdCount, thread, cancelled, fault, met

poolVars == <<ids, thdCount, thread, cancelled, fault, met>>

Null == [kind |-> "null", at |-> <<>>]
Live(s) == [kind |-> "live", at |-> s]
Freed == [kind |-> "freed", at |-> <<>>]

\* thread is the sequence of the states of all threads so far; fault collects undefined behaviour;
\* met collects the calls and races after which the promises below are off
PoolInit == ids = Null /\ thdCount = 0 /\ thread = <<>> /\ cancelled = {} /\ fault = {} /\ met = {}

Created(n) == [i \in 1 .. n |-> Len(thread) + i]

\* createThd for n threads
createThd(n) ==
    /\ Len(thread) + n <= MaxThreads
    /\ thread' = thread \o [i \in 1 .. n |-> "svc"]
    /\ thdCount' = thdCount + n

Running == {i \in DOMAIN thread : thread[i] # "gone"}
\* Some thread of the array has ended: the array still has its entry, but the count has not
SomeEnded == ids.kind = "freed" \/ \E k \in DOMAIN ids.at : ids.at[k] \notin Running

\* m_thd_count goes on from the threads of an earlier start, but the new array has n entries only
startThd(n) ==
    /\ createThd(n) /\ ids' = Live(Created(n))
    /\ met' = met \cup (IF thdCount > 0 THEN {"startedTwice"} ELSE {})
    /\ UNCHANGED <<cancelled, fault>>

increaseThd(n) ==
    /\ ids.kind # "null" /\ createThd(n)
    /\ ids' = Live(Created(n) \o [i \in 1 .. thdCount |-> IF i <= Len(ids.at) THEN ids.at[i] ELSE 0])
    /\ fault' = fault \cup (IF ids.kind = "freed" THEN {"doubleFree"} ELSE {})
                      \cup (IF thdCount > Len(ids.at) THEN {"outOfBounds"} ELSE {})
    /\ met' = met \cup (IF SomeEnded THEN {"increasedAfterSomeEnded"} ELSE {})
    /\ UNCHANGED cancelled

\* svc returns
SvcEnds(i) == thread[i] = "svc" /\ thread' = [thread EXCEPT ![i] = "counting"] /\ UNCHANGED <<ids, thdCount, cancelled, fault, met>>

\* A thread that is cancelled while it runs svc does not count itself off
Cancel(i) == thread[i] = "svc" /\ i \in cancelled /\ thread' = [thread EXCEPT ![i] = "gone"] /\ UNCHANGED <<ids, thdCount, cancelled, fault, met>>

\* The end of svcRun, under m_lock: the last thread deletes the array and leaves the pointer
poolSvcRun(i) ==
    /\ thread[i] = "counting" /\ thread' = [thread EXCEPT ![i] = "gone"]
    /\ thdCount' = thdCount - 1
    /\ ids' = IF thdCount = 1 /\ ids.kind # "null" THEN Freed ELSE ids
    /\ fault' = fault \cup (IF thdCount = 1 /\ ids.kind = "freed" THEN {"doubleFree"} ELSE {})
    /\ met' = met \cup (IF i \in cancelled THEN {"cancelledLate"} ELSE {})
    /\ UNCHANGED cancelled

\* closeThd cancels the first m_thd_count entries, wherever the threads that still run are
closeThd ==
    /\ ids.kind # "null" /\ thdCount # 0
    /\ LET n == IF thdCount < Len(ids.at) THEN thdCount ELSE Len(ids.at)
           hit == {ids.at[k] : k \in 1 .. n}
       IN /\ cancelled' = cancelled \cup (hit \cap Running)
          /\ fault' = fault \cup (IF thdCount > Len(ids.at) \/ 0 \in hit THEN {"outOfBounds"} ELSE {})
                            \cup (IF hit \subseteq Running \cup {0} THEN {} ELSE {"cancelsDeadThread"})
          /\ met' = met \cup (IF SomeEnded THEN {"closedAfterSomeEnded"} ELSE {})
                        \cup (IF \E i \in hit \cap Running : thread[i] = "counting" THEN {"cancelledLate"} ELSE {})
    /\ ids' = Null /\ thdCount' = 0
    /\ UNCHANGED thread

PoolNext ==
    \/ \E n \in Batch : startThd(n) \/ increaseThd(n)
    \/ closeThd
    \/ \E i \in DOMAIN thread : SvcEnds(i) \/ Cancel(i) \/ poolSvcRun(i)

-----------------------------------------------------------------------------
\* join returns when m_thd_count is not positive
JoinReturns == thdCount <= 0

\* Who has joined may rely on it: when m_thd_count is not positive every thread has ended or has
\* been cancelled, unless one of the calls that met names came before.  A thread that had left svc
\* when closeThd cancelled it still counts itself off, and the count of a later start is too small
JoinMeansEnded == JoinReturns /\ met = {} => Running \subseteq cancelled

\* Every thread that runs and was not cancelled is in the array, where closeThd will find it, and
\* no call touches memory that was deleted or lies outside: unless the pool was started twice,
\* enlarged or closed after some thread had ended, or cancelled a thread that had left svc
ThreadsInArray ==
    met = {} =>
        /\ fault = {}
        /\ \A i \in Running \ cancelled : \E k \in DOMAIN ids.at : ids.at[k] = i
-----------------------------------------------------------------------------
(***************************************************************************)
(* The timer of gb/bak/timer.cpp, a thread pool of one thread (ThreadPool).*)
(* The owner calls start and cancel; the thread runs svc: run() every      *)
(* interval until it was called m_repeatTime times.  Both write            *)
(* m_isStarted without a lock, and threads share m_repeatCount.            *)
(***************************************************************************)

CONSTANT RepeatTime

VARIABLES isStarted, repeatCount, owner, step, ran

timer == <<isStarted, repeatCount, owner, step, ran>>

\* step and ran have an entry per thread: where it is in svc, and how often it called run
TimerInit == PoolInit /\ isStarted = FALSE /\ repeatCount = 0 /\ owner = "idle" /\ step = <<>> /\ ran = <<>>

start ==
    /\ owner = "idle" /\ ~isStarted /\ startThd(1)
    /\ owner' = "starting" /\ step' = Append(step, "begin") /\ ran' = Append(ran, 0)
    /\ UNCHANGED <<isStarted, repeatCount>>

\* The assignment that follows startThd
startReturns ==
    /\ owner = "starting" /\ owner' = "idle" /\ isStarted' = TRUE
    /\ met' = met \cup (IF \E i \in DOMAIN step : step[i] = "ended" /\ i = Len(step) THEN {"endedBeforeStartReturned"} ELSE {})
    /\ UNCHANGED <<ids, thdCount, thread, cancelled, fault, repeatCount, step, ran>>

cancel ==
    /\ owner = "idle" /\ isStarted /\ isStarted' = FALSE
    /\ \/ closeThd
       \/ (ids.kind = "null" \/ thdCount = 0) = TRUE /\ UNCHANGED <<ids, thdCount, thread, cancelled, fault, met>>
    /\ UNCHANGED <<repeatCount, owner, step, ran>>

Going(i, s) == thread[i] = "svc" /\ step[i] = s

svcBegins(i) ==
    /\ Going(i, "begin") /\ repeatCount' = 0 /\ step' = [step EXCEPT ![i] = "loop"]
    /\ met' = met \cup (IF i \in cancelled THEN {"countedAfterCancel"} ELSE {})
    /\ UNCHANGED <<ids, thdCount, thread, cancelled, fault, isStarted, owner, ran>>

timerRun(i) ==
    /\ Going(i, "loop") /\ repeatCount < RepeatTime
    /\ ran' = [ran EXCEPT ![i] = @ + 1] /\ step' = [step EXCEPT ![i] = "ran"]
    /\ UNCHANGED <<ids, thdCount, thread, cancelled, fault, met, isStarted, repeatCount, owner>>

\* The increment after run; the sleep follows
svcCounts(i) ==
    /\ Going(i, "ran") /\ repeatCount' = repeatCount + 1 /\ step' = [step EXCEPT ![i] = "loop"]
    /\ met' = met \cup (IF i \in cancelled THEN {"countedAfterCancel"} ELSE {})
    /\ UNCHANGED <<ids, thdCount, thread, cancelled, fault, isStarted, owner, ran>>

svcStops(i) ==
    /\ Going(i, "loop") /\ repeatCount >= RepeatTime
    /\ isStarted' = FALSE /\ step' = [step EXCEPT ![i] = "ended"]
    /\ met' = met \cup (IF i \in cancelled THEN {"stoppedAfterCancel"} ELSE {})
    /\ UNCHANGED <<ids, thdCount, thread, cancelled, fault, repeatCount, owner, ran>>

\* run, sleep and the delay are cancellation points; what follows the loop is not
Cancelled(i) == step[i] # "ended" /\ Cancel(i) /\ UNCHANGED timer

svcReturns(i) == Going(i, "ended") /\ SvcEnds(i) /\ UNCHANGED timer
timerSvcRun(i) == poolSvcRun(i) /\ UNCHANGED timer

TimerNext ==
    \/ start \/ startReturns \/ cancel
    \/ \E i \in DOMAIN thread : svcBegins(i) \/ timerRun(i) \/ svcCounts(i) \/ svcStops(i) \/ Cancelled(i) \/ svcReturns(i) \/ timerSvcRun(i)

-----------------------------------------------------------------------------
\* Whether the timer can be started again is known: m_isStarted says that a thread runs, unless the
\* thread ended before start had set the flag, or ended after it had been cancelled
StartedMeansRunning ==
    isStarted /\ met \cap {"endedBeforeStartReturned", "stoppedAfterCancel"} = {} =>
        \E i \in DOMAIN thread : thread[i] = "svc" /\ step[i] # "ended" /\ i \notin cancelled

\* A thread that is not cancelled calls run exactly m_repeatTime times, unless a cancelled one still
\* counted in the m_repeatCount that they share
RunsAsOften ==
    "countedAfterCancel" \notin met =>
        \A i \in DOMAIN thread \ cancelled : ran[i] <= RepeatTime /\ (step[i] = "ended" => ran[i] = RepeatTime)

\* start and cancel alone keep the pool sound and run one thread at a time.  A start between the end
\* of svc and its counting off makes m_thd_count two with one entry in the array ("startedTwice"):
\* cancel then reads past it.  A thread that ended although it was cancelled lets the next start be
\* repeated
OneTimerThread ==
    met \cap {"startedTwice", "stoppedAfterCancel", "closedAfterSomeEnded"} = {} =>
        /\ fault = {}
        /\ Cardinality({i \in DOMAIN thread : thread[i] = "svc" /\ step[i] # "ended" /\ i \notin cancelled}) <= 1
-----------------------------------------------------------------------------
(***************************************************************************)
(* RedisMonitor::run of gb/bak/redismonitor.cpp: at every interval the     *)
(* monitor asks for CLUSTER NODES and compares the answer with the map of  *)
(* the client, node by node and field by field; DoCheckClusterNodes of the *)
(* later client libraries is the same comparison.  When something differs  *)
(* checkAndSaveRedisClusters replaces the map.  A scan keeps its cursor in *)
(* the map as well.  Nodes are numbers, absent ones have the value None.   *)
(***************************************************************************)

CONSTANTS Nodes, Slots,
          MaxChanges   \* bound: changes of the cluster and steps of scans

VARIABLES cluster, clusterMap, changes, done

monitorVars == <<cluster, clusterMap, changes, done>>

None == [in |-> FALSE]

\* A node as parseOneCluster builds it: scanCursor starts as 0, and slotMap has the ranges of the
\* node, by their first slot
Master(bak, slots) ==
    [in |-> TRUE, isMaster |-> TRUE, isAlived |-> TRUE, masterClusterId |-> 0, scanCursor |-> 0, bakClusterList |-> bak, slotMap |-> slots]
Slave(of) ==
    [in |-> TRUE, isMaster |-> FALSE, isAlived |-> TRUE, masterClusterId |-> of, scanCursor |-> 0, bakClusterList |-> <<>>, slotMap |-> <<>>]

MonitorInit ==
    /\ cluster = [n \in Nodes |-> CASE n = 1 -> Master(<<2>>, 1 :> 2) [] n = 2 -> Slave(1) [] OTHER -> None]
    /\ clusterMap = cluster /\ changes = 0 /\ done = FALSE

\* Changes of the cluster: another range of slots, other backups, a dead node, a node that joins or
\* leaves, a slave that becomes the master
Change(n) ==
    /\ changes < MaxChanges /\ changes' = changes + 1 /\ done' = FALSE
    /\ \/ /\ cluster[n].in /\ cluster[n].isMaster
          /\ \E s \in Slots, e \in Slots : s <= e /\ cluster' = [cluster EXCEPT ![n].slotMap = s :> e]
       \/ /\ cluster[n].in /\ cluster[n].isMaster
          /\ \E bak \in {<<>>, <<2>>, <<3>>, <<2, 3>>, <<3, 2>>} : cluster' = [cluster EXCEPT ![n].bakClusterList = bak]
       \/ cluster[n].in /\ cluster' = [cluster EXCEPT ![n].isAlived = ~@]
       \/ cluster[n].in /\ cluster' = [cluster EXCEPT ![n] = None]
       \/ ~cluster[n].in /\ \E m \in Nodes \ {n} : cluster' = [cluster EXCEPT ![n] = Slave(m)]
       \/ cluster[n].in /\ ~cluster[n].isMaster /\ cluster' = [cluster EXCEPT ![n] = Master(<<>>, 2 :> 2)]
    /\ UNCHANGED clusterMap

\* updateClusterCursor, called by a scan
updateClusterCursor(n) ==
    /\ changes < MaxChanges /\ changes' = changes + 1 /\ done' = FALSE
    /\ clusterMap[n].in /\ clusterMap' = [clusterMap EXCEPT ![n].scanCursor = 1 - @]
    /\ UNCHANGED cluster

\* The fields that are compared one by one
InfoChanged(new, old) ==
    \/ new.isMaster # old.isMaster \/ new.isAlived # old.isAlived
    \/ new.masterClusterId # old.masterClusterId \/ new.scanCursor # old.scanCursor

\* Each list is searched for the members of the other
BakChanged(new, old) ==
    \/ \E b \in Range(new.bakClusterList) : b \notin Range(old.bakClusterList)
    \/ \E b \in Range(old.bakClusterList) : b \notin Range(new.bakClusterList)

\* Each slot map is searched for the ranges of the other
SlotsChanged(new, old) ==
    \/ \E s \in DOMAIN new.slotMap : s \notin DOMAIN old.slotMap \/ new.slotMap[s] # old.slotMap[s]
    \/ \E s \in DOMAIN old.slotMap : s \notin DOMAIN new.slotMap \/ old.slotMap[s] # new.slotMap[s]

\* The first loop over the answer, and the second over the old map
Changed(new, old) ==
    \/ \E n \in Nodes : /\ new[n].in
                        /\ \/ ~old[n].in
                           \/ InfoChanged(new[n], old[n]) \/ BakChanged(new[n], old[n]) \/ SlotsChanged(new[n], old[n])
    \/ \E n \in Nodes : old[n].in /\ ~new[n].in

checkAndSaveRedisClusters(new) == clusterMap' = new

monitorRun ==
           /\ IF Changed(cluster, clusterMap) THEN checkAndSaveRedisClusters(cluster) ELSE UNCHANGED clusterMap
           /\ done' = TRUE
           /\ UNCHANGED <<cluster, changes>>

\* getRedisClustersByCommand fails, or the client does not run as a cluster
runFails == done' = FALSE /\ UNCHANGED <<cluster, clusterMap, changes>>

MonitorNext == (\E n \in Nodes : Change(n) \/ updateClusterCursor(n)) \/ monitorRun \/ runFails

-----------------------------------------------------------------------------
Same(a, b) == a.in = b.in /\ (a.in => [a EXCEPT !.bakClusterList = {}] = [b EXCEPT !.bakClusterList = {}]
                                      /\ Range(a.bakClusterList) = Range(b.bakClusterList))

\* After every run the map of the client is the cluster as it was answered, in every field, whatever
\* changed in whatever order; only the order of backups may differ
MapFollows == done => \A n \in Nodes : Same(clusterMap[n], cluster[n])
=============================================================================
