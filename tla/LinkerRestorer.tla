--------------------------- MODULE LinkerRestorer ---------------------------
(***************************************************************************)
(* CDownDataRestorerRedis of gb/gb_down_linker: its life cycle, its work   *)
(* status and its threads.  One application thread calls Init, Start,      *)
(* PrepareLoadData, the operations, Stop and Uninit; the worker thread     *)
(* empties the queue; two threads of the RedisClient (sentinel health      *)
(* check and master check) report the client's status through              *)
(* RedisClientCallback.  workStatus_, needClearBackupData_, redisClient_   *)
(* and started_ are shared without a lock, so every access is a step.      *)
(*                                                                         *)
(* The sources do not compile as they stand; read as intended are:         *)
(* ClearBackupData() called without its two arguments, and clear() on a    *)
(* std::queue.                                                             *)
(***************************************************************************)
EXTENDS Integers, Sequences, FiniteSets

CONSTANTS Threads,          \* the threads of RedisClient that call RedisClientCallback
          Threshold,        \* unrecoverableQueueThreshold
          MaxOps, MaxCallbacks, MaxStarts

\* unrecoverableQueueThreshold is a size_t; the application's thread and the worker are not
\* threads of the client
ASSUME RestorerAssumption ==
    /\ IsFiniteSet(Threads) /\ Threads \cap {"app", "worker"} = {}
    /\ Threshold \in Nat /\ MaxOps \in Nat /\ MaxCallbacks \in Nat /\ MaxStarts \in Nat

VARIABLES app,        \* the application's thread: its step and what it is to tell
          worker,     \* DataRestorerThreadFunc
          cb,         \* per client thread: step of RedisClientCallback and its argument
          flags,      \* inited_, started_, forceThreadExit_, needClearBackupData_, redisClient_,
                      \* and m_connected of the client
          status,     \* workStatus_
          queue,      \* operationQueue_: numbers of operations
          hand,       \* what the worker has taken out of it
          store,      \* Redis: operations processed since the last clear (done), those processed
                      \* while the client was not working (lost), data that was to be cleared (stale)
          told,       \* the last value given to callback_
          count,      \* of operations, callbacks, starts, outages and overloads
          wrecked,    \* undefined behaviour or an abort: nothing is known any more
          met         \* which races have been met

vars == <<app, worker, cb, flags, status, queue, hand, store, told, count, wrecked, met>>

Normal == "Normal"
Recoverable == "RecoverableException"
Unrecoverable == "UnrecoverableException"

At(step) == app.step = step
GoTo(step) == app' = [app EXCEPT !.step = step]
Counted(what) == count' = [count EXCEPT ![what] = @ + 1]

Init == /\ app = [step |-> "new", tell |-> "none"] /\ worker = "none"
        /\ cb = [t \in Threads |-> [step |-> "idle", arg |-> Normal]]
        /\ flags = [inited |-> FALSE, started |-> FALSE, force |-> FALSE, clear |-> FALSE,
                    client |-> FALSE, connected |-> FALSE]
        /\ status = Normal /\ queue = <<>> /\ hand = <<>> /\ told = "none"
        /\ store = [done |-> <<>>, lost |-> {}, stale |-> FALSE]
        /\ count = [ops |-> 0, calls |-> 0, starts |-> 0, outages |-> 0, overloads |-> 0]
        /\ wrecked = "no" /\ met = {}

-----------------------------------------------------------------------------
(* The application's thread *)

\* Init: the client's threads run before it returns
InitBegins == /\ At("new")
              /\ \E h \in {"Healthy", "Unhealthy"} : app' = [step |-> "initing", tell |-> h] /\ told' = h
              /\ flags' = [flags EXCEPT !.client = TRUE, !.clear = FALSE]
              /\ UNCHANGED <<worker, cb, status, queue, hand, store, count>>

\* RedisClient::init returns; the status is set whatever a callback has set before
InitReturns(result) ==
    LET healthy == app.tell = "Healthy"
        need == ~(healthy /\ result = Normal) IN
    /\ At("initing") /\ result \in {Normal, Recoverable}
    /\ status' = result
    /\ flags' = [flags EXCEPT !.inited = TRUE, !.clear = need, !.connected = (result = Normal)]
    /\ store' = [store EXCEPT !.stale = need]
    /\ IF result = Normal THEN UNCHANGED count ELSE Counted("outages")
    /\ app' = IF healthy <=> result = Normal THEN [app EXCEPT !.step = "inited"]
              ELSE [step |-> "telling", tell |-> IF healthy THEN "Unhealthy" ELSE "Healthy"]
    /\ UNCHANGED <<worker, cb, queue, hand, told>>

\* RedisClient::init fails for good: no thread of it could be started
InitFails == /\ At("initing") /\ count.calls = 0
             /\ status' = Unrecoverable /\ flags' = [flags EXCEPT !.client = FALSE]
             /\ told' = "Unhealthy" /\ GoTo("over")
             /\ UNCHANGED <<worker, cb, queue, hand, store, count>>

InitTells == /\ At("telling") /\ told' = app.tell /\ GoTo("inited")
             /\ UNCHANGED <<worker, cb, flags, status, queue, hand, store, count>>

Joined == \A t \in Threads : cb[t].step = "idle"

\* freeRedisClient joins the client's threads, then the client is deleted
Free == flags.client => (flags.connected /\ Joined)

\* Start; the managers keep redisClient_ as it is now
Start == /\ At("inited") /\ count.starts < MaxStarts /\ status # Unrecoverable
         /\ worker' = "top" /\ flags' = [flags EXCEPT !.started = TRUE] /\ Counted("starts") /\ GoTo("prepare")
         /\ UNCHANGED <<cb, status, queue, hand, store, told>>

StartRefused == /\ At("inited") /\ status = Unrecoverable /\ Free
                /\ flags' = [flags EXCEPT !.client = FALSE] /\ told' = "Unhealthy" /\ GoTo("over")
                /\ UNCHANGED <<worker, cb, status, queue, hand, store, count>>

\* ClearBackupData does nothing before Start, and nothing that lasts while Redis is away
Cleared == IF flags.started /\ status = Normal THEN [store EXCEPT !.done = <<>>, !.stale = FALSE] ELSE store

\* PrepareLoadData: clear what an earlier life left behind, if that is still to be done.
\* The flag is reset whether or not the client could carry out the commands.
PrepareLoadData ==
    /\ At("prepare") /\ flags.client /\ GoTo("running")
    /\ IF flags.clear THEN flags' = [flags EXCEPT !.clear = FALSE] /\ store' = Cleared
       ELSE UNCHANGED <<flags, store>>
    /\ UNCHANGED <<worker, cb, status, queue, hand, told, count>>

\* An operation: the status is read first, then the queue is locked
PushChecks == /\ At("running") /\ count.ops < MaxOps /\ status # Unrecoverable /\ GoTo("push")
              /\ UNCHANGED <<worker, cb, flags, status, queue, hand, store, told, count>>

Push == /\ At("push") /\ queue' = Append(queue, count.ops + 1) /\ Counted("ops") /\ GoTo("running")
        /\ UNCHANGED <<worker, cb, flags, status, hand, store, told>>

\* Stop: StopDataRestorerThread joins the worker, then StopRestorerMgr deletes the managers
StopBegins == /\ At("running") /\ flags' = [flags EXCEPT !.force = TRUE] /\ GoTo("stopping")
              /\ UNCHANGED <<worker, cb, status, queue, hand, store, told, count>>

StopReturns == /\ At("stopping") /\ worker = "ended" /\ \A t \in Threads : cb[t].step # "clearing"
               /\ flags' = [flags EXCEPT !.started = FALSE] /\ GoTo("stopped")
               /\ UNCHANGED <<worker, cb, status, queue, hand, store, told, count>>

StartAgain == /\ At("stopped") /\ count.starts < MaxStarts /\ GoTo("inited")
              /\ UNCHANGED <<worker, cb, flags, status, queue, hand, store, told, count>>

Uninit == /\ At("stopped") /\ Free /\ flags' = [flags EXCEPT !.client = FALSE, !.inited = FALSE] /\ GoTo("over")
          /\ UNCHANGED <<worker, cb, status, queue, hand, store, told, count>>

-----------------------------------------------------------------------------
(* The worker thread *)

Worker(from, to) == worker = from /\ worker' = to
WorkerOnly == UNCHANGED <<app, cb, flags, status, queue, hand, store, told, count>>

WorkerTop == Worker("top", IF flags.force THEN "ended" ELSE "check1") /\ WorkerOnly
WorkerCheck1 == Worker("check1", IF status = Unrecoverable THEN "giveup" ELSE "check2") /\ WorkerOnly

WorkerCheck2 == Worker("check2", IF status = Recoverable THEN "size" ELSE "assert") /\ WorkerOnly

\* Recoverable: too much has piled up, or another round
WorkerSize ==
    IF Len(queue) > Threshold
    THEN /\ Worker("size", "giveup") /\ status' = Unrecoverable /\ Counted("overloads")
         /\ UNCHANGED <<app, cb, flags, queue, hand, store, told>>
    ELSE Worker("size", "top") /\ WorkerOnly

WorkerGivesUp == /\ Worker("giveup", "stopclient") /\ queue' = <<>>
                 /\ UNCHANGED <<app, cb, flags, status, hand, store, told, count>>

WorkerStopsClient == /\ Worker("stopclient", "tell") /\ Free /\ flags' = [flags EXCEPT !.client = FALSE]
                     /\ UNCHANGED <<app, cb, status, queue, hand, store, told, count>>

WorkerTells == /\ Worker("tell", "ended") /\ told' = "Unhealthy"
               /\ UNCHANGED <<app, cb, flags, status, queue, hand, store, count>>

\* assert(workStatus_ == Normal)
WorkerAsserts == status = Normal /\ Worker("assert", "take") /\ WorkerOnly

\* Wrong on purpose: the newest operation is taken first
WorkerTakesLast ==
    /\ worker = "take" /\ (queue # <<>> \/ flags.force)
    /\ IF flags.force THEN worker' = "ended" /\ UNCHANGED <<queue, hand>>
       ELSE worker' = "process" /\ hand' = <<queue[Len(queue)]>> /\ queue' = SubSeq(queue, 1, Len(queue) - 1)
    /\ UNCHANGED <<app, cb, flags, status, store, told, count>>

\* Wrong on purpose: the wait ends only with an operation
WorkerTakesOnly ==
    /\ Worker("take", "process") /\ queue # <<>> /\ hand' = <<Head(queue)>> /\ queue' = Tail(queue)
    /\ UNCHANGED <<app, cb, flags, status, store, told, count>>

\* Waits, under the queue's lock, for an operation or the end
WorkerTakes ==
    /\ worker = "take" /\ (queue # <<>> \/ flags.force)
    /\ IF flags.force THEN worker' = "ended" /\ UNCHANGED <<queue, hand>>
       ELSE worker' = "process" /\ hand' = <<Head(queue)>> /\ queue' = Tail(queue)
    /\ UNCHANGED <<app, cb, flags, status, store, told, count>>

\* A manager carries the operation out; its result is ignored
WorkerProcesses ==
    /\ Worker("process", "top") /\ flags.client /\ hand' = <<>>
    /\ store' = [store EXCEPT !.done = @ \o hand, !.lost = IF status = Normal THEN @ ELSE @ \cup {hand[1]}]
    /\ UNCHANGED <<app, cb, flags, status, queue, told, count>>

-----------------------------------------------------------------------------
(* RedisClientCallback, in a thread of the client *)

Cb(t, from, to) == cb[t].step = from /\ cb' = [cb EXCEPT ![t].step = to]
CbOnly == UNCHANGED <<app, worker, flags, status, queue, hand, store, told, count>>

CbCalled(t, s) == /\ flags.client /\ count.calls < MaxCallbacks /\ cb[t].step = "idle"
                  /\ cb' = [cb EXCEPT ![t] = [step |-> "check1", arg |-> s]] /\ Counted("calls")
                  /\ UNCHANGED <<app, worker, flags, status, queue, hand, store, told>>

CbCheck1(t) == status # Unrecoverable /\ Cb(t, "check1", "check2") /\ CbOnly
CbCheck2(t) == /\ Cb(t, "check2", IF status = Normal /\ cb[t].arg # Normal THEN "down" ELSE "check3") /\ CbOnly
CbDown(t) == /\ Cb(t, "down", "tellbad") /\ status' = Recoverable /\ Counted("outages")
             /\ UNCHANGED <<app, worker, flags, queue, hand, store, told>>

CbTellsBad(t) == /\ Cb(t, "tellbad", "idle") /\ told' = "Unhealthy"
                 /\ UNCHANGED <<app, worker, flags, status, queue, hand, store, count>>

CbCheck3(t) == /\ Cb(t, "check3", IF status = Recoverable /\ cb[t].arg = Normal THEN "up" ELSE "idle") /\ CbOnly
CbUp(t) == /\ Cb(t, "up", "need") /\ status' = Normal
           /\ UNCHANGED <<app, worker, flags, queue, hand, store, told, count>>

CbNeed(t) == Cb(t, "need", IF flags.clear THEN "clearing" ELSE "tellgood") /\ CbOnly

\* The flag is reset even if ClearBackupData has refused
CbClears(t) == /\ Cb(t, "clearing", "tellgood") /\ flags' = [flags EXCEPT !.clear = FALSE] /\ store' = Cleared
               /\ UNCHANGED <<app, worker, status, queue, hand, told, count>>

CbTellsGood(t) == /\ Cb(t, "tellgood", "idle") /\ told' = "Healthy"
                  /\ UNCHANGED <<app, worker, flags, status, queue, hand, store, count>>

-----------------------------------------------------------------------------
(* What ends in undefined behaviour *)

\* The assertion of the worker's loop fails: another thread has changed the status
AssertFails == worker = "assert" /\ status # Normal

\* freeRedisClient refuses a client that was not connected by init; it is deleted under its
\* running threads
DeletedUnderThreads ==
    flags.client /\ ~flags.connected /\ (At("stopped") \/ worker = "stopclient" \/ (At("inited") /\ status = Unrecoverable))

\* Unrecoverable: StopRedisClient by a thread of the client, which joins itself, and deletes
\* the object it runs in
DeletesItself(t) == cb[t].step = "check1" /\ status = Unrecoverable

\* The client is gone and one of its threads is not, or a manager is asked to use it
ClientLost == \/ DeletedUnderThreads \/ (\E t \in Threads : DeletesItself(t))
              \/ (~flags.client /\ \E t \in Threads : cb[t].step # "idle")
              \/ (~flags.client /\ (worker = "process" \/ At("prepare")))

\* The managers are deleted while a callback clears the stored data with them
ManagersDeleted == At("stopping") /\ worker = "ended" /\ \E t \in Threads : cb[t].step = "clearing"

Wreck == /\ \/ AssertFails /\ wrecked' = "assert"
            \/ ManagersDeleted /\ wrecked' = "managers"
            \/ (ClientLost = TRUE) /\ wrecked' = "client"
         /\ UNCHANGED <<app, worker, cb, flags, status, queue, hand, store, told, count, met>>

-----------------------------------------------------------------------------
App == \/ InitBegins \/ InitReturns(Normal) \/ InitReturns(Recoverable) \/ InitFails \/ InitTells \/ Start
       \/ StartRefused \/ PrepareLoadData \/ PushChecks \/ Push \/ StopBegins \/ StopReturns \/ StartAgain \/ Uninit

WorkerStep == \/ WorkerTop \/ WorkerCheck1 \/ WorkerCheck2 \/ WorkerSize \/ WorkerGivesUp \/ WorkerStopsClient
              \/ WorkerTells \/ WorkerAsserts \/ WorkerTakes \/ WorkerProcesses

CbStep(t) == \/ CbCheck1(t) \/ CbCheck2(t) \/ CbDown(t) \/ CbTellsBad(t) \/ CbCheck3(t) \/ CbUp(t) \/ CbNeed(t)
             \/ CbClears(t) \/ CbTellsGood(t)

\* Threads that have begun to change the status and have not reported it yet
Busy == {t \in Threads : cb[t].step # "idle"}
            \cup (IF app.step \in {"initing", "telling"} THEN {"app"} ELSE {})
            \cup (IF worker \in {"giveup", "stopclient", "tell"} THEN {"worker"} ELSE {})

\* The races a step takes part in
Races ==
    {r \in {"overlap", "revived", "vain clear", "before the clear"} :
        CASE r = "overlap" -> Cardinality(Busy') > 1
          [] r = "revived" -> status = Unrecoverable /\ status' # Unrecoverable
          [] r = "vain clear" -> flags.clear /\ ~flags'.clear /\ ~(flags.started /\ status = Normal)
          [] OTHER -> worker = "process" /\ worker' = "top" /\ \E t \in Threads : cb[t].step \in {"need", "clearing"}}

Seen == wrecked' = wrecked /\ met' = met \cup Races
AppDoes == wrecked = "no" /\ App /\ Seen
WorkerDoes == wrecked = "no" /\ WorkerStep /\ Seen
CbDoes(t) == wrecked = "no" /\ CbStep(t) /\ Seen
Calls == wrecked = "no" /\ (\E t \in Threads, s \in {Normal, Recoverable} : CbCalled(t, s)) /\ Seen

Wrecks == wrecked = "no" /\ Wreck

\* The application may stop using the restorer at any time, and a wreck is the end
Rest == /\ wrecked # "no" \/ app.step \in {"over", "inited", "prepare", "running", "stopped"}
        /\ UNCHANGED vars

Next == AppDoes \/ WorkerDoes \/ (\E t \in Threads : CbDoes(t)) \/ Calls \/ Wrecks \/ Rest

\* The threads run
Fairness == WF_vars(WorkerDoes) /\ WF_vars(Wrecks) /\ \A t \in Threads : WF_vars(CbDoes(t))

\* ... and so does Stop, once it has been called
Spec == Init /\ [][Next]_vars /\ Fairness /\ WF_vars(At("stopping") /\ AppDoes)

-----------------------------------------------------------------------------
Fine == wrecked = "no"
Quiet == Busy = {}

Operations == store.done \o hand \o queue

\* Operations are processed in the order they were accepted in, and without a gap until the
\* worker gives up: an application's insert, update and delete of one entity are not swapped,
\* whatever the callbacks do.  A clear of the stored data makes the sequence begin later; only
\* the queue that is cleared when the worker gives up leaves a gap, before the operation that
\* was being pushed.
OperationsInOrder ==
    Fine => \A i \in 1 .. Len(Operations) - 1 :
                /\ Operations[i] < Operations[i + 1]
                /\ count.overloads = 0 => Operations[i + 1] = Operations[i] + 1

\* An outage costs at most one operation: the one the worker has waited for, or has taken,
\* when the client reports it; the others wait in the queue for the recovery.
OneLossPerOutage == Fine => Cardinality(store.lost) <= count.outages

\* When nobody is about to change the status, the application has been told it - unless two
\* threads have changed it at the same time, or Init has overwritten it.
HealthReported ==
    Fine /\ Quiet /\ "overlap" \notin met /\ flags.inited => (told = "Healthy" <=> status = Normal)

\* Data of an earlier life is not served: after PrepareLoadData it is cleared - unless the
\* flag was reset by a clear that could do nothing, before Start or while Redis was away.
StaleDataCleared == Fine /\ app.step \in {"running", "push"} /\ store.stale => "vain clear" \in met

\* A client is deleted under its threads only after an overload or if init had not connected
\* it: otherwise Stop and Uninit are safe against callbacks that are under way.
SafeUnlessOverloaded == wrecked = "client" => count.overloads > 0 \/ ~flags.connected

\* A worker that has given up leaves at most the operation that was being pushed, unless a
\* callback that had read the status before has changed it behind the worker.
GivesUpBounded ==
    Fine /\ count.overloads > 0 /\ worker = "ended" /\ "revived" \notin met => Len(queue) <= 1

RestorerSafe ==
    /\ OperationsInOrder /\ OneLossPerOutage /\ HealthReported
    /\ StaleDataCleared /\ SafeUnlessOverloaded /\ GivesUpBounded

\* The clear of a recovery deletes no operation accepted in this life, unless the worker was
\* quicker: the status is Normal before the data is cleared.
ClearSparesOperations == store.done # <<>> /\ store'.done = <<>> => "before the clear" \in met

\* After every step: operations keep their order, the status that was told is right, old data is
\* cleared and no new data with it, and the client outlives its threads, each but for the races
\* that the conjuncts name.
RestorerRight == [][RestorerSafe' /\ ClearSparesOperations]_vars

\* The worker takes an operation only when the status is Normal: the assertion of its loop.
AssertHolds == worker = "assert" => status = Normal

\* Stop comes to an end, in whatever state the worker and the callbacks are.
StopEnds == At("stopping") ~> (~At("stopping") \/ ~Fine)

\* A queue that outgrows the threshold during an outage ends the restorer, or the outage
\* ends, or the application stops it.
OverloadNoticed ==
    (worker \notin {"none", "ended"} /\ status = Recoverable /\ Len(queue) > Threshold /\ Fine)
        ~> (status # Recoverable \/ Len(queue) <= Threshold \/ worker = "ended" \/ ~Fine)

-----------------------------------------------------------------------------
(* The inductive invariant *)

AppSteps == {"new", "initing", "telling", "inited", "prepare", "running", "push", "stopping", "stopped", "over"}
GivingUp == {"giveup", "stopclient", "tell"}
WorkerSteps == {"none", "top", "check1", "check2", "size", "assert", "take", "process", "ended"} \cup GivingUp
CbSteps == {"idle", "check1", "check2", "down", "tellbad", "check3", "up", "need", "clearing", "tellgood"}
Told == {"none", "Healthy", "Unhealthy"}

AppType == [step : AppSteps, tell : Told]
CbType == [Threads -> [step : CbSteps, arg : {Normal, Recoverable}]]
FlagType == [inited : BOOLEAN, started : BOOLEAN, force : BOOLEAN, clear : BOOLEAN, client : BOOLEAN, connected : BOOLEAN]
StoreType == [done : Seq(Nat), lost : SUBSET Nat, stale : BOOLEAN]
CountType == [ops : Nat, calls : Nat, starts : Nat, outages : Nat, overloads : Nat]

TypeOK ==
    /\ app \in AppType /\ worker \in WorkerSteps /\ cb \in CbType /\ flags \in FlagType
    /\ status \in {Normal, Recoverable, Unrecoverable}
    /\ queue \in Seq(Nat) /\ hand \in Seq(Nat) /\ told \in Told
    /\ store \in StoreType /\ count \in CountType /\ wrecked \in {"no", "assert", "managers", "client"}

\* Where the worker is when the application's thread is somewhere, and what it holds
PlacesInv ==
    /\ app.step \in {"new", "initing", "telling"} => worker = "none"
    /\ app.step \in {"inited", "stopped", "over"} => worker \in {"none", "ended"}
    /\ worker = "none" => count.overloads = 0
    /\ worker \in GivingUp => count.overloads > 0
    /\ IF worker = "process" THEN Len(hand) = 1 ELSE hand = <<>>
    /\ count.overloads = 0 /\ status = Unrecoverable => app.step = "over" /\ ~flags.client
    /\ count.overloads = 0 /\ ~flags.client =>
           app.step \in {"new", "over"} /\ Joined
    /\ count.calls = 0 => Joined

Ordered(s, last, gaps) ==
    /\ \A i \in 1 .. Len(s) : s[i] <= last
    /\ \A i \in 1 .. Len(s) - 1 : s[i] < s[i + 1] /\ (gaps = 0 => s[i + 1] = s[i] + 1)
    /\ gaps = 0 /\ s # <<>> => s[Len(s)] = last

OrderInv == Ordered(Operations, count.ops, count.overloads)

LossInv ==
    /\ IsFiniteSet(store.lost) /\ Cardinality(store.lost) <= count.outages
    /\ worker \in {"take", "process"} /\ status # Normal => Cardinality(store.lost) < count.outages

GiveUpInv ==
    count.overloads > 0 /\ "revived" \notin met =>
        /\ status = Unrecoverable /\ worker \in GivingUp \cup {"ended"}
        /\ worker # "giveup" => Len(queue) <= IF app.step = "push" THEN 0 ELSE 1

ClearInv ==
    /\ flags.clear => count.ops = 0 /\ app.step \in {"telling", "inited", "prepare", "over"}
    /\ app.step \in {"new", "initing", "telling"} => count.ops = 0
    /\ count.ops = 0 => store.done = <<>> /\ hand = <<>> /\ queue = <<>>
    /\ store.stale => flags.clear \/ "vain clear" \in met
    /\ \A t \in Threads : cb[t].step = "clearing" /\ store.done # <<>> => "before the clear" \in met

ToldRight == flags.inited => (told = "Healthy" <=> status = Normal)

HealthInv ==
    "overlap" \notin met =>
        /\ \A a, b \in Busy : a = b
        /\ app.step = "initing" => told = app.tell
        /\ app.step = "telling" => (app.tell = "Healthy" <=> status = Normal)
        /\ worker \in GivingUp => status # Normal
        /\ Busy = {} => ToldRight
        /\ \A t \in Threads :
               /\ cb[t].step \in {"check1", "check2", "check3"} => ToldRight
               /\ cb[t].step = "tellbad" => status # Normal
               /\ cb[t].step \in {"need", "clearing", "tellgood"} => status = Normal

RestorerInv ==
    /\ TypeOK /\ PlacesInv /\ OrderInv /\ LossInv /\ GiveUpInv /\ ClearInv /\ HealthInv
    /\ SafeUnlessOverloaded
=============================================================================
