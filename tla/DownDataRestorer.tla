-------------------------- MODULE DownDataRestorer --------------------------
(***************************************************************************)
(* The life cycle of DownDataRestorer and its operation queue              *)
(* (gb/downdatarestorer_norah/downdatarestorer.cpp): the owner's           *)
(* Init/Start/Stop/Uninit, the callers' enqueueing and reading methods,    *)
(* and the restorer threads that pop operations and hand them to the       *)
(* entity managers.  A step is what one thread does between two points     *)
(* where another can observe it: everything under operations_queue_mutex_  *)
(* but the reads of force_thread_exit_ and the wait, which Stop() races.   *)
(***************************************************************************)
EXTENDS Integers, Sequences, FiniteSets

CONSTANTS Callers,          \* threads that call the enqueueing and reading methods
          Ops,              \* DataRestorerOperation values
          NoOp,             \* no operation in a thread's hands
          InviteInserts,    \* those of InsertExecutingInviteCmdList, which signals one waiter
          MaxOps,           \* bound: operations submitted
          MaxStarts,        \* bound: calls of Start() that get to pthread_create
          Disciplined,      \* TRUE: the owner joins the callers before Stop() and stops before
                            \* Uninit(), as the destructor and the tests do
          LatchMayFail      \* TRUE: pthread_mutex_init/cond_init of the latch may fail

ASSUME ConstantsAssumption ==
    /\ InviteInserts \subseteq Ops /\ NoOp \notin Ops
    /\ MaxOps \in Nat /\ MaxStarts \in Nat
    /\ Disciplined \in BOOLEAN /\ LatchMayFail \in BOOLEAN

Threads == 1 .. MaxStarts   \* thread i is the i-th that pthread_create started
Null == -1                  \* a NULL data_restorer_threads_exit_latch

VARIABLES
    inited, started, force_thread_exit,
    mgrs,      \* the three managers: "null", "live", or "stale" (their client was deleted)
    size,      \* data_restorer_threads_.size(); the vector is never cleared
    attempts,  \* calls of pthread_create
    latch,     \* count_ of data_restorer_threads_exit_latch, or Null
    queue,     \* operations_queue_
    mutex,     \* the restorer thread that holds operations_queue_mutex_, or 0
    pc, op,    \* per restorer thread: where it is, and the operation it popped
    cancel,    \* threads with a pending pthread_cancel
    opc, cpc,  \* where the owner and each caller are
    accepted, applied   \* history: operations pushed, operations carried out

owner == <<inited, started, force_thread_exit, mgrs, size, attempts, cancel>>
hist  == <<accepted, applied>>
vars  == <<owner, latch, queue, mutex, pc, op, opc, cpc, hist>>

\* Where a restorer thread has ended, or has not begun
Gone == {"unborn", "exited", "cancelled"}
Holding == {"check", "prewait", "pop"}
PCs == Gone \cup Holding \cup {"loop", "lock", "wait", "relock", "apply", "countdown", "crashed"}

TypeOK ==
    /\ inited \in BOOLEAN /\ started \in BOOLEAN /\ force_thread_exit \in BOOLEAN
    /\ mgrs \in {"null", "live", "stale"}
    /\ size \in 0 .. MaxStarts /\ attempts \in 0 .. MaxStarts
    /\ latch \in Int
    /\ queue \in Seq(Ops) /\ accepted \in Seq(Ops) /\ applied \in Seq(Ops)
    /\ mutex \in Threads \cup {0}
    /\ pc \in [Threads -> PCs] /\ op \in [Threads -> Ops \cup {NoOp}]
    /\ cancel \subseteq Threads
    /\ opc \in {"idle", "create", "latch", "signal", "await"}
    /\ cpc \in [Callers -> {"idle", "enqueue", "read"}]

Init ==
    /\ inited = FALSE /\ started = FALSE /\ force_thread_exit = FALSE
    /\ mgrs = "null" /\ size = 0 /\ attempts = 0 /\ latch = Null
    /\ queue = <<>> /\ mutex = 0
    /\ pc = [t \in Threads |-> "unborn"] /\ op = [t \in Threads |-> NoOp]
    /\ cancel = {}
    /\ opc = "idle" /\ cpc = [c \in Callers |-> "idle"]
    /\ accepted = <<>> /\ applied = <<>>

\* A call through a NULL latch pointer ends the process
Alive == \A t \in Threads : pc[t] # "crashed"
OwnerAt(where) == Alive /\ opc = where
CallerAt(c, where) == Alive /\ cpc[c] = where
Step(t, from, to) == Alive /\ pc[t] = from /\ pc' = [pc EXCEPT ![t] = to]

-----------------------------------------------------------------------------
(* The owner thread.  A failing Init() leaves everything as it was.        *)

InitOk ==
    /\ OwnerAt("idle") /\ ~inited
    /\ inited' = TRUE
    /\ UNCHANGED <<started, force_thread_exit, mgrs, size, attempts, cancel>>
    /\ UNCHANGED <<latch, queue, mutex, pc, op, opc, cpc, hist>>

\* Uninit() deletes the client whether or not the managers still point to it
Uninit ==
    /\ OwnerAt("idle") /\ inited
    /\ Disciplined => ~started
    /\ inited' = FALSE
    /\ mgrs' = IF mgrs = "live" THEN "stale" ELSE mgrs
    /\ UNCHANGED <<started, force_thread_exit, size, attempts, cancel>>
    /\ UNCHANGED <<latch, queue, mutex, pc, op, opc, cpc, hist>>

\* Start() up to the thread creation: new managers over the present client
StartManagers ==
    /\ OwnerAt("idle") /\ inited /\ ~started
    /\ attempts < MaxStarts
    /\ mgrs' = "live" /\ opc' = "create"
    /\ UNCHANGED <<inited, started, force_thread_exit, size, attempts, cancel>>
    /\ UNCHANGED <<latch, queue, mutex, pc, op, cpc, hist>>

CreateThread ==
    /\ OwnerAt("create")
    /\ attempts' = attempts + 1 /\ size' = size + 1
    /\ pc' = [pc EXCEPT ![size + 1] = "loop"]
    /\ opc' = "latch"
    /\ UNCHANGED <<inited, started, force_thread_exit, mgrs, cancel>>
    /\ UNCHANGED <<latch, queue, mutex, op, cpc, hist>>

\* pthread_create fails; Start() gives up only if the vector is empty
CreateThreadFails ==
    /\ OwnerAt("create")
    /\ attempts' = attempts + 1
    /\ opc' = IF size = 0 THEN "idle" ELSE "latch"
    /\ UNCHANGED <<inited, started, force_thread_exit, mgrs, size, cancel>>
    /\ UNCHANGED <<latch, queue, mutex, pc, op, cpc, hist>>

\* Wrong on purpose: the latch misses one thread
NewLatchShort ==
    /\ OwnerAt("latch")
    /\ latch' = size - 1 /\ started' = TRUE /\ opc' = "idle"
    /\ UNCHANGED <<inited, force_thread_exit, mgrs, size, attempts, cancel>>
    /\ UNCHANGED <<queue, mutex, pc, op, cpc, hist>>

\* The latch counts every thread in the vector, and is created after them
NewLatch ==
    /\ OwnerAt("latch")
    /\ latch' = size /\ started' = TRUE /\ opc' = "idle"
    /\ UNCHANGED <<inited, force_thread_exit, mgrs, size, attempts, cancel>>
    /\ UNCHANGED <<queue, mutex, pc, op, cpc, hist>>

\* The latch is not valid: KillDataRestorerThread().  A thread that sleeps in
\* pthread_cond_wait is cancelled there, the others at their next such point.
LatchInvalid ==
    /\ OwnerAt("latch") /\ LatchMayFail
    /\ cancel' = {t \in Threads : t <= size}
    /\ pc' = [t \in Threads |-> IF pc[t] = "wait" THEN "cancelled" ELSE pc[t]]
    /\ latch' = Null /\ opc' = "idle"
    /\ UNCHANGED <<inited, started, force_thread_exit, mgrs, size, attempts>>
    /\ UNCHANGED <<queue, mutex, op, cpc, hist>>

\* Stop() sets the flag without the mutex ...
StopFlag ==
    /\ OwnerAt("idle") /\ started
    /\ Disciplined => \A c \in Callers : cpc[c] = "idle"
    /\ force_thread_exit' = TRUE /\ opc' = "signal"
    /\ UNCHANGED <<inited, started, mgrs, size, attempts, cancel>>
    /\ UNCHANGED <<latch, queue, mutex, pc, op, cpc, hist>>

Awake(S) == [t \in Threads |-> IF t \in S THEN "relock" ELSE pc[t]]
Waiting == {t \in Threads : pc[t] = "wait"}

\* ... then wakes whoever sleeps now ...
StopSignal ==
    /\ OwnerAt("signal")
    /\ pc' = Awake(Waiting) /\ opc' = "await"
    /\ UNCHANGED <<owner, latch, queue, mutex, op, cpc, hist>>

\* Wrong on purpose: does not wait for the latch
StopReturnAtOnce ==
    /\ OwnerAt("await")
    /\ latch' = Null /\ mgrs' = "null" /\ started' = FALSE /\ opc' = "idle"
    /\ UNCHANGED <<inited, force_thread_exit, size, attempts, cancel>>
    /\ UNCHANGED <<queue, mutex, pc, op, cpc, hist>>

\* ... waits for the latch, deletes it and the managers.  The flag, the vector
\* and the queue keep their values.
StopReturn ==
    /\ OwnerAt("await") /\ latch = 0
    /\ latch' = Null /\ mgrs' = "null" /\ started' = FALSE /\ opc' = "idle"
    /\ UNCHANGED <<inited, force_thread_exit, size, attempts, cancel>>
    /\ UNCHANGED <<queue, mutex, pc, op, cpc, hist>>

-----------------------------------------------------------------------------
(* The callers.  CHECK(started_) aborts the process when it fails, so a    *)
(* call goes on only from a started restorer.                              *)

Call(c, where) ==
    /\ CallerAt(c, "idle") /\ started
    /\ Disciplined => opc = "idle"
    /\ cpc' = [cpc EXCEPT ![c] = where]
    /\ UNCHANGED <<owner, latch, queue, mutex, pc, op, opc, hist>>

\* Wrong on purpose: pushes without a signal
EnqueueSilently(c, o) ==
    /\ CallerAt(c, "enqueue") /\ mutex = 0
    /\ Len(accepted) < MaxOps
    /\ queue' = Append(queue, o) /\ accepted' = Append(accepted, o)
    /\ cpc' = [cpc EXCEPT ![c] = "idle"]
    /\ UNCHANGED <<owner, latch, mutex, pc, op, opc, applied>>

\* The mutator's critical section: push a copy of the operation and signal
Enqueue(c, o) ==
    /\ CallerAt(c, "enqueue") /\ mutex = 0
    /\ Len(accepted) < MaxOps
    /\ queue' = Append(queue, o) /\ accepted' = Append(accepted, o)
    /\ IF o \in InviteInserts /\ Waiting # {}
       THEN \E t \in Waiting : pc' = Awake({t})
       ELSE pc' = Awake(Waiting)
    /\ cpc' = [cpc EXCEPT ![c] = "idle"]
    /\ UNCHANGED <<owner, latch, mutex, op, opc, applied>>

\* A Load*, Select* or Get*Count call is done with the manager it used
ReadDone(c) ==
    /\ CallerAt(c, "read")
    /\ cpc' = [cpc EXCEPT ![c] = "idle"]
    /\ UNCHANGED <<owner, latch, queue, mutex, pc, op, opc, hist>>

-----------------------------------------------------------------------------
(* DataRestorerThreadFunc                                                  *)

\* while(!force_thread_exit_)
Loop(t) ==
    /\ Step(t, "loop", IF force_thread_exit THEN "countdown" ELSE "lock")
    /\ UNCHANGED <<owner, latch, queue, mutex, op, opc, cpc, hist>>

Lock(t) ==
    /\ Step(t, "lock", "check") /\ mutex = 0
    /\ mutex' = t
    /\ UNCHANGED <<owner, latch, queue, op, opc, cpc, hist>>

\* The inner while: queue empty? then force_thread_exit_?
Check(t) ==
    /\ Step(t, "check", IF queue = <<>> /\ ~force_thread_exit THEN "prewait" ELSE "pop")
    /\ UNCHANGED <<owner, latch, queue, mutex, op, opc, cpc, hist>>

\* pthread_cond_wait: release the mutex and sleep; a cancellation point
Wait(t) ==
    /\ Step(t, "prewait", IF t \in cancel THEN "cancelled" ELSE "wait")
    /\ mutex' = 0
    /\ UNCHANGED <<owner, latch, queue, op, opc, cpc, hist>>

SpuriousWakeup(t) ==
    /\ Step(t, "wait", "relock")
    /\ UNCHANGED <<owner, latch, queue, mutex, op, opc, cpc, hist>>

Relock(t) ==
    /\ Step(t, "relock", "check") /\ mutex = 0
    /\ mutex' = t
    /\ UNCHANGED <<owner, latch, queue, op, opc, cpc, hist>>

\* if(force_thread_exit_) break; the guard's destructor unlocks
ExitFromPop(t) ==
    /\ force_thread_exit
    /\ Step(t, "pop", "countdown")
    /\ mutex' = 0
    /\ UNCHANGED <<owner, latch, queue, op, opc, cpc, hist>>

\* Wrong on purpose: reads the front and leaves it in the queue
PopKeepsFront(t) ==
    /\ ~force_thread_exit
    /\ Step(t, "pop", "apply")
    /\ op' = [op EXCEPT ![t] = Head(queue)]
    /\ mutex' = 0
    /\ UNCHANGED <<owner, latch, queue, opc, cpc, hist>>

Pop(t) ==
    /\ ~force_thread_exit
    /\ Step(t, "pop", "apply")
    /\ op' = [op EXCEPT ![t] = Head(queue)] /\ queue' = Tail(queue)
    /\ mutex' = 0
    /\ UNCHANGED <<owner, latch, opc, cpc, hist>>

\* Dispatch to the manager, whose result is ignored, and delete the copies.  A
\* manager over a deleted client may do anything, or end the process.
Apply(t) ==
    /\ \E next \in {"loop"} \cup {x \in {"crashed"} : mgrs = "stale"} : Step(t, "apply", next)
    /\ applied' = Append(applied, op[t]) /\ op' = [op EXCEPT ![t] = NoOp]
    /\ UNCHANGED <<owner, latch, queue, mutex, opc, cpc, accepted>>

\* The manager's socket calls are cancellation points
CancelledInApply(t) ==
    /\ t \in cancel
    /\ Step(t, "apply", "cancelled")
    /\ op' = [op EXCEPT ![t] = NoOp]
    /\ UNCHANGED <<owner, latch, queue, mutex, opc, cpc, hist>>

\* data_restorer_threads_exit_latch->CountDown(), through a pointer that may be NULL
CountDown(t) ==
    /\ Step(t, "countdown", IF latch = Null THEN "crashed" ELSE "exited")
    /\ latch' = IF latch = Null THEN Null ELSE latch - 1
    /\ UNCHANGED <<owner, queue, mutex, op, opc, cpc, hist>>

-----------------------------------------------------------------------------
OwnerNext == \/ InitOk \/ Uninit \/ StartManagers \/ CreateThread \/ CreateThreadFails
             \/ NewLatch \/ LatchInvalid \/ StopFlag \/ StopSignal \/ StopReturn

CallerNext(c) == \/ Call(c, "enqueue") \/ Call(c, "read") \/ ReadDone(c)
                 \/ \E o \in Ops : Enqueue(c, o)

\* What a thread does by itself
ThreadRun(t) == \/ Loop(t) \/ Lock(t) \/ Check(t) \/ Wait(t) \/ Relock(t) \/ ExitFromPop(t)
                \/ Pop(t) \/ Apply(t) \/ CancelledInApply(t) \/ CountDown(t)

Next == \/ OwnerNext
        \/ \E c \in Callers : CallerNext(c)
        \/ \E t \in Threads : ThreadRun(t) \/ SpuriousWakeup(t)

Spec == Init /\ [][Next]_vars

\* The kernel schedules every runnable thread; a Start() or Stop() that was begun goes on.
Fairness ==
    /\ WF_vars(CreateThread \/ CreateThreadFails)
    /\ WF_vars(NewLatch)
    /\ WF_vars(StopSignal \/ StopReturn)
    /\ \A t \in Threads : WF_vars(ThreadRun(t))

FairSpec == Spec /\ Fairness

-----------------------------------------------------------------------------
(* Properties                                                              *)

Running(t) == pc[t] \notin Gone
RunningThreads == {t \in Threads : Running(t)}

\* assert(!operations_queue_.empty()): a thread that gets to the pop with the
\* flag still clear finds an operation, whoever else pushed, popped or woke it.
PopFindsOperation ==
    \A t \in Threads : pc[t] = "pop" /\ ~force_thread_exit => queue # <<>>

\* No wakeup of an enqueueing method is lost: a thread sleeps on
\* operations_queue_not_empty_condvar only while the queue is empty.
SleepsOnlyWhenEmpty == Waiting # {} => queue = <<>>

\* Stop() deletes the managers only when no restorer thread can still use them.
ManagersOutliveThreads ==
    \A t \in Threads : Running(t) /\ pc[t] # "countdown" => mgrs # "null"

\* Stop() returns only when every restorer thread ever started has ended.
StopJoinsThreads ==
    [][started /\ ~started' => \A t \in Threads : ~Running(t)]_vars

\* assert(valid_) in CountDown(): the latch exists when a thread counts down,
\* although Start() creates it after the thread.
LatchThereForCountDown ==
    \A t \in Threads : pc[t] = "countdown" => latch # Null

\* The same of a restorer that is started once.
LatchThereInFirstSession == attempts <= 1 => LatchThereForCountDown

\* Operations reach the managers one at a time, in the order in which they were
\* accepted, and each once.
Log == INSTANCE OperationLog
InOrderOnce == Log!Spec

\* Every accepted operation is carried out, unless Stop() is called first.
AcceptedIsApplied ==
    \A n \in 1 .. MaxOps :
        Len(accepted) >= n ~> Len(applied) >= n \/ force_thread_exit

\* Stop() returns.
StopReturns == opc = "await" ~> opc = "idle"

-----------------------------------------------------------------------------
(* The inductive invariant behind the safety properties.                   *)

\* Where Start() and Stop() are, and what the latch, the flag and the vector are there
SessionInv ==
    /\ size <= attempts
    /\ opc = "create" => attempts < MaxStarts
    /\ opc \in {"create", "latch"} => ~started /\ mgrs # "null"
    /\ opc \in {"signal", "await"} => started /\ force_thread_exit
    /\ started <=> latch # Null
    /\ latch = Null \/ latch \in Nat
    /\ opc = "latch" \/ started \/ force_thread_exit => attempts >= 1
    /\ \A t \in Threads : pc[t] = "unborn" <=> t > size
    /\ \A t \in Threads : pc[t] = "countdown" => force_thread_exit

MutexInv == \A t \in Threads : pc[t] \in Holding <=> mutex = t

\* At most one running thread has no pending cancellation; between sessions none has
OneWorkerInv ==
    /\ \A s, t \in RunningThreads \ cancel : s = t
    /\ ~started /\ opc # "latch" => RunningThreads \subseteq cancel
    /\ \A t \in cancel : pc[t] # "wait"

SleepInv == \A t \in Threads : pc[t] \in {"prewait", "wait"} => queue = <<>>

\* A thread has an operation in hand exactly while it applies one
HandInv == \A t \in Threads : pc[t] = "apply" <=> op[t] # NoOp

\* The latch never counts fewer threads than are running
LatchInv == latch # Null => Cardinality(RunningThreads) <= latch

\* No thread is left between two sessions, or without managers
EndInv ==
    /\ mgrs = "null" => RunningThreads = {}
    /\ force_thread_exit /\ attempts <= 1 /\ ~started => RunningThreads = {}

\* All of this holds at every step of Start(), Stop(), the enqueueing methods and
\* DataRestorerThreadFunc; the properties above follow from it.
Inv == /\ TypeOK /\ SessionInv /\ MutexInv /\ OneWorkerInv /\ SleepInv
       /\ PopFindsOperation /\ HandInv /\ LatchInv /\ EndInv

\* Where no thread is ever cancelled, what was accepted is what was applied, then
\* the operation in the one worker's hands, then the queue: Pop, Apply and the
\* enqueueing methods only move the two borders.
InHand == IF \E t \in Threads : pc[t] = "apply" THEN 1 ELSE 0
LogInv ==
    /\ cancel = {}
    /\ Len(accepted) = Len(applied) + InHand + Len(queue)
    /\ \A t \in Threads : pc[t] = "apply" => op[t] = accepted[Len(applied) + 1]
    /\ \A i \in 1 .. Len(queue) : queue[i] = accepted[Len(applied) + InHand + i]
=============================================================================
