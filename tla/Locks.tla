------------------------------- MODULE Locks --------------------------------
(***************************************************************************)
(* The locks of gb/downdatarestorer_norah: ReadGuard and WriteGuard over a *)
(* pthread_rwlock (rwmutex.cpp), and CountDownLatch, CondVar and MutexLock *)
(* over the mutex and the condition variable of pthreads. The two parts    *)
(* are independent: GuardSpec and LatchSpec.                               *)
(***************************************************************************)
EXTENDS Integers, Sequences, FiniteSets, SequencesExt

-----------------------------------------------------------------------------
(***************************************************************************)
(* ReadGuard and WriteGuard of gb/downdatarestorer_norah/rwmutex.cpp: the  *)
(* constructor asks a pthread_rwlock and remembers the result, the         *)
(* destructor releases only what was acquired.  pthread_rwlock refuses a   *)
(* thread that already writes (EDEADLK) and makes all others wait; guards  *)
(* may be nested, and a function that holds one may call another that      *)
(* takes one.  RWMutex also has acquireCertainWrite, which uses members    *)
(* that its constructor does not set and which nothing calls.              *)
(***************************************************************************)

CONSTANTS Threads, MaxDepth

VARIABLES writer,        \* the thread that has the lock for writing, when there is one
          readers,       \* of each thread, how often it has the lock for reading
          stack,         \* of each thread, its guards, the innermost first: [kind, ret]
          asks           \* of each thread, the guard whose constructor it is in: "none", "read", "write"

guardVars == <<writer, readers, stack, asks>>

GuardInit ==
    /\ writer = {} /\ readers = [t \in Threads |-> 0]
    /\ stack = [t \in Threads |-> <<>>] /\ asks = [t \in Threads |-> "none"]

-----------------------------------------------------------------------------
(* pthread_rwlock *)

Refused(t) == t \in writer
ReadBlocked(t) == writer # {} /\ ~Refused(t)
WriteBlocked(t) == ~Refused(t) /\ (writer # {} \/ \E u \in Threads : readers[u] > 0)

Unlock(t) ==
    IF t \in writer THEN writer' = {} /\ UNCHANGED readers
    ELSE readers' = [readers EXCEPT ![t] = IF @ > 0 THEN @ - 1 ELSE 0] /\ UNCHANGED writer

-----------------------------------------------------------------------------

\* A guard is constructed
Ask(t, kind) ==
    /\ asks[t] = "none" /\ Len(stack[t]) < MaxDepth
    /\ asks' = [asks EXCEPT ![t] = kind]
    /\ UNCHANGED <<writer, readers, stack>>

Constructed(t, ret) ==
    /\ stack' = [stack EXCEPT ![t] = <<[kind |-> asks[t], ret |-> ret]>> \o @]
    /\ asks' = [asks EXCEPT ![t] = "none"]

\* acquireRead returns
ReadGuard(t) ==
    /\ asks[t] = "read" /\ ~ReadBlocked(t)
    /\ IF Refused(t) THEN Constructed(t, "EDEADLK") /\ UNCHANGED readers
       ELSE Constructed(t, "ok") /\ readers' = [readers EXCEPT ![t] = @ + 1]
    /\ UNCHANGED writer

\* acquireWrite returns
WriteGuard(t) ==
    /\ asks[t] = "write" /\ ~WriteBlocked(t)
    /\ IF Refused(t) THEN Constructed(t, "EDEADLK") /\ UNCHANGED writer
       ELSE Constructed(t, "ok") /\ writer' = {t}
    /\ UNCHANGED readers

\* Wrong on purpose: releases whatever the constructor got
ReleasesAlways(g) == TRUE
Releases(g) == g.ret = "ok"

\* The innermost guard is destroyed
Destroy(t) ==
    /\ asks[t] = "none" /\ stack[t] # <<>>
    /\ IF Releases(stack[t][1]) THEN Unlock(t) ELSE UNCHANGED <<writer, readers>>
    /\ stack' = [stack EXCEPT ![t] = Tail(@)]
    /\ UNCHANGED asks

GuardNext ==
    \E t \in Threads :
        \/ \E kind \in {"read", "write"} : Ask(t, kind)
        \/ ReadGuard(t)
        \/ WriteGuard(t)
        \/ Destroy(t)

GuardSpec == GuardInit /\ [][GuardNext]_guardVars

-----------------------------------------------------------------------------

Holds(t, kind) == \E k \in DOMAIN stack[t] : stack[t][k].kind = kind

\* While a thread has a WriteGuard, however many guards it has constructed and destroyed inside it and whatever
\* pthread_rwlock answered these, no other thread has a guard.
WritersAlone == \A t, u \in Threads : t # u /\ Holds(t, "write") => stack[u] = <<>>

\* The lock is free when nobody has a guard: what a refused constructor did not get is not given back by its
\* destructor, and everything else is.
LockFollowsGuards == (\A t \in Threads : stack[t] = <<>>) => writer = {} /\ \A t \in Threads : readers[t] = 0

Blocked(t) == (asks[t] = "read" /\ ReadBlocked(t)) \/ (asks[t] = "write" /\ WriteBlocked(t))

\* A thread waits for ever only when one of those it waits for constructs a WriteGuard inside its own ReadGuard: as long
\* as there is none, one of those with a guard can go on.
StuckOnlyByUpgrade ==
    (\E t \in Threads : Blocked(t)) /\ (\A t \in Threads : stack[t] # <<>> => Blocked(t)) =>
        \E t \in Threads : asks[t] = "write" /\ Holds(t, "read")

\* What a guard promises to whoever constructs it: alone when it is for writing, nothing kept once it is destroyed, and
\* no deadlock that its user has not made.
GuardsRight == WritersAlone /\ LockFollowsGuards /\ StuckOnlyByUpgrade

Guards == [kind : {"read", "write"}, ret : {"ok", "EDEADLK"}]

GuardTypes ==
    /\ writer \subseteq Threads /\ readers \in [Threads -> Nat]
    /\ stack \in [Threads -> Seq(Guards)] /\ asks \in [Threads -> {"none", "read", "write"}]

OfWriter(t) ==
    /\ writer = {t} /\ \A u \in Threads : readers[u] = 0
    /\ stack[t] # <<>>
    /\ \A k \in 1 .. Len(stack[t]) : stack[t][k].ret = "ok" <=> k = Len(stack[t])

OfReader(t) ==
    /\ readers[t] = Len(stack[t])
    /\ \A k \in 1 .. Len(stack[t]) : stack[t][k].kind = "read" /\ stack[t][k].ret = "ok"

\* Why this is so: all guards of a writer but its outermost were refused, and nobody else has any; the guards of all
\* other threads are ReadGuards that were admitted, and each is counted by the lock.
GuardsInv == GuardTypes /\ (\A t \in writer : OfWriter(t)) /\ (\A t \in Threads \ writer : OfReader(t))

-----------------------------------------------------------------------------
(***************************************************************************)
(* CountDownLatch, CondVar and MutexLock of gb/downdatarestorer_norah,     *)
(* with the mutex and the condition variable of pthreads under them.  Some *)
(* threads wait for the latch, others count it down; one more waits on a   *)
(* CondVar with WaitForSeconds.  A wait may return without any signal.     *)
(***************************************************************************)

CONSTANTS Waiters, Counters,
          Count,              \* the constructor's argument
          Unit,               \* nanoseconds of a second
          Secs, MaxNow        \* arguments of WaitForSeconds; the clock, in nanoseconds

ASSUME LatchAssumption ==
    /\ IsFiniteSet(Counters) /\ Waiters \cap Counters = {} /\ Count \in Nat
    /\ Unit \in Nat \ {0} /\ Secs \subseteq Nat /\ MaxNow \in Nat

VARIABLES count_,
          mutex,              \* the threads that have mutex_: at most one
          sleeping, woken,    \* threads in pthread_cond_wait; those of them that were woken
          pc,
          now,                \* CLOCK_REALTIME
          abstime, started    \* of the timed wait: <<tv_sec, tv_nsec>>, and [at, secs] of its call; at = -1: none

Parties == Waiters \cup Counters

latchVars == <<count_, mutex, sleeping, woken, pc, now, abstime, started>>

latch == <<count_, mutex, sleeping, woken, pc>>
timed == <<now, abstime, started>>

LatchInit ==
    /\ count_ = Count /\ mutex = {} /\ sleeping = {} /\ woken = {} /\ pc = [t \in Parties |-> "begin"]
    /\ now = 0 /\ abstime = <<0, 0>> /\ started = [at |-> -1, secs |-> 0]

Goes(t, l) == pc' = [pc EXCEPT ![t] = l]

-----------------------------------------------------------------------------
(* CountDownLatch *)

\* pthread_mutex_lock, at the beginning of Wait and of CountDown and at the end of pthread_cond_wait
Lock(t) ==
    /\ mutex = {} /\ mutex' = {t}
    /\ \/ pc[t] = "begin" /\ UNCHANGED <<sleeping, woken>>
       \/ pc[t] = "sleeps" /\ t \in woken /\ sleeping' = sleeping \ {t} /\ woken' = woken \ {t}
    /\ Goes(t, "locked")
    /\ UNCHANGED <<count_, timed>>

Waiting == count_ # 0

\* while(count_) pthread_cond_wait
Wait(t) ==
    /\ t \in Waiters /\ pc[t] = "locked"
    /\ mutex' = {}
    /\ IF Waiting THEN sleeping' = sleeping \cup {t} /\ Goes(t, "sleeps") ELSE Goes(t, "returned") /\ UNCHANGED sleeping
    /\ UNCHANGED <<count_, woken, timed>>

\* Wrong on purpose: wakes one
WokenOne == IF sleeping \ woken = {} THEN woken ELSE woken \cup {CHOOSE t \in sleeping \ woken : TRUE}
Woken == sleeping

CountDown(t) ==
    /\ t \in Counters /\ pc[t] = "locked"
    /\ count_' = count_ - 1 /\ woken' = IF count_ - 1 = 0 THEN Woken ELSE woken
    /\ mutex' = {} /\ Goes(t, "returned")
    /\ UNCHANGED <<sleeping, timed>>

Spurious(t) == t \in sleeping \ woken /\ woken' = woken \cup {t} /\ UNCHANGED <<count_, mutex, sleeping, pc, timed>>

-----------------------------------------------------------------------------
(* CondVar::WaitForSeconds *)

Deadline(t, secs) ==
    LET nanoseconds == secs * Unit IN <<(t \div Unit) + (((t % Unit) + nanoseconds) \div Unit), ((t % Unit) + nanoseconds) % Unit>>

WaitForSeconds(secs) ==
    /\ started.at = -1
    /\ abstime' = Deadline(now, secs) /\ started' = [at |-> now, secs |-> secs]
    /\ UNCHANGED <<latch, now>>

\* Signalled, or the time has come: the caller is not told which
WaitReturns ==
    /\ started.at # -1 /\ started' = [at |-> -1, secs |-> 0] /\ abstime' = <<0, 0>>
    /\ UNCHANGED <<latch, now>>

Tick ==
    /\ now < MaxNow
    /\ (started.at # -1 => now < abstime[1] * Unit + abstime[2])
    /\ now' = now + 1 /\ UNCHANGED <<latch, abstime, started>>

LatchNext ==
    \/ \E t \in Parties : Lock(t) \/ Wait(t) \/ CountDown(t) \/ Spurious(t)
    \/ \E secs \in Secs : WaitForSeconds(secs)
    \/ WaitReturns
    \/ Tick

LatchSpec == LatchInit /\ [][LatchNext]_latchVars

-----------------------------------------------------------------------------

\* The threads whose CountDown has taken effect
CountedDown == {c \in Counters : pc[c] = "returned"}

\* Wait returns only after Count calls of CountDown have taken effect, with whatever wakes it before.
WaitsForAll == \A t \in Waiters : pc[t] = "returned" => Cardinality(CountedDown) >= Count

\* Nobody is left behind: once the count is zero, no waiter sleeps without having been woken, so that CountDown need
\* not be called again for it.
NobodySleepsOn == count_ = 0 => sleeping \subseteq woken

\* The time that pthread_cond_timedwait is given is the time of the call and the seconds asked for, with less than a
\* second of nanoseconds, as the function demands.
DeadlineExact ==
    started.at # -1 => abstime[2] \in 0 .. Unit - 1 /\ abstime[1] * Unit + abstime[2] = started.at + started.secs * Unit

\* What the latch promises: who waits returns after the last CountDown and not before, and a timed wait ends when it
\* should.
LatchRight == WaitsForAll /\ NobodySleepsOn /\ DeadlineExact

\* Why this is so: count_ is what is left of Count, whatever the threads that wait have done.
LatchInv ==
    /\ pc \in [Parties -> {"begin", "locked", "sleeps", "returned"}] /\ now \in Nat /\ started \in [at : Int, secs : Nat]
    /\ count_ = Count - Cardinality(CountedDown)
    /\ LatchRight
=============================================================================
