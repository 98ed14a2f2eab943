----------------------------- MODULE LocksProofs ----------------------------
(***************************************************************************)
(* Proofs about Locks: the guards for any number of threads, nested to any *)
(* depth, and the latch for any number of threads and any count.           *)
(***************************************************************************)
EXTENDS Locks, SequenceTheorems, FiniteSetTheorems, TLAPS

-----------------------------------------------------------------------------
(* What the constructor of a guard and its destructor do to a stack        *)

\* A guard that is put before others
LEMMA Pushed ==
    ASSUME NEW S, NEW q \in Seq(S), NEW g \in S
    PROVE  /\ <<g>> \o q \in Seq(S) /\ Len(<<g>> \o q) = Len(q) + 1 /\ (<<g>> \o q)[1] = g
           /\ \A k \in 1 .. Len(q) : (<<g>> \o q)[k + 1] = q[k]
<1>1. <<g>> \in Seq(S) /\ Len(<<g>>) = 1 /\ <<g>>[1] = g
    OBVIOUS
<1> QED
    BY <1>1

\* The innermost guard is taken away
LEMMA Popped ==
    ASSUME NEW S, NEW q \in Seq(S), q # <<>>
    PROVE  /\ Tail(q) \in Seq(S) /\ Len(Tail(q)) = Len(q) - 1 /\ Len(q) \in Nat \ {0}
           /\ \A k \in 1 .. Len(q) - 1 : Tail(q)[k] = q[k + 1]
    OBVIOUS

\* Where a quantifier over the places of a stack is shifted by one
LEMMA Shift ==
    ASSUME NEW n \in Nat, NEW k \in 1 .. n + 1, k # 1
    PROVE  k - 1 \in 1 .. n /\ (k - 1) + 1 = k
    OBVIOUS

\* The stacks after a constructor has returned
LEMMA ConstructedStep ==
    ASSUME GuardTypes, NEW t \in Threads, NEW ret \in {"ok", "EDEADLK"}, asks[t] # "none", Constructed(t, ret)
    PROVE  /\ stack' \in [Threads -> Seq(Guards)] /\ asks' \in [Threads -> {"none", "read", "write"}]
           /\ Len(stack'[t]) = Len(stack[t]) + 1 /\ Len(stack[t]) \in Nat /\ stack'[t] # <<>>
           /\ stack'[t][1].kind = asks[t] /\ stack'[t][1].ret = ret
           /\ \A k \in 1 .. Len(stack[t]) + 1 : k # 1 => k - 1 \in 1 .. Len(stack[t]) /\ stack'[t][k] = stack[t][k - 1]
           /\ \A u \in Threads \ {t} : stack'[u] = stack[u]
<1> DEFINE g == [kind |-> asks[t], ret |-> ret]
<1>1. stack \in [Threads -> Seq(Guards)] /\ asks \in [Threads -> {"none", "read", "write"}]
    BY DEF GuardTypes
<1>2. g \in Guards /\ g.kind = asks[t] /\ g.ret = ret
    BY <1>1 DEF Guards
<1>3. stack' = [stack EXCEPT ![t] = <<g>> \o stack[t]] /\ asks' = [asks EXCEPT ![t] = "none"]
    BY DEF Constructed
<1> HIDE DEF g
<1>4. /\ <<g>> \o stack[t] \in Seq(Guards) /\ Len(<<g>> \o stack[t]) = Len(stack[t]) + 1 /\ (<<g>> \o stack[t])[1] = g
      /\ \A k \in 1 .. Len(stack[t]) : (<<g>> \o stack[t])[k + 1] = stack[t][k]
    BY <1>1, <1>2, Pushed
<1>5. stack'[t] = <<g>> \o stack[t] /\ \A u \in Threads \ {t} : stack'[u] = stack[u]
    BY <1>1, <1>3
<1>6. stack' \in [Threads -> Seq(Guards)] /\ asks' \in [Threads -> {"none", "read", "write"}]
    BY <1>1, <1>3, <1>4
<1>7. Len(stack[t]) \in Nat /\ stack'[t] # <<>>
    BY <1>1, <1>4, <1>5, LenProperties, EmptySeq
<1>8. \A k \in 1 .. Len(stack[t]) + 1 : k # 1 => k - 1 \in 1 .. Len(stack[t]) /\ stack'[t][k] = stack[t][k - 1]
  <2> TAKE k \in 1 .. Len(stack[t]) + 1
  <2> HAVE k # 1
  <2>1. k - 1 \in 1 .. Len(stack[t]) /\ (k - 1) + 1 = k
    BY <1>7, Shift
  <2> QED
    BY <1>4, <1>5, <2>1
<1> QED
    BY <1>2, <1>4, <1>5, <1>6, <1>7, <1>8

-----------------------------------------------------------------------------
(* The guards *)

\* A thread that writes may construct guards of either kind: both are refused.
LEMMA RefusedStep ==
    ASSUME GuardsInv, NEW t \in Threads, t \in writer, asks[t] # "none", Constructed(t, "EDEADLK"),
           UNCHANGED <<writer, readers>>
    PROVE  GuardsInv'
<1>1. GuardTypes /\ OfWriter(t) /\ \A u \in Threads \ writer : OfReader(u)
    BY DEF GuardsInv
<1>2. /\ stack' \in [Threads -> Seq(Guards)] /\ asks' \in [Threads -> {"none", "read", "write"}]
      /\ Len(stack'[t]) = Len(stack[t]) + 1 /\ Len(stack[t]) \in Nat /\ stack'[t] # <<>>
      /\ stack'[t][1].ret = "EDEADLK"
      /\ \A k \in 1 .. Len(stack[t]) + 1 : k # 1 => k - 1 \in 1 .. Len(stack[t]) /\ stack'[t][k] = stack[t][k - 1]
      /\ \A u \in Threads \ {t} : stack'[u] = stack[u]
    BY <1>1, ConstructedStep
<1>3. Len(stack[t]) # 0
    BY <1>1, EmptySeq DEF OfWriter, GuardTypes
<1>4. ASSUME NEW k \in 1 .. Len(stack'[t]) PROVE stack'[t][k].ret = "ok" <=> k = Len(stack'[t])
  <2>1. CASE k = 1
    BY <1>2, <1>3, <2>1
  <2>2. CASE k # 1
    BY <1>1, <1>2, <2>2 DEF OfWriter
  <2> QED
    BY <2>1, <2>2
<1>5. OfWriter(t)'
    BY <1>1, <1>2, <1>4 DEF OfWriter
<1>6. ASSUME NEW u \in Threads \ writer PROVE OfReader(u)'
    BY <1>1, <1>2, <1>6 DEF OfReader
<1>7. GuardTypes'
    BY <1>1, <1>2 DEF GuardTypes
<1> QED
    BY <1>1, <1>5, <1>6, <1>7 DEF GuardsInv, OfWriter

\* Nobody writes, and one more ReadGuard is admitted.
LEMMA ReadGuardStep ==
    ASSUME GuardsInv, NEW t \in Threads, t \notin writer, ReadGuard(t)
    PROVE  GuardsInv'
<1>1. /\ Constructed(t, "ok") /\ readers' = [readers EXCEPT ![t] = readers[t] + 1] /\ writer' = writer
      /\ asks[t] = "read" /\ writer = {}
    BY DEF ReadGuard, Refused, ReadBlocked
<1>2. GuardTypes /\ \A u \in Threads : OfReader(u)
    BY <1>1 DEF GuardsInv
<1>3. /\ stack' \in [Threads -> Seq(Guards)] /\ asks' \in [Threads -> {"none", "read", "write"}]
      /\ Len(stack'[t]) = Len(stack[t]) + 1 /\ Len(stack[t]) \in Nat
      /\ stack'[t][1].kind = "read" /\ stack'[t][1].ret = "ok"
      /\ \A k \in 1 .. Len(stack[t]) + 1 : k # 1 => k - 1 \in 1 .. Len(stack[t]) /\ stack'[t][k] = stack[t][k - 1]
      /\ \A u \in Threads \ {t} : stack'[u] = stack[u]
    BY <1>1, <1>2, ConstructedStep
<1>4. readers' \in [Threads -> Nat] /\ readers'[t] = readers[t] + 1 /\ \A u \in Threads \ {t} : readers'[u] = readers[u]
    BY <1>1, <1>2 DEF GuardTypes
<1>5. GuardTypes'
    BY <1>1, <1>2, <1>3, <1>4 DEF GuardTypes
<1>6. OfReader(t)'
  <2>1. ASSUME NEW k \in 1 .. Len(stack'[t]) PROVE stack'[t][k].kind = "read" /\ stack'[t][k].ret = "ok"
    <3>1. CASE k = 1
      BY <1>3, <3>1
    <3>2. CASE k # 1
      BY <1>2, <1>3, <3>2 DEF OfReader
    <3> QED
      BY <3>1, <3>2
  <2> QED
    BY <1>2, <1>3, <1>4, <2>1 DEF OfReader
<1>7. ASSUME NEW u \in Threads \ {t} PROVE OfReader(u)'
  <2>1. stack'[u] = stack[u] /\ readers'[u] = readers[u] /\ OfReader(u)
    BY <1>2, <1>3, <1>4
  <2> QED
    BY <2>1 DEF OfReader
<1> QED
    BY <1>1, <1>5, <1>6, <1>7 DEF GuardsInv

\* Nobody has a guard, and a WriteGuard is admitted.
LEMMA WriteGuardStep ==
    ASSUME GuardsInv, NEW t \in Threads, t \notin writer, WriteGuard(t)
    PROVE  GuardsInv'
<1>1. /\ Constructed(t, "ok") /\ readers' = readers /\ writer' = {t}
      /\ asks[t] # "none" /\ writer = {} /\ GuardTypes /\ \A u \in Threads : readers[u] = 0
    BY DEF WriteGuard, Refused, WriteBlocked, GuardsInv, GuardTypes
<1>2. \A u \in Threads : OfReader(u) /\ Len(stack[u]) = 0
    BY <1>1 DEF GuardsInv, OfReader
<1>3. /\ stack' \in [Threads -> Seq(Guards)] /\ asks' \in [Threads -> {"none", "read", "write"}]
      /\ Len(stack'[t]) = Len(stack[t]) + 1 /\ stack'[t] # <<>> /\ stack'[t][1].ret = "ok"
      /\ \A u \in Threads \ {t} : stack'[u] = stack[u]
    BY <1>1, ConstructedStep
<1>4. GuardTypes'
    BY <1>1, <1>3 DEF GuardTypes
<1>5. OfWriter(t)'
    BY <1>1, <1>2, <1>3 DEF OfWriter
<1>6. ASSUME NEW u \in Threads \ {t} PROVE OfReader(u)'
    BY <1>1, <1>2, <1>3 DEF OfReader
<1> QED
    BY <1>1, <1>4, <1>5, <1>6 DEF GuardsInv

\* The innermost guard is destroyed.
LEMMA DestroyStep ==
    ASSUME GuardsInv, NEW t \in Threads, Destroy(t)
    PROVE  GuardsInv'
<1>1. /\ stack[t] # <<>> /\ stack' = [stack EXCEPT ![t] = Tail(stack[t])] /\ asks' = asks
      /\ GuardTypes /\ \A u \in Threads \ writer : OfReader(u)
    BY DEF Destroy, GuardsInv
<1>2. /\ Tail(stack[t]) \in Seq(Guards) /\ Len(Tail(stack[t])) = Len(stack[t]) - 1 /\ Len(stack[t]) \in Nat \ {0}
      /\ \A k \in 1 .. Len(stack[t]) - 1 : Tail(stack[t])[k] = stack[t][k + 1] /\ k + 1 \in 1 .. Len(stack[t])
    BY <1>1, Popped DEF GuardTypes
<1>3. /\ stack' \in [Threads -> Seq(Guards)] /\ stack'[t] = Tail(stack[t])
      /\ \A u \in Threads \ {t} : stack'[u] = stack[u]
    BY <1>1, <1>2 DEF GuardTypes
<1>4. CASE t \in writer
  <2>1. OfWriter(t) /\ writer = {t} /\ \A u \in Threads : readers[u] = 0
    BY <1>4 DEF GuardsInv, OfWriter
  <2>2. CASE Len(stack[t]) = 1
    <3>1. stack[t][1].ret = "ok"
      BY <2>1, <2>2 DEF OfWriter
    <3>2. writer' = {} /\ readers' = readers
      BY <1>4, <3>1 DEF Destroy, Releases, Unlock
    <3>3. GuardTypes'
      BY <1>1, <1>3, <3>2 DEF GuardTypes
    <3>4. OfReader(t)'
      BY <1>2, <1>3, <2>1, <2>2, <3>2 DEF OfReader
    <3>5. ASSUME NEW u \in Threads \ {t} PROVE OfReader(u)'
      BY <1>1, <1>3, <2>1, <3>2 DEF OfReader
    <3> QED
      BY <3>2, <3>3, <3>4, <3>5 DEF GuardsInv
  <2>3. CASE Len(stack[t]) # 1
    <3>1. stack[t][1].ret # "ok"
      <4>1. 1 \in 1 .. Len(stack[t]) /\ 1 # Len(stack[t])
        BY <1>2, <2>3
      <4> QED
        BY <2>1, <4>1 DEF OfWriter
    <3>2. writer' = writer /\ readers' = readers
      BY <3>1 DEF Destroy, Releases
    <3>3. GuardTypes'
      BY <1>1, <1>3, <3>2 DEF GuardTypes
    <3>4. Tail(stack[t]) # <<>>
      <4>1. Len(Tail(stack[t])) # 0
        BY <1>2, <2>3
      <4>2. Len(<<>>) = 0
        BY EmptySeq
      <4> QED
        BY <4>1, <4>2, Zenon
    <3>5. ASSUME NEW k \in 1 .. Len(stack[t]) - 1 PROVE Tail(stack[t])[k].ret = "ok" <=> k = Len(Tail(stack[t]))
      BY <1>2, <2>1 DEF OfWriter
    <3>6. OfWriter(t)'
      BY <1>2, <1>3, <2>1, <3>2, <3>4, <3>5 DEF OfWriter
    <3>7. ASSUME NEW u \in Threads \ {t} PROVE OfReader(u)'
      BY <1>1, <1>3, <2>1, <3>2 DEF OfReader
    <3> QED
      BY <2>1, <3>2, <3>3, <3>6, <3>7 DEF GuardsInv
  <2> QED
    BY <2>2, <2>3
<1>5. CASE t \notin writer
  <2>1. OfReader(t) /\ readers[t] = Len(stack[t]) /\ stack[t][1].ret = "ok"
    BY <1>1, <1>2, <1>5 DEF OfReader
  <2>2. writer' = writer /\ readers' = [readers EXCEPT ![t] = readers[t] - 1]
    BY <1>2, <1>5, <2>1 DEF Destroy, Releases, Unlock
  <2>3. readers' \in [Threads -> Nat] /\ readers'[t] = Len(stack'[t]) /\ \A u \in Threads \ {t} : readers'[u] = readers[u]
    BY <1>1, <1>2, <1>3, <2>1, <2>2 DEF GuardTypes
  <2>4. writer = {}
    BY <1>2, <2>1 DEF GuardsInv, OfWriter
  <2>5. GuardTypes'
    BY <1>1, <1>3, <2>2, <2>3 DEF GuardTypes
  <2>6. OfReader(t)'
    BY <1>2, <1>3, <2>1, <2>3 DEF OfReader
  <2>7. ASSUME NEW u \in Threads \ {t} PROVE OfReader(u)'
    <3>1. stack'[u] = stack[u] /\ readers'[u] = readers[u] /\ OfReader(u)
      BY <1>1, <1>3, <2>3, <2>4
    <3> QED
      BY <3>1 DEF OfReader
  <2> QED
    BY <2>2, <2>4, <2>5, <2>6, <2>7 DEF GuardsInv
<1> QED
    BY <1>4, <1>5

\* Every step of a guard keeps the invariant.
LEMMA GuardsStep == GuardsInv /\ [GuardNext]_guardVars => GuardsInv'
<1> SUFFICES ASSUME GuardsInv, [GuardNext]_guardVars PROVE GuardsInv'
    OBVIOUS
<1>1. ASSUME NEW t \in Threads, NEW kind \in {"read", "write"}, Ask(t, kind) PROVE GuardsInv'
  <2>1. GuardTypes' /\ UNCHANGED <<writer, readers, stack>>
    BY <1>1 DEF Ask, GuardsInv, GuardTypes
  <2> QED
    BY <2>1 DEF GuardsInv, OfWriter, OfReader
<1>2. ASSUME NEW t \in Threads, ReadGuard(t) PROVE GuardsInv'
  <2>1. CASE t \in writer
    <3>1. Constructed(t, "EDEADLK") /\ UNCHANGED <<writer, readers>> /\ asks[t] # "none"
      BY <1>2, <2>1 DEF ReadGuard, Refused
    <3> QED
      BY <2>1, <3>1, RefusedStep
  <2> QED
    BY <1>2, <2>1, ReadGuardStep
<1>3. ASSUME NEW t \in Threads, WriteGuard(t) PROVE GuardsInv'
  <2>1. CASE t \in writer
    <3>1. Constructed(t, "EDEADLK") /\ UNCHANGED <<writer, readers>> /\ asks[t] # "none"
      BY <1>3, <2>1 DEF WriteGuard, Refused
    <3> QED
      BY <2>1, <3>1, RefusedStep
  <2> QED
    BY <1>3, <2>1, WriteGuardStep
<1>4. ASSUME NEW t \in Threads, Destroy(t) PROVE GuardsInv'
    BY <1>4, DestroyStep
<1>5. CASE UNCHANGED guardVars
    BY <1>5 DEF guardVars, GuardsInv, GuardTypes, OfWriter, OfReader
<1> QED
    BY <1>1, <1>2, <1>3, <1>4, <1>5 DEF GuardNext

\* GuardsInv is an invariant of the guards: at first nobody has one, and every step keeps it.
THEOREM GuardsSafety == GuardSpec => []GuardsInv
<1>1. GuardInit => GuardsInv
  <2> SUFFICES ASSUME GuardInit PROVE GuardsInv
    OBVIOUS
  <2>1. <<>> \in Seq(Guards) /\ Len(<<>>) = 0
    BY EmptySeq
  <2>2. stack \in [Threads -> Seq(Guards)] /\ \A t \in Threads : stack[t] = <<>>
    BY <2>1 DEF GuardInit
  <2> QED
    BY <2>1, <2>2 DEF GuardInit, GuardsInv, GuardTypes, OfReader
<1> QED
    BY <1>1, GuardsStep, PTL DEF GuardSpec

\* Whatever threads construct and destroy guards inside one another: a writer is alone, the lock is free when the
\* guards are gone, and no deadlock is possible unless a thread asks to write inside its own ReadGuard.
THEOREM GuardsAreRight == GuardSpec => []GuardsRight
<1>1. GuardsInv => WritersAlone
  <2> SUFFICES ASSUME GuardsInv, NEW t \in Threads, NEW u \in Threads, t # u, Holds(t, "write") PROVE stack[u] = <<>>
    BY DEF WritersAlone
  <2>1. t \in writer
    <3>1. SUFFICES ASSUME t \notin writer PROVE FALSE
      OBVIOUS
    <3>2. OfReader(t) /\ stack[t] \in Seq(Guards)
      BY <3>1 DEF GuardsInv, GuardTypes
    <3> QED
      BY <3>2 DEF Holds, OfReader
  <2>2. u \notin writer /\ OfReader(u) /\ readers[u] = 0 /\ stack[u] \in Seq(Guards)
    BY <2>1 DEF GuardsInv, GuardTypes, OfWriter
  <2> QED
    BY <2>2, EmptySeq DEF OfReader
<1>2. GuardsInv => LockFollowsGuards
    BY EmptySeq DEF GuardsInv, OfWriter, OfReader, LockFollowsGuards, GuardTypes
<1>3. GuardsInv => StuckOnlyByUpgrade
  <2> SUFFICES ASSUME GuardsInv, NEW t \in Threads, Blocked(t), \A u \in Threads : stack[u] # <<>> => Blocked(u)
               PROVE  \E u \in Threads : asks[u] = "write" /\ Holds(u, "read")
    BY DEF StuckOnlyByUpgrade
  <2>1. writer = {}
    BY DEF GuardsInv, GuardTypes, OfWriter, Blocked, ReadBlocked, WriteBlocked, Refused
  <2>2. PICK u \in Threads : readers[u] > 0
    BY <2>1 DEF Blocked, ReadBlocked, WriteBlocked
  <2>3. Len(stack[u]) > 0 /\ stack[u] \in Seq(Guards) /\ \A k \in 1 .. Len(stack[u]) : stack[u][k].kind = "read"
    BY <2>1, <2>2 DEF GuardsInv, GuardTypes, OfReader
  <2>4. 1 \in DOMAIN stack[u] /\ stack[u][1].kind = "read" /\ stack[u] # <<>>
    BY <2>3, EmptySeq
  <2>5. asks[u] = "write"
    BY <2>1, <2>4 DEF Blocked, ReadBlocked
  <2> QED
    BY <2>4, <2>5 DEF Holds
<1> QED
    BY <1>1, <1>2, <1>3, GuardsSafety, PTL DEF GuardsRight

-----------------------------------------------------------------------------
(* The latch *)

\* The parts of a number of nanoseconds
LEMMA Division ==
    ASSUME NEW a \in Int, NEW u \in Nat \ {0}
    PROVE  a \div u \in Int /\ a % u \in 0 .. u - 1 /\ (a \div u) * u + (a % u) = a
    OBVIOUS

\* Seconds and nanoseconds of a sum, with the carry
LEMMA Carry ==
    ASSUME NEW a \in Int, NEW b \in Int, NEW c \in Int, NEW d \in Int, NEW u \in Int, NEW n \in Int,
           NEW m \in Int, a * u + b = n, c * u + d = b + m
    PROVE  (a + c) * u + d = n + m
    OBVIOUS

\* The deadline of WaitForSeconds is the time of the call and the seconds asked for, normalized.
LEMMA DeadlineRight ==
    ASSUME NEW t \in Nat, NEW secs \in Nat
    PROVE  /\ Deadline(t, secs)[2] \in 0 .. Unit - 1
           /\ Deadline(t, secs)[1] * Unit + Deadline(t, secs)[2] = t + secs * Unit
<1> DEFINE n == secs * Unit
           a == t \div Unit
           b == t % Unit
           c == (b + n) \div Unit
           d == (b + n) % Unit
<1>1. Unit \in Nat \ {0}
    BY LatchAssumption
<1>2. n \in Int /\ Deadline(t, secs) = <<a + c, d>>
    BY <1>1 DEF Deadline
<1>3. a \in Int /\ b \in Int /\ a * Unit + b = t
    BY <1>1, Division
<1> HIDE DEF n, a, b
<1>4. c \in Int /\ d \in 0 .. Unit - 1 /\ c * Unit + d = b + n
  <2>1. b + n \in Int
    BY <1>2, <1>3
  <2> QED
    BY <1>1, <2>1, Division
<1> HIDE DEF c, d
<1>5. (a + c) * Unit + d = t + n
    BY <1>1, <1>2, <1>3, <1>4, Carry
<1> QED
    BY <1>2, <1>4, <1>5 DEF n

\* Every step of the latch and of the timed wait keeps the invariant.
LEMMA LatchStep == LatchInv /\ [LatchNext]_latchVars => LatchInv'
<1> SUFFICES ASSUME LatchInv, [LatchNext]_latchVars PROVE LatchInv'
    OBVIOUS
<1> USE DEF Goes
<1>0. /\ pc \in [Parties -> {"begin", "locked", "sleeps", "returned"}] /\ count_ = Count - Cardinality(CountedDown)
      /\ now \in Nat /\ started \in [at : Int, secs : Nat] /\ WaitsForAll /\ NobodySleepsOn /\ DeadlineExact
      /\ Count \in Nat /\ Unit \in Nat \ {0} /\ Secs \subseteq Nat /\ Waiters \cap Counters = {}
    BY LatchAssumption DEF LatchInv, LatchRight
<1>1. IsFiniteSet(CountedDown) /\ Cardinality(CountedDown) \in Nat
  <2>1. IsFiniteSet(CountedDown)
    BY LatchAssumption, FS_Subset DEF CountedDown
  <2> QED
    BY <2>1, FS_CardinalityType
<1>2. ASSUME NEW t \in Parties, Lock(t) PROVE LatchInv'
  <2>1. pc' \in [Parties -> {"begin", "locked", "sleeps", "returned"}] /\ CountedDown' = CountedDown /\ count_' = count_
    BY <1>0, <1>2 DEF Lock, CountedDown, Parties
  <2>2. now' = now /\ started' = started /\ abstime' = abstime
    BY <1>2 DEF Lock, timed
  <2>3. WaitsForAll'
    BY <1>0, <1>2, <2>1 DEF Lock, WaitsForAll, Parties
  <2>4. NobodySleepsOn'
    BY <1>0, <1>2, <2>1 DEF Lock, NobodySleepsOn
  <2> QED
    BY <1>0, <2>1, <2>2, <2>3, <2>4 DEF LatchInv, LatchRight, DeadlineExact
<1>3. ASSUME NEW t \in Parties, Wait(t) PROVE LatchInv'
  <2>1. pc' \in [Parties -> {"begin", "locked", "sleeps", "returned"}] /\ CountedDown' = CountedDown /\ count_' = count_
    BY <1>0, <1>3 DEF Wait, CountedDown, Parties
  <2>2. now' = now /\ started' = started /\ abstime' = abstime
    BY <1>3 DEF Wait, timed
  <2>3. WaitsForAll'
    <3>1. CASE Waiting
      BY <1>0, <1>3, <2>1, <3>1 DEF Wait, WaitsForAll, Parties
    <3>2. CASE ~Waiting
      BY <1>0, <1>1, <2>1, <3>2 DEF Waiting, WaitsForAll
    <3> QED
      BY <3>1, <3>2
  <2>4. NobodySleepsOn'
    BY <1>0, <1>3, <2>1 DEF Wait, Waiting, NobodySleepsOn
  <2> QED
    BY <1>0, <2>1, <2>2, <2>3, <2>4 DEF LatchInv, LatchRight, DeadlineExact
<1>4. ASSUME NEW t \in Parties, CountDown(t) PROVE LatchInv'
  <2>1. pc' \in [Parties -> {"begin", "locked", "sleeps", "returned"}] /\ CountedDown' = CountedDown \cup {t} /\ t \notin CountedDown
    BY <1>0, <1>4 DEF CountDown, CountedDown, Parties
  <2>2. Cardinality(CountedDown') = Cardinality(CountedDown) + 1
    BY <1>1, <2>1, FS_AddElement
  <2>3. now' = now /\ started' = started /\ abstime' = abstime /\ count_' = count_ - 1
    BY <1>4 DEF CountDown, timed
  <2>4. WaitsForAll'
    BY <1>0, <1>1, <1>4, <2>2 DEF CountDown, WaitsForAll, Parties
  <2>5. NobodySleepsOn'
    BY <1>4 DEF CountDown, Woken, NobodySleepsOn
  <2> QED
    BY <1>0, <1>1, <2>1, <2>2, <2>3, <2>4, <2>5 DEF LatchInv, LatchRight, DeadlineExact
<1>5. ASSUME NEW t \in Parties, Spurious(t) PROVE LatchInv'
    BY <1>0, <1>5 DEF Spurious, timed, LatchInv, LatchRight, WaitsForAll, CountedDown, NobodySleepsOn, DeadlineExact
<1>6. ASSUME NEW secs \in Secs, WaitForSeconds(secs) PROVE LatchInv'
  <2>1. UNCHANGED latch /\ now' = now /\ started' = [at |-> now, secs |-> secs] /\ abstime' = Deadline(now, secs)
    BY <1>6 DEF WaitForSeconds
  <2>2. started' \in [at : Int, secs : Nat] /\ started'.at = now /\ started'.secs = secs /\ secs \in Nat
    BY <1>0, <2>1
  <2>3. DeadlineExact'
    BY <1>0, <2>1, <2>2, DeadlineRight DEF DeadlineExact
  <2> QED
    BY <1>0, <2>1, <2>2, <2>3 DEF latch, LatchInv, LatchRight, WaitsForAll, CountedDown, NobodySleepsOn
<1>7. CASE WaitReturns
    BY <1>0, <1>7 DEF WaitReturns, latch, LatchInv, LatchRight, WaitsForAll, CountedDown, NobodySleepsOn, DeadlineExact
<1>8. CASE Tick
    BY <1>0, <1>8 DEF Tick, latch, LatchInv, LatchRight, WaitsForAll, CountedDown, NobodySleepsOn, DeadlineExact
<1>9. CASE UNCHANGED latchVars
    BY <1>0, <1>9 DEF latchVars, LatchInv, LatchRight, WaitsForAll, CountedDown, NobodySleepsOn, DeadlineExact
<1> QED
    BY <1>2, <1>3, <1>4, <1>5, <1>6, <1>7, <1>8, <1>9 DEF LatchNext

\* With any number of threads that wait and that count down, and a wait that may end at any time for no reason: Wait
\* returns after the last CountDown that it is to wait for and not before, nobody is left asleep, and the deadline of a
\* timed wait is exact.
THEOREM LatchIsRight == LatchSpec => []LatchRight
<1>1. LatchInit => LatchInv
  <2> SUFFICES ASSUME LatchInit PROVE LatchInv
    OBVIOUS
  <2>1. CountedDown = {} /\ Cardinality(CountedDown) = 0
    BY FS_EmptySet DEF LatchInit, CountedDown, Parties
  <2>2. WaitsForAll /\ NobodySleepsOn /\ DeadlineExact
    BY DEF LatchInit, WaitsForAll, NobodySleepsOn, DeadlineExact, Parties
  <2> QED
    BY <2>1, <2>2, LatchAssumption DEF LatchInit, LatchInv, LatchRight
<1>2. LatchInv => LatchRight
    BY DEF LatchInv
<1> QED
    BY <1>1, <1>2, LatchStep, PTL DEF LatchSpec
=============================================================================
