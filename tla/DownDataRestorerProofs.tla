----------------------- MODULE DownDataRestorerProofs -----------------------
(***************************************************************************)
(* Inv of DownDataRestorer is inductive, for any number of callers,        *)
(* operations and starts; the safety properties of the restorer and the    *)
(* refinement of OperationLog follow from it.                              *)
(***************************************************************************)
EXTENDS DownDataRestorer, TLAPS, FiniteSetTheorems

\* The running restorer threads can be counted.
LEMMA RunningFinite ==
    ASSUME TypeOK
    PROVE  IsFiniteSet(RunningThreads) /\ Cardinality(RunningThreads) \in Nat
<1>1. IsFiniteSet(Threads)
  BY FS_Interval, ConstantsAssumption DEF Threads
<1>2. RunningThreads \in SUBSET Threads
  BY DEF RunningThreads
<1>3. QED
  BY <1>1, <1>2, FS_Subset, FS_CardinalityType

\* A step that neither creates the latch nor counts it down, and starts no thread,
\* keeps the latch at or above the number of running threads.
LEMMA LatchKept ==
    ASSUME Inv, latch' = latch, RunningThreads' \subseteq RunningThreads
    PROVE  LatchInv'
<1>1. IsFiniteSet(RunningThreads) /\ Cardinality(RunningThreads) \in Nat
  BY RunningFinite DEF Inv
<1>2. Cardinality(RunningThreads') <= Cardinality(RunningThreads) /\
     IsFiniteSet(RunningThreads')
  BY <1>1, FS_Subset
<1>3. Cardinality(RunningThreads') \in Nat
  BY <1>2, FS_CardinalityType
<1>4. QED
  BY <1>1, <1>2, <1>3 DEF Inv, LatchInv, TypeOK, Null

\* Stop() leaves Wait() only when no restorer thread is running.
LEMMA NoneRunning ==
    ASSUME Inv, latch = 0
    PROVE  RunningThreads = {}
<1>1. Cardinality(RunningThreads) <= 0
  BY DEF Inv, LatchInv, Null
<1>2. QED
  BY <1>1, RunningFinite, FS_EmptySet DEF Inv

\* The constructor's state satisfies the invariant: no thread, no latch, no operation.
LEMMA InitInv == Init => Inv /\ LogInv
<1> SUFFICES ASSUME Init PROVE Inv /\ LogInv
  OBVIOUS
<1> USE ConstantsAssumption DEF Init, Threads, Null
<1>1. RunningThreads = {} /\ InHand = 0
  BY DEF RunningThreads, Running, Gone, InHand
<1>2. TypeOK
  <2>1. pc \in [Threads -> PCs] /\ op \in [Threads -> Ops \cup {NoOp}]
    BY DEF PCs, Gone
  <2>2. /\ queue \in Seq(Ops) /\ accepted \in Seq(Ops) /\ applied \in Seq(Ops)
        /\ cpc \in [Callers -> {"idle", "enqueue", "read"}]
    OBVIOUS
  <2>3. latch \in Int /\ mutex \in Threads \cup {0} /\ cancel \subseteq Threads
    OBVIOUS
  <2>4. inited \in BOOLEAN /\ started \in BOOLEAN /\ force_thread_exit \in BOOLEAN
    BY Zenon
  <2>5. size \in 0 .. MaxStarts /\ attempts \in 0 .. MaxStarts
    OBVIOUS
  <2>6. mgrs \in {"null", "live", "stale"} /\ opc \in {"idle", "create", "latch", "signal",
       "await"}
    BY Zenon
  <2> HIDE DEF Init
  <2>7. QED
    BY <2>1, <2>2, <2>3, <2>4, <2>5, <2>6 DEF TypeOK
<1>3. SessionInv /\ MutexInv /\ SleepInv /\ PopFindsOperation /\ HandInv
  BY DEF SessionInv, MutexInv, SleepInv, PopFindsOperation, HandInv, Holding
<1>4. OneWorkerInv /\ LatchInv /\ EndInv
  BY <1>1 DEF OneWorkerInv, LatchInv, EndInv
<1>5. LogInv
  BY <1>1 DEF LogInv
<1>6. QED
  BY <1>2, <1>3, <1>4, <1>5 DEF Inv

\* Every step of the owner, of a caller and of a restorer thread keeps the invariant.
LEMMA InvStep == Inv /\ [Next]_vars => Inv'
<1> SUFFICES ASSUME Inv, [Next]_vars PROVE Inv' OBVIOUS
<1> USE ConstantsAssumption DEF Threads, Null
<1>1. CASE InitOk
  <2>1. RunningThreads' = RunningThreads /\ latch' = latch
    BY <1>1 DEF InitOk, OwnerAt, Alive, owner, hist, Holding, Gone, PCs, RunningThreads, Running
  <2>2. QED
    BY <1>1, <2>1, LatchKept DEF InitOk, OwnerAt, Alive, owner, hist, Holding, Gone, PCs, Inv,
         TypeOK, SessionInv, MutexInv, OneWorkerInv, SleepInv, PopFindsOperation, HandInv,
         EndInv, Running
<1>2. CASE Uninit
  <2>1. RunningThreads' = RunningThreads /\ latch' = latch
    BY <1>2 DEF Uninit, OwnerAt, Alive, owner, hist, Holding, Gone, PCs, RunningThreads, Running
  <2>2. QED
    BY <1>2, <2>1, LatchKept DEF Uninit, OwnerAt, Alive, owner, hist, Holding, Gone, PCs, Inv,
         TypeOK, SessionInv, MutexInv, OneWorkerInv, SleepInv, PopFindsOperation, HandInv,
         EndInv, Running
<1>3. CASE StartManagers
  <2>1. RunningThreads' = RunningThreads /\ latch' = latch
    BY <1>3 DEF StartManagers, OwnerAt, Alive, owner, hist, Holding, Gone, PCs, RunningThreads,
         Running
  <2>2. QED
    BY <1>3, <2>1, LatchKept DEF StartManagers, OwnerAt, Alive, owner, hist, Holding, Gone, PCs,
         Inv, TypeOK, SessionInv, MutexInv, OneWorkerInv, SleepInv, PopFindsOperation, HandInv,
         EndInv, Running
<1>4. CASE CreateThreadFails
  <2>1. RunningThreads' = RunningThreads /\ latch' = latch
    BY <1>4 DEF CreateThreadFails, OwnerAt, Alive, owner, hist, Holding, Gone, PCs,
         RunningThreads, Running
  <2>2. QED
    BY <1>4, <2>1, LatchKept DEF CreateThreadFails, OwnerAt, Alive, owner, hist, Holding, Gone,
         PCs, Inv, TypeOK, SessionInv, MutexInv, OneWorkerInv, SleepInv, PopFindsOperation,
         HandInv, EndInv, Running
<1>5. CASE StopFlag
  <2>1. RunningThreads' = RunningThreads /\ latch' = latch
    BY <1>5 DEF StopFlag, OwnerAt, Alive, owner, hist, Holding, Gone, PCs, RunningThreads,
         Running
  <2>2. QED
    BY <1>5, <2>1, LatchKept DEF StopFlag, OwnerAt, Alive, owner, hist, Holding, Gone, PCs, Inv,
         TypeOK, SessionInv, MutexInv, OneWorkerInv, SleepInv, PopFindsOperation, HandInv,
         EndInv, Running
<1>6. ASSUME NEW c \in Callers, NEW where \in {"enqueue", "read"}, Call(c, where) PROVE Inv'
  <2>1. RunningThreads' = RunningThreads /\ latch' = latch
    BY <1>6 DEF Call, CallerAt, Alive, owner, hist, Holding, Gone, PCs, RunningThreads, Running
  <2>2. QED
    BY <1>6, <2>1, LatchKept DEF Call, CallerAt, Alive, owner, hist, Holding, Gone, PCs, Inv,
         TypeOK, SessionInv, MutexInv, OneWorkerInv, SleepInv, PopFindsOperation, HandInv,
         EndInv, Running
<1>7. ASSUME NEW c \in Callers, ReadDone(c) PROVE Inv'
  <2>1. RunningThreads' = RunningThreads /\ latch' = latch
    BY <1>7 DEF ReadDone, CallerAt, Alive, owner, hist, Holding, Gone, PCs, RunningThreads,
         Running
  <2>2. QED
    BY <1>7, <2>1, LatchKept DEF ReadDone, CallerAt, Alive, owner, hist, Holding, Gone, PCs,
         Inv, TypeOK, SessionInv, MutexInv, OneWorkerInv, SleepInv, PopFindsOperation, HandInv,
         EndInv, Running
<1>8. CASE UNCHANGED vars
  <2>1. RunningThreads' = RunningThreads /\ latch' = latch
    BY <1>8 DEF vars, owner, hist, Holding, Gone, PCs, RunningThreads, Running
  <2>2. QED
    BY <1>8, <2>1, LatchKept DEF vars, owner, hist, Holding, Gone, PCs, Inv, TypeOK, SessionInv,
         MutexInv, OneWorkerInv, SleepInv, PopFindsOperation, HandInv, EndInv, Running
<1>9. CASE LatchInvalid
  <2> USE <1>9 DEF LatchInvalid, OwnerAt, Alive, owner, hist, Holding, Gone, PCs, Awake, Waiting
  <2>1. TypeOK' /\ SessionInv' /\ MutexInv'
    BY DEF Inv, TypeOK, SessionInv, MutexInv, HandInv
  <2>2. OneWorkerInv' /\ EndInv'
    BY DEF Inv, TypeOK, SessionInv, OneWorkerInv, EndInv, RunningThreads, Running
  <2>3. SleepInv' /\ PopFindsOperation' /\ HandInv'
    BY DEF Inv, TypeOK, SleepInv, MutexInv, OneWorkerInv, PopFindsOperation, HandInv,
         RunningThreads, Running
  <2>4. RunningThreads' \subseteq RunningThreads /\ latch' = latch
    BY DEF Inv, TypeOK, SessionInv, RunningThreads, Running
  <2>5. QED
    BY <2>1, <2>2, <2>3, <2>4, LatchKept DEF Inv
<1>10. CASE StopSignal
  <2> USE <1>10 DEF StopSignal, OwnerAt, Alive, owner, hist, Holding, Gone, PCs, Awake, Waiting
  <2>1. TypeOK' /\ SessionInv' /\ MutexInv'
    BY DEF Inv, TypeOK, SessionInv, MutexInv, HandInv
  <2>2. OneWorkerInv' /\ EndInv'
    BY DEF Inv, TypeOK, SessionInv, OneWorkerInv, EndInv, RunningThreads, Running
  <2>3. SleepInv' /\ PopFindsOperation' /\ HandInv'
    BY DEF Inv, TypeOK, SleepInv, MutexInv, OneWorkerInv, PopFindsOperation, HandInv,
         RunningThreads, Running
  <2>4. RunningThreads' \subseteq RunningThreads /\ latch' = latch
    BY DEF Inv, TypeOK, SessionInv, RunningThreads, Running
  <2>5. QED
    BY <2>1, <2>2, <2>3, <2>4, LatchKept DEF Inv
<1>11. CASE CreateThread
  <2> USE <1>11 DEF CreateThread, OwnerAt, Alive, owner, hist, Holding, Gone, PCs
  <2>1. TypeOK' /\ SessionInv' /\ MutexInv'
    BY DEF Inv, TypeOK, SessionInv, MutexInv
  <2>2. /\ size + 1 \in Threads /\ RunningThreads' = RunningThreads \cup {size + 1}
        /\ RunningThreads \subseteq cancel /\ latch = Null
    BY DEF Inv, TypeOK, SessionInv, OneWorkerInv, RunningThreads, Running
  <2>3. OneWorkerInv' /\ EndInv'
    BY <2>2 DEF Inv, TypeOK, SessionInv, OneWorkerInv, EndInv
  <2>4. SleepInv' /\ PopFindsOperation' /\ HandInv'
    BY DEF Inv, TypeOK, SessionInv, SleepInv, PopFindsOperation, HandInv
  <2>5. LatchInv'
    BY <2>2 DEF LatchInv
  <2>6. QED
    BY <2>1, <2>3, <2>4, <2>5 DEF Inv
<1>12. CASE NewLatch
  <2> USE <1>12 DEF NewLatch, OwnerAt, Alive, owner, hist, Holding, Gone, PCs
  <2>1. RunningThreads' = RunningThreads /\ RunningThreads \in SUBSET (1 .. size)
    BY DEF Inv, TypeOK, SessionInv, RunningThreads, Running
  <2>2. Cardinality(RunningThreads) <= size
    <3>1. IsFiniteSet(1 .. size) /\ Cardinality(1 .. size) = size
      BY FS_Interval DEF Inv, TypeOK
    <3>2. QED
      BY <3>1, <2>1, FS_Subset
  <2>3. LatchInv'
    BY <2>1, <2>2 DEF LatchInv
  <2>4. QED
    BY <2>1, <2>3 DEF Inv, TypeOK, SessionInv, MutexInv, OneWorkerInv, SleepInv,
         PopFindsOperation, HandInv, EndInv, Running
<1>13. CASE StopReturn
  <2> USE <1>13 DEF StopReturn, OwnerAt, Alive, owner, hist, Holding, Gone, PCs
  <2>1. RunningThreads' = RunningThreads /\ RunningThreads = {}
    <3>1. RunningThreads = {}
      BY NoneRunning
    <3>2. QED
      BY <3>1 DEF RunningThreads, Running
  <2>2. LatchInv'
    BY DEF LatchInv
  <2>3. TypeOK'
    <3>1. UNCHANGED <<inited, force_thread_exit, size, attempts, cancel, queue, mutex, pc, op,
                      cpc, accepted, applied>>
      OBVIOUS
    <3>2. latch' \in Int /\ mgrs' = "null" /\ started' = FALSE /\ opc' = "idle"
      OBVIOUS
    <3> HIDE <1>13
    <3>3. QED
      BY <3>1, <3>2 DEF Inv, TypeOK
  <2>4. SessionInv'
    BY <2>1 DEF Inv, SessionInv
  <2>5. QED
    BY <2>1, <2>2, <2>3, <2>4 DEF Inv, MutexInv, OneWorkerInv, SleepInv, PopFindsOperation,
         HandInv, EndInv
<1>14. ASSUME NEW c \in Callers, NEW o \in Ops, Enqueue(c, o) PROVE Inv'
  <2> USE <1>14 DEF CallerAt, Alive, owner, hist, Holding, Gone, PCs
  <2>1. pc' = Awake(Waiting)
    <3>1. \A s, t \in Waiting : s = t
      BY DEF Inv, TypeOK, OneWorkerInv, RunningThreads, Running, Waiting
    <3>2. CASE o \in InviteInserts /\ Waiting # {}
      <4>1. PICK t \in Waiting : pc' = Awake({t})
        BY <3>2 DEF Enqueue
      <4>2. Waiting = {t}
        BY <3>1, <4>1
      <4>3. QED
        BY <4>1, <4>2
    <3>3. QED
      BY <3>2 DEF Enqueue
  <2> USE <2>1 DEF Enqueue, Awake, Waiting
  <2>2. TypeOK' /\ SessionInv' /\ MutexInv'
    BY DEF Inv, TypeOK, SessionInv, MutexInv
  <2>3. RunningThreads' = RunningThreads
    BY DEF Inv, TypeOK, RunningThreads, Running
  <2>4. OneWorkerInv' /\ EndInv'
    BY <2>3 DEF Inv, TypeOK, OneWorkerInv, EndInv
  <2>5. SleepInv' /\ PopFindsOperation' /\ HandInv'
    BY DEF Inv, TypeOK, MutexInv, SleepInv, PopFindsOperation, HandInv
  <2>6. QED
    BY <2>2, <2>3, <2>4, <2>5, LatchKept DEF Inv
<1>15. ASSUME NEW t \in Threads, Pop(t) PROVE Inv'
  <2> USE <1>15 DEF Pop, Step, Alive, owner, hist, Holding, Gone, PCs
  <2>1. Head(queue) \in Ops /\ Tail(queue) \in Seq(Ops)
    BY DEF Inv, TypeOK, PopFindsOperation
  <2>2. TypeOK' /\ SessionInv' /\ MutexInv'
    BY <2>1 DEF Inv, TypeOK, SessionInv, MutexInv
  <2>3. RunningThreads' = RunningThreads
    BY DEF Inv, TypeOK, RunningThreads, Running
  <2>4. OneWorkerInv' /\ EndInv'
    BY <2>3 DEF Inv, TypeOK, OneWorkerInv, EndInv
  <2>5. SleepInv' /\ PopFindsOperation' /\ HandInv'
    BY <2>1 DEF Inv, TypeOK, MutexInv, SleepInv, PopFindsOperation, HandInv
  <2>6. QED
    BY <2>2, <2>3, <2>4, <2>5, LatchKept DEF Inv
<1>16. ASSUME NEW t \in Threads, CountDown(t) PROVE Inv'
  <2> USE <1>16 DEF CountDown, Step, Alive, owner, hist, Holding, Gone, PCs
  <2>1. CASE latch = Null
    <3>1. RunningThreads' = RunningThreads /\ latch' = latch
      BY <2>1 DEF Inv, TypeOK, RunningThreads, Running
    <3>2. QED
      BY <2>1, <3>1, LatchKept DEF Inv, TypeOK, SessionInv, MutexInv, OneWorkerInv, SleepInv,
           PopFindsOperation, HandInv, EndInv, Running
  <2>2. CASE latch # Null
    <3>1. RunningThreads' = RunningThreads \ {t} /\ t \in RunningThreads
      BY <2>2 DEF Inv, TypeOK, RunningThreads, Running
    <3>2. Cardinality(RunningThreads') = Cardinality(RunningThreads) - 1
      BY <3>1, RunningFinite, FS_RemoveElement DEF Inv
    <3>3. latch' = latch - 1 /\ latch' \in Nat /\ Cardinality(RunningThreads') <= latch'
      <4>1. Cardinality(RunningThreads) # 0
        BY <3>1, RunningFinite, FS_EmptySet DEF Inv
      <4>2. QED
        BY <2>2, <3>2, <4>1, RunningFinite DEF Inv, LatchInv, TypeOK
    <3>4. TypeOK' /\ SessionInv' /\ MutexInv'
      BY <2>2, <3>3 DEF Inv, TypeOK, SessionInv, MutexInv
    <3>5. OneWorkerInv' /\ EndInv'
      BY <2>2, <3>1 DEF Inv, TypeOK, OneWorkerInv, EndInv
    <3>6. SleepInv' /\ PopFindsOperation' /\ HandInv'
      BY <2>2 DEF Inv, TypeOK, SleepInv, PopFindsOperation, HandInv
    <3>7. QED
      BY <3>3, <3>4, <3>5, <3>6 DEF Inv, LatchInv
  <2>3. QED
    BY <2>1, <2>2
<1>17. ASSUME NEW t \in Threads, Loop(t) PROVE Inv'
  <2> USE <1>17 DEF Loop, Step, Alive, owner, hist, Holding, Gone, PCs
  <2>1. TypeOK' /\ SessionInv' /\ MutexInv'
    BY DEF Inv, TypeOK, SessionInv, MutexInv, HandInv
  <2>2. OneWorkerInv' /\ EndInv'
    BY DEF Inv, TypeOK, SessionInv, OneWorkerInv, EndInv, RunningThreads, Running
  <2>3. SleepInv' /\ PopFindsOperation' /\ HandInv'
    BY DEF Inv, TypeOK, SleepInv, MutexInv, OneWorkerInv, PopFindsOperation, HandInv,
         RunningThreads, Running
  <2>4. RunningThreads' \subseteq RunningThreads /\ latch' = latch
    BY DEF Inv, TypeOK, SessionInv, RunningThreads, Running
  <2>5. QED
    BY <2>1, <2>2, <2>3, <2>4, LatchKept DEF Inv
<1>18. ASSUME NEW t \in Threads, Lock(t) PROVE Inv'
  <2> USE <1>18 DEF Lock, Step, Alive, owner, hist, Holding, Gone, PCs
  <2>1. TypeOK' /\ SessionInv' /\ MutexInv'
    BY DEF Inv, TypeOK, SessionInv, MutexInv, HandInv
  <2>2. OneWorkerInv' /\ EndInv'
    BY DEF Inv, TypeOK, SessionInv, OneWorkerInv, EndInv, RunningThreads, Running
  <2>3. SleepInv' /\ PopFindsOperation' /\ HandInv'
    BY DEF Inv, TypeOK, SleepInv, MutexInv, OneWorkerInv, PopFindsOperation, HandInv,
         RunningThreads, Running
  <2>4. RunningThreads' \subseteq RunningThreads /\ latch' = latch
    BY DEF Inv, TypeOK, SessionInv, RunningThreads, Running
  <2>5. QED
    BY <2>1, <2>2, <2>3, <2>4, LatchKept DEF Inv
<1>19. ASSUME NEW t \in Threads, Check(t) PROVE Inv'
  <2> USE <1>19 DEF Check, Step, Alive, owner, hist, Holding, Gone, PCs
  <2>1. TypeOK' /\ SessionInv' /\ MutexInv'
    BY DEF Inv, TypeOK, SessionInv, MutexInv, HandInv
  <2>2. OneWorkerInv' /\ EndInv'
    BY DEF Inv, TypeOK, SessionInv, OneWorkerInv, EndInv, RunningThreads, Running
  <2>3. SleepInv' /\ PopFindsOperation' /\ HandInv'
    BY DEF Inv, TypeOK, SleepInv, MutexInv, OneWorkerInv, PopFindsOperation, HandInv,
         RunningThreads, Running
  <2>4. RunningThreads' \subseteq RunningThreads /\ latch' = latch
    BY DEF Inv, TypeOK, SessionInv, RunningThreads, Running
  <2>5. QED
    BY <2>1, <2>2, <2>3, <2>4, LatchKept DEF Inv
<1>20. ASSUME NEW t \in Threads, Wait(t) PROVE Inv'
  <2> USE <1>20 DEF Wait, Step, Alive, owner, hist, Holding, Gone, PCs
  <2>1. TypeOK' /\ SessionInv' /\ MutexInv'
    BY DEF Inv, TypeOK, SessionInv, MutexInv, HandInv
  <2>2. OneWorkerInv' /\ EndInv'
    BY DEF Inv, TypeOK, SessionInv, OneWorkerInv, EndInv, RunningThreads, Running
  <2>3. SleepInv' /\ PopFindsOperation' /\ HandInv'
    BY DEF Inv, TypeOK, SleepInv, MutexInv, OneWorkerInv, PopFindsOperation, HandInv,
         RunningThreads, Running
  <2>4. RunningThreads' \subseteq RunningThreads /\ latch' = latch
    BY DEF Inv, TypeOK, SessionInv, RunningThreads, Running
  <2>5. QED
    BY <2>1, <2>2, <2>3, <2>4, LatchKept DEF Inv
<1>21. ASSUME NEW t \in Threads, Relock(t) PROVE Inv'
  <2> USE <1>21 DEF Relock, Step, Alive, owner, hist, Holding, Gone, PCs
  <2>1. TypeOK' /\ SessionInv' /\ MutexInv'
    BY DEF Inv, TypeOK, SessionInv, MutexInv, HandInv
  <2>2. OneWorkerInv' /\ EndInv'
    BY DEF Inv, TypeOK, SessionInv, OneWorkerInv, EndInv, RunningThreads, Running
  <2>3. SleepInv' /\ PopFindsOperation' /\ HandInv'
    BY DEF Inv, TypeOK, SleepInv, MutexInv, OneWorkerInv, PopFindsOperation, HandInv,
         RunningThreads, Running
  <2>4. RunningThreads' \subseteq RunningThreads /\ latch' = latch
    BY DEF Inv, TypeOK, SessionInv, RunningThreads, Running
  <2>5. QED
    BY <2>1, <2>2, <2>3, <2>4, LatchKept DEF Inv
<1>22. ASSUME NEW t \in Threads, ExitFromPop(t) PROVE Inv'
  <2> USE <1>22 DEF ExitFromPop, Step, Alive, owner, hist, Holding, Gone, PCs
  <2>1. TypeOK' /\ SessionInv' /\ MutexInv'
    BY DEF Inv, TypeOK, SessionInv, MutexInv, HandInv
  <2>2. OneWorkerInv' /\ EndInv'
    BY DEF Inv, TypeOK, SessionInv, OneWorkerInv, EndInv, RunningThreads, Running
  <2>3. SleepInv' /\ PopFindsOperation' /\ HandInv'
    BY DEF Inv, TypeOK, SleepInv, MutexInv, OneWorkerInv, PopFindsOperation, HandInv,
         RunningThreads, Running
  <2>4. RunningThreads' \subseteq RunningThreads /\ latch' = latch
    BY DEF Inv, TypeOK, SessionInv, RunningThreads, Running
  <2>5. QED
    BY <2>1, <2>2, <2>3, <2>4, LatchKept DEF Inv
<1>23. ASSUME NEW t \in Threads, Apply(t) PROVE Inv'
  <2> USE <1>23 DEF Apply, Step, Alive, owner, hist, Holding, Gone, PCs
  <2>1. TypeOK' /\ SessionInv' /\ MutexInv'
    BY DEF Inv, TypeOK, SessionInv, MutexInv, HandInv
  <2>2. OneWorkerInv' /\ EndInv'
    BY DEF Inv, TypeOK, SessionInv, OneWorkerInv, EndInv, RunningThreads, Running
  <2>3. SleepInv' /\ PopFindsOperation' /\ HandInv'
    BY DEF Inv, TypeOK, SleepInv, MutexInv, OneWorkerInv, PopFindsOperation, HandInv,
         RunningThreads, Running
  <2>4. RunningThreads' \subseteq RunningThreads /\ latch' = latch
    BY DEF Inv, TypeOK, SessionInv, RunningThreads, Running
  <2>5. QED
    BY <2>1, <2>2, <2>3, <2>4, LatchKept DEF Inv
<1>24. ASSUME NEW t \in Threads, CancelledInApply(t) PROVE Inv'
  <2> USE <1>24 DEF CancelledInApply, Step, Alive, owner, hist, Holding, Gone, PCs
  <2>1. TypeOK' /\ SessionInv' /\ MutexInv'
    BY DEF Inv, TypeOK, SessionInv, MutexInv, HandInv
  <2>2. OneWorkerInv' /\ EndInv'
    BY DEF Inv, TypeOK, SessionInv, OneWorkerInv, EndInv, RunningThreads, Running
  <2>3. SleepInv' /\ PopFindsOperation' /\ HandInv'
    BY DEF Inv, TypeOK, SleepInv, MutexInv, OneWorkerInv, PopFindsOperation, HandInv,
         RunningThreads, Running
  <2>4. RunningThreads' \subseteq RunningThreads /\ latch' = latch
    BY DEF Inv, TypeOK, SessionInv, RunningThreads, Running
  <2>5. QED
    BY <2>1, <2>2, <2>3, <2>4, LatchKept DEF Inv
<1>25. ASSUME NEW t \in Threads, SpuriousWakeup(t) PROVE Inv'
  <2> USE <1>25 DEF SpuriousWakeup, Step, Alive, owner, hist, Holding, Gone, PCs
  <2>1. TypeOK' /\ SessionInv' /\ MutexInv'
    BY DEF Inv, TypeOK, SessionInv, MutexInv, HandInv
  <2>2. OneWorkerInv' /\ EndInv'
    BY DEF Inv, TypeOK, SessionInv, OneWorkerInv, EndInv, RunningThreads, Running
  <2>3. SleepInv' /\ PopFindsOperation' /\ HandInv'
    BY DEF Inv, TypeOK, SleepInv, MutexInv, OneWorkerInv, PopFindsOperation, HandInv,
         RunningThreads, Running
  <2>4. RunningThreads' \subseteq RunningThreads /\ latch' = latch
    BY DEF Inv, TypeOK, SessionInv, RunningThreads, Running
  <2>5. QED
    BY <2>1, <2>2, <2>3, <2>4, LatchKept DEF Inv
<1> QED BY <1>1, <1>2, <1>3, <1>4, <1>5, <1>6, <1>7, <1>8, <1>9, <1>10, <1>11, <1>12, <1>13,
     <1>14, <1>15, <1>16, <1>17, <1>18, <1>19, <1>20, <1>21, <1>22, <1>23, <1>24, <1>25 DEF
     Next, OwnerNext, CallerNext, ThreadRun

-----------------------------------------------------------------------------
\* Inv holds in every reachable state of the restorer.
THEOREM Safety == Spec => []Inv
<1>1. QED
  BY InitInv, InvStep, PTL DEF Spec

\* The assertion before the pop holds, no wakeup of an enqueueing method is lost, the
\* managers outlive the threads, and the first session's threads find their latch.
THEOREM Consequences ==
    Spec => [](TypeOK /\ PopFindsOperation /\ SleepsOnlyWhenEmpty /\ ManagersOutliveThreads
               /\ LatchThereInFirstSession)
<1>1. Inv => /\ TypeOK /\ PopFindsOperation /\ SleepsOnlyWhenEmpty /\ ManagersOutliveThreads
             /\ LatchThereInFirstSession
  <2> SUFFICES ASSUME Inv
               PROVE  SleepsOnlyWhenEmpty /\ ManagersOutliveThreads /\ LatchThereInFirstSession
    BY DEF Inv
  <2>1. SleepsOnlyWhenEmpty
    BY DEF Inv, SleepInv, SleepsOnlyWhenEmpty, Waiting
  <2>2. ManagersOutliveThreads
    BY DEF Inv, EndInv, ManagersOutliveThreads, RunningThreads
  <2>3. LatchThereInFirstSession
    BY DEF Inv, TypeOK, SessionInv, EndInv, LatchThereInFirstSession, LatchThereForCountDown,
         RunningThreads,
           Running, Gone
  <2>4. QED
    BY <2>1, <2>2, <2>3
<1>2. QED
  BY <1>1, Safety, PTL

\* Stop() returns only when every thread that DataRestorerThreadFunc runs in has ended.
THEOREM StopJoins == Spec => StopJoinsThreads
<1>1. ASSUME Inv, [Next]_vars, started, ~started'
      PROVE  \A t \in Threads : ~Running(t)
  <2>1. StopReturn
    BY <1>1 DEF Next, OwnerNext, CallerNext, ThreadRun, InitOk, Uninit, StartManagers,
         CreateThread, CreateThreadFails, NewLatch,
     LatchInvalid, StopFlag, StopSignal, Call, ReadDone, Enqueue, Loop, Lock, Check, Wait,
          Relock, ExitFromPop, Pop, Apply, CancelledInApply, CountDown,
     SpuriousWakeup, owner, vars
  <2>2. RunningThreads = {}
    BY <1>1, <2>1, NoneRunning DEF StopReturn
  <2>3. QED
    BY <2>2 DEF RunningThreads
<1>2. Inv /\ [Next]_vars => [started /\ ~started' => \A t \in Threads : ~Running(t)]_vars
  BY <1>1
<1>3. QED
  BY <1>2, Safety, PTL DEF Spec, StopJoinsThreads

-----------------------------------------------------------------------------
\* A step keeps accepted = applied, then the operation in hand, then the queue.
LEMMA LogInvStep ==
    ASSUME Inv, LogInv, [Next]_vars, LatchMayFail = FALSE
    PROVE  LogInv'
<1> USE ConstantsAssumption DEF Threads, Null
<1>0. \A s, t \in Threads : pc[s] \notin Gone /\ pc[t] \notin Gone => s = t
  BY DEF Inv, OneWorkerInv, LogInv, RunningThreads, Running
<1>1. ASSUME NEW c \in Callers, NEW o \in Ops, Enqueue(c, o)
      PROVE  LogInv'
  <2>1. /\ UNCHANGED <<cancel, applied, op>>
        /\ \A t \in Threads : pc'[t] = "apply" <=> pc[t] = "apply"
    BY <1>1 DEF Enqueue, Awake, Waiting, owner, Inv, TypeOK
  <2>2. InHand' = InHand /\ InHand \in {0, 1}
    BY <2>1 DEF InHand
  <2>3. /\ Len(queue') = Len(queue) + 1 /\ queue'[Len(queue) + 1] = o
        /\ \A i \in 1 .. Len(queue) : queue'[i] = queue[i]
        /\ Len(accepted') = Len(accepted) + 1 /\ accepted'[Len(accepted) + 1] = o
        /\ \A i \in 1 .. Len(accepted) : accepted'[i] = accepted[i]
        /\ Len(queue) \in Nat /\ Len(accepted) \in Nat /\ Len(applied) \in Nat
    BY <1>1 DEF Enqueue, Inv, TypeOK
  <2>4. ASSUME NEW t \in Threads, pc'[t] = "apply"
        PROVE  op'[t] = accepted'[Len(applied') + 1]
    <3>1. InHand = 1
      BY <2>1, <2>4 DEF InHand
    <3>2. QED
      BY <2>1, <2>3, <2>4, <3>1 DEF LogInv
  <2>5. ASSUME NEW i \in 1 .. Len(queue')
        PROVE  queue'[i] = accepted'[Len(applied') + InHand' + i]
    <3>1. CASE i \in 1 .. Len(queue)
      <4>1. Len(applied) + InHand + i \in 1 .. Len(accepted)
        BY <2>2, <2>3, <3>1 DEF LogInv
      <4>2. QED
        BY <2>1, <2>2, <2>3, <3>1, <4>1 DEF LogInv
    <3>2. CASE i = Len(queue) + 1
      <4>1. Len(applied) + InHand + i = Len(accepted) + 1
        BY <2>2, <2>3, <3>2 DEF LogInv
      <4>2. QED
        BY <2>1, <2>2, <2>3, <3>2, <4>1
    <3>3. QED
      BY <2>3, <2>5, <3>1, <3>2
  <2>6. QED
    BY <2>1, <2>2, <2>3, <2>4, <2>5 DEF LogInv
<1>2. ASSUME NEW t \in Threads, Pop(t)
      PROVE  LogInv'
  <2>1. /\ UNCHANGED <<cancel, applied, accepted>> /\ queue # <<>>
        /\ pc[t] = "pop" /\ pc' = [pc EXCEPT ![t] = "apply"]
        /\ op' = [op EXCEPT ![t] = Head(queue)] /\ queue' = Tail(queue)
    BY <1>2 DEF Pop, Step, owner, hist, Inv, PopFindsOperation
  <2>2. \A s \in Threads : pc[s] # "apply"
    BY <1>0, <2>1 DEF Gone
  <2>3. InHand = 0 /\ InHand' = 1
    BY <2>1, <2>2 DEF InHand, Inv, TypeOK
  <2>4. /\ Len(queue') = Len(queue) - 1 /\ Head(queue) = queue[1] /\ Len(queue) \in Nat \ {0}
        /\ \A i \in 1 .. Len(queue') : queue'[i] = queue[i + 1]
        /\ Len(applied) \in Nat
    BY <2>1 DEF Inv, TypeOK
  <2>5. ASSUME NEW i \in 1 .. Len(queue')
        PROVE  queue'[i] = accepted'[Len(applied') + InHand' + i]
    <3>1. i + 1 \in 1 .. Len(queue) /\ queue'[i] = queue[i + 1]
      BY <2>4, <2>5
    <3>2. queue[i + 1] = accepted[Len(applied) + 0 + (i + 1)]
      BY <2>3, <3>1 DEF LogInv
    <3>3. Len(applied) + 0 + (i + 1) = Len(applied) + 1 + i
      BY <2>4, <2>5
    <3>4. QED
      BY <2>1, <2>3, <3>1, <3>2, <3>3
  <2>6. ASSUME NEW s \in Threads, pc'[s] = "apply"
        PROVE  op'[s] = accepted'[Len(applied') + 1]
    <3>1. s = t
      BY <2>1, <2>2, <2>6 DEF Inv, TypeOK
    <3>2. op'[t] = queue[1]
      BY <2>1, <2>4 DEF Inv, TypeOK
    <3>3. QED
      BY <2>1, <2>3, <2>4, <3>1, <3>2 DEF LogInv
  <2>7. cancel' = {} /\ Len(accepted') = Len(applied') + InHand' + Len(queue')
    <3>1. cancel = {} /\ Len(accepted) = Len(applied) + 0 + Len(queue)
      BY <2>3 DEF LogInv
    <3>2. cancel' = cancel /\ accepted' = accepted /\ applied' = applied
      BY <2>1
    <3>3. Len(queue') = Len(queue) - 1 /\ Len(queue) \in Nat /\ Len(applied) \in Nat
      BY <2>4
    <3>4. Len(accepted) = Len(applied) + 1 + Len(queue')
      BY <3>1, <3>3
    <3>5. QED
      BY <2>3, <3>1, <3>2, <3>4
  <2>8. QED
    BY <2>5, <2>6, <2>7 DEF LogInv
<1>3. ASSUME NEW t \in Threads, Apply(t)
      PROVE  LogInv'
  <2>1. /\ UNCHANGED <<cancel, queue, accepted>> /\ pc[t] = "apply"
        /\ applied' = Append(applied, op[t]) /\ op[t] \in Ops
        /\ \A s \in Threads : pc'[s] # "apply"
    BY <1>0, <1>3 DEF Gone, Apply, Step, owner, Inv, TypeOK, HandInv
  <2>2. InHand = 1 /\ InHand' = 0
    BY <2>1 DEF InHand
  <2>3. Len(applied') = Len(applied) + 1 /\ Len(applied) \in Nat /\ Len(queue) \in Nat
    BY <2>1 DEF Inv, TypeOK
  <2>4. ASSUME NEW i \in 1 .. Len(queue')
        PROVE  queue'[i] = accepted'[Len(applied') + InHand' + i]
    <3>1. queue[i] = accepted[Len(applied) + 1 + i]
      BY <2>1, <2>2, <2>4 DEF LogInv
    <3>2. Len(applied') + InHand' + i = Len(applied) + 1 + i
      BY <2>2, <2>3, <2>4
    <3>3. QED
      BY <2>1, <3>1, <3>2
  <2>5. cancel' = {} /\ Len(accepted') = Len(applied') + InHand' + Len(queue')
    BY <2>1, <2>2, <2>3 DEF LogInv
  <2>6. QED
    BY <2>1, <2>4, <2>5 DEF LogInv
<1>4. ASSUME UNCHANGED <<cancel, queue, accepted, applied>>,
             \A t \in Threads : (pc'[t] = "apply" <=> pc[t] = "apply") /\ op'[t] = op[t]
      PROVE  LogInv'
  <2>1. InHand' = InHand
    BY <1>4 DEF InHand
  <2>2. QED
    BY <1>4, <2>1 DEF LogInv
<1>5. CASE CreateThread
  BY <1>4, <1>5 DEF CreateThread, owner, hist, Inv, TypeOK, SessionInv
<1>6. CASE InitOk \/ Uninit \/ StartManagers \/ CreateThreadFails \/ NewLatch \/ StopFlag
           \/ StopSignal \/ StopReturn
  BY <1>4, <1>6 DEF InitOk, Uninit, StartManagers, CreateThreadFails, NewLatch, StopFlag,
     StopSignal, StopReturn, Awake, Waiting, owner, hist, Inv, TypeOK
<1>7. ASSUME NEW c \in Callers, Call(c, "enqueue") \/ Call(c, "read") \/ ReadDone(c)
      PROVE  LogInv'
  BY <1>4, <1>7 DEF Call, ReadDone, owner, hist
<1>8. ASSUME NEW t \in Threads,
             \/ Loop(t) \/ Lock(t) \/ Check(t) \/ Wait(t) \/ Relock(t) \/ ExitFromPop(t)
             \/ CountDown(t) \/ SpuriousWakeup(t)
      PROVE  LogInv'
  BY <1>4, <1>8 DEF Loop, Lock, Check, Wait, Relock, ExitFromPop, CountDown, SpuriousWakeup,
     Step, owner, hist, Inv, TypeOK
<1>9. ASSUME NEW t \in Threads, CancelledInApply(t)
      PROVE  LogInv'
  BY <1>9 DEF CancelledInApply, LogInv
<1>10. CASE UNCHANGED vars
  BY <1>4, <1>10 DEF vars, owner, hist
<1>11. CASE LatchInvalid
  BY <1>11 DEF LatchInvalid
<1>12. QED
  BY <1>1, <1>2, <1>3, <1>5, <1>6, <1>7, <1>8, <1>9, <1>10, <1>11
  DEF Next, OwnerNext, CallerNext, ThreadRun

\* A step of the restorer accepts one operation, carries out the oldest one that was
\* not carried out, or leaves the log alone.
LEMMA LogStep ==
    ASSUME Inv, LogInv, [Next]_vars, LatchMayFail = FALSE
    PROVE  [Log!Next]_<<accepted, applied>>
<1>1. ASSUME NEW c \in Callers, NEW o \in Ops, Enqueue(c, o)
      PROVE  Log!Next
  BY <1>1 DEF Enqueue, Log!Next, Log!Accept
<1>2. ASSUME NEW t \in Threads, Apply(t)
      PROVE  Log!Next
  <2>1. /\ UNCHANGED accepted /\ pc[t] = "apply" /\ applied' = Append(applied, op[t])
        /\ InHand = 1
    BY <1>2 DEF Apply, Step, InHand
  <2>2. /\ applied' = Append(applied, accepted[Len(applied) + 1])
        /\ Len(applied) < Len(accepted)
    BY <2>1 DEF LogInv, Inv, TypeOK
  <2>3. QED
    BY <2>1, <2>2 DEF Log!Next, Log!Perform
<1>3. CASE OwnerNext
  BY <1>3 DEF OwnerNext, InitOk, Uninit, StartManagers, CreateThread, CreateThreadFails,
       NewLatch,
     LatchInvalid, StopFlag, StopSignal, StopReturn, hist
<1>4. ASSUME NEW c \in Callers, Call(c, "enqueue") \/ Call(c, "read") \/ ReadDone(c)
      PROVE  UNCHANGED <<accepted, applied>>
  BY <1>4 DEF Call, ReadDone, hist
<1>5. ASSUME NEW t \in Threads,
             \/ Loop(t) \/ Lock(t) \/ Check(t) \/ Wait(t) \/ Relock(t) \/ ExitFromPop(t) \/
                  Pop(t)
             \/ CancelledInApply(t) \/ CountDown(t) \/ SpuriousWakeup(t)
      PROVE  UNCHANGED <<accepted, applied>>
  BY <1>5 DEF Loop, Lock, Check, Wait, Relock, ExitFromPop, Pop, CancelledInApply, CountDown,
     SpuriousWakeup, hist
<1>6. QED
  BY <1>1, <1>2, <1>3, <1>4, <1>5 DEF Next, CallerNext, ThreadRun, vars, hist

\* Unless KillDataRestorerThread() cancels threads, the restorer implements OperationLog:
\* operations are carried out once, one at a time, in the order of acceptance.
THEOREM InOrder ==
    ASSUME LatchMayFail = FALSE
    PROVE  Spec => InOrderOnce
<1>1. Init => Log!Init
  BY DEF Init, Log!Init
<1>2. Inv /\ LogInv /\ [Next]_vars => LogInv' /\ [Log!Next]_<<accepted, applied>>
  BY LogInvStep, LogStep
<1>3. QED
  BY <1>1, <1>2, InitInv, Safety, PTL DEF Spec, InOrderOnce, Log!Spec
=============================================================================
