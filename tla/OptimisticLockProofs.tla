------------------------ MODULE OptimisticLockProofs ------------------------
(***************************************************************************)
(* Proofs about OptimisticLock, for any number of callers, rounds and      *)
(* closed connections: LockInv is inductive, and gives UpdatesCounted and  *)
(* ConnectionsHandedOn.  One lemma for each action, in it one step for     *)
(* each part of LockInv.                                                   *)
(***************************************************************************)
EXTENDS OptimisticLock, FiniteSetTheorems, TLAPS

\* NoCon is no connection, and a connection that was just opened has a session.
LEMMA ConsFacts == NoCon \notin Cons /\ Fresh \in Sessions
BY LockAssumption, FS_CardinalityType DEF NoCon, Cons, Fresh, Sessions

\* A change of the key makes the other watches dirty, and leaves the rest of the sessions as it is.
LEMMA TouchedFacts ==
    ASSUME ses \in [Cons -> Sessions], NEW k
    PROVE  /\ Touched(k) \in [Cons -> Sessions]
           /\ \A j \in Cons : /\ (Touched(k)[j].multi <=> ses[j].multi) /\ Touched(k)[j].value = ses[j].value
                              /\ Touched(k)[j].watch = "none" <=> ses[j].watch = "none"
                              /\ Touched(k)[j].watch = "clean" => j = k
                              /\ ses[j] = Fresh => Touched(k)[j] = Fresh
<1>1. ASSUME NEW j \in Cons
      PROVE  /\ Touched(k)[j] \in Sessions
             /\ (Touched(k)[j].multi <=> ses[j].multi) /\ Touched(k)[j].value = ses[j].value
             /\ Touched(k)[j].watch = "none" <=> ses[j].watch = "none"
             /\ Touched(k)[j].watch = "clean" => j = k
  BY <1>1 DEF Touched, Sessions
<1>2. ASSUME NEW j \in Cons, ses[j] = Fresh PROVE Touched(k)[j] = Fresh
  <2>1. ses[j].watch # "clean"
    BY <1>2 DEF Fresh
  <2> QED  BY <1>2, <2>1 DEF Touched
<1>3. Touched(k) = [j \in Cons |-> Touched(k)[j]]
  BY DEF Touched
<1> QED  BY <1>1, <1>2, <1>3

-----------------------------------------------------------------------------
(* The steps                                                               *)

\* A new RedisLockInfo has no connection, as WATCH expects.
LEMMA BeginStep == ASSUME LockInv, NEW c \in Callers, Begin(c) PROVE LockInv'
<1> USE ConsFacts DEF LockInv
<1>1. LockTypes'
  BY DEF LockTypes, Begin, States, Sessions
<1>2. PlacesInv'
  BY DEF LockTypes, PlacesInv, Working, Begin
<1>3. FreeConnectionsClean'
  BY DEF LockTypes, PlacesInv, FreeConnectionsClean, Working, Begin
<1>4. ReturnInv'
  BY DEF LockTypes, PlacesInv, ReturnInv, Working, Begin
<1>5. WatchInv'
  BY DEF LockTypes, PlacesInv, WatchInv, Working, Watched, Begin, Sessions, Fresh
<1> QED  BY <1>1, <1>2, <1>3, <1>4, <1>5

\* WATCH takes a free connection: no caller works with it, and none waits to replace it, since it is in no transaction.
LEMMA WatchStep == ASSUME LockInv, NEW c \in Callers, Watch(c) PROVE LockInv'
<1> USE ConsFacts DEF LockInv
<1>1. LockTypes'
  BY DEF LockTypes, Watch, Take, Holding, ClusterAfter, States, Sessions
<1>2. PlacesInv'
  BY DEF LockTypes, PlacesInv, Working, Watch, Take, Holding, ClusterAfter
<1>3. FreeConnectionsClean'
  BY DEF LockTypes, PlacesInv, FreeConnectionsClean, Working, Watch, Take, Holding, ClusterAfter
<1>4. ReturnInv'
  BY DEF LockTypes, PlacesInv, ReturnInv, Working, Watch, Take, Holding, ClusterAfter
<1>5. WatchInv'
  BY DEF LockTypes, PlacesInv, WatchInv, Working, Watched, Watch, Take, Holding, ClusterAfter, Sessions, Fresh
<1> QED  BY <1>1, <1>2, <1>3, <1>4, <1>5

\* A connection that is stranded by a failed WATCH was free, so its session was no one's.
LEMMA WatchFailsStep == ASSUME LockInv, NEW c \in Callers, WatchFails(c) PROVE LockInv'
<1> USE ConsFacts DEF LockInv
<1>1. LockTypes'
  BY DEF LockTypes, WatchFails, Take, Holding, States, Sessions
<1>2. PlacesInv'
  BY DEF LockTypes, PlacesInv, Working, WatchFails, Take, Holding
<1>3. FreeConnectionsClean'
  BY DEF LockTypes, PlacesInv, FreeConnectionsClean, Working, WatchFails, Take, Holding
<1>4. ReturnInv'
  BY DEF LockTypes, PlacesInv, ReturnInv, Working, WatchFails, Take, Holding
<1>5. WatchInv'
  BY DEF LockTypes, PlacesInv, WatchInv, Working, Watched, WatchFails, Take, Holding, Sessions, Fresh
<1> QED  BY <1>1, <1>2, <1>3, <1>4, <1>5

\* A connection that refuses WATCH is stranded with its transaction.
LEMMA WatchRefusedStep == ASSUME LockInv, NEW c \in Callers, WatchRefused(c) PROVE LockInv'
<1> USE ConsFacts DEF LockInv
<1>1. LockTypes'
  BY DEF LockTypes, WatchRefused, Take, Holding, States, Sessions
<1>2. PlacesInv'
  BY DEF LockTypes, PlacesInv, Working, WatchRefused, Take, Holding
<1>3. FreeConnectionsClean'
  BY DEF LockTypes, PlacesInv, FreeConnectionsClean, Working, WatchRefused, Take, Holding
<1>4. ReturnInv'
  BY DEF LockTypes, PlacesInv, ReturnInv, Working, WatchRefused, Take, Holding
<1>5. WatchInv'
  BY DEF LockTypes, PlacesInv, WatchInv, Working, Watched, WatchRefused, Take, Holding, Sessions, Fresh
<1> QED  BY <1>1, <1>2, <1>3, <1>4, <1>5

\* GET reads the value under the watch.
LEMMA GetStep == ASSUME LockInv, NEW c \in Callers, Get(c) PROVE LockInv'
<1> USE ConsFacts DEF LockInv
<1>1. LockTypes'
  BY DEF LockTypes, Get, States
<1>2. PlacesInv'
  BY DEF LockTypes, PlacesInv, Working, Get
<1>3. FreeConnectionsClean'
  BY DEF LockTypes, PlacesInv, FreeConnectionsClean, Working, Get
<1>4. ReturnInv'
  BY DEF LockTypes, PlacesInv, ReturnInv, Working, Get
<1>5. WatchInv'
  BY DEF LockTypes, PlacesInv, WatchInv, Working, Watched, Get, Sessions, Fresh
<1> QED  BY <1>1, <1>2, <1>3, <1>4, <1>5

\* To write or to give up changes nothing on the server.
LEMMA DecideStep == ASSUME LockInv, NEW c \in Callers, Decide(c) PROVE LockInv'
<1> USE ConsFacts DEF LockInv
<1>1. LockTypes'
  BY DEF LockTypes, Decide, States, Sessions
<1>2. PlacesInv'
  BY DEF LockTypes, PlacesInv, Working, Decide
<1>3. FreeConnectionsClean'
  BY DEF LockTypes, PlacesInv, FreeConnectionsClean, Working, Decide
<1>4. ReturnInv'
  BY DEF LockTypes, PlacesInv, ReturnInv, Working, Decide
<1>5. WatchInv'
  BY DEF LockTypes, PlacesInv, WatchInv, Working, Watched, Decide, Sessions, Fresh
<1> QED  BY <1>1, <1>2, <1>3, <1>4, <1>5

\* MULTI opens the transaction of the caller's own connection.
LEMMA MultiStep == ASSUME LockInv, NEW c \in Callers, Multi(c) PROVE LockInv'
<1> USE ConsFacts DEF LockInv
<1>1. LockTypes'
  BY DEF LockTypes, Multi, States, Sessions
<1>2. PlacesInv'
  BY DEF LockTypes, PlacesInv, Working, Multi
<1>3. FreeConnectionsClean'
  BY DEF LockTypes, PlacesInv, FreeConnectionsClean, Working, Multi
<1>4. ReturnInv'
  BY DEF LockTypes, PlacesInv, ReturnInv, Working, Multi
<1>5. WatchInv'
  BY DEF LockTypes, PlacesInv, WatchInv, Working, Watched, Multi, Sessions, Fresh
<1> QED  BY <1>1, <1>2, <1>3, <1>4, <1>5

\* SET is queued with the value read plus one; outside of a transaction only if a watch was lost.
LEMMA SetStep == ASSUME LockInv, NEW c \in Callers, Set(c) PROVE LockInv'
<1> DEFINE k == lock[c].con
<1> USE ConsFacts DEF LockInv
<1>0. k \in Cons /\ ~avail[k] /\ Working(c)
  BY DEF Set, PlacesInv, Working
<1>1. CASE ~moved /\ ses[k].multi
  <2>1. /\ ses' = [ses EXCEPT ![k] = [watch |-> ses[k].watch, multi |-> TRUE, queued |-> TRUE, value |-> read[c] + 1]]
        /\ pc' = [pc EXCEPT ![c] = "exec"] /\ val' = val
        /\ UNCHANGED <<round, lock, read, avail, execs, commits, moved, drops, met>>
    BY <1>1 DEF Set
  <2>0. /\ ses' \in [Cons -> Sessions] /\ \A j \in Cons : j # k => ses'[j] = ses[j]
        /\ ses'[k].multi /\ ses'[k].watch = ses[k].watch /\ ses'[k].value = read[c] + 1
    <3>1. read[c] + 1 \in Int /\ ses[k].watch \in {"none", "clean", "dirty"}
      BY <1>0 DEF LockTypes, Sessions
    <3>2. [watch |-> ses[k].watch, multi |-> TRUE, queued |-> TRUE, value |-> read[c] + 1] \in Sessions
      BY <3>1 DEF Sessions
    <3> QED  BY <1>0, <2>1, <3>2 DEF LockTypes
  <2>2. LockTypes'
    BY <1>0, <2>0, <2>1 DEF LockTypes, States
  <2>3. PlacesInv'
    BY <1>0, <2>1 DEF LockTypes, PlacesInv, Working
  <2>4. FreeConnectionsClean'
    BY <1>0, <2>1 DEF LockTypes, PlacesInv, FreeConnectionsClean, Working, Set
  <2>5. ReturnInv'
    BY <1>0, <2>1 DEF LockTypes, ReturnInv, Working
  <2>6. WatchInv'
    BY <1>0, <1>1, <2>0, <2>1 DEF LockTypes, PlacesInv, WatchInv, Working, Watched, Set
  <2> QED  BY <2>2, <2>3, <2>4, <2>5, <2>6
<1>2. CASE ~moved /\ ~ses[k].multi
  <2>0. /\ Touched(k) \in [Cons -> Sessions]
        /\ \A j \in Cons : /\ (Touched(k)[j].multi <=> ses[j].multi) /\ Touched(k)[j].value = ses[j].value
                           /\ Touched(k)[j].watch = "none" <=> ses[j].watch = "none"
                           /\ Touched(k)[j].watch = "clean" => j = k
                           /\ ses[j] = Fresh => Touched(k)[j] = Fresh
    BY TouchedFacts DEF LockTypes
  <2>1. /\ ses' = Touched(k) /\ val' = read[c] + 1 /\ pc' = [pc EXCEPT ![c] = "exec"]
        /\ UNCHANGED <<round, lock, read, avail, execs, commits, moved, drops, met>>
    BY <1>2 DEF Set
  <2>2. LockTypes'
    BY <1>0, <2>1, <2>0 DEF LockTypes, States
  <2>3. PlacesInv'
    BY <1>0, <2>1 DEF LockTypes, PlacesInv, Working
  <2>4. FreeConnectionsClean'
    <3> SUFFICES ASSUME NEW j \in Cons, avail[j]
                 PROVE  ses'[j] = Fresh \/ \E d \in Callers : pc'[d] = "free" /\ lock[d].con = j
      BY <2>1 DEF FreeConnectionsClean
    <3>1. CASE ses[j] = Fresh
      BY <3>1, <2>0, <2>1
    <3>2. CASE \E d \in Callers : pc[d] = "free" /\ lock[d].con = j
      BY <3>2, <1>0, <2>1 DEF LockTypes, Set
    <3> QED  BY <3>1, <3>2 DEF FreeConnectionsClean
  <2>5. ReturnInv'
    BY <1>0, <2>1 DEF LockTypes, ReturnInv, Working
  <2>6. "unwatched" \in met
    BY <1>0, <1>2 DEF WatchInv, Watched, Set
  <2> QED  BY <2>1, <2>2, <2>3, <2>4, <2>5, <2>6 DEF WatchInv
<1>3. CASE moved
  <2>1. /\ pc' = [pc EXCEPT ![c] = "unwatch"]
        /\ UNCHANGED <<round, lock, read, avail, ses, val, execs, commits, moved, drops, met>>
    BY <1>3 DEF Set
  <2>2. LockTypes'
    BY <2>1 DEF LockTypes, States
  <2>3. PlacesInv'
    BY <1>0, <2>1 DEF LockTypes, PlacesInv, Working
  <2>4. FreeConnectionsClean'
    BY <2>1 DEF LockTypes, FreeConnectionsClean, Set
  <2>5. ReturnInv'
    BY <1>0, <2>1 DEF LockTypes, ReturnInv, Working
  <2>6. WatchInv'
    BY <1>0, <1>3, <2>1 DEF LockTypes, PlacesInv, WatchInv, Working, Watched
  <2> QED  BY <2>2, <2>3, <2>4, <2>5, <2>6
<1> QED  BY <1>1, <1>2, <1>3

\* EXEC executes under a clean watch only, so that the value written is one more than the value.
LEMMA ExecStep == ASSUME LockInv, NEW c \in Callers, Exec(c) PROVE LockInv'
<1> DEFINE k == lock[c].con
<1> USE ConsFacts DEF LockInv
<1>0. /\ k \in Cons /\ ~avail[k] /\ Working(c) /\ pc[c] = "exec" /\ pc' = [pc EXCEPT ![c] = "idle"]
      /\ avail' = (IF lock[c].cluster = Home THEN [avail EXCEPT ![k] = TRUE] ELSE avail)
      /\ UNCHANGED <<round, lock, read, moved, drops, met>>
  BY DEF Exec, PlacesInv, Working, GiveBack
<1>1. PlacesInv'
  BY <1>0 DEF LockTypes, PlacesInv, Working
<1>2. ReturnInv'
  BY <1>0 DEF LockTypes, PlacesInv, ReturnInv, Working
<1>3. CASE Executes(k)
  <2>0. /\ Touched(k) \in [Cons -> Sessions]
        /\ \A j \in Cons : /\ (Touched(k)[j].multi <=> ses[j].multi) /\ Touched(k)[j].value = ses[j].value
                           /\ Touched(k)[j].watch = "none" <=> ses[j].watch = "none"
                           /\ Touched(k)[j].watch = "clean" => j = k
                           /\ ses[j] = Fresh => Touched(k)[j] = Fresh
    BY TouchedFacts DEF LockTypes
  <2>1. /\ val' = ses[k].value /\ execs' = execs + 1 /\ commits' = commits + 1
        /\ ses' = [Touched(k) EXCEPT ![k] = Fresh]
    BY <1>3 DEF Exec, parseExecReply
  <2>2. /\ ses' \in [Cons -> Sessions] /\ ses'[k] = Fresh
        /\ \A j \in Cons : j # k => ses'[j] = Touched(k)[j]
    BY <1>0, <2>1, <2>0 DEF LockTypes
  <2>3. LockTypes'
    <3>1. ses[k].value \in Int
      BY <1>0 DEF LockTypes, Sessions
    <3> QED  BY <1>0, <2>1, <2>2, <3>1 DEF LockTypes, States
  <2>4. FreeConnectionsClean'
    <3> SUFFICES ASSUME NEW j \in Cons, avail'[j]
                 PROVE  ses'[j] = Fresh \/ \E d \in Callers : pc'[d] = "free" /\ lock[d].con = j
      BY <1>0 DEF FreeConnectionsClean
    <3>1. CASE j = k
      BY <3>1, <2>2
    <3>2. CASE j # k /\ ses[j] = Fresh
      BY <3>2, <2>0, <2>2
    <3>3. CASE \E d \in Callers : pc[d] = "free" /\ lock[d].con = j
      BY <3>3, <1>0 DEF LockTypes
    <3>4. j # k => avail[j]
      BY <1>0 DEF LockTypes
    <3> QED  BY <3>1, <3>2, <3>3, <3>4 DEF FreeConnectionsClean
  <2>5. ASSUME "unwatched" \notin met PROVE val' = execs'
    <3>1. ses[k].watch = "clean"
      BY <1>0, <1>3, <2>5 DEF WatchInv, Watched, Executes, LockTypes, Sessions
    <3> QED  BY <1>0, <2>1, <2>5, <3>1 DEF WatchInv, Watched
  <2>6. ASSUME "unwatched" \notin met, NEW d \in Callers, Working(d)' PROVE Watched(d)'
    <3>1. d # c /\ Working(d) /\ pc'[d] = pc[d] /\ lock[d].con \in Cons /\ lock[d].con # k
      BY <1>0, <2>6 DEF Working, LockTypes, PlacesInv
    <3>2. Watched(d)
      BY <2>6, <3>1 DEF WatchInv
    <3>3. ses'[lock[d].con] = Touched(k)[lock[d].con]
      BY <2>2, <3>1
    <3>4. LET s == ses[lock[d].con]
              t == ses'[lock[d].con]
          IN  (t.multi <=> s.multi) /\ t.value = s.value /\ (t.watch = "none" <=> s.watch = "none") /\ t.watch # "clean"
      BY <2>0, <3>1, <3>3
    <3> QED  BY <1>0, <3>1, <3>2, <3>4 DEF Watched
  <2>7. ASSUME "unwatched" \notin met, NEW d \in Callers, pc'[d] = "free"
        PROVE  /\ avail'[lock'[d].con] => ses'[lock'[d].con].multi
               /\ \A e \in Callers : Working(e)' => lock'[e].con # lock'[d].con
    <3>1. d # c /\ pc[d] = "free" /\ lock[d].con \in Cons /\ lock[d].con # k
      BY <1>0, <2>7 DEF LockTypes, PlacesInv, WatchInv
    <3>2. ses'[lock[d].con].multi <=> ses[lock[d].con].multi
      <4>1. ses'[lock[d].con] = Touched(k)[lock[d].con]
        BY <2>2, <3>1
      <4> QED  BY <4>1, <2>0, <3>1
    <3> QED  BY <1>0, <2>7, <3>1, <3>2 DEF LockTypes, WatchInv, Working
  <2>8. WatchInv'
    BY <1>0, <2>5, <2>6, <2>7 DEF WatchInv
  <2> QED  BY <1>1, <1>2, <2>3, <2>4, <2>8
<1>4. CASE ~Executes(k)
  <2>1. ses' = [ses EXCEPT ![k] = Fresh] /\ UNCHANGED <<val, execs, commits>>
    BY <1>4 DEF Exec, parseExecReply
  <2>2. LockTypes'
    BY <1>0, <2>1 DEF LockTypes, States
  <2>3. FreeConnectionsClean'
    BY <1>0, <2>1 DEF LockTypes, FreeConnectionsClean
  <2>4. WatchInv'
    BY <1>0, <2>1 DEF LockTypes, PlacesInv, WatchInv, Working, Watched
  <2> QED  BY <1>1, <1>2, <2>2, <2>3, <2>4
<1> QED  BY <1>3, <1>4

\* releaseLock gives back a connection that is clean, or that its caller is about to replace.
LEMMA UnwatchStep == ASSUME LockInv, NEW c \in Callers, Unwatch(c) PROVE LockInv'
<1> USE ConsFacts DEF LockInv
<1>1. LockTypes'
  BY DEF LockTypes, Unwatch, GiveBack, States
<1>2. PlacesInv'
  BY DEF LockTypes, PlacesInv, Working, Unwatch, GiveBack
<1>3. FreeConnectionsClean'
  BY DEF LockTypes, PlacesInv, FreeConnectionsClean, Working, Unwatch, GiveBack
<1>4. ReturnInv'
  BY DEF LockTypes, PlacesInv, ReturnInv, Working, Unwatch, GiveBack
<1>5. WatchInv'
  BY DEF LockTypes, PlacesInv, WatchInv, Working, Watched, Unwatch, GiveBack, Sessions, Fresh
<1> QED  BY <1>1, <1>2, <1>3, <1>4, <1>5

\* freeConnection leaves the connection taken.
LEMMA FreeConnectionStep == ASSUME LockInv, NEW c \in Callers, FreeConnection(c) PROVE LockInv'
<1> USE ConsFacts DEF LockInv
<1>1. LockTypes'
  BY DEF LockTypes, FreeConnection, States
<1>2. PlacesInv'
  BY DEF LockTypes, PlacesInv, Working, FreeConnection
<1>3. FreeConnectionsClean'
  BY DEF LockTypes, PlacesInv, FreeConnectionsClean, Working, FreeConnection
<1>4. ReturnInv'
  BY DEF LockTypes, PlacesInv, ReturnInv, Working, FreeConnection
<1>5. WatchInv'
  BY DEF LockTypes, PlacesInv, WatchInv, Working, Watched, FreeConnection, Sessions, Fresh
<1> QED  BY <1>1, <1>2, <1>3, <1>4, <1>5

\* A command that cannot be sent leaves a new session behind.
LEMMA FailsStep == ASSUME LockInv, NEW c \in Callers, Fails(c) PROVE LockInv'
<1> USE ConsFacts DEF LockInv
<1>1. LockTypes'
  BY DEF LockTypes, Fails, GiveBack, States
<1>2. PlacesInv'
  BY DEF LockTypes, PlacesInv, Working, Fails, GiveBack
<1>3. FreeConnectionsClean'
  BY DEF LockTypes, PlacesInv, FreeConnectionsClean, Working, Fails, GiveBack
<1>4. ReturnInv'
  BY DEF LockTypes, PlacesInv, ReturnInv, Working, Fails, GiveBack
<1>5. WatchInv'
  BY DEF LockTypes, PlacesInv, WatchInv, Working, Watched, Fails, GiveBack, Sessions, Fresh
<1> QED  BY <1>1, <1>2, <1>3, <1>4, <1>5

\* A session that the server closes was new already, or "unwatched" is noted.
LEMMA DropStep == ASSUME LockInv, NEW k \in Cons, Drop(k) PROVE LockInv'
<1> USE ConsFacts DEF LockInv
<1>1. LockTypes'
  BY DEF LockTypes, Drop
<1>2. PlacesInv' /\ ReturnInv'
  BY DEF PlacesInv, ReturnInv, Working, Drop
<1>3. FreeConnectionsClean'
  BY DEF LockTypes, FreeConnectionsClean, Drop
<1>4. ASSUME ses[k] = Fresh PROVE ses' = ses
  BY <1>4 DEF LockTypes, Drop
<1>5. WatchInv'
  BY <1>4 DEF WatchInv, Working, Watched, Drop
<1> QED  BY <1>1, <1>2, <1>3, <1>5

\* That the slot moves only weakens what is known of the watches.
LEMMA MoveStep == ASSUME LockInv, Move PROVE LockInv'
BY DEF LockInv, LockTypes, PlacesInv, FreeConnectionsClean, ReturnInv, WatchInv, Working, Watched, Move

-----------------------------------------------------------------------------
(* The invariant, and what follows from it                                 *)

\* LockInv holds in the beginning.
LEMMA LockInit == Init => LockInv
<1> SUFFICES ASSUME Init PROVE LockInv
  OBVIOUS
<1>1. LockTypes
  <2>1. [c \in Callers |-> "idle"] \in [Callers -> States]
    BY DEF States
  <2>2. [c \in Callers |-> [cluster |-> NoCluster, con |-> NoCon]]
          \in [Callers -> [cluster : {NoCluster, Home, Backup, Other}, con : Cons \cup {NoCon}]]
    OBVIOUS
  <2>3. [k \in Cons |-> TRUE] \in [Cons -> BOOLEAN] /\ [k \in Cons |-> Fresh] \in [Cons -> Sessions]
    BY ConsFacts
  <2>4. moved \in BOOLEAN
    BY DEF Init
  <2> QED  BY <2>1, <2>2, <2>3, <2>4 DEF Init, LockTypes
<1>2. PlacesInv /\ FreeConnectionsClean /\ ReturnInv /\ WatchInv
  BY DEF Init, PlacesInv, FreeConnectionsClean, ReturnInv, WatchInv, Working
<1> QED  BY <1>1, <1>2 DEF LockInv

\* Every step keeps LockInv.
LEMMA LockStep == LockInv /\ [Next]_vars => LockInv'
<1> SUFFICES ASSUME LockInv, [Next]_vars PROVE LockInv'
  OBVIOUS
<1>1. ASSUME NEW c \in Callers, Caller(c) PROVE LockInv'
  BY <1>1, BeginStep, WatchStep, WatchFailsStep, WatchRefusedStep, GetStep, DecideStep, MultiStep, SetStep, ExecStep,
     UnwatchStep, FreeConnectionStep, FailsStep DEF Caller
<1>2. CASE UNCHANGED vars
  BY <1>2 DEF vars, LockInv, LockTypes, PlacesInv, FreeConnectionsClean, ReturnInv, WatchInv, Working, Watched
<1> QED  BY <1>1, <1>2, DropStep, MoveStep DEF Next

\* The inductive invariant of the optimistic lock: each caller between getSerialWithLock and the end of the lock
\* has a connection of its own, and its watch is dirty as soon as the value it has read is old.
THEOREM LockSafety == Spec => []LockInv
BY LockInit, LockStep, PTL DEF Spec

\* No update is lost, and setSerialWithLock reports exactly the executed transactions, for any number of callers.
THEOREM UpdatesAreCounted == Spec => []UpdatesCounted
<1>1. LockInv => UpdatesCounted
  BY DEF LockInv, LockTypes, WatchInv, UpdatesCounted, NoLostUpdate, CommitsReported
<1> QED  BY <1>1, LockSafety, PTL

\* The connections go back into the pool one for each caller and in no transaction, unless one was stranded.
THEOREM ConnectionsAreHandedOn == Spec => []ConnectionsHandedOn
<1>1. ASSUME LockInv, "stranded" \notin met, NEW k \in Cons
      PROVE  Cardinality({c \in Callers : pc[c] \notin {"idle", "watch", "free"} /\ lock[c].con = k}) = (IF avail[k] THEN 0 ELSE 1)
  <2> DEFINE Workers == {c \in Callers : pc[c] \notin {"idle", "watch", "free"} /\ lock[c].con = k}
  <2>1. Workers = {c \in Callers : Working(c) /\ lock[c].con = k}
    BY <1>1 DEF LockInv, LockTypes, States, Working
  <2>2. CASE avail[k]
    <3>1. Workers = {}
      BY <1>1, <2>1, <2>2 DEF LockInv, PlacesInv
    <3> QED  BY <2>2, <3>1, FS_EmptySet
  <2>3. CASE ~avail[k]
    <3>1. PICK c \in Callers : Working(c) /\ lock[c].con = k
      BY <1>1, <2>3 DEF LockInv, ReturnInv
    <3>2. Workers = {c}
      BY <1>1, <2>1, <3>1 DEF LockInv, PlacesInv
    <3> QED  BY <2>3, <3>2, FS_Singleton
  <2> QED  BY <2>2, <2>3
<1>2. LockInv => ConnectionsHandedOn
  BY <1>1 DEF LockInv, ConnectionsHandedOn, ConnectionsReturned
<1> QED  BY <1>2, LockSafety, PTL
=============================================================================
