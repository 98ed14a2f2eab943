--------------------------- MODULE RedisPoolProofs ---------------------------
(***************************************************************************)
(* That the threads of a client have their own connections of the pool,    *)
(* for any number of threads, slots and addresses.  PoolInv is the         *)
(* inductive invariant; its parts are shown one after the other: types,    *)
(* places (while nothing but lateness was met), holders (while nothing was *)
(* met).                                                                   *)
(***************************************************************************)
EXTENDS RedisPool, WellFoundedInduction, SequenceTheorems, TLAPS

\* A set of natural numbers that is not empty has a least element.
LEMMA MinIn ==
    ASSUME NEW S, S \subseteq Nat, S # {}
    PROVE  Min(S) \in S
<1> DEFINE less == {ss \in Nat \X Nat : ss[1] < ss[2]}
<1>1. OpToRel(<, Nat) = less
    BY Zenon DEF OpToRel
<1>2. PICK x \in S : \A y \in S : ~(<<y, x>> \in less)
    BY <1>1, NatLessThanWellFounded, WFMin, Zenon
<1>3. ASSUME NEW y \in S PROVE x <= y
  <2>1. <<y, x>> \in Nat \X Nat /\ <<y, x>>[1] = y /\ <<y, x>>[2] = x
    OBVIOUS
  <2>2. ~(y < x)
    BY <1>2, <2>1, Zenon
  <2> QED
    BY <2>2
<1> QED
    BY <1>3 DEF Min

\* What the pool writes into a connection object keeps its type.
LEMMA ConnectionTypes ==
    ASSUME PoolTypes, NEW a \in Addrs
    PROVE  /\ [conn EXCEPT ![a].avail = TRUE] \in [Addrs -> Connections]
           /\ [conn EXCEPT ![a].avail = FALSE, ![a].since = clock] \in [Addrs -> Connections]
           /\ [conn EXCEPT ![a].canRelease = FALSE] \in [Addrs -> Connections]
           /\ [conn EXCEPT ![a] = New(FALSE)] \in [Addrs -> Connections]
<1>1. conn \in [Addrs -> Connections] /\ clock \in Nat
    BY DEF PoolTypes, TypeOK
<1>2. conn[a] \in Connections
    BY <1>1
<1>3. [conn[a] EXCEPT !.avail = TRUE] \in Connections
    BY <1>2 DEF Connections
<1>4. [[conn[a] EXCEPT !.avail = FALSE] EXCEPT !.since = clock] \in Connections
    BY <1>1, <1>2 DEF Connections
<1>5. [conn[a] EXCEPT !.canRelease = FALSE] \in Connections
    BY <1>2 DEF Connections
<1>6. New(FALSE) \in Connections
    BY <1>1 DEF Connections, New
<1> HIDE DEF Connections
<1> QED
    BY <1>1, <1>3, <1>4, <1>5, <1>6

\* The slot that getAvailableConnection or freeConnection picks is one of those it looks for.
LEMMA MinSlot ==
    ASSUME NEW S, S \subseteq 1 .. Num, S # {}
    PROVE  Min(S) \in S
<1>1. S \subseteq Nat
    OBVIOUS
<1> QED
    BY <1>1, MinIn, Zenon

\* An incident is recorded, so that the state is not calm any more.
LEMMA MeetAdds ==
    ASSUME PoolTypes, NEW incident, Meet(incident)
    PROVE  /\ met' \in Seq(Incidents) /\ ~Calm' /\ (OnlyLate' => OnlyLate /\ incident = "late")
<1>1. incident \in Incidents /\ met \in Seq(Incidents) /\ met' = Append(met, incident)
    BY DEF Meet, PoolTypes
<1>2. met' \in Seq(Incidents) /\ Len(met') = Len(met) + 1 /\ Len(met) \in Nat
    BY <1>1
<1>3. met'[Len(met) + 1] = incident /\ \A k \in 1 .. Len(met) : met'[k] = met[k]
    BY <1>1
<1>4. DOMAIN met = 1 .. Len(met) /\ DOMAIN met' = 1 .. Len(met) + 1
    BY <1>1, <1>2
<1>5. met' # <<>>
    BY <1>2
<1> QED
    BY <1>2, <1>3, <1>4, <1>5 DEF Calm, OnlyLate

\* A step of a thread keeps the types when what it writes has its type.
LEMMA ThreadTypes ==
    ASSUME PoolTypes, NEW t \in Threads, NEW state \in States, NEW a \in Addrs \cup {Null},
           Becomes(t, state, a), state = "idle" => a = Null,
           state \in {"command", "pinning", "transaction", "tmp", "lock"} => a # Null,
           ~closed, UNCHANGED <<clock, closed>>,
           live' \subseteq Addrs, tmp' \subseteq Addrs, slots' \in [1 .. Num -> Addrs],
           conn' \in [Addrs -> Connections], start' \in [Threads -> Nat], met' \in Seq(Incidents)
    PROVE  PoolTypes'
<1>1. pc' = [pc EXCEPT ![t] = state] /\ mine' = [mine EXCEPT ![t] = a]
    BY DEF Becomes
<1>2. pc' \in [Threads -> States] /\ mine' \in [Threads -> Addrs \cup {Null}]
    BY <1>1 DEF PoolTypes, TypeOK
<1>3. \A u \in Threads : pc'[u] = "idle" => mine'[u] = Null
    BY <1>1 DEF PoolTypes, TypeOK
<1>4. TypeOK'
    BY <1>2, <1>3 DEF PoolTypes, TypeOK
<1>5. NullHandled'
    BY <1>1 DEF PoolTypes, TypeOK, NullHandled
<1> QED
    BY <1>2, <1>4, <1>5 DEF PoolTypes

\* releaseConnection keeps the types.
LEMMA ReleaseTypes ==
    ASSUME PoolTypes, NEW a \in Addrs, Release(a)
    PROVE  /\ live' \subseteq Addrs /\ tmp' \subseteq Addrs /\ slots' \in [1 .. Num -> Addrs]
           /\ conn' \in [Addrs -> Connections]
<1>1. conn \in [Addrs -> Connections] /\ [conn EXCEPT ![a].avail = TRUE] \in [Addrs -> Connections]
    BY ConnectionTypes DEF PoolTypes
<1>2. conn' = conn \/ conn' = [conn EXCEPT ![a].avail = TRUE]
    BY DEF Release
<1> QED
    BY <1>1, <1>2 DEF Release, PoolTypes, TypeOK

\* getAvailableConnection keeps the types, also when it returns NULL.
LEMMA GetTypes ==
    ASSUME PoolAssumption, PoolTypes, NEW t \in Threads, NEW state \in {"command", "pinning", "lock"},
           NEW otherwise \in {"once", "idle", "newtmp"},
           Get(t, state, otherwise), ~closed, UNCHANGED <<clock, closed>>
    PROVE  PoolTypes'
<1> DEFINE low == Min(AvailableSlots)
           i == Min(Stealable)
<1>0. state \in States /\ otherwise \in States /\ Null \in Addrs \cup {Null}
    BY DEF States
<1>1. AvailableSlots # {} => low \in 1 .. Num
    BY MinSlot DEF AvailableSlots
<1>2. Stealable # {} => i \in 1 .. Num
    BY MinSlot DEF Stealable
<1> HIDE DEF low, i
<1>3. /\ AfterReap \subseteq Addrs /\ tmp \ Expired \subseteq Addrs /\ slots \in [1 .. Num -> Addrs]
      /\ conn \in [Addrs -> Connections] /\ start \in [Threads -> Nat] /\ met \in Seq(Incidents)
      /\ [start EXCEPT ![t] = clock] \in [Threads -> Nat]
    BY DEF PoolTypes, TypeOK, AfterReap, Expired
<1>4. CASE TakeAvailable(t, state)
  <2>1. AvailableSlots # {} /\ slots[low] \in Addrs
    BY <1>1, <1>3, <1>4 DEF TakeAvailable
  <2>2. Becomes(t, state, slots[low]) /\ conn' = [conn EXCEPT ![slots[low]].avail = FALSE, ![slots[low]].since = clock]
    BY <1>4 DEF TakeAvailable, low
  <2>3. conn' \in [Addrs -> Connections]
    BY <2>1, <2>2, ConnectionTypes
  <2>4. slots[low] # Null
    BY <2>1 DEF PoolAssumption
  <2> QED
    BY <1>0, <1>3, <1>4, <2>1, <2>2, <2>3, <2>4, ThreadTypes DEF TakeAvailable
<1>5. CASE Steal(t, state)
  <2> DEFINE kept == AfterReap \ {slots[i]}
  <2>1. Stealable # {} /\ i \in 1 .. Num
    BY <1>2, <1>5 DEF Steal
  <2>2. PICK b \in Addrs \ kept :
           /\ live' = kept \cup {b} /\ conn' = [conn EXCEPT ![b] = New(FALSE)]
           /\ slots' = [slots EXCEPT ![i] = b] /\ Becomes(t, state, b)
    BY <1>5 DEF Steal, i
  <2>3. conn' \in [Addrs -> Connections] /\ slots' \in [1 .. Num -> Addrs] /\ live' \subseteq Addrs
    BY <1>3, <2>1, <2>2, ConnectionTypes
  <2>4. b # Null
    BY DEF PoolAssumption
  <2> QED
    BY <1>0, <1>3, <1>5, <2>2, <2>3, <2>4, ThreadTypes DEF Steal
<1>6. CASE StealFails(t, otherwise)
  <2> DEFINE kept == AfterReap \ {slots[i]}
  <2>1. PICK b \in Addrs \ kept : live' = kept \cup {b} /\ conn' = [conn EXCEPT ![b] = New(FALSE)]
    BY <1>6 DEF StealFails, i
  <2>2. conn' \in [Addrs -> Connections] /\ live' \subseteq Addrs /\ met' \in Seq(Incidents)
    BY <1>3, <1>6, <2>1, ConnectionTypes, MeetAdds DEF StealFails
  <2> QED
    BY <1>0, <1>3, <1>6, <2>2, ThreadTypes DEF StealFails
<1>7. CASE NoneAvailable(t, otherwise)
    BY <1>0, <1>3, <1>7, ThreadTypes DEF NoneAvailable
<1> QED
    BY <1>4, <1>5, <1>6, <1>7 DEF Get

\* Every step keeps the types, and no thread goes on without a connection.
LEMMA TypesStep ==
    ASSUME PoolAssumption, PoolTypes, [Next]_vars
    PROVE  PoolTypes'
<1>1. CASE Tick
  <2>1. met' \in Seq(Incidents)
    BY <1>1, MeetAdds DEF Tick, PoolTypes
  <2> QED
    BY <1>1, <2>1 DEF Tick, PoolTypes, TypeOK, NullHandled, PoolAssumption
<1>2. CASE FreePool
    BY <1>2 DEF FreePool, PoolTypes, TypeOK, NullHandled
<1>3. ASSUME NEW t \in Threads, ThreadStep(t) PROVE PoolTypes'
  <2>0. /\ pc[t] # "idle" => ~closed
        /\ pc[t] \in {"command", "pinning", "transaction", "tmp", "lock"} => mine[t] \in Addrs
        /\ mine[t] \in Addrs \cup {Null} /\ Null \in Addrs \cup {Null} /\ Null \notin Addrs
    BY DEF PoolTypes, TypeOK, NullHandled, PoolAssumption
  <2>1. /\ live \subseteq Addrs /\ tmp \subseteq Addrs /\ slots \in [1 .. Num -> Addrs]
        /\ conn \in [Addrs -> Connections] /\ start \in [Threads -> Nat] /\ met \in Seq(Incidents)
        /\ \A st \in {"idle", "once", "transaction", "tmp", "lock", "freeing"} : st \in States
    BY DEF PoolTypes, TypeOK, States
  <2>2. CASE BeginCommand(t) \/ PrepareTransaction(t) \/ BeginLock(t)
    BY <2>2, GetTypes DEF BeginCommand, PrepareTransaction, BeginLock
  <2>3. CASE EndCommand(t) \/ FinishTransaction(t) \/ EndLock(t)
    <3>1. /\ pc[t] \in {"command", "transaction", "lock"} /\ Release(mine[t]) /\ Becomes(t, "idle", Null)
          /\ UNCHANGED <<clock, start, closed, met>>
      BY <2>3 DEF EndCommand, FinishTransaction, EndLock
    <3>2. /\ live' \subseteq Addrs /\ tmp' \subseteq Addrs /\ slots' \in [1 .. Num -> Addrs]
          /\ conn' \in [Addrs -> Connections]
      BY <2>0, <3>1, ReleaseTypes
    <3> QED
      BY <2>0, <2>1, <3>1, <3>2, ThreadTypes
  <2>4. CASE UnwatchQueued(t)
    <3>1. /\ live' \subseteq Addrs /\ tmp' \subseteq Addrs /\ slots' \in [1 .. Num -> Addrs]
          /\ conn' \in [Addrs -> Connections]
      BY <2>0, <2>4, ReleaseTypes DEF UnwatchQueued
    <3>2. met' \in Seq(Incidents)
      BY <2>4, MeetAdds DEF UnwatchQueued
    <3> QED
      BY <2>0, <2>1, <2>4, <3>1, <3>2, ThreadTypes DEF UnwatchQueued
  <2>5. CASE OnceConnect(t)
    <3>1. CASE Becomes(t, "idle", Null) /\ UNCHANGED <<live, conn>>
      BY <2>0, <2>1, <2>5, <3>1, ThreadTypes DEF OnceConnect
    <3>2. ASSUME NEW b \in Addrs \ live, live' = live \cup {b}, conn' = [conn EXCEPT ![b] = New(FALSE)],
                 Becomes(t, "once", b)
          PROVE  PoolTypes'
      <4>1. conn' \in [Addrs -> Connections] /\ live' \subseteq Addrs
        BY <2>1, <3>2, ConnectionTypes
      <4> QED
        BY <2>0, <2>1, <2>5, <3>2, <4>1, ThreadTypes DEF OnceConnect
    <3> QED
      BY <2>5, <3>1, <3>2 DEF OnceConnect
  <2>6. CASE OnceDone(t)
    BY <2>0, <2>1, <2>6, ThreadTypes DEF OnceDone
  <2>7. CASE SetCanRelease(t)
    <3>1. conn' \in [Addrs -> Connections] /\ mine[t] \in Addrs
      BY <2>0, <2>7, ConnectionTypes DEF SetCanRelease
    <3> QED
      BY <2>0, <2>1, <2>7, <3>1, ThreadTypes DEF SetCanRelease
  <2>8. CASE TmpConnect(t)
    <3>1. PICK b \in Addrs \ live :
             /\ live' = live \cup {b} /\ conn' = [conn EXCEPT ![b] = New(FALSE)]
             /\ \/ Becomes(t, "tmp", b) /\ start' = [start EXCEPT ![t] = clock]
                \/ Becomes(t, "idle", Null) /\ UNCHANGED start
      BY <2>8 DEF TmpConnect
    <3>2. conn' \in [Addrs -> Connections] /\ live' \subseteq Addrs
      BY <2>1, <3>1, ConnectionTypes
    <3>3. start' \in [Threads -> Nat]
      <4>1. clock \in Nat
        BY DEF PoolTypes, TypeOK
      <4> QED
        BY <2>1, <3>1, <4>1
    <3> QED
      BY <2>0, <2>1, <2>8, <3>1, <3>2, <3>3, ThreadTypes DEF TmpConnect
  <2>9. CASE TmpListed(t) \/ WatchFails(t)
    BY <2>0, <2>1, <2>9, ThreadTypes DEF TmpListed, WatchFails
  <2>10. CASE FreeConnection(t)
    <3> DEFINE at == {i \in 1 .. Num : slots[i] = mine[t]}
               kept == live \ {mine[t]}
    <3>1. CASE at = {}
      BY <2>0, <2>1, <2>10, <3>1, ThreadTypes DEF FreeConnection
    <3>2. CASE at # {}
      <4>1. PICK b \in Addrs \ kept :
               /\ live' = kept \cup {b} /\ conn' = [conn EXCEPT ![b] = New(FALSE)]
               /\ \/ slots' = [slots EXCEPT ![Min(at)] = b] /\ UNCHANGED met
                  \/ Meet("reconnect") /\ UNCHANGED slots
        BY <2>10, <3>2 DEF FreeConnection
      <4>2. conn' \in [Addrs -> Connections] /\ live' \subseteq Addrs
        BY <2>1, <4>1, ConnectionTypes
      <4>3. slots' \in [1 .. Num -> Addrs]
        BY <2>1, <4>1
      <4>4. met' \in Seq(Incidents)
        BY <2>1, <4>1, MeetAdds
      <4> QED
        BY <2>0, <2>1, <2>10, <4>2, <4>3, <4>4, ThreadTypes DEF FreeConnection
    <3> QED
      BY <3>1, <3>2
  <2> QED
    BY <1>3, <2>2, <2>3, <2>4, <2>5, <2>6, <2>7, <2>8, <2>9, <2>10 DEF ThreadStep
<1>4. CASE UNCHANGED vars
    BY <1>4 DEF vars, PoolTypes, TypeOK, NullHandled
<1> QED
    BY <1>1, <1>2, <1>3, <1>4 DEF Next

\* A step of a thread changes the state of that thread alone.
LEMMA BecomesChanges ==
    ASSUME PoolTypes, NEW t \in Threads, NEW state, NEW a, Becomes(t, state, a)
    PROVE  /\ pc'[t] = state /\ mine'[t] = a
           /\ \A u \in Threads \ {t} : pc'[u] = pc[u] /\ mine'[u] = mine[u]
    BY DEF Becomes, PoolTypes, TypeOK

\* What was met stays met.
LEMMA OnlyLateBefore ==
    ASSUME PoolTypes, [Next]_vars
    PROVE  /\ OnlyLate' => OnlyLate
           /\ Calm' => Calm /\ met' = met
<1>1. CASE met' = met
    BY <1>1 DEF OnlyLate, Calm
<1>2. CASE \E incident : Meet(incident)
    BY <1>2, MeetAdds
<1>3. CASE Tick
    BY <1>1, <1>2, <1>3 DEF Tick
<1>4. CASE FreePool
    BY <1>1, <1>4 DEF FreePool
<1>5. ASSUME NEW t \in Threads, ThreadStep(t) PROVE met' = met \/ \E incident : Meet(incident)
  <2>1. \A state, otherwise : Get(t, state, otherwise) => met' = met \/ \E incident : Meet(incident)
    BY DEF Get, TakeAvailable, Steal, StealFails, NoneAvailable
  <2>2. CASE BeginCommand(t) \/ PrepareTransaction(t) \/ BeginLock(t)
    BY <2>1, <2>2 DEF BeginCommand, PrepareTransaction, BeginLock
  <2>3. CASE EndCommand(t) \/ OnceConnect(t) \/ OnceDone(t) \/ SetCanRelease(t) \/ FinishTransaction(t)
    BY <2>3 DEF EndCommand, OnceConnect, OnceDone, SetCanRelease, FinishTransaction
  <2>4. CASE TmpConnect(t) \/ TmpListed(t) \/ EndLock(t) \/ WatchFails(t)
    BY <2>4 DEF TmpConnect, TmpListed, EndLock, WatchFails
  <2>5. CASE UnwatchQueued(t) \/ FreeConnection(t)
    BY <2>5 DEF UnwatchQueued, FreeConnection
  <2> QED
    BY <1>5, <2>2, <2>3, <2>4, <2>5 DEF ThreadStep
<1>6. CASE UNCHANGED vars
    BY <1>1, <1>6 DEF vars
<1> QED
    BY <1>1, <1>2, <1>3, <1>4, <1>5, <1>6 DEF Next

\* What survives late holders
Places == PlacesInv /\ SlotsAlwaysLive

\* getAvailableConnection puts a connection in the place of the one it deletes.
LEMMA GetPlaces ==
    ASSUME PoolTypes, Places, NEW t \in Threads, NEW state \in {"command", "pinning", "lock"},
           NEW otherwise \in {"once", "idle", "newtmp"},
           Get(t, state, otherwise), ~closed, UNCHANGED closed, OnlyLate'
    PROVE  Places'
<1> USE DEF Places
<1>0. /\ slots \in [1 .. Num -> Addrs] /\ \A j \in 1 .. Num : slots[j] \in AfterReap
      /\ tmp \ Expired \subseteq AfterReap
      /\ \A u \in Threads : Private(u) => mine[u] \in AfterReap
    BY DEF PoolTypes, TypeOK, PlacesInv, SlotsAlwaysLive, AfterReap, Expired
<1>1. CASE UNCHANGED slots /\ live' = AfterReap /\ tmp' = tmp \ Expired
           /\ ((\E a : Becomes(t, state, a)) \/ Becomes(t, otherwise, Null))
  <2>1. /\ pc'[t] # "tmp" /\ pc'[t] # "freeing" /\ (pc'[t] = "once" => mine'[t] = Null)
        /\ \A u \in Threads \ {t} : pc'[u] = pc[u] /\ mine'[u] = mine[u]
    BY <1>1, BecomesChanges
  <2>2. PlacesInv'
    BY <1>0, <1>1, <2>1 DEF PlacesInv, Private, InSlot
  <2> QED
    BY <1>0, <1>1, <2>2 DEF SlotsAlwaysLive
<1>2. CASE TakeAvailable(t, state) \/ NoneAvailable(t, otherwise)
    BY <1>1, <1>2 DEF TakeAvailable, NoneAvailable
<1>3. CASE StealFails(t, otherwise)
    BY <1>3, MeetAdds DEF StealFails
<1>4. CASE Steal(t, state)
  <2> DEFINE i == Min(Stealable)
             kept == AfterReap \ {slots[i]}
  <2>1. i \in 1 .. Num
    BY <1>4, MinSlot DEF Steal, Stealable
  <2>2. PICK b \in Addrs \ kept :
           /\ live' = kept \cup {b} /\ slots' = [slots EXCEPT ![i] = b] /\ Becomes(t, state, b)
    BY <1>4 DEF Steal
  <2> HIDE DEF i
  <2>3. tmp' = tmp \ Expired
    BY <1>4 DEF Steal
  <2>4. slots'[i] = b /\ \A j \in 1 .. Num \ {i} : slots'[j] = slots[j] /\ slots[j] \in kept
    BY <1>0, <2>1, <2>2 DEF PlacesInv
  <2>5. pc'[t] = state /\ \A u \in Threads \ {t} : pc'[u] = pc[u] /\ mine'[u] = mine[u]
    BY <2>2, BecomesChanges
  <2>6. \A u \in Threads : Private(u) => mine[u] \in kept
    BY <1>0, <2>1 DEF PlacesInv, InSlot
  <2>7. tmp' \subseteq kept
    BY <1>0, <2>1, <2>3 DEF PlacesInv
  <2> HIDE DEF kept
  <2>8. SlotsAlwaysLive'
    BY <2>1, <2>2, <2>4 DEF SlotsAlwaysLive
  <2>9. /\ \A j, k \in 1 .. Num : j # k => slots'[j] # slots'[k]
        /\ \A j \in 1 .. Num : slots'[j] \notin tmp'
        /\ tmp' \subseteq live'
    BY <2>1, <2>2, <2>3, <2>4, <2>7 DEF PlacesInv
  <2>10. ASSUME NEW u \in Threads, Private(u)'
         PROVE  u # t /\ Private(u) /\ mine'[u] = mine[u] /\ mine'[u] \in live' \ tmp' /\ ~InSlot(mine[u])'
    <3>1. u # t /\ Private(u) /\ mine'[u] = mine[u]
      BY <2>5, <2>10 DEF Private
    <3>2. mine[u] \in kept /\ mine[u] \notin tmp /\ ~InSlot(mine[u])
      BY <2>6, <3>1 DEF PlacesInv
    <3> QED
      BY <2>1, <2>2, <2>3, <2>4, <3>1, <3>2 DEF InSlot
  <2>11. \A u \in Threads : pc'[u] # "freeing"
    BY <2>5 DEF PlacesInv
  <2>12. PlacesInv'
    BY <2>9, <2>10, <2>11 DEF PlacesInv
  <2> QED
    BY <2>8, <2>12
<1> QED
    BY <1>2, <1>3, <1>4 DEF Get

\* releaseConnection deletes only listed temporary connections, late callers included.
LEMMA ReleasePlaces ==
    ASSUME PoolTypes, Places, NEW t \in Threads, Release(mine[t]), Becomes(t, "idle", Null), UNCHANGED closed
    PROVE  Places'
<1> USE DEF Places
<1>1. pc'[t] = "idle" /\ \A u \in Threads \ {t} : pc'[u] = pc[u] /\ mine'[u] = mine[u]
    BY BecomesChanges
<1>2. /\ slots' = slots /\ tmp' \subseteq tmp /\ tmp' \subseteq live' /\ live' \subseteq live
      /\ \A a \in live : a \notin tmp => a \in live'
    BY DEF Release, PlacesInv
<1>3. PlacesInv'
    BY <1>1, <1>2 DEF PlacesInv, Private, InSlot
<1> QED
    BY <1>2, <1>3 DEF PlacesInv, SlotsAlwaysLive

\* Every step keeps each connection in one place, and the slots alive.
LEMMA PlacesStep ==
    ASSUME PoolAssumption, PoolTypes, Places, [Next]_vars, OnlyLate'
    PROVE  Places'
<1> USE DEF Places
<1>1. CASE Tick
    BY <1>1 DEF Tick, PlacesInv, SlotsAlwaysLive, Private, InSlot
<1>2. CASE FreePool
    BY <1>2 DEF FreePool, PlacesInv, SlotsAlwaysLive, Private, InSlot
<1>3. ASSUME NEW t \in Threads, ThreadStep(t) PROVE Places'
  <2>1. CASE BeginCommand(t) \/ PrepareTransaction(t) \/ BeginLock(t)
    BY <2>1, GetPlaces DEF BeginCommand, PrepareTransaction, BeginLock
  <2>2. CASE EndCommand(t) \/ FinishTransaction(t) \/ EndLock(t)
    BY <2>2, ReleasePlaces DEF EndCommand, FinishTransaction, EndLock
  <2>3. CASE UnwatchQueued(t)
    BY <2>3, MeetAdds DEF UnwatchQueued
  <2>4. CASE FreeConnection(t)
    BY <2>4 DEF FreeConnection, PlacesInv
  <2>5. ASSUME NEW b \in Addrs \ live, live' = live \cup {b}, UNCHANGED <<slots, tmp, closed>>, pc[t] # "idle",
               \/ \E state \in {"once", "tmp"} : Becomes(t, state, b)
               \/ Becomes(t, "idle", Null)
        PROVE  Places'
    <3>1. /\ pc'[t] # "freeing" /\ (pc'[t] # "idle" => mine'[t] = b)
          /\ \A u \in Threads \ {t} : pc'[u] = pc[u] /\ mine'[u] = mine[u]
      BY <2>5, BecomesChanges
    <3>2. ~closed
      BY <2>5 DEF PoolTypes
    <3>3. ~InSlot(b) /\ b \notin tmp /\ \A u \in Threads : Private(u) => mine[u] # b
      BY <3>2 DEF PlacesInv, SlotsAlwaysLive, InSlot
    <3>4. PlacesInv'
      BY <2>5, <3>1, <3>3 DEF PlacesInv, Private, InSlot
    <3> QED
      BY <2>5, <3>4 DEF SlotsAlwaysLive
  <2>6. CASE OnceConnect(t)
    <3>1. CASE Becomes(t, "idle", Null) /\ UNCHANGED <<live, slots, tmp, closed>>
      <4>1. pc'[t] = "idle" /\ \A u \in Threads \ {t} : pc'[u] = pc[u] /\ mine'[u] = mine[u]
        BY <3>1, BecomesChanges
      <4> QED
        BY <3>1, <4>1 DEF PlacesInv, SlotsAlwaysLive, Private, InSlot
    <3> QED
      BY <2>5, <2>6, <3>1 DEF OnceConnect
  <2>7. CASE OnceDone(t)
    <3>1. /\ pc'[t] = "idle" /\ \A u \in Threads \ {t} : pc'[u] = pc[u] /\ mine'[u] = mine[u]
          /\ live' = live \ {mine[t]} /\ UNCHANGED <<slots, tmp, closed>>
      BY <2>7, BecomesChanges DEF OnceDone
    <3>2. Private(t)
      BY <2>7 DEF OnceDone, Private
    <3>3. PlacesInv'
      BY <3>1, <3>2 DEF PlacesInv, Private, InSlot
    <3> QED
      BY <3>1, <3>2, <3>3 DEF PlacesInv, SlotsAlwaysLive, InSlot
  <2>8. CASE SetCanRelease(t) \/ WatchFails(t)
    <3>1. /\ pc'[t] \in {"transaction", "idle"} /\ \A u \in Threads \ {t} : pc'[u] = pc[u] /\ mine'[u] = mine[u]
          /\ UNCHANGED <<live, slots, tmp, closed>>
      BY <2>8, BecomesChanges DEF SetCanRelease, WatchFails
    <3> QED
      BY <3>1 DEF PlacesInv, SlotsAlwaysLive, Private, InSlot
  <2>9. CASE TmpConnect(t)
    BY <2>5, <2>9 DEF TmpConnect
  <2>10. CASE TmpListed(t)
    <3>1. /\ pc'[t] = "lock" /\ \A u \in Threads \ {t} : pc'[u] = pc[u] /\ mine'[u] = mine[u]
          /\ tmp' = tmp \cup {mine[t]} /\ UNCHANGED <<live, slots, closed>>
      BY <2>10, BecomesChanges DEF TmpListed
    <3>2. Private(t)
      BY <2>10 DEF TmpListed, Private, PoolTypes, NullHandled
    <3>3. PlacesInv'
      BY <3>1, <3>2 DEF PlacesInv, Private, InSlot
    <3> QED
      BY <3>1, <3>3 DEF SlotsAlwaysLive
  <2> QED
    BY <1>3, <2>1, <2>2, <2>3, <2>4, <2>6, <2>7, <2>8, <2>9, <2>10 DEF ThreadStep
<1>4. CASE UNCHANGED vars
    BY <1>4 DEF vars, PlacesInv, SlotsAlwaysLive, Private, InSlot
<1> QED
    BY <1>1, <1>2, <1>3, <1>4 DEF Next

\* getAvailableConnection takes no connection that a thread works on: those are not available,
\* and they are young or pinned.
LEMMA GetHolders ==
    ASSUME PoolAssumption, PoolTypes, Places, HoldersInv, NEW t \in Threads,
           NEW state \in {"command", "pinning", "lock"}, NEW otherwise \in {"once", "idle", "newtmp"},
           Get(t, state, otherwise), ~closed, UNCHANGED <<clock, closed>>, Calm'
    PROVE  HoldersInv'
<1> USE DEF Places
<1>0. /\ slots \in [1 .. Num -> Addrs] /\ \A j \in 1 .. Num : slots[j] \in AfterReap
      /\ conn \in [Addrs -> Connections] /\ clock \in Nat /\ ReleaseTime \in Nat \ {0}
      /\ start \in [Threads -> Nat] /\ Null \notin Addrs
    BY DEF PoolTypes, TypeOK, PlacesInv, SlotsAlwaysLive, AfterReap, Expired, PoolAssumption
<1>1. \A u \in Threads : Exposed(u) => ~Old(mine[u])
    BY <1>0 DEF HoldersInv, Old
<1>2. \A u \in Threads : Shared(u) => mine[u] \in AfterReap /\ (mine[u] \in tmp => mine[u] \in tmp \ Expired)
    BY <1>1 DEF HoldersInv, PlacesInv, Shared, Exposed, InSlot, AfterReap, Expired
<1>3. CASE NoneAvailable(t, otherwise)
  <2>1. /\ pc'[t] = otherwise /\ mine'[t] = Null
        /\ \A u \in Threads \ {t} : pc'[u] = pc[u] /\ mine'[u] = mine[u]
        /\ live' = AfterReap /\ tmp' = tmp \ Expired /\ UNCHANGED <<conn, slots, start>>
    BY <1>3, BecomesChanges DEF NoneAvailable
  <2> QED
    BY <1>2, <2>1 DEF HoldersInv, Shared, Exposed, Using, InSlot
<1>4. CASE StealFails(t, otherwise)
    BY <1>4, MeetAdds DEF StealFails
<1>5. CASE TakeAvailable(t, state)
  <2> DEFINE low == Min(AvailableSlots)
             a == slots[low]
  <2>1. low \in 1 .. Num /\ conn[slots[low]].avail
    BY <1>5, MinSlot DEF TakeAvailable, AvailableSlots
  <2>2. /\ conn' = [conn EXCEPT ![a].avail = FALSE, ![a].since = clock] /\ Becomes(t, state, a)
        /\ live' = AfterReap /\ tmp' = tmp \ Expired /\ UNCHANGED slots /\ start' = [start EXCEPT ![t] = clock]
    BY <1>5 DEF TakeAvailable
  <2>3. a \in Addrs /\ a \in AfterReap /\ InSlot(a) /\ conn[a].avail
    BY <1>0, <2>1 DEF InSlot
  <2> HIDE DEF a, low
  <2>4. pc'[t] = state /\ mine'[t] = a /\ \A u \in Threads \ {t} : pc'[u] = pc[u] /\ mine'[u] = mine[u]
    BY <2>2, BecomesChanges
  <2>5. conn[a] \in Connections
    BY <1>0, <2>3
  <2>6. ~conn'[a].avail /\ conn'[a].since = clock /\ \A c \in Addrs \ {a} : conn'[c] = conn[c]
    BY <1>0, <2>2, <2>3, <2>5 DEF Connections
  <2>7. \A u \in Threads : Using(u) => mine[u] # a /\ mine[u] \in Addrs
    BY <2>3 DEF HoldersInv, PlacesInv, Using, Shared, Private, InSlot, PoolTypes, TypeOK
  <2>8. start'[t] = clock /\ \A u \in Threads \ {t} : start'[u] = start[u]
    BY <1>0, <2>2
  <2>9. clock' = clock /\ clock < clock + ReleaseTime
    BY <1>0
  <2>10. ASSUME NEW u \in Threads
         PROVE  /\ Shared(u)' => /\ mine'[u] \in live'
                                 /\ \/ InSlot(mine[u])' /\ ~conn'[mine'[u]].avail
                                    \/ pc'[u] = "lock" /\ mine'[u] \in tmp'
                /\ Exposed(u)' => conn'[mine'[u]].since = start'[u] /\ clock' < start'[u] + ReleaseTime
                /\ pc'[u] = "transaction" => InSlot(mine[u])' /\ ~conn'[mine'[u]].canRelease
    <3>1. CASE u = t
      BY <2>2, <2>3, <2>4, <2>6, <2>8, <2>9, <3>1 DEF InSlot, Shared, Exposed
    <3>2. CASE u # t /\ Using(u)
      <4>1. conn'[mine[u]] = conn[mine[u]] /\ pc'[u] = pc[u] /\ mine'[u] = mine[u] /\ start'[u] = start[u]
        BY <2>4, <2>6, <2>7, <2>8, <3>2
      <4> QED
        BY <1>2, <2>2, <2>9, <4>1 DEF HoldersInv, InSlot, Shared, Exposed
    <3>3. CASE u # t /\ ~Using(u)
      BY <2>4, <3>3 DEF Using, Shared, Exposed, PoolTypes, NullHandled
    <3> QED
      BY <3>1, <3>2, <3>3
  <2>11. \A u, v \in Threads : u # v /\ Using(u)' /\ Using(v)' => mine'[u] # mine'[v]
    BY <2>4, <2>7 DEF HoldersInv, Using
  <2> QED
    BY <2>10, <2>11 DEF HoldersInv
<1>6. CASE Steal(t, state)
  <2> DEFINE i == Min(Stealable)
             kept == AfterReap \ {slots[i]}
  <2>1. i \in 1 .. Num /\ conn[slots[i]].canRelease /\ Old(slots[i])
    BY <1>6, MinSlot DEF Steal, Stealable
  <2>2. PICK b \in Addrs \ kept :
           /\ live' = kept \cup {b} /\ conn' = [conn EXCEPT ![b] = New(FALSE)]
           /\ slots' = [slots EXCEPT ![i] = b] /\ Becomes(t, state, b)
    BY <1>6 DEF Steal
  <2> HIDE DEF i
  <2>3. tmp' = tmp \ Expired /\ start' = [start EXCEPT ![t] = clock]
    BY <1>6 DEF Steal
  <2>4. pc'[t] = state /\ mine'[t] = b /\ \A u \in Threads \ {t} : pc'[u] = pc[u] /\ mine'[u] = mine[u]
    BY <2>2, BecomesChanges
  <2>5. slots'[i] = b /\ \A j \in 1 .. Num \ {i} : slots'[j] = slots[j]
    BY <1>0, <2>1, <2>2
  <2>6. ~conn'[b].avail /\ conn'[b].since = clock /\ \A c \in Addrs \ {b} : conn'[c] = conn[c]
    BY <1>0, <2>2 DEF New
  <2>7. \A u \in Threads : Using(u) => mine[u] # slots[i] /\ mine[u] \in Addrs
    BY <1>1, <2>1 DEF HoldersInv, PlacesInv, Using, Exposed, Private, InSlot, PoolTypes, TypeOK
  <2>8. \A u \in Threads : Using(u) => mine[u] \in kept /\ mine[u] # b
    <3>1. \A u \in Threads : Using(u) => mine[u] \in AfterReap
      BY <1>2 DEF PlacesInv, Using, Shared, Private, AfterReap, Expired
    <3> QED
      BY <2>7, <3>1
  <2>9. start'[t] = clock /\ \A u \in Threads \ {t} : start'[u] = start[u]
    BY <1>0, <2>3
  <2>10. clock' = clock /\ clock < clock + ReleaseTime
    BY <1>0
  <2> HIDE DEF kept
  <2>11. ASSUME NEW u \in Threads
         PROVE  /\ Shared(u)' => /\ mine'[u] \in live'
                                 /\ \/ InSlot(mine[u])' /\ ~conn'[mine'[u]].avail
                                    \/ pc'[u] = "lock" /\ mine'[u] \in tmp'
                /\ Exposed(u)' => conn'[mine'[u]].since = start'[u] /\ clock' < start'[u] + ReleaseTime
                /\ pc'[u] = "transaction" => InSlot(mine[u])' /\ ~conn'[mine'[u]].canRelease
    <3>1. CASE u = t
      BY <2>1, <2>2, <2>4, <2>5, <2>6, <2>9, <2>10, <3>1 DEF InSlot, Shared, Exposed
    <3>2. CASE u # t /\ Using(u)
      <4>1. conn'[mine[u]] = conn[mine[u]] /\ pc'[u] = pc[u] /\ mine'[u] = mine[u] /\ start'[u] = start[u]
        BY <2>4, <2>6, <2>7, <2>8, <2>9, <3>2
      <4>2. InSlot(mine[u]) => InSlot(mine[u])'
        BY <2>5, <2>7, <3>2, <4>1 DEF InSlot
      <4>3. mine'[u] \in live' /\ (mine[u] \in tmp /\ Shared(u) => mine'[u] \in tmp')
        BY <1>2, <2>2, <2>3, <2>8, <3>2, <4>1
      <4> QED
        BY <2>10, <4>1, <4>2, <4>3 DEF HoldersInv, Shared, Exposed
    <3>3. CASE u # t /\ ~Using(u)
      BY <2>4, <3>3 DEF Using, Shared, Exposed, PoolTypes, NullHandled
    <3> QED
      BY <3>1, <3>2, <3>3
  <2>12. \A u, v \in Threads : u # v /\ Using(u)' /\ Using(v)' => mine'[u] # mine'[v]
    BY <2>4, <2>8 DEF HoldersInv, Using
  <2> QED
    BY <2>11, <2>12 DEF HoldersInv
<1> QED
    BY <1>3, <1>4, <1>5, <1>6 DEF Get

\* A connection that is given back was used by the caller alone.
LEMMA ReleaseHolders ==
    ASSUME PoolAssumption, PoolTypes, Places, HoldersInv, NEW t \in Threads, Shared(t),
           Release(mine[t]), Becomes(t, "idle", Null), UNCHANGED <<clock, start>>
    PROVE  HoldersInv'
<1> USE DEF Places
<1> DEFINE a == mine[t]
<1>1. pc'[t] = "idle" /\ \A u \in Threads \ {t} : pc'[u] = pc[u] /\ mine'[u] = mine[u]
    BY BecomesChanges
<1>2. /\ a \in Addrs /\ Using(t) /\ conn \in [Addrs -> Connections] /\ conn[a] \in Connections
      /\ \A u \in Threads : Using(u) => mine[u] \in Addrs
    BY DEF Shared, Using, PoolTypes, TypeOK, NullHandled
<1>3. conn' = conn \/ conn' = [conn EXCEPT ![a].avail = TRUE]
    BY DEF Release
<1>4. /\ \A c \in Addrs \ {a} : conn'[c] = conn[c]
      /\ slots' = slots /\ live \ {a} \subseteq live' /\ tmp \ {a} \subseteq tmp'
    BY <1>2, <1>3 DEF Release
<1>5. \A u \in Threads \ {t} : Using(u) => mine[u] # a
    BY <1>2 DEF HoldersInv
<1>6. \A u \in Threads : Shared(u) \/ Exposed(u) \/ pc[u] = "transaction" => Using(u)
    BY DEF Shared, Exposed, Using, PoolTypes, NullHandled
<1> HIDE DEF a
<1>7. ASSUME NEW u \in Threads, u # t, Using(u)
      PROVE  conn'[mine[u]] = conn[mine[u]] /\ pc'[u] = pc[u] /\ mine'[u] = mine[u] /\ mine[u] # a
    BY <1>1, <1>2, <1>4, <1>5, <1>7
<1>8. ASSUME NEW u \in Threads
      PROVE  /\ Shared(u)' => /\ mine'[u] \in live'
                              /\ \/ InSlot(mine[u])' /\ ~conn'[mine'[u]].avail
                                 \/ pc'[u] = "lock" /\ mine'[u] \in tmp'
             /\ Exposed(u)' => conn'[mine'[u]].since = start'[u] /\ clock' < start'[u] + ReleaseTime
             /\ pc'[u] = "transaction" => InSlot(mine[u])' /\ ~conn'[mine'[u]].canRelease
  <2>1. CASE u = t
    BY <1>1, <2>1 DEF Shared, Exposed
  <2>2. CASE u # t /\ Using(u)
    BY <1>4, <1>7, <2>2 DEF HoldersInv, InSlot, Shared, Exposed
  <2>3. CASE u # t /\ ~Using(u)
    BY <1>1, <1>6, <2>3 DEF Shared, Exposed
  <2> QED
    BY <2>1, <2>2, <2>3
<1>9. \A u, v \in Threads : u # v /\ Using(u)' /\ Using(v)' => mine'[u] # mine'[v]
    BY <1>1 DEF HoldersInv, Using
<1> QED
    BY <1>8, <1>9 DEF HoldersInv

\* A connection of the caller's own is nobody else's.
LEMMA NewHolders ==
    ASSUME PoolAssumption, PoolTypes, Places, HoldersInv, NEW t \in Threads, pc[t] # "idle", ~Using(t),
           NEW b \in Addrs \ live, live' = live \cup {b}, conn' = [conn EXCEPT ![b] = New(FALSE)],
           \/ Becomes(t, "once", b) /\ start' = start
           \/ Becomes(t, "tmp", b) /\ start' = [start EXCEPT ![t] = clock]
           \/ Becomes(t, "idle", Null) /\ start' = start,
           UNCHANGED <<clock, slots, tmp>>
    PROVE  HoldersInv'
<1> USE DEF Places
<1>0. /\ conn \in [Addrs -> Connections] /\ start \in [Threads -> Nat] /\ clock < clock + ReleaseTime
      /\ Null \notin Addrs
    BY DEF PoolTypes, TypeOK, PoolAssumption
<1>1. /\ \/ pc'[t] = "once" /\ mine'[t] = b
         \/ pc'[t] = "tmp" /\ mine'[t] = b /\ start'[t] = clock
         \/ pc'[t] = "idle" /\ mine'[t] = Null
      /\ \A u \in Threads \ {t} : pc'[u] = pc[u] /\ mine'[u] = mine[u] /\ start'[u] = start[u]
    BY <1>0, BecomesChanges
<1>2. conn'[b].since = clock /\ \A c \in Addrs \ {b} : conn'[c] = conn[c]
    BY <1>0 DEF New
<1>3. \A u \in Threads : Using(u) => mine[u] \in live /\ mine[u] # b /\ mine[u] \in Addrs
    BY DEF HoldersInv, PlacesInv, Using, Shared, Private, PoolTypes, TypeOK
<1>4. \A u \in Threads : Shared(u) \/ Exposed(u) \/ pc[u] = "transaction" => Using(u)
    BY DEF Shared, Exposed, Using, PoolTypes, NullHandled
<1>5. ASSUME NEW u \in Threads
      PROVE  /\ Shared(u)' => /\ mine'[u] \in live'
                              /\ \/ InSlot(mine[u])' /\ ~conn'[mine'[u]].avail
                                 \/ pc'[u] = "lock" /\ mine'[u] \in tmp'
             /\ Exposed(u)' => conn'[mine'[u]].since = start'[u] /\ clock' < start'[u] + ReleaseTime
             /\ pc'[u] = "transaction" => InSlot(mine[u])' /\ ~conn'[mine'[u]].canRelease
  <2>1. CASE u = t
    BY <1>0, <1>1, <1>2, <2>1 DEF Shared, Exposed
  <2>2. CASE u # t /\ Using(u)
    <3>1. conn'[mine[u]] = conn[mine[u]] /\ pc'[u] = pc[u] /\ mine'[u] = mine[u] /\ start'[u] = start[u]
      BY <1>1, <1>2, <1>3, <2>2
    <3>2. mine'[u] \in live' /\ slots' = slots /\ tmp' = tmp /\ clock' = clock
      BY <1>3, <2>2, <3>1
    <3>3. (InSlot(mine[u])' <=> InSlot(mine[u])) /\ (Shared(u)' <=> Shared(u)) /\ (Exposed(u)' <=> Exposed(u))
      BY <3>1, <3>2 DEF InSlot, Shared, Exposed
    <3> QED
      BY <3>1, <3>2, <3>3 DEF HoldersInv
  <2>3. CASE u # t /\ ~Using(u)
    BY <1>1, <1>4, <2>3 DEF Shared, Exposed
  <2> QED
    BY <2>1, <2>2, <2>3
<1>6. ASSUME NEW u \in Threads, NEW v \in Threads, u # v, Using(u)', Using(v)'
      PROVE  mine'[u] # mine'[v]
  <2>1. \A w \in Threads \ {t} : (Using(w)' <=> Using(w)) /\ mine'[w] = mine[w]
    BY <1>1 DEF Using
  <2>2. Using(t)' => mine'[t] = b
    BY <1>1 DEF Using
  <2>3. CASE u # t /\ v # t
    BY <1>6, <2>1, <2>3 DEF HoldersInv
  <2>4. CASE u = t \/ v = t
    BY <1>3, <1>6, <2>1, <2>2, <2>4
  <2> QED
    BY <2>3, <2>4
<1> QED
    BY <1>5, <1>6 DEF HoldersInv

\* Every step without an incident keeps the holders their connections.
LEMMA HoldersStep ==
    ASSUME PoolAssumption, PoolTypes, Places, HoldersInv, [Next]_vars, Calm'
    PROVE  HoldersInv'
<1> USE DEF Places
<1>0. /\ Calm /\ clock \in Nat /\ ReleaseTime \in Nat /\ start \in [Threads -> Nat]
      /\ conn \in [Addrs -> Connections]
    BY OnlyLateBefore DEF PoolTypes, TypeOK, PoolAssumption
<1>1. CASE Tick
  <2>1. \A u \in Threads : ~(Exposed(u) /\ clock + 1 = start[u] + ReleaseTime)
    BY <1>1, MeetAdds DEF Tick
  <2>2. clock' = clock + 1 /\ UNCHANGED <<live, conn, slots, tmp, pc, mine, start>>
    BY <1>1 DEF Tick
  <2>3. \A u \in Threads : Exposed(u) => clock + 1 < start[u] + ReleaseTime
    BY <1>0, <2>1 DEF HoldersInv
  <2> QED
    BY <2>2, <2>3 DEF HoldersInv, Shared, Exposed, Using, InSlot
<1>2. CASE FreePool
    BY <1>2 DEF FreePool, HoldersInv, Shared, Exposed, Using, InSlot
<1>3. ASSUME NEW t \in Threads, ThreadStep(t) PROVE HoldersInv'
  <2>1. CASE BeginCommand(t) \/ PrepareTransaction(t) \/ BeginLock(t)
    BY <2>1, GetHolders DEF BeginCommand, PrepareTransaction, BeginLock
  <2>2. CASE EndCommand(t) \/ FinishTransaction(t) \/ EndLock(t)
    BY <2>2, ReleaseHolders DEF EndCommand, FinishTransaction, EndLock, Shared
  <2>3. CASE UnwatchQueued(t)
    BY <2>3, MeetAdds DEF UnwatchQueued
  <2>4. CASE FreeConnection(t)
    BY <2>4 DEF FreeConnection, PlacesInv
  <2>5. CASE OnceConnect(t)
    <3>1. CASE Becomes(t, "idle", Null) /\ UNCHANGED <<clock, live, conn, slots, tmp, start>>
      <4>1. pc'[t] = "idle" /\ \A u \in Threads \ {t} : pc'[u] = pc[u] /\ mine'[u] = mine[u]
        BY <3>1, BecomesChanges
      <4> QED
        BY <3>1, <4>1 DEF HoldersInv, Shared, Exposed, Using, InSlot
    <3> QED
      BY <2>5, <3>1, NewHolders DEF OnceConnect, Using
  <2>6. CASE OnceDone(t)
    <3>1. /\ pc'[t] = "idle" /\ \A u \in Threads \ {t} : pc'[u] = pc[u] /\ mine'[u] = mine[u]
          /\ live' = live \ {mine[t]} /\ UNCHANGED <<clock, conn, slots, tmp, start>>
      BY <2>6, BecomesChanges DEF OnceDone
    <3>2. Using(t) /\ \A u \in Threads : Shared(u) => Using(u)
      BY <2>6 DEF OnceDone, Using, Shared, PoolTypes, NullHandled
    <3> QED
      BY <3>1, <3>2 DEF HoldersInv, Shared, Exposed, Using, InSlot
  <2>7. CASE SetCanRelease(t)
    <3>1. /\ pc[t] = "pinning" /\ pc'[t] = "transaction" /\ mine'[t] = mine[t]
          /\ \A u \in Threads \ {t} : pc'[u] = pc[u] /\ mine'[u] = mine[u]
          /\ conn' = [conn EXCEPT ![mine[t]].canRelease = FALSE] /\ UNCHANGED <<clock, live, slots, tmp, start>>
      BY <2>7, BecomesChanges DEF SetCanRelease
    <3>2. mine[t] \in Addrs /\ conn[mine[t]] \in Connections
      BY <1>0, <3>1 DEF PoolTypes, TypeOK, NullHandled
    <3>3. /\ ~conn'[mine[t]].canRelease
          /\ \A c \in Addrs : conn'[c].avail = conn[c].avail /\ conn'[c].since = conn[c].since
          /\ \A c \in Addrs \ {mine[t]} : conn'[c] = conn[c]
      BY <1>0, <3>1, <3>2 DEF Connections
    <3>4. \A u \in Threads : Using(u) \/ Shared(u) \/ Exposed(u) => mine[u] \in Addrs
      BY DEF Using, Shared, Exposed, PoolTypes, TypeOK, NullHandled
    <3>5. Shared(t) /\ Using(t) /\ InSlot(mine[t])
      BY <3>1 DEF HoldersInv, Shared, Using, PoolTypes, NullHandled
    <3>6. ASSUME NEW u \in Threads
          PROVE  /\ Shared(u)' => /\ mine'[u] \in live'
                                  /\ \/ InSlot(mine[u])' /\ ~conn'[mine'[u]].avail
                                     \/ pc'[u] = "lock" /\ mine'[u] \in tmp'
                 /\ Exposed(u)' => conn'[mine'[u]].since = start'[u] /\ clock' < start'[u] + ReleaseTime
                 /\ pc'[u] = "transaction" => InSlot(mine[u])' /\ ~conn'[mine'[u]].canRelease
      <4>1. CASE u = t
        BY <3>1, <3>2, <3>3, <3>5, <4>1 DEF HoldersInv, Shared, Exposed, InSlot
      <4>2. CASE u # t /\ Using(u)
        <5>1. mine[u] # mine[t] /\ mine[u] \in Addrs
          BY <3>4, <3>5, <4>2 DEF HoldersInv
        <5> QED
          BY <3>1, <3>3, <4>2, <5>1 DEF HoldersInv, Shared, Exposed, InSlot
      <4>3. CASE u # t /\ ~Using(u)
        BY <3>1, <4>3 DEF Shared, Exposed, Using, PoolTypes, NullHandled
      <4> QED
        BY <4>1, <4>2, <4>3
    <3>7. \A u, v \in Threads : u # v /\ Using(u)' /\ Using(v)' => mine'[u] # mine'[v]
      BY <3>1, <3>5 DEF HoldersInv, Using
    <3> QED
      BY <3>6, <3>7 DEF HoldersInv
  <2>8. CASE WatchFails(t)
    <3>1. /\ pc'[t] = "idle" /\ \A u \in Threads \ {t} : pc'[u] = pc[u] /\ mine'[u] = mine[u]
          /\ UNCHANGED <<clock, live, conn, slots, tmp, start>>
      BY <2>8, BecomesChanges DEF WatchFails
    <3> QED
      BY <3>1 DEF HoldersInv, Shared, Exposed, Using, InSlot
  <2>9. CASE TmpConnect(t)
    BY <2>9, NewHolders DEF TmpConnect, Using
  <2>10. CASE TmpListed(t)
    <3>1. /\ pc[t] = "tmp" /\ pc'[t] = "lock" /\ mine'[t] = mine[t]
          /\ \A u \in Threads \ {t} : pc'[u] = pc[u] /\ mine'[u] = mine[u]
          /\ tmp' = tmp \cup {mine[t]} /\ UNCHANGED <<clock, live, conn, slots, start>>
      BY <2>10, BecomesChanges DEF TmpListed
    <3>2. Private(t) /\ mine[t] \in live
      BY <3>1 DEF PlacesInv, Private, PoolTypes, NullHandled
    <3>3. ASSUME NEW u \in Threads
          PROVE  /\ Shared(u)' => /\ mine'[u] \in live'
                                  /\ \/ InSlot(mine[u])' /\ ~conn'[mine'[u]].avail
                                     \/ pc'[u] = "lock" /\ mine'[u] \in tmp'
                 /\ Exposed(u)' => conn'[mine'[u]].since = start'[u] /\ clock' < start'[u] + ReleaseTime
                 /\ pc'[u] = "transaction" => InSlot(mine[u])' /\ ~conn'[mine'[u]].canRelease
      BY <3>1, <3>2 DEF HoldersInv, Shared, Exposed, InSlot
    <3>4. \A u, v \in Threads : u # v /\ Using(u)' /\ Using(v)' => mine'[u] # mine'[v]
      BY <3>1, <3>2 DEF HoldersInv, Using, Private
    <3> QED
      BY <3>3, <3>4 DEF HoldersInv
  <2> QED
    BY <1>3, <2>1, <2>2, <2>3, <2>4, <2>5, <2>6, <2>7, <2>8, <2>9, <2>10 DEF ThreadStep
<1>4. CASE UNCHANGED vars
    BY <1>4 DEF vars, HoldersInv, Shared, Exposed, Using, InSlot
<1> QED
    BY <1>1, <1>2, <1>3, <1>4 DEF Next

\* The invariant holds when initConnectPool has succeeded.
LEMMA InitInv ==
    ASSUME PoolAssumption, Init
    PROVE  PoolInv
<1>1. /\ clock = 0 /\ met = <<>> /\ closed = FALSE /\ tmp = {} /\ slots \in [1 .. Num -> Addrs]
      /\ \A i, j \in 1 .. Num : i # j => slots[i] # slots[j]
      /\ live = {slots[i] : i \in 1 .. Num}
      /\ pc = [t \in Threads |-> "idle"] /\ mine = [t \in Threads |-> Null]
      /\ start = [t \in Threads |-> 0]
    BY DEF Init
<1>2. conn \in [Addrs -> Connections]
    BY DEF Init, Connections
<1>3. PoolTypes
  <2>1. met \in Seq(Incidents)
    BY <1>1, EmptySeq
  <2>2. TypeOK
    BY <1>1 DEF TypeOK, PoolAssumption
  <2>3. NullHandled /\ pc \in [Threads -> States] /\ start \in [Threads -> Nat]
    BY <1>1 DEF NullHandled, States
  <2> QED
    BY <1>1, <1>2, <2>1, <2>2, <2>3 DEF PoolTypes
<1>4. PlacesInv /\ SlotsAlwaysLive
    BY <1>1 DEF PlacesInv, SlotsAlwaysLive, Private, InSlot
<1>5. HoldersInv
    BY <1>1 DEF HoldersInv, Shared, Exposed, Using
<1> QED
    BY <1>3, <1>4, <1>5 DEF PoolInv

\* Every step keeps the invariant.
LEMMA InvStep ==
    ASSUME PoolAssumption, PoolInv, [Next]_vars
    PROVE  PoolInv'
<1>1. PoolTypes /\ (OnlyLate' => OnlyLate) /\ (Calm' => Calm)
    BY OnlyLateBefore DEF PoolInv
<1>2. PoolTypes'
    BY <1>1, TypesStep
<1>3. OnlyLate' => (PlacesInv /\ SlotsAlwaysLive)'
    BY <1>1, PlacesStep DEF PoolInv, Places
<1>4. Calm' => HoldersInv'
  <2>1. Calm => OnlyLate
    BY DEF Calm, OnlyLate
  <2> QED
    BY <1>1, <2>1, HoldersStep DEF PoolInv, Places
<1> QED
    BY <1>2, <1>3, <1>4 DEF PoolInv

\* PoolInv is an invariant of the pool, for any number of threads, slots, addresses and incidents.
THEOREM Safety == PoolAssumption => (Spec => []PoolInv)
<1> SUFFICES ASSUME PoolAssumption PROVE Spec => []PoolInv
    OBVIOUS
<1>1. Init => PoolInv
    BY InitInv
<1>2. PoolInv /\ [Next]_vars => PoolInv'
    BY InvStep
<1> QED
    BY <1>1, <1>2, PTL DEF Spec

\* While no holder is late, no reconnect fails inside the pool and no UNWATCH is queued, a thread
\* works on a connection that exists and that is its own.  NULL is always handled.  The slots hold
\* connections that exist, also after late holders.
THEOREM Holders == PoolAssumption => (Spec => []HoldersSafe)
<1> SUFFICES ASSUME PoolAssumption PROVE Spec => []HoldersSafe
    OBVIOUS
<1>1. Spec => []PoolInv
    BY Safety
<1>2. PoolInv => HoldersSafe
  <2>1. Calm => OnlyLate
    BY DEF Calm, OnlyLate
  <2>2. PoolInv /\ Calm => HolderAlwaysLive
    BY <2>1 DEF PoolInv, PlacesInv, HoldersInv, HolderAlwaysLive, Using, Shared, Private
  <2> QED
    BY <2>2 DEF PoolInv, PoolTypes, HoldersInv, HoldersSafe, HolderLive, ExclusiveUse, SlotsLive
<1> QED
    BY <1>1, <1>2, PTL
=============================================================================
