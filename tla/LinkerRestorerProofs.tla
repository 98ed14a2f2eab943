------------------------ MODULE LinkerRestorerProofs ------------------------
(***************************************************************************)
(* RestorerInv of LinkerRestorer is inductive, for any number of client    *)
(* threads, operations, callbacks and starts and any threshold;            *)
(* RestorerRight follows from it.                                          *)
(***************************************************************************)
EXTENDS LinkerRestorer, TLAPS, FiniteSetTheorems, SequenceTheorems

\* The actions of Next, but for the one that changes nothing
Step == AppDoes \/ WorkerDoes \/ (\E t \in Threads : CbDoes(t)) \/ Calls \/ Wrecks

-----------------------------------------------------------------------------
(* What a step writes down *)

\* A step that takes part in a race is noted in met, for good.
LEMMA RaceFacts ==
    ASSUME Seen
    PROVE  /\ met \subseteq met'
           /\ Cardinality(Busy') > 1 => "overlap" \in met'
           /\ status = Unrecoverable /\ status' # Unrecoverable => "revived" \in met'
           /\ flags.clear /\ ~flags'.clear /\ ~(flags.started /\ status = Normal) => "vain clear" \in met'
           /\ worker = "process" /\ worker' = "top" /\ (\E t \in Threads : cb[t].step \in {"need", "clearing"})
                  => "before the clear" \in met'
<1>1. met' = met \cup Races
  BY DEF Seen
<1>2. Cardinality(Busy') > 1 => "overlap" \in Races
  BY DEF Races
<1>3. status = Unrecoverable /\ status' # Unrecoverable => "revived" \in Races
  BY DEF Races
<1>4. flags.clear /\ ~flags'.clear /\ ~(flags.started /\ status = Normal) => "vain clear" \in Races
  BY DEF Races
<1>5. worker = "process" /\ worker' = "top" /\ (\E t \in Threads : cb[t].step \in {"need", "clearing"})
          => "before the clear" \in Races
  BY DEF Races
<1>6. QED
  BY <1>1, <1>2, <1>3, <1>4, <1>5, Zenon

\* As long as no overlap is noted, at most one thread is changing the status.
LEMMA OneBusy ==
    ASSUME Seen, "overlap" \notin met'
    PROVE  \A a, b \in Busy' : a = b
<1>1. ~(Cardinality(Busy') > 1)
  BY RaceFacts, Zenon
<1>2. IsFiniteSet(Busy')
  <2>1. IsFiniteSet(Threads \cup {"app"} \cup {"worker"})
    BY RestorerAssumption, FS_AddElement, FS_Union, FS_Singleton, Zenon
  <2>2. Busy' \subseteq Threads \cup {"app"} \cup {"worker"}
    BY DEF Busy
  <2>3. QED
    BY <2>1, <2>2, FS_Subset
<1>3. SUFFICES ASSUME NEW a \in Busy', NEW b \in Busy', a # b
              PROVE  FALSE
  OBVIOUS
<1>4. {a, b} \subseteq Busy'
  OBVIOUS
<1>5. IsFiniteSet({a, b}) /\ Cardinality({a, b}) = 2
  <2>1. IsFiniteSet({a}) /\ Cardinality({a}) = 1
    BY FS_Singleton, Zenon
  <2>2. {a, b} = {a} \cup {b}
    OBVIOUS
  <2>3. QED
    BY <2>1, <2>2, <1>3, FS_AddElement
<1>6. Cardinality({a, b}) <= Cardinality(Busy') /\ Cardinality(Busy') \in Nat
  BY <1>2, <1>4, FS_Subset, FS_CardinalityType
<1>7. QED
  BY <1>1, <1>5, <1>6

-----------------------------------------------------------------------------
(* Sequences of operations *)

\* The next number at the end of a sequence keeps it in order.
LEMMA OrderedAppend ==
    ASSUME NEW s \in Seq(Nat), NEW n \in Nat, NEW g \in Nat, Ordered(s, n, g)
    PROVE  Ordered(Append(s, n + 1), n + 1, g)
<1> DEFINE u == Append(s, n + 1)
<1>1. u \in Seq(Nat) /\ Len(u) = Len(s) + 1 /\ u[Len(s) + 1] = n + 1 /\ \A i \in 1 .. Len(s) : u[i] = s[i]
  OBVIOUS
<1>2. Len(s) \in Nat /\ (Len(s) > 0 => s # <<>>) /\ \A i \in 1 .. Len(s) : s[i] \in Nat
  OBVIOUS
<1>3. \A i \in 1 .. Len(u) : u[i] <= n + 1
  BY <1>1, <1>2 DEF Ordered
<1>4. ASSUME NEW i \in 1 .. Len(u) - 1
      PROVE  u[i] < u[i + 1] /\ (g = 0 => u[i + 1] = u[i] + 1)
  <2>1. CASE i = Len(s)
    BY <2>1, <1>1, <1>2 DEF Ordered
  <2>2. CASE i \in 1 .. Len(s) - 1
    BY <2>2, <1>1, <1>2 DEF Ordered
  <2>3. QED
    BY <2>1, <2>2, <1>1, <1>2
<1>5. QED
  BY <1>1, <1>2, <1>3, <1>4 DEF Ordered

\* The end of a sequence in order is in order ...
LEMMA OrderedSuffix ==
    ASSUME NEW s \in Seq(Nat), NEW t \in Seq(Nat), NEW n \in Nat, NEW g \in Nat, Ordered(s \o t, n, g)
    PROVE  Ordered(t, n, g)
<1> DEFINE u == s \o t
<1>1. /\ u \in Seq(Nat) /\ Len(u) = Len(s) + Len(t) /\ Len(s) \in Nat /\ Len(t) \in Nat
      /\ \A i \in 1 .. Len(t) : t[i] = u[Len(s) + i]
      /\ t # <<>> => Len(t) > 0 /\ u # <<>>
  OBVIOUS
<1>2. \A i \in 1 .. Len(t) : Len(s) + i \in 1 .. Len(u)
  BY <1>1
<1>3. \A i \in 1 .. Len(t) : t[i] <= n
  BY <1>1, <1>2, Zenon DEF Ordered
<1>4. ASSUME NEW i \in 1 .. Len(t) - 1
      PROVE  t[i] < t[i + 1] /\ (g = 0 => t[i + 1] = t[i] + 1)
  <2>1. Len(s) + i \in 1 .. Len(u) - 1 /\ t[i] = u[Len(s) + i] /\ t[i + 1] = u[(Len(s) + i) + 1]
    BY <1>1
  <2>2. QED
    BY <2>1, Zenon DEF Ordered
<1>5. g = 0 /\ t # <<>> => t[Len(t)] = n
  BY <1>1 DEF Ordered
<1>6. QED
  BY <1>3, <1>4, <1>5 DEF Ordered

\* ... and so is its beginning, as far as a gap may follow.
LEMMA OrderedPrefix ==
    ASSUME NEW s \in Seq(Nat), NEW t \in Seq(Nat), NEW n \in Nat, NEW g \in Nat, g > 0, Ordered(s \o t, n, g)
    PROVE  Ordered(s, n, g)
<1> DEFINE u == s \o t
<1>1. /\ Len(u) = Len(s) + Len(t) /\ Len(s) \in Nat /\ Len(t) \in Nat
      /\ \A i \in 1 .. Len(s) : s[i] = u[i]
  OBVIOUS
<1>2. \A i \in 1 .. Len(s) : s[i] <= n
  BY <1>1 DEF Ordered
<1>3. \A i \in 1 .. Len(s) - 1 : s[i] < s[i + 1]
  BY <1>1 DEF Ordered
<1>4. QED
  BY <1>2, <1>3 DEF Ordered

\* More gaps are allowed once there is one.
LEMMA OrderedWeaker ==
    ASSUME NEW s \in Seq(Nat), NEW n \in Nat, NEW g \in Nat, NEW h \in Nat, h > 0, Ordered(s, n, g)
    PROVE  Ordered(s, n, h)
  BY DEF Ordered

-----------------------------------------------------------------------------
(* Types *)

LEMMA AppTypes ==
    ASSUME app \in AppType, NEW s \in AppSteps
    PROVE  [app EXCEPT !.step = s] \in AppType
  BY DEF AppType

LEMMA CbTypes ==
    ASSUME cb \in CbType, NEW t \in Threads, NEW s \in CbSteps
    PROVE  [cb EXCEPT ![t].step = s] \in CbType
  BY DEF CbType

LEMMA FlagTypes ==
    ASSUME flags \in FlagType
    PROVE  \A b \in BOOLEAN :
               /\ [flags EXCEPT !.started = b] \in FlagType
               /\ [flags EXCEPT !.force = b] \in FlagType
               /\ [flags EXCEPT !.clear = b] \in FlagType
               /\ [flags EXCEPT !.client = b] \in FlagType
               /\ [flags EXCEPT !.client = TRUE, !.clear = FALSE] \in FlagType
               /\ [flags EXCEPT !.client = FALSE, !.inited = FALSE] \in FlagType
  BY Zenon DEF FlagType

LEMMA InitTypes ==
    ASSUME flags \in FlagType, store \in StoreType, NEW need \in BOOLEAN, NEW conn \in BOOLEAN
    PROVE  /\ [flags EXCEPT !.inited = TRUE, !.clear = need, !.connected = conn] \in FlagType
           /\ [store EXCEPT !.stale = need] \in StoreType
<1>1. [flags EXCEPT !.inited = TRUE, !.clear = need, !.connected = conn] \in FlagType
  BY Zenon DEF FlagType
<1>2. [store EXCEPT !.stale = need] \in StoreType
  BY DEF StoreType
<1>3. QED
  BY <1>1, <1>2

LEMMA CountTypes ==
    ASSUME count \in CountType
    PROVE  \A what \in {"ops", "calls", "starts", "outages", "overloads"} :
               [count EXCEPT ![what] = @ + 1] \in CountType
  BY DEF CountType

LEMMA ClearedType ==
    ASSUME store \in StoreType
    PROVE  Cleared \in StoreType
<1>1. <<>> \in Seq(Nat)
  OBVIOUS
<1>2. [store EXCEPT !.done = <<>>, !.stale = FALSE] \in StoreType
  BY <1>1, Zenon DEF StoreType
<1>3. QED
  BY <1>2 DEF Cleared

LEMMA SeqFacts == <<>> \in Seq(Nat) /\ \A n \in Nat : <<n>> \in Seq(Nat)
  OBVIOUS

\* A step keeps every variable in its type.
LEMMA TypeApp ==
    ASSUME TypeOK, PlacesInv, AppDoes
    PROVE  TypeOK'
<1> USE DEF TypeOK
<1> USE DEF AppDoes, Seen
<1>1. CASE InitBegins
  <2>1. PICK h \in {"Healthy", "Unhealthy"} : app' = [step |-> "initing", tell |-> h] /\ told' = h
    BY <1>1 DEF InitBegins
  <2>2. app' \in AppType /\ told' \in Told
    BY <2>1 DEF AppType, AppSteps, Told
  <2>3. QED
    BY <1>1, <2>2, FlagTypes, Zenon DEF InitBegins
<1>2. CASE InitReturns(Normal)
  <2>1. flags' \in FlagType /\ store' \in StoreType
    BY <1>2, InitTypes, Zenon DEF InitReturns
  <2>2. app' \in AppType
    BY <1>2 DEF InitReturns, AppType, AppSteps, Told
  <2>3. count' \in CountType
    BY <1>2, CountTypes DEF InitReturns, Counted
  <2>4. QED
    BY <1>2, <2>1, <2>2, <2>3 DEF InitReturns
<1>3. CASE InitReturns(Recoverable)
  <2>1. flags' \in FlagType /\ store' \in StoreType
    BY <1>3, InitTypes, Zenon DEF InitReturns
  <2>2. app' \in AppType
    BY <1>3 DEF InitReturns, AppType, AppSteps, Told
  <2>3. count' \in CountType
    BY <1>3, CountTypes, Zenon DEF InitReturns, Counted
  <2>4. QED
    BY <1>3, <2>1, <2>2, <2>3 DEF InitReturns
<1>4. CASE InitFails
  BY <1>4, AppTypes, FlagTypes, Zenon DEF InitFails, GoTo, AppSteps, Told
<1>5. CASE InitTells
  <2>1. app.tell \in Told
    BY DEF AppType
  <2>2. QED
    BY <1>5, <2>1, AppTypes DEF InitTells, GoTo, AppSteps
<1>6. CASE Start
  BY <1>6, AppTypes, FlagTypes, CountTypes, Zenon DEF Start, GoTo, AppSteps, Counted, WorkerSteps
<1>7. CASE StartRefused
  BY <1>7, AppTypes, FlagTypes, Zenon DEF StartRefused, GoTo, AppSteps, Told
<1>8. CASE PrepareLoadData
  BY <1>8, AppTypes, FlagTypes, ClearedType, Zenon DEF PrepareLoadData, GoTo, AppSteps
<1>9. CASE PushChecks
  BY <1>9, AppTypes DEF PushChecks, GoTo, AppSteps
<1>10. CASE Push
  <2>1. queue' \in Seq(Nat)
    <3>1. count.ops + 1 \in Nat
      BY DEF CountType
    <3>2. QED
      BY <1>10, <3>1, AppendProperties DEF Push
  <2>2. QED
    BY <1>10, <2>1, AppTypes, CountTypes DEF Push, GoTo, AppSteps, Counted
<1>11. CASE StopBegins
  BY <1>11, AppTypes, FlagTypes, Zenon DEF StopBegins, GoTo, AppSteps
<1>12. CASE StopReturns
  BY <1>12, AppTypes, FlagTypes, Zenon DEF StopReturns, GoTo, AppSteps
<1>13. CASE StartAgain
  BY <1>13, AppTypes DEF StartAgain, GoTo, AppSteps
<1>14. CASE Uninit
  BY <1>14, AppTypes, FlagTypes, Zenon DEF Uninit, GoTo, AppSteps
<1>15. QED
  BY <1>1, <1>2, <1>3, <1>4, <1>5, <1>6, <1>7, <1>8, <1>9, <1>10, <1>11, <1>12, <1>13, <1>14 DEF App

LEMMA TypeWorker ==
    ASSUME TypeOK, PlacesInv, WorkerDoes
    PROVE  TypeOK'
<1> USE DEF TypeOK
<1> USE DEF WorkerDoes, Seen
<1>1. CASE WorkerTop
  BY <1>1 DEF WorkerTop, Worker, WorkerOnly, WorkerSteps, GivingUp
<1>2. CASE WorkerCheck1
  BY <1>2 DEF WorkerCheck1, Worker, WorkerOnly, WorkerSteps, GivingUp
<1>3. CASE WorkerCheck2
  BY <1>3 DEF WorkerCheck2, Worker, WorkerOnly, WorkerSteps, GivingUp
<1>4. CASE WorkerSize
  BY <1>4, CountTypes, Zenon DEF WorkerSize, Worker, WorkerOnly, WorkerSteps, GivingUp, Counted
<1>5. CASE WorkerGivesUp
  BY <1>5, SeqFacts DEF WorkerGivesUp, Worker, WorkerOnly, WorkerSteps, GivingUp
<1>6. CASE WorkerStopsClient
  BY <1>6, FlagTypes, Zenon DEF WorkerStopsClient, Worker, WorkerOnly, WorkerSteps, GivingUp
<1>7. CASE WorkerTells
  BY <1>7 DEF WorkerTells, Worker, WorkerOnly, WorkerSteps, GivingUp, Told
<1>8. CASE WorkerAsserts
  BY <1>8 DEF WorkerAsserts, Worker, WorkerOnly, WorkerSteps, GivingUp
<1>9. CASE WorkerTakes
  <2>1. queue' \in Seq(Nat) /\ hand' \in Seq(Nat)
    <3>1. CASE flags.force
      BY <1>9, <3>1 DEF WorkerTakes
    <3>2. CASE ~flags.force
      <4>1. queue # <<>> /\ hand' = <<Head(queue)>> /\ queue' = Tail(queue)
        BY <1>9, <3>2 DEF WorkerTakes
      <4>2. Head(queue) \in Nat /\ Tail(queue) \in Seq(Nat)
        BY <4>1, HeadTailProperties
      <4>3. QED
        BY <4>1, <4>2, SeqFacts
    <3>3. QED
      BY <3>1, <3>2
  <2>2. QED
    BY <1>9, <2>1 DEF WorkerTakes, WorkerSteps
<1>10. CASE WorkerProcesses
  <2>1. hand' \in Seq(Nat)
    BY <1>10, SeqFacts DEF WorkerProcesses
  <2>2. store.done \o hand \in Seq(Nat)
    BY ConcatProperties DEF StoreType
  <2>3. hand[1] \in Nat
    <3>1. Len(hand) = 1
      BY <1>10 DEF WorkerProcesses, Worker, PlacesInv
    <3>2. 1 \in 1 .. Len(hand)
      BY <3>1
    <3>3. QED
      BY <3>2, ElementOfSeq
  <2>4. store' \in StoreType
    BY <1>10, <2>2, <2>3, Zenon DEF WorkerProcesses, StoreType
  <2>5. QED
    BY <1>10, <2>1, <2>4 DEF WorkerProcesses, Worker, WorkerSteps
<1>11. QED
  BY <1>1, <1>2, <1>3, <1>4, <1>5, <1>6, <1>7, <1>8, <1>9, <1>10 DEF WorkerStep

LEMMA TypeCb ==
    ASSUME TypeOK, PlacesInv, NEW t \in Threads, CbDoes(t)
    PROVE  TypeOK'
<1> USE DEF TypeOK
<1> USE DEF CbDoes, Seen
<1>1. CASE CbCheck1(t)
  BY <1>1, CbTypes, Zenon DEF CbCheck1, Cb, CbOnly, CbSteps
<1>2. CASE CbCheck2(t)
  BY <1>2, CbTypes, Zenon DEF CbCheck2, Cb, CbOnly, CbSteps
<1>3. CASE CbDown(t)
  BY <1>3, CbTypes, CountTypes, Zenon DEF CbDown, Cb, CbOnly, CbSteps, Counted
<1>4. CASE CbTellsBad(t)
  BY <1>4, CbTypes, Zenon DEF CbTellsBad, Cb, CbOnly, CbSteps, Told
<1>5. CASE CbCheck3(t)
  BY <1>5, CbTypes, Zenon DEF CbCheck3, Cb, CbOnly, CbSteps
<1>6. CASE CbUp(t)
  BY <1>6, CbTypes, Zenon DEF CbUp, Cb, CbOnly, CbSteps
<1>7. CASE CbNeed(t)
  BY <1>7, CbTypes, Zenon DEF CbNeed, Cb, CbOnly, CbSteps
<1>8. CASE CbClears(t)
  BY <1>8, CbTypes, FlagTypes, ClearedType, Zenon DEF CbClears, Cb, CbOnly, CbSteps
<1>9. CASE CbTellsGood(t)
  BY <1>9, CbTypes, Zenon DEF CbTellsGood, Cb, CbOnly, CbSteps, Told
<1>10. QED
  BY <1>1, <1>2, <1>3, <1>4, <1>5, <1>6, <1>7, <1>8, <1>9 DEF CbStep

LEMMA TypeStep ==
    ASSUME TypeOK, PlacesInv, Step
    PROVE  TypeOK'
<1>1. CASE AppDoes
  BY <1>1, TypeApp
<1>2. CASE WorkerDoes
  BY <1>2, TypeWorker
<1>3. ASSUME NEW t \in Threads, CbDoes(t)
      PROVE  TypeOK'
  BY <1>3, TypeCb
<1> USE DEF TypeOK
<1>4. CASE Calls
  <2>1. PICK t \in Threads, s \in {Normal, Recoverable} : CbCalled(t, s)
    BY <1>4 DEF Calls
  <2>2. cb' \in CbType
    BY <2>1 DEF CbCalled, CbType, CbSteps
  <2>3. QED
    BY <1>4, <2>1, <2>2, CountTypes DEF Calls, CbCalled, Counted, Seen
<1>5. CASE Wrecks
  BY <1>5 DEF Wrecks, Wreck
<1>6. QED
  BY <1>1, <1>2, <1>3, <1>4, <1>5 DEF Step

-----------------------------------------------------------------------------
(* Who is where *)

\* A step keeps the worker where the application's thread allows it to be.
LEMMA PlacesStep ==
    ASSUME TypeOK, PlacesInv, Step
    PROVE  PlacesInv'
<1> USE DEF PlacesInv, TypeOK, AppType, FlagType, CountType, Joined
<1>1. CASE AppDoes
  <2> USE <1>1 DEF AppDoes, Seen, At, GoTo, Counted
  <2>1. CASE InitBegins
    BY <2>1 DEF InitBegins, GivingUp
  <2>2. CASE InitReturns(Normal)
    BY <2>2 DEF InitReturns, GivingUp, Normal, Recoverable, Unrecoverable
  <2>3. CASE InitReturns(Recoverable)
    BY <2>3 DEF InitReturns, GivingUp, Normal, Recoverable, Unrecoverable
  <2>4. CASE InitFails
    BY <2>4 DEF InitFails, GivingUp
  <2>5. CASE InitTells
    BY <2>5 DEF InitTells, GivingUp
  <2>6. CASE Start
    BY <2>6 DEF Start, GivingUp
  <2>7. CASE StartRefused
    BY <2>7 DEF StartRefused, GivingUp, Free
  <2>8. CASE PrepareLoadData
    BY <2>8, Zenon DEF PrepareLoadData, GivingUp
  <2>9. CASE PushChecks
    BY <2>9 DEF PushChecks, GivingUp
  <2>10. CASE Push
    BY <2>10 DEF Push, GivingUp
  <2>11. CASE StopBegins
    BY <2>11 DEF StopBegins, GivingUp
  <2>12. CASE StopReturns
    BY <2>12 DEF StopReturns, GivingUp
  <2>13. CASE StartAgain
    BY <2>13 DEF StartAgain, GivingUp
  <2>14. CASE Uninit
    BY <2>14 DEF Uninit, GivingUp, Free
  <2>15. QED
    BY <2>1, <2>2, <2>3, <2>4, <2>5, <2>6, <2>7, <2>8, <2>9, <2>10, <2>11, <2>12, <2>13, <2>14 DEF App
<1>2. CASE WorkerDoes
  <2> USE <1>2 DEF WorkerDoes, Seen, Worker, WorkerOnly, GivingUp
  <2>1. CASE WorkerTop
    BY <2>1 DEF WorkerTop
  <2>2. CASE WorkerCheck1
    BY <2>2 DEF WorkerCheck1
  <2>3. CASE WorkerCheck2
    BY <2>3 DEF WorkerCheck2
  <2>4. CASE WorkerSize
    BY <2>4 DEF WorkerSize, Counted
  <2>5. CASE WorkerGivesUp
    BY <2>5 DEF WorkerGivesUp
  <2>6. CASE WorkerStopsClient
    BY <2>6 DEF WorkerStopsClient
  <2>7. CASE WorkerTells
    BY <2>7 DEF WorkerTells
  <2>8. CASE WorkerAsserts
    BY <2>8 DEF WorkerAsserts
  <2>9. CASE WorkerTakes
    BY <2>9 DEF WorkerTakes
  <2>10. CASE WorkerProcesses
    BY <2>10 DEF WorkerProcesses
  <2>11. QED
    BY <2>1, <2>2, <2>3, <2>4, <2>5, <2>6, <2>7, <2>8, <2>9, <2>10 DEF WorkerStep
<1>3. ASSUME NEW t \in Threads, CbDoes(t)
      PROVE  PlacesInv'
  <2> USE <1>3 DEF CbDoes, Seen, Cb, CbOnly, CbType
  <2>1. CASE CbCheck1(t)
    BY <2>1 DEF CbCheck1
  <2>2. CASE CbCheck2(t)
    BY <2>2 DEF CbCheck2
  <2>3. CASE CbDown(t)
    BY <2>3 DEF CbDown, Counted, Normal, Recoverable, Unrecoverable
  <2>4. CASE CbTellsBad(t)
    BY <2>4 DEF CbTellsBad
  <2>5. CASE CbCheck3(t)
    BY <2>5 DEF CbCheck3
  <2>6. CASE CbUp(t)
    BY <2>6 DEF CbUp, Normal, Recoverable, Unrecoverable
  <2>7. CASE CbNeed(t)
    BY <2>7 DEF CbNeed
  <2>8. CASE CbClears(t)
    BY <2>8 DEF CbClears, Cleared
  <2>9. CASE CbTellsGood(t)
    BY <2>9 DEF CbTellsGood
  <2>10. QED
    BY <2>1, <2>2, <2>3, <2>4, <2>5, <2>6, <2>7, <2>8, <2>9 DEF CbStep
<1>4. CASE Calls
  BY <1>4 DEF Calls, CbCalled, Counted, Seen
<1>5. CASE Wrecks
  BY <1>5 DEF Wrecks, Wreck
<1>6. QED
  BY <1>1, <1>2, <1>3, <1>4, <1>5 DEF Step

-----------------------------------------------------------------------------
(* The order of the operations *)

LEMMA CatAssociative == \A s, t, u \in Seq(Nat) : (s \o t) \o u = s \o (t \o u)
<1>1. ASSUME NEW s \in Seq(Nat), NEW t \in Seq(Nat), NEW u \in Seq(Nat)
      PROVE  (s \o t) \o u = s \o (t \o u)
  BY ConcatAssociative, SMTT(30)
<1>2. QED
  BY <1>1, Zenon

LEMMA AppendCat ==
    ASSUME NEW s \in Seq(Nat), NEW q \in Seq(Nat), NEW n \in Nat
    PROVE  s \o Append(q, n) = Append(s \o q, n)
<1> DEFINE u == s \o Append(q, n)
           v == Append(s \o q, n)
<1>1. u \in Seq(Nat) /\ v \in Seq(Nat) /\ Len(u) = Len(v)
  OBVIOUS
<1>2. \A i \in 1 .. Len(u) : u[i] = v[i]
  OBVIOUS
<1> HIDE DEF u, v
<1>3. u = v
  BY <1>1, <1>2, SeqEqual
<1>4. QED
  BY <1>3 DEF u, v

LEMMA CatFacts ==
    ASSUME NEW s \in Seq(Nat), NEW t \in Seq(Nat)
    PROVE  /\ s \o t \in Seq(Nat) /\ Len(s \o t) = Len(s) + Len(t)
           /\ \A i \in 1 .. Len(s) + Len(t) : (s \o t)[i] = IF i <= Len(s) THEN s[i] ELSE t[i - Len(s)]
  OBVIOUS

LEMMA ConsCat ==
    ASSUME NEW n \in Nat, NEW q \in Seq(Nat), NEW h \in Seq(Nat), NEW t \in Seq(Nat)
    PROVE  /\ Len(q) = n + 1 /\ Len(h) = 1 /\ Len(t) = n
           /\ h[1] = q[1] /\ \A i \in 1 .. n : t[i] = q[i + 1]
           => h \o t = q
<1> DEFINE u == h \o t
<1>1. /\ u \in Seq(Nat) /\ Len(u) = Len(h) + Len(t)
      /\ \A i \in 1 .. Len(h) + Len(t) : u[i] = IF i <= Len(h) THEN h[i] ELSE t[i - Len(h)]
  BY CatFacts
<1> HIDE DEF u
<1>2. SUFFICES ASSUME Len(q) = n + 1, Len(h) = 1, Len(t) = n, h[1] = q[1], \A i \in 1 .. n : t[i] = q[i + 1]
              PROVE  u = q
  BY DEF u
<1>3. Len(u) = Len(q)
  BY <1>1, <1>2
<1>4. ASSUME NEW i \in 1 .. n + 1
      PROVE  u[i] = q[i]
  <2>1. CASE i = 1
    BY <2>1, <1>1, <1>2
  <2>2. CASE i # 1
    <3>1. i - 1 \in 1 .. n /\ (i - 1) + 1 = i /\ ~(i <= 1) /\ i \in 1 .. 1 + n
      BY <2>2
    <3>2. u[i] = t[i - 1]
      BY <3>1, <1>1, <1>2
    <3>3. QED
      BY <3>1, <3>2, <1>2
  <2>3. QED
    BY <2>1, <2>2
<1>5. QED
  BY <1>1, <1>2, <1>3, <1>4, SeqEqual

\* An operation that moves from the queue into the worker's hand stays where it is in the sequence.
LEMMA TakeFacts ==
    ASSUME NEW s \in Seq(Nat), NEW q \in Seq(Nat), q # <<>>
    PROVE  (s \o <<Head(q)>>) \o Tail(q) = (s \o <<>>) \o q
<1>1. /\ Head(q) \in Nat /\ Head(q) = q[1] /\ Tail(q) \in Seq(Nat) /\ Len(Tail(q)) = Len(q) - 1
      /\ \A i \in 1 .. Len(q) - 1 : Tail(q)[i] = q[i + 1]
      /\ Len(q) \in Nat /\ Len(q) > 0 /\ Len(s) \in Nat
  BY HeadTailProperties
<1>2. s \o <<>> = s
  BY ConcatEmptySeq
<1> DEFINE h == <<Head(q)>>
<1>3. h \in Seq(Nat) /\ Len(h) = 1 /\ h[1] = q[1]
  BY <1>1
<1> HIDE DEF h
<1>4. h \o Tail(q) = q
  <2>1. Len(q) - 1 \in Nat /\ Len(q) = (Len(q) - 1) + 1
    BY <1>1
  <2>2. QED
    BY <1>1, <1>3, <2>1, ConsCat, Zenon
<1>5. (s \o h) \o Tail(q) = s \o (h \o Tail(q))
  BY <1>1, <1>3, CatAssociative, Zenon
<1>6. QED
  BY <1>2, <1>4, <1>5 DEF h

LEMMA OrderSame ==
    ASSUME OrderInv, store'.done = store.done, hand' = hand, queue' = queue,
           count'.ops = count.ops, count'.overloads = count.overloads
    PROVE  OrderInv'
  BY DEF OrderInv, Operations

\* A clear takes the beginning of the sequence away.
LEMMA OrderCleared ==
    ASSUME TypeOK, OrderInv, store' = Cleared, hand' = hand, queue' = queue, count' = count
    PROVE  OrderInv'
<1>1. CASE store' = store
  BY <1>1, OrderSame
<1>2. CASE store' = [store EXCEPT !.done = <<>>, !.stale = FALSE]
  <2>1. store.done \in Seq(Nat) /\ store'.done = <<>> /\ count.ops \in Nat /\ count.overloads \in Nat
    BY <1>2 DEF TypeOK, StoreType, CountType
  <2>2. Operations = store.done \o (hand \o queue)
    BY <2>1, CatAssociative, Zenon DEF Operations, TypeOK
  <2>3. hand \o queue \in Seq(Nat) /\ Operations' = hand \o queue
    BY <2>1, ConcatEmptySeq, ConcatProperties DEF Operations, TypeOK
  <2>4. Ordered(hand \o queue, count.ops, count.overloads)
    BY <2>1, <2>2, <2>3, OrderedSuffix, Zenon DEF OrderInv
  <2>5. QED
    BY <2>3, <2>4 DEF OrderInv
<1>3. QED
  BY <1>1, <1>2 DEF Cleared

\* A step keeps the operations in order.
LEMMA OrderStep ==
    ASSUME TypeOK, PlacesInv, OrderInv, Step
    PROVE  OrderInv'
<1> USE DEF TypeOK
<1>1. CASE AppDoes
  <2> USE <1>1 DEF AppDoes
  <2>1. CASE Push
    <3>1. store.done \o hand \in Seq(Nat) /\ count.ops \in Nat /\ count.overloads \in Nat
      BY ConcatProperties DEF StoreType, CountType
    <3>2. Operations' = Append(Operations, count.ops + 1)
      <4>1. Operations' = (store.done \o hand) \o Append(queue, count.ops + 1)
        BY <2>1 DEF Push, Operations
      <4>2. count.ops + 1 \in Nat /\ queue \in Seq(Nat)
        BY <3>1
      <4>3. QED
        BY <3>1, <4>1, <4>2, AppendCat, Zenon DEF Operations
    <3>3. count'.ops = count.ops + 1 /\ count'.overloads = count.overloads
      BY <2>1 DEF Push, Counted, CountType
    <3>4. Operations \in Seq(Nat)
      BY <3>1, ConcatProperties DEF Operations
    <3>5. QED
      BY <3>1, <3>2, <3>3, <3>4, OrderedAppend DEF OrderInv
  <2>2. CASE PrepareLoadData
    <3>1. store' = store \/ store' = Cleared
      BY <2>2 DEF PrepareLoadData
    <3>2. QED
      BY <2>2, <3>1, OrderSame, OrderCleared DEF PrepareLoadData
  <2>3. CASE InitReturns(Normal) \/ InitReturns(Recoverable) \/ Start
    <3>1. store'.done = store.done
      BY <2>3 DEF InitReturns, Start, StoreType
    <3>2. count'.ops = count.ops /\ count'.overloads = count.overloads
      BY <2>3 DEF InitReturns, Start, Counted, CountType
    <3>3. QED
      BY <2>3, <3>1, <3>2, OrderSame DEF InitReturns, Start
  <2>4. CASE \/ InitBegins \/ InitFails \/ InitTells \/ StartRefused \/ PushChecks
             \/ StopBegins \/ StopReturns \/ StartAgain \/ Uninit
    BY <2>4, OrderSame DEF InitBegins, InitFails, InitTells, StartRefused, PushChecks, StopBegins, StopReturns,
       StartAgain, Uninit
  <2>5. QED
    BY <2>1, <2>2, <2>3, <2>4 DEF App
<1>2. CASE WorkerDoes
  <2> USE <1>2 DEF WorkerDoes, Worker, WorkerOnly
  <2>1. CASE WorkerSize
    <3>1. CASE UNCHANGED count
      BY <2>1, <3>1, OrderSame DEF WorkerSize
    <3>2. CASE Counted("overloads")
      <4>1. count'.ops = count.ops /\ count'.overloads > 0 /\ count'.overloads \in Nat
            /\ count.ops \in Nat /\ count.overloads \in Nat
        BY <3>2 DEF Counted, CountType
      <4>2. store' = store /\ hand' = hand /\ queue' = queue
        BY <2>1 DEF WorkerSize
      <4>3. Operations \in Seq(Nat) /\ Operations' = Operations
        BY <4>2, ConcatProperties DEF Operations, StoreType
      <4>4. QED
        BY <4>1, <4>3, OrderedWeaker DEF OrderInv
    <3>3. QED
      BY <2>1, <3>1, <3>2 DEF WorkerSize
  <2>2. CASE WorkerGivesUp
    <3>1. count.overloads > 0 /\ count.ops \in Nat /\ count.overloads \in Nat
      BY <2>2 DEF WorkerGivesUp, PlacesInv, GivingUp, CountType
    <3>2. store.done \o hand \in Seq(Nat)
      BY ConcatProperties DEF StoreType
    <3>3. Operations' = store.done \o hand
      BY <2>2, <3>2, ConcatEmptySeq DEF WorkerGivesUp, Operations
    <3>4. Ordered(store.done \o hand, count.ops, count.overloads)
      BY <3>1, <3>2, OrderedPrefix, Zenon DEF OrderInv, Operations
    <3>5. QED
      BY <2>2, <3>3, <3>4 DEF WorkerGivesUp, OrderInv
  <2>3. CASE WorkerTakes
    <3>1. CASE flags.force
      BY <2>3, <3>1, OrderSame DEF WorkerTakes
    <3>2. CASE ~flags.force
      <4>1. /\ hand = <<>> /\ queue # <<>> /\ hand' = <<Head(queue)>> /\ queue' = Tail(queue)
            /\ store' = store /\ count' = count
        BY <2>3, <3>2 DEF WorkerTakes, PlacesInv
      <4>2. Operations' = Operations
        BY <4>1, TakeFacts, Zenon DEF Operations, StoreType
      <4>3. QED
        BY <4>1, <4>2 DEF OrderInv
    <3>3. QED
      BY <3>1, <3>2
  <2>4. CASE WorkerProcesses
    <3>1. hand' = <<>> /\ queue' = queue /\ count' = count /\ store'.done = store.done \o hand
      BY <2>4 DEF WorkerProcesses, StoreType
    <3>2. store.done \o hand \in Seq(Nat)
      BY ConcatProperties DEF StoreType
    <3>3. Operations' = Operations
      BY <3>1, <3>2, ConcatEmptySeq DEF Operations
    <3>4. QED
      BY <3>1, <3>3 DEF OrderInv
  <2>5. CASE WorkerTop \/ WorkerCheck1 \/ WorkerCheck2 \/ WorkerStopsClient \/ WorkerTells \/ WorkerAsserts
    BY <2>5, OrderSame DEF WorkerTop, WorkerCheck1, WorkerCheck2, WorkerStopsClient, WorkerTells, WorkerAsserts
  <2>6. QED
    BY <2>1, <2>2, <2>3, <2>4, <2>5 DEF WorkerStep
<1>3. ASSUME NEW t \in Threads, CbDoes(t)
      PROVE  OrderInv'
  <2> USE <1>3 DEF CbDoes, CbOnly
  <2>1. CASE CbClears(t)
    BY <2>1, OrderCleared DEF CbClears
  <2>2. CASE CbDown(t)
    <3>1. count'.ops = count.ops /\ count'.overloads = count.overloads
      BY <2>2 DEF CbDown, Counted, CountType
    <3>2. QED
      BY <2>2, <3>1, OrderSame DEF CbDown
  <2>3. CASE CbCheck1(t) \/ CbCheck2(t) \/ CbTellsBad(t) \/ CbCheck3(t) \/ CbUp(t) \/ CbNeed(t) \/ CbTellsGood(t)
    BY <2>3, OrderSame DEF CbCheck1, CbCheck2, CbTellsBad, CbCheck3, CbUp, CbNeed, CbTellsGood
  <2>4. QED
    BY <2>1, <2>2, <2>3 DEF CbStep
<1>4. CASE Calls
  <2>1. count'.ops = count.ops /\ count'.overloads = count.overloads
    BY <1>4 DEF Calls, CbCalled, Counted, CountType
  <2>2. QED
    BY <1>4, <2>1, OrderSame DEF Calls, CbCalled
<1>5. CASE Wrecks
  BY <1>5, OrderSame DEF Wrecks, Wreck
<1>6. QED
  BY <1>1, <1>2, <1>3, <1>4, <1>5 DEF Step

-----------------------------------------------------------------------------
(* Operations that an outage costs *)

\* A step that loses no operation keeps the bound, if the worker is not left with an operation
\* while the client is away, or an outage has been counted for it.
LEMMA LossLater ==
    ASSUME LossInv, store'.lost = store.lost, count.outages \in Nat, count'.outages \in Nat,
           count'.outages >= count.outages,
           \/ count'.outages > count.outages
           \/ worker' \notin {"take", "process"}
           \/ status' = Normal
           \/ worker \in {"take", "process"} /\ status # Normal
    PROVE  LossInv'
<1>1. Cardinality(store.lost) \in Nat
  BY FS_CardinalityType DEF LossInv
<1>2. QED
  BY <1>1 DEF LossInv

\* A step keeps the number of lost operations below the number of outages.
LEMMA LossStep ==
    ASSUME TypeOK, PlacesInv, LossInv, Step
    PROVE  LossInv'
<1> USE DEF TypeOK
<1>1. count.outages \in Nat
  BY DEF CountType
<1>2. CASE AppDoes
  <2> USE <1>2 DEF AppDoes
  <2>1. CASE InitReturns(Normal) \/ InitReturns(Recoverable)
    <3>1. store'.lost = store.lost
      BY <2>1 DEF InitReturns, StoreType
    <3>2. count'.outages \in Nat /\ count'.outages >= count.outages
      BY <1>1, <2>1 DEF InitReturns, Counted, CountType
    <3>3. worker' = "none"
      BY <2>1 DEF InitReturns, At, PlacesInv
    <3>4. QED
      BY <1>1, <3>1, <3>2, <3>3, LossLater
  <2>2. CASE InitFails
    BY <1>1, <2>2, LossLater DEF InitFails, At, PlacesInv
  <2>3. CASE Start \/ Push
    <3>1. count'.outages = count.outages
      BY <2>3 DEF Start, Push, Counted, CountType
    <3>2. QED
      BY <1>1, <2>3, <3>1, LossLater DEF Start, Push
  <2>4. CASE PrepareLoadData
    <3>1. store'.lost = store.lost
      BY <2>4, Zenon DEF PrepareLoadData, Cleared, StoreType
    <3>2. QED
      BY <1>1, <2>4, <3>1, LossLater DEF PrepareLoadData
  <2>5. CASE \/ InitBegins \/ InitTells \/ StartRefused \/ PushChecks \/ StopBegins \/ StopReturns
             \/ StartAgain \/ Uninit
    <3>1. UNCHANGED <<store, count, worker, status>>
      BY <2>5 DEF InitBegins, InitTells, StartRefused, PushChecks, StopBegins, StopReturns, StartAgain, Uninit
    <3>2. QED
      BY <1>1, <3>1, LossLater
  <2>6. QED
    BY <2>1, <2>2, <2>3, <2>4, <2>5 DEF App
<1>3. CASE WorkerDoes
  <2> USE <1>3 DEF WorkerDoes, Worker, WorkerOnly
  <2>1. CASE WorkerSize
    <3>1. count'.outages = count.outages
      BY <2>1 DEF WorkerSize, Counted, CountType
    <3>2. QED
      BY <1>1, <2>1, <3>1, LossLater DEF WorkerSize
  <2>2. CASE WorkerAsserts
    BY <1>1, <2>2, LossLater DEF WorkerAsserts
  <2>3. CASE WorkerTakes
    BY <1>1, <2>3, LossLater DEF WorkerTakes
  <2>4. CASE WorkerProcesses
    <3>1. CASE status = Normal
      <4>1. store'.lost = store.lost
        BY <2>4, <3>1 DEF WorkerProcesses, StoreType
      <4>2. QED
        BY <1>1, <2>4, <4>1, LossLater DEF WorkerProcesses
    <3>2. CASE status # Normal
      <4>1. store'.lost = store.lost \cup {hand[1]} /\ count' = count /\ worker' = "top"
        BY <2>4, <3>2 DEF WorkerProcesses, StoreType
      <4>2. IsFiniteSet(store.lost) /\ Cardinality(store.lost) < count.outages
        BY <2>4, <3>2 DEF WorkerProcesses, LossInv
      <4>3. Cardinality(store.lost) \in Nat
        BY <4>2, FS_CardinalityType
      <4>4. /\ IsFiniteSet(store'.lost)
            /\ Cardinality(store'.lost) = Cardinality(store.lost) \/ Cardinality(store'.lost) = Cardinality(store.lost) + 1
        <5>1. /\ IsFiniteSet(store.lost \cup {hand[1]})
              /\ Cardinality(store.lost \cup {hand[1]}) =
                     IF hand[1] \in store.lost THEN Cardinality(store.lost) ELSE Cardinality(store.lost) + 1
          BY <4>2, FS_AddElement, Zenon
        <5>2. QED
          BY <4>1, <5>1
      <4>5. QED
        BY <1>1, <4>1, <4>2, <4>3, <4>4 DEF LossInv
    <3>3. QED
      BY <3>1, <3>2
  <2>5. CASE WorkerTop \/ WorkerCheck1 \/ WorkerCheck2 \/ WorkerGivesUp \/ WorkerStopsClient \/ WorkerTells
    <3>1. UNCHANGED <<store, count, status>> /\ worker' \notin {"take", "process"}
      BY <2>5 DEF WorkerTop, WorkerCheck1, WorkerCheck2, WorkerGivesUp, WorkerStopsClient, WorkerTells
    <3>2. QED
      BY <1>1, <3>1, LossLater
  <2>6. QED
    BY <2>1, <2>2, <2>3, <2>4, <2>5 DEF WorkerStep
<1>4. ASSUME NEW t \in Threads, CbDoes(t)
      PROVE  LossInv'
  <2> USE <1>4 DEF CbDoes, CbOnly
  <2>1. CASE CbDown(t)
    <3>1. count'.outages = count.outages + 1
      BY <2>1 DEF CbDown, Counted, CountType
    <3>2. QED
      BY <1>1, <2>1, <3>1, LossLater DEF CbDown
  <2>2. CASE CbUp(t)
    BY <1>1, <2>2, LossLater DEF CbUp
  <2>3. CASE CbClears(t)
    <3>1. store'.lost = store.lost
      BY <2>3 DEF CbClears, Cleared, StoreType
    <3>2. QED
      BY <1>1, <2>3, <3>1, LossLater DEF CbClears
  <2>4. CASE CbCheck1(t) \/ CbCheck2(t) \/ CbTellsBad(t) \/ CbCheck3(t) \/ CbNeed(t) \/ CbTellsGood(t)
    <3>1. UNCHANGED <<store, count, worker, status>>
      BY <2>4 DEF CbCheck1, CbCheck2, CbTellsBad, CbCheck3, CbNeed, CbTellsGood
    <3>2. QED
      BY <1>1, <3>1, LossLater
  <2>5. QED
    BY <2>1, <2>2, <2>3, <2>4 DEF CbStep
<1>5. CASE Calls
  <2>1. count'.outages = count.outages
    BY <1>5 DEF Calls, CbCalled, Counted, CountType
  <2>2. UNCHANGED <<store, worker, status>>
    BY <1>5 DEF Calls, CbCalled
  <2>3. QED
    BY <1>1, <2>1, <2>2, LossLater
<1>6. CASE Wrecks
  BY <1>1, <1>6, LossLater DEF Wrecks, Wreck
<1>7. QED
  BY <1>2, <1>3, <1>4, <1>5, <1>6 DEF Step

-----------------------------------------------------------------------------
(* A worker that gives up *)

LEMMA GiveUpSame ==
    ASSUME GiveUpInv, met \subseteq met', count'.overloads = count.overloads, status' = status, worker' = worker,
           queue' = queue, app'.step = "push" => app.step = "push"
    PROVE  GiveUpInv'
<1>1. SUFFICES ASSUME count'.overloads > 0, "revived" \notin met'
              PROVE  /\ status' = Unrecoverable /\ worker' \in GivingUp \cup {"ended"}
                     /\ worker' # "giveup" => Len(queue') <= IF app'.step = "push" THEN 0 ELSE 1
  BY DEF GiveUpInv
<1>2. /\ status = Unrecoverable /\ worker \in GivingUp \cup {"ended"}
      /\ worker # "giveup" => Len(queue) <= IF app.step = "push" THEN 0 ELSE 1
  BY <1>1 DEF GiveUpInv
<1>3. worker # "giveup" => Len(queue) <= 1
  BY <1>2
<1>4. QED
  BY <1>2, <1>3

\* A step keeps the worker that has given up where it is, and its queue short.
LEMMA GiveUpStep ==
    ASSUME TypeOK, PlacesInv, GiveUpInv, Step
    PROVE  GiveUpInv'
<1> USE DEF TypeOK, CountType
<1>1. CASE AppDoes
  <2> USE <1>1 DEF AppDoes
  <2>1. met \subseteq met'
    BY RaceFacts, Zenon
  <2>2. CASE InitReturns(Normal) \/ InitReturns(Recoverable) \/ InitFails
    <3>1. count.overloads = 0
      BY <2>2 DEF InitReturns, InitFails, At, PlacesInv
    <3>2. count'.overloads = 0
      BY <2>2, <3>1 DEF InitReturns, InitFails, Counted
    <3>3. QED
      BY <3>2 DEF GiveUpInv
  <2>3. CASE Start
    <3>1. count'.overloads = count.overloads
      BY <2>3 DEF Start, Counted
    <3>2. status # Unrecoverable
      BY <2>3 DEF Start
    <3>3. QED
      BY <2>1, <3>1, <3>2 DEF GiveUpInv
  <2>4. CASE PushChecks
    BY <2>1, <2>4 DEF PushChecks, GiveUpInv
  <2>5. CASE Push
    <3>1. /\ count'.overloads = count.overloads /\ app.step = "push" /\ app'.step = "running"
          /\ status' = status /\ worker' = worker /\ Len(queue') = Len(queue) + 1
      BY <2>5 DEF Push, At, GoTo, Counted, AppType
    <3>2. Len(queue) \in Nat
      OBVIOUS
    <3>3. QED
      BY <2>1, <3>1, <3>2 DEF GiveUpInv
  <2>6. CASE InitBegins \/ InitTells \/ StartRefused \/ PrepareLoadData
    <3>1. UNCHANGED <<count, status, worker, queue>> /\ app'.step # "push"
      BY <2>6 DEF InitBegins, InitTells, StartRefused, PrepareLoadData, GoTo, AppType
    <3>2. QED
      BY <2>1, <3>1, GiveUpSame
  <2>7. CASE StopBegins \/ StopReturns \/ StartAgain \/ Uninit
    <3>1. UNCHANGED <<count, status, worker, queue>> /\ app'.step # "push"
      BY <2>7 DEF StopBegins, StopReturns, StartAgain, Uninit, GoTo, AppType
    <3>2. QED
      BY <2>1, <3>1, GiveUpSame
  <2>8. QED
    BY <2>2, <2>3, <2>4, <2>5, <2>6, <2>7 DEF App
<1>2. CASE WorkerDoes
  <2> USE <1>2 DEF WorkerDoes, Worker, WorkerOnly, GivingUp
  <2>1. met \subseteq met'
    BY RaceFacts, Zenon
  <2>2. CASE WorkerSize
    <3>1. CASE UNCHANGED count
      BY <2>1, <2>2, <3>1 DEF WorkerSize, GiveUpInv
    <3>2. CASE status' = Unrecoverable /\ worker' = "giveup"
      BY <3>2 DEF GiveUpInv
    <3>3. QED
      BY <2>2, <3>1, <3>2 DEF WorkerSize
  <2>3. CASE WorkerGivesUp
    <3>1. queue' = <<>> /\ worker' = "stopclient" /\ UNCHANGED <<app, status, count>> /\ worker = "giveup"
      BY <2>3 DEF WorkerGivesUp
    <3>2. Len(queue') = 0
      BY <3>1
    <3>3. QED
      BY <2>1, <3>1, <3>2 DEF GiveUpInv
  <2>4. CASE WorkerStopsClient \/ WorkerTells
    BY <2>1, <2>4 DEF WorkerStopsClient, WorkerTells, GiveUpInv
  <2>5. CASE WorkerTop \/ WorkerCheck1 \/ WorkerCheck2 \/ WorkerAsserts \/ WorkerTakes \/ WorkerProcesses
    <3>1. UNCHANGED count /\ worker \notin GivingUp \cup {"ended"}
      BY <2>5 DEF WorkerTop, WorkerCheck1, WorkerCheck2, WorkerAsserts, WorkerTakes, WorkerProcesses
    <3>2. QED
      BY <2>1, <3>1 DEF GiveUpInv
  <2>6. QED
    BY <2>2, <2>3, <2>4, <2>5 DEF WorkerStep
<1>3. ASSUME NEW t \in Threads, CbDoes(t)
      PROVE  GiveUpInv'
  <2> USE <1>3 DEF CbDoes, CbOnly
  <2>1. met \subseteq met' /\ (status = Unrecoverable /\ status' # Unrecoverable => "revived" \in met')
    BY RaceFacts, Zenon
  <2>2. CASE CbDown(t) \/ CbUp(t)
    <3>1. count'.overloads = count.overloads /\ status' # Unrecoverable
      BY <2>2 DEF CbDown, CbUp, Counted, Normal, Recoverable, Unrecoverable
    <3>2. QED
      BY <2>1, <3>1 DEF GiveUpInv
  <2>3. CASE CbCheck1(t) \/ CbCheck2(t) \/ CbTellsBad(t) \/ CbCheck3(t) \/ CbNeed(t) \/ CbClears(t) \/ CbTellsGood(t)
    <3>1. UNCHANGED <<app, count, worker, status, queue>>
      BY <2>3 DEF CbCheck1, CbCheck2, CbTellsBad, CbCheck3, CbNeed, CbClears, CbTellsGood
    <3>2. QED
      BY <2>1, <3>1, GiveUpSame
  <2>4. QED
    BY <2>2, <2>3 DEF CbStep
<1>4. CASE Calls
  <2>1. met \subseteq met'
    BY <1>4, RaceFacts, Zenon DEF Calls
  <2>2. count'.overloads = count.overloads
    BY <1>4 DEF Calls, CbCalled, Counted
  <2>3. UNCHANGED <<app, status, worker, queue>>
    BY <1>4 DEF Calls, CbCalled
  <2>4. QED
    BY <2>1, <2>2, <2>3, GiveUpSame
<1>5. CASE Wrecks
  BY <1>5, GiveUpSame DEF Wrecks, Wreck
<1>6. QED
  BY <1>1, <1>2, <1>3, <1>4, <1>5 DEF Step

-----------------------------------------------------------------------------
(* The data of an earlier life *)

LEMMA NotEmpty ==
    ASSUME NEW s, Len(s) # 0
    PROVE  s # <<>>
  OBVIOUS

LEMMA ClearSame ==
    ASSUME ClearInv, met \subseteq met', flags'.clear <=> flags.clear, app' = app, count'.ops = count.ops, store' = store,
           hand' = hand, queue' = queue,
           \A t \in Threads : cb'[t].step = "clearing" => cb[t].step = "clearing"
    PROVE  ClearInv'
  BY Zenon DEF ClearInv

\* A step resets the flag and clears the data together, or the vain clear is noted.
LEMMA ClearApp ==
    ASSUME TypeOK, PlacesInv, ClearInv, AppDoes
    PROVE  ClearInv'
<1> USE DEF TypeOK
<1> USE DEF AppDoes, At, GoTo
<1>1. met \subseteq met'
  BY RaceFacts, Zenon
<1>2. CASE InitBegins
  BY <1>1, <1>2, Zenon DEF InitBegins, ClearInv, FlagType, AppType
<1>3. CASE InitReturns(Normal) \/ InitReturns(Recoverable)
  <2>1. app'.step \in {"inited", "telling"} /\ app.step = "initing"
    BY <1>3 DEF InitReturns, AppType
  <2>2. count'.ops = count.ops
    BY <1>3 DEF InitReturns, Counted, CountType
  <2>3. store'.done = store.done /\ (store'.stale <=> flags'.clear)
    <3>1. PICK r \in {Normal, Recoverable} : InitReturns(r)
      BY <1>3
    <3>2. store'.stale <=> ~(app.tell = "Healthy" /\ r = Normal)
      BY <3>1, Zenon DEF InitReturns, StoreType
    <3>3. flags'.clear <=> ~(app.tell = "Healthy" /\ r = Normal)
      BY <3>1, Zenon DEF InitReturns, FlagType
    <3>4. store'.done = store.done
      BY <3>1 DEF InitReturns, StoreType
    <3>5. QED
      BY <3>2, <3>3, <3>4
  <2>4. UNCHANGED <<hand, queue, cb>>
    BY <1>3 DEF InitReturns
  <2>5. count.ops = 0 /\ store.done = <<>> /\ hand = <<>> /\ queue = <<>>
    BY <2>1, Zenon DEF ClearInv
  <2>6. QED
    BY <2>1, <2>2, <2>3, <2>4, <2>5, Zenon DEF ClearInv
<1>4. CASE InitFails \/ InitTells \/ StartRefused
  BY <1>1, <1>4, Zenon DEF InitFails, InitTells, StartRefused, ClearInv, FlagType, AppType
<1>5. CASE Start
  <2>1. count'.ops = count.ops
    BY <1>5 DEF Start, Counted, CountType
  <2>2. QED
    BY <1>1, <1>5, <2>1, Zenon DEF Start, ClearInv, FlagType, AppType
<1>6. CASE PrepareLoadData
  <2>1. app.step = "prepare" /\ app'.step = "running" /\ UNCHANGED <<cb, count, hand, queue>>
    BY <1>6 DEF PrepareLoadData, AppType
  <2>2. CASE ~flags.clear
    BY <1>1, <1>6, <2>1, <2>2, Zenon DEF PrepareLoadData, ClearInv
  <2>3. CASE flags.clear
    <3>1. ~flags'.clear /\ store' = Cleared
      BY <1>6, <2>3 DEF PrepareLoadData, FlagType
    <3>2. count.ops = 0 /\ store.done = <<>> /\ hand = <<>> /\ queue = <<>>
      BY <2>3, Zenon DEF ClearInv
    <3>3. store'.done = <<>> /\ (store'.stale => ~(flags.started /\ status = Normal))
      BY <3>1, <3>2 DEF Cleared, StoreType
    <3>4. store'.stale => "vain clear" \in met'
      BY <2>3, <3>1, <3>3, RaceFacts, Zenon
    <3>5. QED
      BY <2>1, <3>1, <3>2, <3>3, <3>4, Zenon DEF ClearInv
  <2>4. QED
    BY <2>2, <2>3
<1>7. CASE PushChecks
  BY <1>1, <1>7, Zenon DEF PushChecks, ClearInv, AppType
<1>8. CASE Push
  <2>1. count'.ops = count.ops + 1 /\ count.ops \in Nat /\ app.step = "push" /\ app'.step = "running"
    BY <1>8 DEF Push, Counted, CountType, AppType
  <2>2. UNCHANGED <<cb, flags, store>>
    BY <1>8 DEF Push
  <2>3. count'.ops # 0
    BY <2>1
  <2>4. flags.clear => app.step \in {"telling", "inited", "prepare", "over"}
    BY Zenon DEF ClearInv
  <2>5. ~flags'.clear
    BY <2>1, <2>2, <2>4
  <2>6. QED
    BY <1>1, <2>1, <2>2, <2>3, <2>5, Zenon DEF ClearInv
<1>9. CASE StopBegins \/ StopReturns \/ StartAgain \/ Uninit
  BY <1>1, <1>9, Zenon DEF StopBegins, StopReturns, StartAgain, Uninit, ClearInv, FlagType, AppType
<1>10. QED
  BY <1>2, <1>3, <1>4, <1>5, <1>6, <1>7, <1>8, <1>9 DEF App

LEMMA ClearWorker ==
    ASSUME TypeOK, PlacesInv, ClearInv, WorkerDoes
    PROVE  ClearInv'
<1> USE DEF TypeOK
<1> USE DEF WorkerDoes, Worker, WorkerOnly
<1>1. met \subseteq met'
  BY RaceFacts, Zenon
<1>2. CASE WorkerSize
  <2>1. count'.ops = count.ops
    BY <1>2 DEF WorkerSize, Counted, CountType
  <2>2. UNCHANGED <<app, cb, flags, store, hand, queue>>
    BY <1>2 DEF WorkerSize
  <2>3. QED
    BY <1>1, <2>1, <2>2, ClearSame
<1>3. CASE WorkerGivesUp
  BY <1>1, <1>3, Zenon DEF WorkerGivesUp, ClearInv
<1>4. CASE WorkerTakes
  <2>1. count.ops = 0 => queue = <<>>
    BY Zenon DEF ClearInv
  <2>2. QED
    BY <1>1, <1>4, <2>1, Zenon DEF WorkerTakes, ClearInv
<1>5. CASE WorkerProcesses
  <2>1. /\ UNCHANGED <<app, cb, flags, count, queue>>
        /\ worker = "process" /\ worker' = "top" /\ (store'.stale <=> store.stale)
    BY <1>5 DEF WorkerProcesses, StoreType
  <2>2. count.ops # 0
    <3>1. Len(hand) = 1
      BY <2>1 DEF PlacesInv
    <3>2. Len(hand) # 0
      BY <3>1
    <3>3. hand # <<>>
      BY <3>2, NotEmpty, Zenon
    <3>4. QED
      BY <3>3, Zenon DEF ClearInv
  <2>3. \A t \in Threads : cb[t].step = "clearing" => "before the clear" \in met'
    BY <2>1, RaceFacts, Zenon
  <2>4. QED
    BY <1>1, <2>1, <2>2, <2>3, Zenon DEF ClearInv
<1>6. CASE WorkerStopsClient
  BY <1>1, <1>6, ClearSame DEF WorkerStopsClient, FlagType
<1>7. CASE WorkerTop \/ WorkerCheck1 \/ WorkerCheck2 \/ WorkerTells \/ WorkerAsserts
  <2>1. UNCHANGED <<app, cb, flags, count, store, hand, queue>>
    BY <1>7 DEF WorkerTop, WorkerCheck1, WorkerCheck2, WorkerTells, WorkerAsserts
  <2>2. QED
    BY <1>1, <2>1, ClearSame
<1>8. QED
  BY <1>2, <1>3, <1>4, <1>5, <1>6, <1>7 DEF WorkerStep

LEMMA ClearCb ==
    ASSUME TypeOK, PlacesInv, ClearInv, NEW t \in Threads, CbDoes(t)
    PROVE  ClearInv'
<1> USE DEF TypeOK
<1> USE DEF CbDoes, CbOnly, Cb, CbType
<1>1. met \subseteq met'
  BY RaceFacts, Zenon
<1>2. CASE CbClears(t)
  <2>1. UNCHANGED <<app, count, hand, queue>> /\ ~flags'.clear /\ store' = Cleared
    BY <1>2 DEF CbClears, FlagType
  <2>2. \A r \in Threads : cb'[r].step = "clearing" => cb[r].step = "clearing"
    BY <1>2 DEF CbClears
  <2>3. /\ store'.done = store.done \/ store'.done = <<>>
        /\ store'.stale => store.stale /\ ~(flags.started /\ status = Normal)
    BY <2>1 DEF Cleared, StoreType
  <2>4. store'.stale => "vain clear" \in met'
    <3>1. CASE flags.clear
      BY <2>1, <2>3, <3>1, RaceFacts, Zenon
    <3>2. CASE ~flags.clear
      BY <1>1, <2>3, <3>2, Zenon DEF ClearInv
    <3>3. QED
      BY <3>1, <3>2, Zenon
  <2>5. QED
    BY <1>1, <2>1, <2>2, <2>3, <2>4, Zenon DEF ClearInv
<1>3. CASE CbNeed(t)
  <2>1. UNCHANGED <<app, flags, count, store, hand, queue>>
    BY <1>3 DEF CbNeed
  <2>2. \A r \in Threads : cb'[r].step = "clearing" => cb[r].step = "clearing" \/ flags.clear
    BY <1>3 DEF CbNeed
  <2>3. flags.clear => store.done = <<>>
    BY Zenon DEF ClearInv
  <2>4. QED
    BY <1>1, <2>1, <2>2, <2>3, Zenon DEF ClearInv
<1>4. CASE CbDown(t)
  <2>1. count'.ops = count.ops
    BY <1>4 DEF CbDown, Counted, CountType
  <2>2. \A r \in Threads : cb'[r].step = "clearing" => cb[r].step = "clearing"
    BY <1>4 DEF CbDown
  <2>3. UNCHANGED <<app, flags, store, hand, queue>>
    BY <1>4 DEF CbDown
  <2>4. QED
    BY <1>1, <2>1, <2>2, <2>3, ClearSame
<1>5. CASE CbCheck1(t) \/ CbCheck2(t) \/ CbTellsBad(t) \/ CbCheck3(t) \/ CbUp(t) \/ CbTellsGood(t)
  <2>1. UNCHANGED <<app, flags, count, store, hand, queue>>
    BY <1>5 DEF CbCheck1, CbCheck2, CbTellsBad, CbCheck3, CbUp, CbTellsGood
  <2>2. \A r \in Threads : cb'[r].step = "clearing" => cb[r].step = "clearing"
    BY <1>5, Zenon DEF CbCheck1, CbCheck2, CbTellsBad, CbCheck3, CbUp, CbTellsGood
  <2>3. QED
    BY <1>1, <2>1, <2>2, ClearSame
<1>6. QED
  BY <1>2, <1>3, <1>4, <1>5 DEF CbStep

LEMMA ClearStep ==
    ASSUME TypeOK, PlacesInv, ClearInv, Step
    PROVE  ClearInv'
<1>1. CASE AppDoes
  BY <1>1, ClearApp
<1>2. CASE WorkerDoes
  BY <1>2, ClearWorker
<1>3. ASSUME NEW t \in Threads, CbDoes(t)
      PROVE  ClearInv'
  BY <1>3, ClearCb
<1> USE DEF TypeOK
<1>4. CASE Calls
  <2>1. met \subseteq met'
    BY <1>4, RaceFacts, Zenon DEF Calls
  <2>2. count'.ops = count.ops
    BY <1>4 DEF Calls, CbCalled, Counted, CountType
  <2>3. UNCHANGED <<app, flags, store, hand, queue>>
    BY <1>4 DEF Calls, CbCalled
  <2>4. \A r \in Threads : cb'[r].step = "clearing" => cb[r].step = "clearing"
    BY <1>4 DEF Calls, CbCalled, CbType
  <2>5. QED
    BY <2>1, <2>2, <2>3, <2>4, ClearSame
<1>5. CASE Wrecks
  BY <1>5, ClearSame DEF Wrecks, Wreck
<1>6. QED
  BY <1>1, <1>2, <1>3, <1>4, <1>5 DEF Step

-----------------------------------------------------------------------------
(* What the application has been told *)

\* HealthInv without the set Busy: no two threads are changing the status ...
Alone ==
    /\ \A t \in Threads : cb[t].step # "idle" =>
           app.step \notin {"initing", "telling"} /\ worker \notin GivingUp /\ \A r \in Threads : cb[r].step # "idle" => r = t
    /\ app.step \in {"initing", "telling"} => worker \notin GivingUp

NoneBusy == Joined /\ app.step \notin {"initing", "telling"} /\ worker \notin GivingUp

\* ... and the one that is about to report it reports what it is.
Reports ==
    /\ app.step = "initing" => told = app.tell
    /\ app.step = "telling" => (app.tell = "Healthy" <=> status = Normal)
    /\ worker \in GivingUp => status # Normal
    /\ NoneBusy => ToldRight
    /\ \A t \in Threads :
           /\ cb[t].step \in {"check1", "check2", "check3"} => ToldRight
           /\ cb[t].step = "tellbad" => status # Normal
           /\ cb[t].step \in {"need", "clearing", "tellgood"} => status = Normal

\* Who is in Busy, before and after a step.
LEMMA BusyMembers ==
    /\ \A t \in Threads : t \in Busy <=> cb[t].step # "idle"
    /\ "app" \in Busy <=> app.step \in {"initing", "telling"}
    /\ "worker" \in Busy <=> worker \in GivingUp
    /\ Busy \subseteq Threads \cup {"app", "worker"}
    /\ \A t \in Threads : t \in Busy' <=> cb'[t].step # "idle"
    /\ "app" \in Busy' <=> app'.step \in {"initing", "telling"}
    /\ "worker" \in Busy' <=> worker' \in GivingUp
    /\ Busy' \subseteq Threads \cup {"app", "worker"}
<1>1. "app" \notin Threads /\ "worker" \notin Threads
  BY RestorerAssumption
<1>2. QED
  BY <1>1 DEF Busy, GivingUp

\* The two forms of the invariant say the same.
LEMMA BusyMeans ==
    /\ (\A a, b \in Busy : a = b) => Alone
    /\ (\A a, b \in Busy' : a = b) => Alone'
    /\ Busy = {} <=> NoneBusy
    /\ Busy' = {} <=> NoneBusy'
<1>1. "app" \notin Threads /\ "worker" \notin Threads
  BY RestorerAssumption
<1>2. (\A a, b \in Busy : a = b) => Alone
  BY <1>1, BusyMembers DEF Alone
<1>3. (\A a, b \in Busy' : a = b) => Alone'
  BY <1>1, BusyMembers DEF Alone
<1>4. Busy = {} <=> NoneBusy
  BY BusyMembers DEF NoneBusy, Joined
<1>5. Busy' = {} <=> NoneBusy'
  BY BusyMembers DEF NoneBusy, Joined
<1>6. QED
  BY <1>2, <1>3, <1>4, <1>5

LEMMA HealthMeans ==
    /\ HealthInv /\ "overlap" \notin met => Alone /\ Reports
    /\ (\A a, b \in Busy' : a = b) /\ Reports' => HealthInv'
<1>1. HealthInv /\ "overlap" \notin met => Alone /\ Reports
  BY BusyMeans DEF HealthInv, Reports
<1>2. (\A a, b \in Busy' : a = b) /\ Reports' => HealthInv'
  BY BusyMeans DEF HealthInv, Reports
<1>3. QED
  BY <1>1, <1>2

\* A step that changes neither the status nor what was told, nor who is busy.
LEMMA ReportsSame ==
    ASSUME Reports, status' = status, told' = told, flags'.inited <=> flags.inited, cb' = cb,
           app' = app \/ {app.step, app'.step} \cap {"initing", "telling"} = {},
           worker' = worker \/ (worker \notin GivingUp /\ (worker' \notin GivingUp \/ status # Normal))
               \/ {worker, worker'} \subseteq GivingUp
    PROVE  Reports'
<1>1. ToldRight <=> ToldRight'
  BY DEF ToldRight
<1>2. app'.step \in {"initing", "telling"} => app' = app
  BY Zenon
<1>3. app.step \in {"initing", "telling"} => app' = app
  BY Zenon
<1>4. worker' \in GivingUp => status' # Normal
  BY DEF Reports
<1>5. NoneBusy' => NoneBusy
  BY <1>3 DEF NoneBusy, Joined, Reports
<1>6. QED
  BY <1>1, <1>2, <1>4, <1>5 DEF Reports

\* A thread that changes the status alone reports it before another one begins.
LEMMA ReportsApp ==
    ASSUME TypeOK, PlacesInv, Alone, Reports, Alone', AppDoes
    PROVE  Reports'
<1> USE DEF TypeOK
<1> USE DEF AppDoes, At, GoTo
<1>1. CASE InitBegins
  <2>1. app'.step = "initing" /\ told' = app'.tell /\ status' = status /\ worker' = worker
    BY <1>1 DEF InitBegins
  <2>2. \A t \in Threads : cb'[t].step = "idle"
    BY <2>1 DEF Alone
  <2>3. worker' \notin GivingUp
    BY <2>1 DEF Alone
  <2>4. QED
    BY <2>1, <2>2, <2>3 DEF Reports, NoneBusy
<1>2. ASSUME NEW r \in {Normal, Recoverable}, InitReturns(r)
      PROVE  Reports'
  <2>1. app.step = "initing" /\ status' = r /\ UNCHANGED <<worker, cb, told>>
    BY <1>2 DEF InitReturns
  <2>2. \A t \in Threads : cb'[t].step = "idle"
    BY <2>1 DEF Alone
  <2>3. worker' \notin GivingUp
    BY <2>1 DEF Alone
  <2>4. told = app.tell
    BY <2>1 DEF Reports
  <2>5. CASE app.tell = "Healthy" <=> r = Normal
    <3>1. app'.step = "inited"
      BY <1>2, <2>5 DEF InitReturns, AppType
    <3>2. told' = "Healthy" <=> status' = Normal
      BY <2>1, <2>4, <2>5
    <3>3. QED
      BY <2>2, <2>3, <3>1, <3>2 DEF Reports, ToldRight
  <2>6. CASE ~(app.tell = "Healthy" <=> r = Normal)
    <3>1. app' = [step |-> "telling", tell |-> IF app.tell = "Healthy" THEN "Unhealthy" ELSE "Healthy"]
      BY <1>2, <2>6 DEF InitReturns
    <3>2. app'.step = "telling" /\ (app'.tell = "Healthy" <=> status' = Normal)
      BY <2>1, <2>6, <3>1
    <3>3. QED
      BY <2>2, <2>3, <3>2 DEF Reports, NoneBusy
  <2>7. QED
    BY <2>5, <2>6
<1>3. CASE InitFails
  <2>1. /\ app.step = "initing" /\ app'.step = "over" /\ told' = "Unhealthy" /\ status' = Unrecoverable
        /\ UNCHANGED <<worker, cb>>
    BY <1>3 DEF InitFails, AppType
  <2>2. \A t \in Threads : cb'[t].step = "idle"
    BY <2>1 DEF Alone
  <2>3. QED
    BY <2>1, <2>2 DEF Reports, ToldRight, Normal, Unrecoverable
<1>4. CASE InitTells
  <2>1. app.step = "telling" /\ app'.step = "inited" /\ told' = app.tell /\ UNCHANGED <<worker, cb, status>>
    BY <1>4 DEF InitTells, AppType
  <2>2. \A t \in Threads : cb'[t].step = "idle"
    BY <2>1 DEF Alone
  <2>3. worker' \notin GivingUp /\ (told' = "Healthy" <=> status' = Normal)
    BY <2>1 DEF Alone, Reports
  <2>4. QED
    BY <2>1, <2>2, <2>3 DEF Reports, ToldRight
<1>5. CASE Start
  <2>1. /\ app.step = "inited" /\ app'.step = "prepare" /\ worker' = "top" /\ UNCHANGED <<cb, status, told>>
        /\ flags'.inited <=> flags.inited
    BY <1>5 DEF Start, AppType, FlagType
  <2>2. worker \notin GivingUp
    BY <2>1 DEF PlacesInv, GivingUp
  <2>3. QED
    BY <2>1, <2>2, ReportsSame DEF GivingUp
<1>6. CASE StartRefused
  <2>1. /\ app'.step = "over" /\ told' = "Unhealthy" /\ status = Unrecoverable /\ UNCHANGED <<worker, cb, status>>
    BY <1>6 DEF StartRefused, AppType
  <2>2. QED
    BY <2>1 DEF Reports, ToldRight, Normal, Unrecoverable
<1>7. CASE PrepareLoadData \/ PushChecks \/ Push \/ StopBegins \/ StopReturns \/ StartAgain
  <2>1. /\ {app.step, app'.step} \cap {"initing", "telling"} = {} /\ UNCHANGED <<cb, status, told, worker>>
    BY <1>7 DEF PrepareLoadData, PushChecks, Push, StopBegins, StopReturns, StartAgain, AppType
  <2>2. flags'.inited <=> flags.inited
    BY <1>7, Zenon DEF PrepareLoadData, PushChecks, Push, StopBegins, StopReturns, StartAgain, FlagType
  <2>3. QED
    BY <2>1, <2>2, ReportsSame
<1>8. CASE Uninit
  <2>1. app'.step = "over" /\ UNCHANGED <<cb, status, told, worker>> /\ ~flags'.inited
    BY <1>8 DEF Uninit, AppType, FlagType
  <2>2. QED
    BY <2>1 DEF Reports, ToldRight
<1>9. QED
  BY <1>1, <1>2, <1>3, <1>4, <1>5, <1>6, <1>7, <1>8 DEF App

LEMMA ReportsWorker ==
    ASSUME TypeOK, PlacesInv, Alone, Reports, Alone', WorkerDoes
    PROVE  Reports'
<1> USE DEF TypeOK
<1> USE DEF WorkerDoes, Worker, WorkerOnly
<1>1. CASE WorkerSize
  <2>1. CASE Len(queue) > Threshold
    <3>1. worker' = "giveup" /\ status' = Unrecoverable /\ UNCHANGED <<app, cb, flags, told>>
      BY <1>1, <2>1 DEF WorkerSize
    <3>2. worker' \in GivingUp
      BY <3>1 DEF GivingUp
    <3>3. (\A t \in Threads : cb'[t].step = "idle") /\ app'.step \notin {"initing", "telling"}
      BY <3>2 DEF Alone
    <3>4. QED
      BY <3>1, <3>2, <3>3 DEF Reports, NoneBusy, Normal, Unrecoverable
  <2>2. CASE ~(Len(queue) > Threshold)
    <3>1. worker = "size" /\ worker' = "top" /\ UNCHANGED <<app, cb, flags, told, status>>
      BY <1>1, <2>2 DEF WorkerSize
    <3>2. QED
      BY <3>1, ReportsSame DEF GivingUp
  <2>3. QED
    BY <2>1, <2>2
<1>2. CASE WorkerTells
  <2>1. worker = "tell" /\ worker' = "ended" /\ told' = "Unhealthy" /\ UNCHANGED <<app, cb, flags, status>>
    BY <1>2 DEF WorkerTells
  <2>2. worker \in GivingUp /\ worker' \notin GivingUp
    BY <2>1 DEF GivingUp
  <2>3. (\A t \in Threads : cb'[t].step = "idle") /\ app'.step \notin {"initing", "telling"} /\ status' # Normal
    BY <2>1, <2>2 DEF Alone, Reports
  <2>4. QED
    BY <2>1, <2>2, <2>3 DEF Reports, ToldRight
<1>3. CASE WorkerCheck1
  <2>1. /\ worker = "check1" /\ UNCHANGED <<app, cb, flags, told, status>>
        /\ worker' = "check2" \/ (worker' = "giveup" /\ status = Unrecoverable)
    BY <1>3 DEF WorkerCheck1
  <2>2. QED
    BY <2>1, ReportsSame DEF GivingUp, Normal, Unrecoverable
<1>4. CASE WorkerGivesUp \/ WorkerStopsClient
  <2>1. {worker, worker'} \subseteq GivingUp /\ UNCHANGED <<app, cb, told, status>> /\ (flags'.inited <=> flags.inited)
    BY <1>4 DEF WorkerGivesUp, WorkerStopsClient, GivingUp, FlagType
  <2>2. QED
    BY <2>1, ReportsSame
<1>5. CASE WorkerTop \/ WorkerCheck2 \/ WorkerAsserts \/ WorkerTakes \/ WorkerProcesses
  <2>1. worker \notin GivingUp /\ worker' \notin GivingUp /\ UNCHANGED <<app, cb, told, status, flags>>
    BY <1>5 DEF WorkerTop, WorkerCheck2, WorkerAsserts, WorkerTakes, WorkerProcesses, GivingUp
  <2>2. QED
    BY <2>1, ReportsSame
<1>6. QED
  BY <1>1, <1>2, <1>3, <1>4, <1>5 DEF WorkerStep

LEMMA ReportsCb ==
    ASSUME TypeOK, PlacesInv, Alone, Reports, Alone', NEW t \in Threads, CbDoes(t)
    PROVE  Reports'
<1> USE DEF TypeOK
<1>1. CbStep(t)
  BY DEF CbDoes
<1>2. /\ cb[t].step # "idle" /\ UNCHANGED <<app, worker>> /\ \A r \in Threads : r # t => cb'[r] = cb[r]
  BY <1>1 DEF CbStep, CbCheck1, CbCheck2, CbDown, CbTellsBad, CbCheck3, CbUp, CbNeed, CbClears, CbTellsGood, CbOnly, Cb, CbType
<1>3. app'.step \notin {"initing", "telling"} /\ worker' \notin GivingUp /\ \A r \in Threads : r # t => cb'[r].step = "idle"
  BY <1>2 DEF Alone
<1>4. SUFFICES /\ NoneBusy' => ToldRight'
               /\ cb'[t].step \in {"check1", "check2", "check3"} => ToldRight'
               /\ cb'[t].step = "tellbad" => status' # Normal
               /\ cb'[t].step \in {"need", "clearing", "tellgood"} => status' = Normal
  <2>1. ASSUME NEW r \in Threads
        PROVE  /\ cb'[r].step \in {"check1", "check2", "check3"} => r = t
               /\ cb'[r].step = "tellbad" => r = t
               /\ cb'[r].step \in {"need", "clearing", "tellgood"} => r = t
    BY <1>3
  <2>2. QED
    BY <1>3, <2>1 DEF Reports
<1>5. NoneBusy' => cb'[t].step = "idle"
  BY DEF NoneBusy, Joined
<1>6. CASE CbCheck1(t) \/ CbCheck2(t) \/ CbCheck3(t)
  <2>1. cb[t].step \in {"check1", "check2", "check3"} /\ UNCHANGED <<told, status, flags>>
    BY <1>6 DEF CbCheck1, CbCheck2, CbCheck3, CbOnly, Cb
  <2>2. cb'[t].step \in {"check2", "down", "check3", "up", "idle"}
    BY <1>6 DEF CbCheck1, CbCheck2, CbCheck3, Cb, CbType
  <2>3. ToldRight'
    BY <2>1 DEF Reports, ToldRight
  <2>4. QED
    BY <2>2, <2>3
<1>7. CASE CbDown(t)
  <2>1. cb'[t].step = "tellbad" /\ status' = Recoverable
    BY <1>7 DEF CbDown, Cb, CbType
  <2>2. QED
    BY <1>5, <2>1 DEF Normal, Recoverable
<1>8. CASE CbTellsBad(t)
  <2>1. cb[t].step = "tellbad" /\ cb'[t].step = "idle" /\ told' = "Unhealthy" /\ status' = status
    BY <1>8 DEF CbTellsBad, Cb, CbType
  <2>2. QED
    BY <2>1 DEF Reports, ToldRight
<1>9. CASE CbUp(t)
  <2>1. cb'[t].step = "need" /\ status' = Normal
    BY <1>9 DEF CbUp, Cb, CbType
  <2>2. QED
    BY <1>5, <2>1
<1>10. CASE CbNeed(t) \/ CbClears(t)
  <2>1. cb[t].step \in {"need", "clearing"} /\ cb'[t].step \in {"clearing", "tellgood"} /\ status' = status
    BY <1>10 DEF CbNeed, CbClears, CbOnly, Cb, CbType
  <2>2. status' = Normal
    BY <2>1 DEF Reports
  <2>3. QED
    BY <1>5, <2>1, <2>2
<1>11. CASE CbTellsGood(t)
  <2>1. cb[t].step = "tellgood" /\ cb'[t].step = "idle" /\ told' = "Healthy" /\ status' = status
    BY <1>11 DEF CbTellsGood, Cb, CbType
  <2>2. QED
    BY <2>1 DEF Reports, ToldRight
<1>12. QED
  BY <1>1, <1>6, <1>7, <1>8, <1>9, <1>10, <1>11 DEF CbStep

LEMMA ReportsStep ==
    ASSUME TypeOK, PlacesInv, Alone, Reports, Alone', Step
    PROVE  Reports'
<1>1. CASE AppDoes
  BY <1>1, ReportsApp
<1>2. CASE WorkerDoes
  BY <1>2, ReportsWorker
<1>3. ASSUME NEW t \in Threads, CbDoes(t)
      PROVE  Reports'
  BY <1>3, ReportsCb
<1> USE DEF TypeOK
<1>4. CASE Calls
  <2>1. PICK t \in Threads, s \in {Normal, Recoverable} : CbCalled(t, s)
    BY <1>4 DEF Calls
  <2>2. /\ cb[t].step = "idle" /\ cb'[t].step = "check1" /\ UNCHANGED <<app, worker, status, told, flags>>
        /\ \A r \in Threads : r # t => cb'[r] = cb[r]
    BY <2>1 DEF CbCalled, CbType
  <2>3. app'.step \notin {"initing", "telling"} /\ worker' \notin GivingUp /\ \A r \in Threads : r # t => cb'[r].step = "idle"
    BY <2>2 DEF Alone
  <2>4. NoneBusy
    BY <2>2, <2>3 DEF NoneBusy, Joined
  <2>5. ToldRight'
    BY <2>2, <2>4 DEF Reports, ToldRight
  <2>6. QED
    BY <2>2, <2>3, <2>5 DEF Reports
<1>5. CASE Wrecks
  BY <1>5, ReportsSame DEF Wrecks, Wreck
<1>6. QED
  BY <1>1, <1>2, <1>3, <1>4, <1>5 DEF Step

\* Unless two threads were busy at once, the application is told what the status is.
LEMMA HealthStep ==
    ASSUME TypeOK, PlacesInv, HealthInv, Step
    PROVE  HealthInv'
<1>1. CASE Seen
  <2>1. CASE "overlap" \in met'
    BY <2>1 DEF HealthInv
  <2>2. CASE "overlap" \notin met'
    <3>1. "overlap" \notin met
      BY <1>1, <2>2, RaceFacts, Zenon
    <3>2. Alone /\ Reports
      BY <3>1, HealthMeans
    <3>3. \A a, b \in Busy' : a = b
      BY <1>1, <2>2, OneBusy
    <3>4. Alone'
      BY <3>3, BusyMeans
    <3>5. Reports'
      BY <3>2, <3>4, ReportsStep
    <3>6. QED
      BY <3>3, <3>5, HealthMeans
  <2>3. QED
    BY <2>1, <2>2
<1>2. CASE Wrecks
  <2>1. UNCHANGED <<app, worker, cb, flags, status, told, met>>
    BY <1>2 DEF Wrecks, Wreck
  <2>2. Busy' = Busy
    BY <2>1 DEF Busy
  <2>3. QED
    BY <2>1, <2>2 DEF HealthInv, ToldRight
<1>3. QED
  BY <1>1, <1>2 DEF Step, AppDoes, WorkerDoes, CbDoes, Calls

-----------------------------------------------------------------------------
(* The client outlives its threads *)

\* Without an overload, a client that init has connected is deleted only after its threads.
LEMMA SafeStep ==
    ASSUME TypeOK, PlacesInv, SafeUnlessOverloaded, Step
    PROVE  SafeUnlessOverloaded'
<1>1. CASE Seen /\ wrecked = "no"
  BY <1>1 DEF Seen, SafeUnlessOverloaded
<1>2. CASE Wrecks
  <2>1. SUFFICES ASSUME wrecked' = "client", ~(count.overloads > 0), flags.connected
                 PROVE  FALSE
    BY <1>2 DEF Wrecks, Wreck, SafeUnlessOverloaded
  <2>2. ClientLost
    BY <1>2, <2>1 DEF Wrecks, Wreck
  <2>3. count.overloads = 0
    BY <2>1 DEF TypeOK, CountType
  <2>4. ~flags.client \/ status = Unrecoverable => app.step \in {"new", "over"} /\ Joined /\ worker \in {"none", "ended"}
    BY <2>3 DEF PlacesInv
  <2>5. ~DeletedUnderThreads
    BY <2>1 DEF DeletedUnderThreads
  <2>6. ~flags.client \/ status = Unrecoverable
    BY <2>2, <2>5 DEF ClientLost, DeletesItself
  <2>7. QED
    BY <2>2, <2>4, <2>5, <2>6 DEF ClientLost, DeletesItself, Joined, At
<1>3. QED
  BY <1>1, <1>2 DEF Step, AppDoes, WorkerDoes, CbDoes, Calls

-----------------------------------------------------------------------------
(* The theorems *)

LEMMA EmptyCat == <<>> \o <<>> = <<>>
  OBVIOUS

LEMMA RestorerInit ==
    ASSUME Init
    PROVE  RestorerInv
<1> USE DEF Init
<1>1. TypeOK
  BY SeqFacts DEF TypeOK, AppType, AppSteps, WorkerSteps, CbType, CbSteps, FlagType, Told, StoreType, CountType
<1>2. PlacesInv
  BY DEF PlacesInv, GivingUp, Joined, Normal, Unrecoverable
<1>3. OrderInv
  <2>1. Operations = <<>>
    BY EmptyCat DEF Operations
  <2>2. Len(Operations) = 0
    BY <2>1
  <2>3. QED
    BY <2>1, <2>2 DEF OrderInv, Ordered
<1>4. LossInv
  <2>1. IsFiniteSet({}) /\ Cardinality({}) = 0
    BY FS_EmptySet
  <2>2. QED
    BY <2>1 DEF LossInv
<1>5. GiveUpInv
  BY DEF GiveUpInv
<1>6. ClearInv
  BY DEF ClearInv
<1>7. HealthInv
  <2>1. Busy = {}
    BY DEF Busy
  <2>2. QED
    BY <2>1 DEF HealthInv, ToldRight, GivingUp
<1>8. SafeUnlessOverloaded
  BY DEF SafeUnlessOverloaded
<1>9. QED
  BY <1>1, <1>2, <1>3, <1>4, <1>5, <1>6, <1>7, <1>8 DEF RestorerInv

LEMMA RestorerStep ==
    ASSUME RestorerInv, [Next]_vars
    PROVE  RestorerInv'
<1>1. CASE Step
  <2>1. TypeOK /\ PlacesInv /\ OrderInv /\ LossInv /\ GiveUpInv /\ ClearInv /\ HealthInv /\ SafeUnlessOverloaded
    BY DEF RestorerInv
  <2>2. TypeOK'
    BY <1>1, <2>1, TypeStep
  <2>3. QED
    BY <1>1, <2>1, <2>2, PlacesStep, OrderStep, LossStep, GiveUpStep, ClearStep, HealthStep, SafeStep DEF RestorerInv
<1>2. CASE UNCHANGED vars
  <2> USE <1>2 DEF vars
  <2>1. TypeOK'
    BY DEF RestorerInv, TypeOK
  <2>2. PlacesInv'
    BY DEF RestorerInv, PlacesInv, Joined
  <2>3. OrderInv' /\ LossInv' /\ GiveUpInv' /\ ClearInv'
    BY Zenon DEF RestorerInv, OrderInv, Operations, LossInv, GiveUpInv, ClearInv
  <2>4. HealthInv'
    <3>1. Busy' = Busy
      BY DEF Busy
    <3>2. QED
      BY <3>1 DEF RestorerInv, HealthInv, ToldRight
  <2>5. SafeUnlessOverloaded'
    BY DEF RestorerInv, SafeUnlessOverloaded
  <2>6. QED
    BY <2>1, <2>2, <2>3, <2>4, <2>5 DEF RestorerInv
<1>3. QED
  BY <1>1, <1>2 DEF Next, Step, Rest

\* The invariant of the restorer's three kinds of threads holds in every reachable state, for
\* any set of client threads and any threshold.
THEOREM RestorerSafety == Spec => []RestorerInv
<1>1. Init => RestorerInv
  BY RestorerInit
<1>2. RestorerInv /\ [Next]_vars => RestorerInv'
  BY RestorerStep
<1>3. QED
  BY <1>1, <1>2, PTL DEF Spec

LEMMA RestorerInvSafe ==
    ASSUME RestorerInv
    PROVE  RestorerSafe
<1>1. OperationsInOrder
  BY DEF RestorerInv, OrderInv, Ordered, OperationsInOrder
<1>2. OneLossPerOutage
  BY DEF RestorerInv, LossInv, OneLossPerOutage
<1>3. HealthReported
  BY DEF RestorerInv, HealthInv, ToldRight, HealthReported, Quiet
<1>4. StaleDataCleared
  BY Zenon DEF RestorerInv, ClearInv, StaleDataCleared
<1>5. SafeUnlessOverloaded
  BY DEF RestorerInv
<1>6. GivesUpBounded
  <2>1. SUFFICES ASSUME count.overloads > 0, worker = "ended", "revived" \notin met
                 PROVE  Len(queue) <= 1
    BY DEF GivesUpBounded
  <2>2. Len(queue) <= IF app.step = "push" THEN 0 ELSE 1
    BY <2>1 DEF RestorerInv, GiveUpInv
  <2>3. Len(queue) \in Nat
    BY DEF RestorerInv, TypeOK
  <2>4. QED
    BY <2>2, <2>3
<1>7. QED
  BY <1>1, <1>2, <1>3, <1>4, <1>5, <1>6 DEF RestorerSafe

\* Only a callback's clear empties what has been processed.
LEMMA ClearSpares ==
    ASSUME RestorerInv, Step, store.done # <<>>, store'.done = <<>>
    PROVE  "before the clear" \in met
<1>1. TypeOK /\ PlacesInv /\ ClearInv
  BY DEF RestorerInv
<1>2. flags.clear => store.done = <<>>
  BY <1>1, Zenon DEF ClearInv
<1>3. CASE AppDoes
  <2>1. CASE PrepareLoadData
    BY <1>2, <2>1, Zenon DEF PrepareLoadData
  <2>2. CASE InitReturns(Normal) \/ InitReturns(Recoverable)
    <3>1. store'.done = store.done
      BY <1>1, <2>2 DEF InitReturns, TypeOK, StoreType
    <3>2. QED
      BY <3>1, Zenon
  <2>3. QED
    BY <1>3, <2>1, <2>2, Zenon DEF AppDoes, App, InitBegins, InitFails, InitTells, Start, StartRefused, PushChecks, Push,
        StopBegins, StopReturns, StartAgain, Uninit
<1>4. CASE WorkerDoes
  <2>1. CASE WorkerProcesses
    <3>1. store'.done = store.done \o hand /\ store.done \in Seq(Nat) /\ hand \in Seq(Nat)
      BY <1>1, <2>1 DEF WorkerProcesses, TypeOK, StoreType
    <3>2. Len(hand) = 1
      BY <1>1, <2>1 DEF WorkerProcesses, Worker, PlacesInv
    <3>3. Len(store.done \o hand) = Len(store.done) + 1 /\ Len(store.done) \in Nat
      BY <3>1, <3>2
    <3>4. Len(store.done \o hand) # 0
      BY <3>3
    <3>5. QED
      BY <3>1, <3>4, NotEmpty, Zenon
  <2>2. QED
    BY <1>4, <2>1, Zenon DEF WorkerDoes, WorkerStep, WorkerTop, WorkerCheck1, WorkerCheck2, WorkerSize, WorkerGivesUp,
        WorkerStopsClient, WorkerTells, WorkerAsserts, WorkerTakes, WorkerOnly
<1>5. ASSUME NEW t \in Threads, CbDoes(t)
      PROVE  "before the clear" \in met
  <2>1. CASE CbClears(t)
    BY <1>1, <2>1, Zenon DEF CbClears, Cb, ClearInv
  <2>2. QED
    BY <1>5, <2>1, Zenon DEF CbDoes, CbStep, CbCheck1, CbCheck2, CbDown, CbTellsBad, CbCheck3, CbUp, CbNeed, CbTellsGood, CbOnly
<1>6. CASE Calls \/ Wrecks
  BY <1>6, Zenon DEF Calls, CbCalled, Wrecks, Wreck
<1>7. QED
  BY <1>3, <1>4, <1>5, <1>6, Zenon DEF Step

\* The operations are carried out in the order they were accepted in, an outage costs at most
\* one of them, the application is told the status, old data is cleared and the data of this
\* life is not, the client outlives its threads and a worker that gives up leaves the queue
\* empty: each but for the races that RestorerRight names.
THEOREM RestorerIsRight == Spec => []RestorerSafe /\ RestorerRight
<1>1. RestorerInv => RestorerSafe
  BY RestorerInvSafe
<1>2. RestorerInv /\ [Next]_vars => [ClearSparesOperations]_vars
  BY ClearSpares, Zenon DEF Next, Step, Rest, vars, ClearSparesOperations
<1>3. RestorerInv' => RestorerSafe'
  BY <1>1, PTL
<1>4. RestorerInv /\ RestorerInv' /\ [Next]_vars => [RestorerSafe' /\ ClearSparesOperations]_vars
  BY <1>2, <1>3, Zenon
<1>5. QED
  BY <1>1, <1>4, RestorerSafety, PTL DEF Spec, RestorerRight
=============================================================================
