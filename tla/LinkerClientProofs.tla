------------------------- MODULE LinkerClientProofs -------------------------
(***************************************************************************)
(* ClientInv is an invariant of LinkerClient: for any number of sentinels, *)
(* data nodes, faults and commands.                                        *)
(***************************************************************************)
EXTENDS LinkerClient, TLAPS

-----------------------------------------------------------------------------
(* The master's record *)

LEMMA ConnectedIs ==
    ASSUME NEW m \in MasterType, NEW n \in Nodes
    PROVE  /\ Connected(m, n) \in MasterType
           /\ Connected(m, n).id = m.id /\ Connected(m, n).init = m.init
           /\ Connected(m, n).node[n] \in {"pool", "alive"}
  BY DEF Connected, MasterType

LEMMA SwitchIs ==
    ASSUME NEW m \in MasterType, NEW n \in Nodes
    PROVE  /\ DoSwitchMaster(m, n).m \in MasterType
           /\ DoSwitchMaster(m, n).m.id = n /\ DoSwitchMaster(m, n).m.init = m.init
           /\ m.id = n \/ DoSwitchMaster(m, n).m.node[n] \in {"pool", "alive"}
           /\ m.id = n => DoSwitchMaster(m, n).m = m
<1> DEFINE named == [m EXCEPT !.id = n]
           entered == IF m.node[n] = "absent" THEN [named EXCEPT !.node[n] = "null", !.addr[n] = m.init] ELSE named
<1>1. named \in MasterType /\ named.id = n /\ named.init = m.init
  BY DEF MasterType
<1>2. entered \in MasterType /\ entered.id = n /\ entered.init = m.init
  BY <1>1 DEF MasterType
<1>3. /\ Connected(entered, n) \in MasterType /\ Connected(entered, n).id = n
      /\ Connected(entered, n).init = m.init /\ Connected(entered, n).node[n] \in {"pool", "alive"}
  BY <1>2, ConnectedIs
<1>4. DoSwitchMaster(m, n) = CASE m.id = n -> [ok |-> TRUE, m |-> m]
      [] m.id # n /\ entered.node[n] = "alive" -> [ok |-> TRUE, m |-> entered]
      [] OTHER -> [ok |-> Connected(entered, n).node[n] = "alive", m |-> Connected(entered, n)]
  BY Zenon DEF DoSwitchMaster
<1> HIDE DEF entered
<1>5. CASE m.id = n
  BY <1>4, <1>5
<1>6. CASE m.id # n /\ entered.node[n] = "alive"
  BY <1>4, <1>6, <1>2
<1>7. CASE m.id # n /\ entered.node[n] # "alive"
  BY <1>4, <1>7, <1>3
<1>8. QED
  BY <1>5, <1>6, <1>7

-----------------------------------------------------------------------------
(* Types *)

\* The threads' records with another step
LEMMA MainAt ==
    ASSUME NEW m \in MainType, NEW x \in MainSteps
    PROVE  [m EXCEPT !.step = x] \in MainType /\ [m EXCEPT !.step = x].step = x /\ [m EXCEPT !.step = x].at = m.at
  BY DEF MainType

LEMMA MainEnds ==
    ASSUME NEW m \in MainType
    PROVE  {[m EXCEPT !.step = "failed"], [m EXCEPT !.step = "master"], [m EXCEPT !.step = "ready"]} \subseteq MainType
  BY DEF MainType, MainSteps

LEMMA MainNext ==
    ASSUME NEW m \in MainType
    PROVE  [m EXCEPT !.at = m.at + 1] \in MainType
  BY DEF MainType

LEMMA HealthAt ==
    ASSUME NEW h \in HealthType, NEW x \in HealthSteps
    PROVE  [h EXCEPT !.step = x] \in HealthType /\ [h EXCEPT !.step = x].step = x /\ [h EXCEPT !.step = x].at = h.at
  BY DEF HealthType

LEMMA HealthNext ==
    ASSUME NEW h \in HealthType, NEW b \in BOOLEAN
    PROVE  [h EXCEPT !.at = h.at + 1, !.all = b] \in HealthType
<1>1. h.at + 1 \in Nat
  BY DEF HealthType
<1>2. \A x \in Nat : [h EXCEPT !.at = x, !.all = b] \in HealthType
  BY Zenon DEF HealthType
<1>3. QED
  BY <1>1, <1>2

LEMMA CheckAt ==
    ASSUME NEW c \in CheckType, NEW x \in CheckSteps
    PROVE  [c EXCEPT !.step = x] \in CheckType /\ [c EXCEPT !.step = x].step = x
           /\ [c EXCEPT !.step = x].at = c.at /\ [c EXCEPT !.step = x].answer = c.answer
  BY DEF CheckType

LEMMA CheckNext ==
    ASSUME NEW c \in CheckType
    PROVE  /\ [c EXCEPT !.at = c.at + 1] \in CheckType
           /\ [c EXCEPT !.step = "ask", !.at = c.at + 1, !.answer = None] \in CheckType
<1>1. c.at + 1 \in Nat
  BY DEF CheckType
<1>2. \A x \in Nat : [c EXCEPT !.at = x] \in CheckType
  BY DEF CheckType
<1>3. \A x \in Nat : [c EXCEPT !.step = "ask", !.at = x, !.answer = None] \in CheckType
  BY DEF CheckType, CheckSteps
<1>4. QED
  BY <1>1, <1>2, <1>3

LEMMA NextReport ==
    ASSUME NEW x \in Reports
    PROVE  ReportStep(x) \in Reports \cup {"over"}
  BY DEF ReportStep, Reports

LEMMA SubscribeTypes ==
    ASSUME TypeOK, NEW s \in Sentinels, NEW ok \in BOOLEAN, IF ok THEN Subscribe(s) ELSE NoSubscription
    PROVE  sub' \in SubType /\ conn' \in ConnType /\ arg' \in Sentinels \cup {0}
<1>1. CASE ok
  <2>1. sub' = [sub EXCEPT ![s] = [step |-> "created", con |-> 0]] /\ conn' = [conn EXCEPT ![s] = "subscribed"] /\ arg' = s
    BY <1>1, Zenon DEF Subscribe
  <2>2. sub' \in SubType
    BY <2>1 DEF TypeOK, SubType
  <2>3. conn' \in ConnType
    BY <2>1 DEF TypeOK, ConnType
  <2>4. QED
    BY <2>1, <2>2, <2>3
<1>2. CASE ~ok
  BY <1>2 DEF NoSubscription, TypeOK
<1>3. QED
  BY <1>1, <1>2

LEMMA SentReinit ==
    ASSUME NEW f \in SentType, NEW s \in Sentinels, NEW a \in BOOLEAN, NEW ok \in BOOLEAN
    PROVE  [f EXCEPT ![s].alive = f[s].alive \/ a, ![s].sub = @ \/ ok] \in SentType
  BY DEF SentType

LEMMA ReportTypes ==
    ASSUME TypeOK, NEW x \in Reports, Reported(x), met' = met \cup Overlap
    PROVE  status' \in {Normal, Recoverable} /\ told' \in {Normal, Recoverable} /\ met' \subseteq Events
<1>1. status' \in {Normal, Recoverable} /\ told' \in {Normal, Recoverable}
  BY DEF Reported, TypeOK, Normal, Recoverable
<1>2. Overlap \subseteq Events
  BY DEF Overlap, Events
<1>3. QED
  BY <1>1, <1>2 DEF TypeOK

LEMMA InitTypeOK == ASSUME ClientAssumption, Init PROVE TypeOK
<1> USE DEF ClientAssumption, Init, None
<1>1. main \in MainType /\ lock \in {None, "init", "health"} /\ arg \in Sentinels \cup {0}
  BY DEF MainType, MainSteps
<1>2. sent \in SentType
  BY DEF SentType
<1>3. sub \in SubType
  BY DEF SubType
<1>4. conn \in ConnType /\ inbox \in [Sentinels -> Seq(Nodes)]
  BY DEF ConnType
<1>5. health \in HealthType
  BY DEF HealthType, HealthSteps
<1>6. check \in CheckType
  BY DEF CheckType, CheckSteps
<1>7. master \in MasterType
  BY DEF MasterType
<1>8. env \in EnvType
  BY DEF EnvType
<1>9. count \in CountType /\ met \subseteq Events
  BY DEF CountType
<1>10. QED
  BY <1>1, <1>2, <1>3, <1>4, <1>5, <1>6, <1>7, <1>8, <1>9 DEF TypeOK

LEMMA TypeKeptByInit ==
    ASSUME ClientAssumption, TypeOK, PlacesInv, InitStep
    PROVE  TypeOK'
<1>1. CASE InitThreads
  <2>1. main' \in MainType
    BY <1>1 DEF InitThreads, MainType, MainSteps
  <2>2. health' \in HealthType /\ check' \in CheckType
    BY <1>1, HealthAt, CheckAt DEF InitThreads, TypeOK, HealthSteps, CheckSteps
  <2>3. QED
    BY <1>1, <2>1, <2>2 DEF InitThreads, TypeOK
<1>2. CASE InitSentinel
  <2>1. main.at \in Sentinels /\ main' = [main EXCEPT !.at = main.at + 1]
    BY <1>2 DEF InitSentinel, TypeOK, PlacesInv, ClientAssumption, MainType
  <2>2. main' \in MainType
    BY <2>1, MainNext DEF TypeOK
  <2>3. master' \in MasterType
    BY <1>2 DEF InitSentinel, TypeOK, MasterType, EnvType
  <2>4. PICK ok \in BOOLEAN :
          /\ IF ok THEN Subscribe(main.at) ELSE NoSubscription
          /\ sent' = [sent EXCEPT ![main.at] = [known |-> TRUE, alive |-> env.up[main.at], sub |-> ok]]
    BY <1>2, Zenon DEF InitSentinel
  <2>5. sent' \in SentType
    BY <2>1, <2>4 DEF TypeOK, SentType, EnvType
  <2>6. sub' \in SubType /\ conn' \in ConnType /\ arg' \in Sentinels \cup {0}
    BY <2>1, <2>4, SubscribeTypes DEF TypeOK
  <2>7. QED
    BY <1>2, <2>2, <2>3, <2>5, <2>6 DEF InitSentinel, TypeOK
<1>3. CASE InitSentinelsDone
  <2>1. /\ main' \in {[main EXCEPT !.step = "failed"], [main EXCEPT !.step = "master"]}
        /\ told' \in {told, Recoverable} /\ met' \in {met, met \cup {"init"}}
    BY <1>3, Zenon DEF InitSentinelsDone
  <2>2. main' \in MainType
    BY <2>1, MainEnds DEF TypeOK
  <2>3. QED
    BY <1>3, <2>1, <2>2 DEF InitSentinelsDone, TypeOK, Events
<1>4. CASE InitMasterSlaves
  <2>1. /\ main' \in {[main EXCEPT !.step = "failed"], [main EXCEPT !.step = "ready"]}
        /\ told' \in {told, Recoverable} /\ met' \in {met \cup {"init"}, met \cup Stale(master.init)}
    BY <1>4, Zenon DEF InitMasterSlaves
  <2>2. main' \in MainType
    BY <2>1, MainEnds DEF TypeOK
  <2>3. master' \in MasterType
    <3> DEFINE m == [master EXCEPT !.id = master.init]
    <3>1. m \in MasterType /\ master.init \in Nodes
      BY <1>4 DEF InitMasterSlaves, TypeOK, MasterType, PlacesInv
    <3>2. Connected(m, master.init) \in MasterType
      BY <3>1, ConnectedIs
    <3>3. master' = Connected(m, master.init) \/
          \E named : master' = [Connected(m, master.init) EXCEPT !.node =
              [x \in Nodes |-> IF x \in named THEN "null" ELSE Connected(m, master.init).node[x]]]
      BY <1>4, Zenon DEF InitMasterSlaves
    <3> HIDE DEF m
    <3>4. QED
      BY <3>2, <3>3 DEF MasterType
  <2>4. Stale(master.init) \subseteq Events
    BY DEF Stale, Events
  <2>5. QED
    BY <1>4, <2>1, <2>2, <2>3, <2>4 DEF InitMasterSlaves, TypeOK, Events
<1>5. QED
  BY <1>1, <1>2, <1>3, <1>4 DEF InitStep

LEMMA TypeKeptByHealth ==
    ASSUME ClientAssumption, TypeOK, PlacesInv, HealthStep
    PROVE  TypeOK'
<1>1. CASE HealthWakes
  <2>1. health' \in HealthType
    BY <1>1 DEF HealthWakes, TypeOK, HealthType, HealthSteps
  <2>2. QED
    BY <1>1, <2>1 DEF HealthWakes, TypeOK
<1>2. CASE HealthReinit
  <2>1. CASE health.at > Last \/ ~sent[health.at].known
    <3>1. /\ health' = [health EXCEPT !.step = "quorum", !.done = health.all] /\ lock' = None
          /\ met' \in {met, met \cup {"nothing to reinit"}}
      BY <1>2, <2>1, Zenon DEF HealthReinit
    <3>2. UNCHANGED <<conn, arg, sub, sent>>
      BY <1>2, <2>1 DEF HealthReinit, NoSubscription
    <3>3. health' \in HealthType
      BY <3>1 DEF TypeOK, HealthType, HealthSteps
    <3>4. QED
      BY <1>2, <3>1, <3>2, <3>3 DEF HealthReinit, TypeOK, Events
  <2>2. CASE ~(health.at > Last \/ ~sent[health.at].known)
    <3>1. health.at \in Sentinels
      <4>1. health.at \in Nat /\ health.at >= 1 /\ ~(health.at > Last)
        BY <1>2, <2>2 DEF HealthReinit, TypeOK, PlacesInv, HealthType
      <4>2. QED
        BY <4>1 DEF ClientAssumption
    <3>2. PICK ok \in BOOLEAN :
            /\ lock' = "health" /\ UNCHANGED met
            /\ IF ok THEN Subscribe(health.at) ELSE NoSubscription
            /\ sent' = [sent EXCEPT ![health.at].alive = sent[health.at].alive \/ env.up[health.at], ![health.at].sub = @ \/ ok]
            /\ health' = [health EXCEPT !.at = health.at + 1,
                            !.all = @ /\ ReinitDone(health.at, sent[health.at].alive \/ env.up[health.at], ok)]
      BY <1>2, <2>2, Zenon DEF HealthReinit
    <3>3. sent' \in SentType
      BY <3>1, <3>2, SentReinit DEF TypeOK, EnvType
    <3>4. health' \in HealthType
      <4> DEFINE more == health.all /\ ReinitDone(health.at, sent[health.at].alive \/ env.up[health.at], ok)
      <4>1. more \in BOOLEAN /\ health' = [health EXCEPT !.at = health.at + 1, !.all = more]
        BY <3>2, Zenon
      <4> HIDE DEF more
      <4>2. QED
        BY <4>1, HealthNext DEF TypeOK
    <3>5. sub' \in SubType /\ conn' \in ConnType /\ arg' \in Sentinels \cup {0}
      BY <3>1, <3>2, SubscribeTypes
    <3>6. QED
      BY <1>2, <3>2, <3>3, <3>4, <3>5 DEF HealthReinit, TypeOK
  <2>3. QED
    BY <2>1, <2>2
<1>3. CASE HealthAsks
  <2>1. health' \in HealthType
    BY <1>3, HealthAt DEF HealthAsks, TypeOK, HealthSteps, Reports
  <2>2. QED
    BY <1>3, <2>1 DEF HealthAsks, TypeOK
<1>4. CASE HealthReports
  <2>1. \E x \in HealthSteps : health' = [health EXCEPT !.step = x]
    BY <1>4, NextReport DEF HealthReports, HealthSteps, Ended
  <2>2. health' \in HealthType
    BY <2>1, HealthAt DEF TypeOK
  <2>3. status' \in {Normal, Recoverable} /\ told' \in {Normal, Recoverable} /\ met' \subseteq Events
    BY <1>4, ReportTypes DEF HealthReports
  <2>4. QED
    BY <1>4, <2>2, <2>3 DEF HealthReports, TypeOK
<1>5. QED
  BY <1>1, <1>2, <1>3, <1>4 DEF HealthStep

LEMMA TypeKeptByCheck ==
    ASSUME ClientAssumption, TypeOK, PlacesInv, CheckStep
    PROVE  TypeOK'
<1>1. CASE CheckWakes
  <2>1. Ended("stop check", "woken") \in CheckSteps
    BY DEF Ended, CheckSteps
  <2>2. check' \in CheckType
    BY <1>1, <2>1, CheckAt DEF CheckWakes, TypeOK
  <2>3. QED
    BY <1>1, <2>2 DEF CheckWakes, TypeOK
<1>2. CASE CheckClears
  <2>1. check' \in CheckType
    BY <1>2 DEF CheckClears, TypeOK, CheckType, CheckSteps
  <2>2. QED
    BY <1>2, <2>1 DEF CheckClears, TypeOK
<1>3. CASE CheckAsks
  <2>1. \/ check' = [check EXCEPT !.step = "bad"]
        \/ check' = [check EXCEPT !.at = check.at + 1]
        \/ check' = [check EXCEPT !.step = "switch", !.answer = MasterAddrByName(check.at)]
    BY <1>3, Zenon DEF CheckAsks
  <2>2. MasterAddrByName(check.at) \in Nodes \cup {None}
    BY DEF MasterAddrByName, TypeOK, EnvType
  <2>3. check' \in CheckType
    <3>1. [check EXCEPT !.step = "bad"] \in CheckType /\ [check EXCEPT !.at = check.at + 1] \in CheckType
      BY CheckAt, CheckNext DEF TypeOK, CheckSteps, Reports
    <3>2. \A a \in Nodes \cup {None} : [check EXCEPT !.step = "switch", !.answer = a] \in CheckType
      BY DEF TypeOK, CheckType, CheckSteps
    <3>3. QED
      BY <2>1, <2>2, <3>1, <3>2
  <2>4. QED
    BY <1>3, <2>3 DEF CheckAsks, TypeOK
<1>4. CASE CheckSwitches
  <2>1. check.answer \in Nodes
    BY <1>4 DEF CheckSwitches, TypeOK, CheckType, PlacesInv
  <2>2. master' \in MasterType
    BY <1>4, <2>1, SwitchIs DEF CheckSwitches, TypeOK
  <2>3. Stale(check.answer) \subseteq Events
    BY DEF Stale, Events
  <2>4. \/ check' = [check EXCEPT !.step = "good", !.answer = None]
        \/ check' = [check EXCEPT !.step = "ask", !.at = check.at + 1, !.answer = None]
    BY <1>4, Zenon DEF CheckSwitches
  <2>5. check' \in CheckType
    <3>1. [check EXCEPT !.step = "good", !.answer = None] \in CheckType
      BY DEF TypeOK, CheckType, CheckSteps, Reports
    <3>2. [check EXCEPT !.step = "ask", !.at = check.at + 1, !.answer = None] \in CheckType
      BY CheckNext DEF TypeOK
    <3>3. QED
      BY <2>4, <3>1, <3>2
  <2>6. QED
    BY <1>4, <2>2, <2>3, <2>5 DEF CheckSwitches, TypeOK
<1>5. CASE CheckReports
  <2>1. \E x \in CheckSteps : check' = [check EXCEPT !.step = x]
    BY <1>5, NextReport DEF CheckReports, CheckSteps, Ended
  <2>2. check' \in CheckType
    BY <2>1, CheckAt DEF TypeOK
  <2>3. status' \in {Normal, Recoverable} /\ told' \in {Normal, Recoverable} /\ met' \subseteq Events
    BY <1>5, ReportTypes DEF CheckReports
  <2>4. QED
    BY <1>5, <2>2, <2>3 DEF CheckReports, TypeOK
<1>6. QED
  BY <1>1, <1>2, <1>3, <1>4, <1>5 DEF CheckStep

LEMMA TypeKeptBySub ==
    ASSUME ClientAssumption, TypeOK, SubscribedInv, NEW s \in Sentinels, SubStep(s)
    PROVE  TypeOK'
<1>0. sub[s].step = "listen" => sub[s].con \in Sentinels
  BY DEF TypeOK, SubType, SubscribedInv
<1>1. CASE SubStarts(s)
  <2>1. sub' \in SubType
    BY <1>1 DEF SubStarts, TypeOK, SubType
  <2>2. QED
    BY <1>1, <2>1 DEF SubStarts, TypeOK
<1>2. CASE SubReconnects(s)
  <2> DEFINE c == sub[s].con
  <2>1. c \in Sentinels
    BY <1>0, <1>2 DEF SubReconnects
  <2>2. /\ conn' = [conn EXCEPT ![c] = "plain"] /\ inbox' = [inbox EXCEPT ![c] = <<>>]
        /\ met' = met \cup {"deaf"}
    BY <1>2 DEF SubReconnects
  <2> HIDE DEF c
  <2>3. conn' \in ConnType /\ inbox' \in [Sentinels -> Seq(Nodes)]
    BY <2>1, <2>2 DEF TypeOK, ConnType
  <2>4. QED
    BY <1>2, <2>2, <2>3 DEF SubReconnects, TypeOK, Events
<1>3. CASE SubSwitches(s)
  <2> DEFINE c == sub[s].con
  <2>1. c \in Sentinels /\ inbox[c] # <<>>
    BY <1>0, <1>3 DEF SubSwitches
  <2>2. master' = DoSwitchMaster(master, Head(inbox[c])).m /\ inbox' = [inbox EXCEPT ![c] = Tail(inbox[c])]
    BY <1>3 DEF SubSwitches
  <2> HIDE DEF c
  <2>3. inbox[c] \in Seq(Nodes)
    BY <2>1 DEF TypeOK
  <2>4. Head(inbox[c]) \in Nodes /\ Tail(inbox[c]) \in Seq(Nodes)
    BY <2>1, <2>3
  <2>5. master' \in MasterType
    BY <2>2, <2>4, SwitchIs DEF TypeOK
  <2>6. inbox' \in [Sentinels -> Seq(Nodes)]
    BY <2>1, <2>2, <2>4 DEF TypeOK
  <2>7. QED
    BY <1>3, <2>5, <2>6 DEF SubSwitches, TypeOK
<1>4. CASE SubEnds(s)
  <2>1. sub' \in SubType
    BY <1>4 DEF SubEnds, TypeOK, SubType
  <2>2. QED
    BY <1>4, <2>1 DEF SubEnds, TypeOK
<1>5. QED
  BY <1>1, <1>2, <1>3, <1>4 DEF SubStep

LEMMA TypeKeptByMain ==
    ASSUME TypeOK, Command \/ CommandCrashes \/ FreeBegins \/ FreeStep
    PROVE  TypeOK'
<1>1. CASE Command
  <2>1. count' \in CountType
    BY <1>1 DEF Command, Call, TypeOK, CountType
  <2>2. signal' \in BOOLEAN
    BY <1>1, Zenon DEF Command
  <2>3. QED
    BY <1>1, <2>1, <2>2 DEF Command, TypeOK
<1>2. CASE CommandCrashes
  <2>1. count' \in CountType
    BY <1>2 DEF CommandCrashes, Call, TypeOK, CountType
  <2>2. main' \in MainType
    BY <1>2, MainAt DEF CommandCrashes, TypeOK, MainSteps
  <2>3. QED
    BY <1>2, <2>1, <2>2 DEF CommandCrashes, TypeOK
<1>3. CASE FreeBegins
  <2>1. main' \in MainType
    BY <1>3, MainAt DEF FreeBegins, TypeOK, MainSteps
  <2>2. QED
    BY <1>3, <2>1 DEF FreeBegins, TypeOK
<1>4. CASE FreeJoins
  <2>1. \E x \in {"stop subs", "stop check", "pools"} : main' = [main EXCEPT !.step = x]
    BY <1>4 DEF FreeJoins
  <2>2. main' \in MainType
    <3>1. {"stop subs", "stop check", "pools"} \subseteq MainSteps
      BY DEF MainSteps
    <3>2. QED
      BY <2>1, <3>1, MainAt DEF TypeOK
  <2>3. QED
    BY <1>4, <2>2 DEF FreeJoins, TypeOK
<1>5. CASE FreePools
  <2>1. main' \in MainType
    BY <1>5, MainAt DEF FreePools, TypeOK, MainSteps
  <2>2. sent' \in SentType
    BY <1>5 DEF FreePools, SentType
  <2>3. conn' \in ConnType /\ inbox' \in [Sentinels -> Seq(Nodes)]
    BY <1>5 DEF FreePools, ConnType
  <2>4. master' \in MasterType
    BY <1>5 DEF FreePools, TypeOK, MasterType
  <2>5. QED
    BY <1>5, <2>1, <2>2, <2>3, <2>4 DEF FreePools, TypeOK
<1>6. QED
  BY <1>1, <1>2, <1>3, <1>4, <1>5 DEF FreeStep

LEMMA TypeKeptByWorld ==
    ASSUME TypeOK, Environment \/ Repair
    PROVE  TypeOK'
<1>1. CASE \E n \in Nodes : Failover(n)
  <2>1. PICK n \in Nodes : Failover(n)
    BY <1>1
  <2>2. env' \in EnvType
    BY <2>1 DEF Failover, TypeOK, EnvType
  <2>3. inbox' \in [Sentinels -> Seq(Nodes)]
    BY <2>1 DEF Failover, TypeOK
  <2>4. count' \in CountType
    BY <2>1 DEF Failover, Fault, TypeOK, CountType
  <2>5. QED
    BY <2>1, <2>2, <2>3, <2>4 DEF Failover, TypeOK, Events
<1>2. CASE \E n \in Nodes : NodeDown(n)
  <2>1. PICK n \in Nodes : NodeDown(n)
    BY <1>2
  <2>2. env' \in EnvType
    BY <2>1 DEF NodeDown, TypeOK, EnvType
  <2>3. count' \in CountType
    BY <2>1 DEF NodeDown, Fault, TypeOK, CountType
  <2>4. QED
    BY <2>1, <2>2, <2>3 DEF NodeDown, TypeOK
<1>3. CASE \E s \in Sentinels : SentinelDown(s)
  <2>1. PICK s \in Sentinels : SentinelDown(s)
    BY <1>3
  <2>2. env' \in EnvType
    BY <2>1 DEF SentinelDown, TypeOK, EnvType
  <2>3. conn' \in ConnType
    BY <2>1 DEF SentinelDown, TypeOK, ConnType
  <2>4. count' \in CountType
    BY <2>1 DEF SentinelDown, Fault, TypeOK, CountType
  <2>5. QED
    BY <2>1, <2>2, <2>3, <2>4 DEF SentinelDown, TypeOK
<1>4. CASE Repair
  <2>1. env' \in EnvType
    BY <1>4 DEF Repair, TypeOK, EnvType
  <2>2. QED
    BY <1>4, <2>1 DEF Repair, TypeOK
<1>5. QED
  BY <1>1, <1>2, <1>3, <1>4 DEF Environment

-----------------------------------------------------------------------------
(* Where the threads are *)

\* What the threads do after a report, and the application's thread after init
LEMMA HealthGoesOn ==
    ASSUME TypeOK, HealthReports
    PROVE  /\ health' = [health EXCEPT !.step = health'.step]
           /\ \/ ReportStep(health.step) = "over" /\ health'.step \in {"sleep", "ended"}
              \/ ReportStep(health.step) # "over" /\ health'.step = ReportStep(health.step) /\ health'.step \in Reports
<1> DEFINE to == IF ReportStep(health.step) = "over" THEN Ended("stop health", "sleep") ELSE ReportStep(health.step)
<1>1. ReportStep(health.step) \in Reports \cup {"over"} /\ health' = [health EXCEPT !.step = to]
  BY NextReport DEF HealthReports
<1>2. Ended("stop health", "sleep") \in {"sleep", "ended"}
  BY DEF Ended
<1>3. to \in HealthSteps
  BY <1>1, <1>2 DEF HealthSteps
<1>4. health'.step = to
  BY <1>1, <1>3, HealthAt DEF TypeOK
<1>5. QED
  BY <1>1, <1>2, <1>4

LEMMA CheckGoesOn ==
    ASSUME TypeOK, CheckReports
    PROVE  /\ check' = [check EXCEPT !.step = check'.step]
           /\ \/ ReportStep(check.step) = "over" /\ check'.step \in {"wait", "ended"}
              \/ ReportStep(check.step) # "over" /\ check'.step = ReportStep(check.step) /\ check'.step \in Reports
<1> DEFINE to == IF ReportStep(check.step) = "over" THEN Ended("stop check", "wait") ELSE ReportStep(check.step)
<1>1. ReportStep(check.step) \in Reports \cup {"over"} /\ check' = [check EXCEPT !.step = to]
  BY NextReport DEF CheckReports
<1>2. Ended("stop check", "wait") \in {"wait", "ended"}
  BY DEF Ended
<1>3. to \in CheckSteps
  BY <1>1, <1>2 DEF CheckSteps
<1>4. check'.step = to
  BY <1>1, <1>3, CheckAt DEF TypeOK
<1>5. QED
  BY <1>1, <1>2, <1>4

LEMMA FreeGoesOn ==
    ASSUME TypeOK, CommandCrashes \/ FreeBegins \/ FreeStep
    PROVE  /\ main'.step \in {"crashed", "stop health", "stop subs", "stop check", "pools", "freed"}
           /\ UNCHANGED <<sub, health, check>>
<1>1. PICK x \in {"crashed", "stop health", "stop subs", "stop check", "pools", "freed"} : main' = [main EXCEPT !.step = x]
  BY DEF CommandCrashes, FreeBegins, FreeStep, FreeJoins, FreePools
<1>2. {"crashed", "stop health", "stop subs", "stop check", "pools", "freed"} \subseteq MainSteps
  BY DEF MainSteps
<1>3. main'.step \in {"crashed", "stop health", "stop subs", "stop check", "pools", "freed"}
  <2>1. x \in MainSteps /\ main \in MainType
    BY <1>2 DEF TypeOK
  <2>2. main'.step = x
    BY <1>1, <2>1, MainAt
  <2>3. QED
    BY <2>2
<1>4. QED
  BY <1>3 DEF CommandCrashes, FreeBegins, FreeStep, FreeJoins, FreePools

\* A subscription thread reads from a connection, and switches to a node
LEMMA SubMaster ==
    ASSUME TypeOK, SubscribedInv, NEW s \in Sentinels, SubStep(s)
    PROVE  /\ master'.init = master.init
           /\ \/ master' = master
              \/ SubSwitches(s) /\ \E n \in Nodes : master' = DoSwitchMaster(master, n).m
<1>1. CASE SubSwitches(s)
  <2>1. sub[s].con \in Sentinels /\ inbox[sub[s].con] # <<>>
    BY <1>1 DEF SubSwitches, TypeOK, SubType, SubscribedInv
  <2>2. inbox[sub[s].con] \in Seq(Nodes)
    BY <2>1 DEF TypeOK
  <2>3. Head(inbox[sub[s].con]) \in Nodes
    BY <2>1, <2>2
  <2>4. master' = DoSwitchMaster(master, Head(inbox[sub[s].con])).m
    BY <1>1 DEF SubSwitches
  <2>5. QED
    BY <1>1, <2>3, <2>4, SwitchIs DEF TypeOK
<1>2. CASE ~SubSwitches(s)
  BY <1>2 DEF SubStep, SubStarts, SubReconnects, SubEnds
<1>3. QED
  BY <1>1, <1>2

LEMMA PlacesKept ==
    ASSUME ClientAssumption, TypeOK, PlacesInv, SubscribedInv, Running
    PROVE  PlacesInv'
<1> USE DEF PlacesInv
<1>1. CASE InitThreads
  <2>1. main'.step = "sentinels" /\ main'.at = 1 /\ health'.step = "sleep" /\ check'.step = "wait"
    BY <1>1, HealthAt, CheckAt DEF InitThreads, TypeOK, HealthSteps, CheckSteps
  <2>2. QED
    BY <2>1
<1>2. CASE InitSentinel
  <2>1. main'.step = "sentinels" /\ main'.at = main.at + 1 /\ main.at \in Nat
    BY <1>2 DEF InitSentinel, TypeOK, MainType
  <2>2. QED
    BY <1>2, <2>1 DEF InitSentinel
<1>3. CASE InitSentinelsDone
  <2>1. main'.step = "failed" \/ (main'.step = "master" /\ master.init # None)
    <3>1. \/ main' = [main EXCEPT !.step = "failed"]
          \/ main' = [main EXCEPT !.step = "master"] /\ master.init # None
      BY <1>3, Zenon DEF InitSentinelsDone
    <3>2. QED
      BY <3>1 DEF TypeOK, MainType
  <2>2. QED
    BY <1>3, <2>1 DEF InitSentinelsDone
<1>4. CASE InitMasterSlaves
  <2>1. main'.step \in {"failed", "ready"}
    <3>1. main' = [main EXCEPT !.step = "failed"] \/ main' = [main EXCEPT !.step = "ready"]
      BY <1>4, Zenon DEF InitMasterSlaves
    <3>2. QED
      BY <3>1 DEF TypeOK, MainType
  <2>2. QED
    BY <1>4, <2>1 DEF InitMasterSlaves
<1>5. CASE HealthWakes
  <2>1. health'.at = 1
    BY <1>5 DEF HealthWakes, TypeOK, HealthType
  <2>2. QED
    BY <1>5, <2>1 DEF HealthWakes
<1>6. CASE HealthReinit
  <2>1. health'.step = "quorum" \/ health'.at = health.at + 1
    BY <1>6 DEF HealthReinit, TypeOK, HealthType
  <2>2. health.at \in Nat /\ health.at >= 1
    BY <1>6 DEF HealthReinit, TypeOK, HealthType
  <2>3. UNCHANGED <<main, check, master>>
    BY <1>6 DEF HealthReinit
  <2>4. QED
    BY <2>1, <2>2, <2>3
<1>7. CASE HealthAsks
  <2>1. health'.step \in {"good", "bad"}
    BY <1>7, HealthAt DEF HealthAsks, TypeOK, HealthSteps, Reports
  <2>2. QED
    BY <1>7, <2>1 DEF HealthAsks
<1>8. CASE HealthReports
  <2>1. health'.step # "reinit"
    BY <1>8, HealthGoesOn DEF Reports
  <2>2. QED
    BY <1>8, <2>1 DEF HealthReports
<1>9. CASE CheckWakes
  <2>1. check'.step \in {"ended", "woken"}
    BY <1>9 DEF CheckWakes, TypeOK, CheckType, Ended
  <2>2. QED
    BY <1>9, <2>1 DEF CheckWakes
<1>10. CASE CheckClears
  <2>1. check'.step = "ask" /\ check'.at = 1
    BY <1>10 DEF CheckClears, TypeOK, CheckType
  <2>2. QED
    BY <1>10, <2>1 DEF CheckClears
<1>11. CASE CheckAsks
  <2>1. \/ check'.step = "bad"
        \/ check'.step = "ask" /\ check'.at = check.at + 1
        \/ check'.step = "switch" /\ check'.answer # None
    BY <1>11 DEF CheckAsks, TypeOK, CheckType
  <2>2. check.at \in Nat /\ check.at >= 1
    BY <1>11 DEF CheckAsks, TypeOK, CheckType
  <2>3. QED
    BY <1>11, <2>1, <2>2 DEF CheckAsks
<1>12. CASE CheckSwitches
  <2>1. \/ check'.step = "good"
        \/ check'.step = "ask" /\ check'.at = check.at + 1
    BY <1>12 DEF CheckSwitches, TypeOK, CheckType
  <2>2. check.at \in Nat /\ check.answer \in Nodes
    BY <1>12 DEF CheckSwitches, TypeOK, CheckType
  <2>3. master'.init = master.init
    BY <1>12, <2>2, SwitchIs DEF CheckSwitches, TypeOK
  <2>4. QED
    BY <1>12, <2>1, <2>2, <2>3 DEF CheckSwitches
<1>13. CASE CheckReports
  <2>1. check'.step \notin {"ask", "switch"}
    BY <1>13, CheckGoesOn DEF Reports
  <2>2. QED
    BY <1>13, <2>1 DEF CheckReports
<1>14. CASE \E s \in Sentinels : SubStep(s)
  <2>1. PICK s \in Sentinels : SubStep(s)
    BY <1>14
  <2>2. UNCHANGED <<main, health, check>>
    BY <2>1 DEF SubStep, SubStarts, SubReconnects, SubSwitches, SubEnds
  <2>3. master'.init = master.init
    BY <2>1, SubMaster
  <2>4. QED
    BY <2>2, <2>3
<1>15. CASE Command \/ Environment \/ Repair
  BY <1>15 DEF Command, Environment, Repair, Failover, NodeDown, SentinelDown
<1>16. CASE CommandCrashes \/ FreeBegins \/ FreeStep
  <2>1. main'.step \notin {"sentinels", "master"} /\ UNCHANGED <<health, check>>
    BY <1>16, FreeGoesOn
  <2>2. QED
    BY <2>1
<1>17. QED
  BY <1>1, <1>2, <1>3, <1>4, <1>5, <1>6, <1>7, <1>8, <1>9, <1>10, <1>11, <1>12, <1>13, <1>14, <1>15, <1>16
     DEF Running, InitStep, HealthStep, CheckStep

-----------------------------------------------------------------------------
(* Who is subscribed *)

LEMMA SubscribedFrame ==
    ASSUME SubscribedInv, UNCHANGED <<sent, conn, sub, arg>>, env'.up = env.up, met \subseteq met',
           \/ main' = main
           \/ main.step # "freed" /\ main'.step \notin {"new", "freed", "sentinels"}
    PROVE  SubscribedInv'
<1>1. CASE main' = main
  BY <1>1, Zenon DEF SubscribedInv
<1>2. CASE main.step # "freed" /\ main'.step \notin {"new", "freed", "sentinels"}
  BY <1>2 DEF SubscribedInv
<1>3. QED
  BY <1>1, <1>2

\* A sentinel is subscribed to by whoever finds it not subscribed
LEMMA SubscribedBy ==
    ASSUME TypeOK, SubscribedInv, 0 \notin Sentinels, NEW t \in Sentinels, NEW ok \in BOOLEAN,
           ok => ~sent[t].sub /\ env.up[t],
           IF ok THEN Subscribe(t) ELSE NoSubscription,
           \A s \in Sentinels \ {t} : sent'[s] = sent[s],
           sent'[t].known, sent'[t].sub <=> (sent[t].sub \/ ok),
           main.step \notin {"new", "freed"}, main'.step = main.step,
           main.step = "sentinels" => /\ \A s \in Sentinels : s < main.at => s < main'.at
                                     /\ t < main'.at,
           UNCHANGED <<env, met>>
    PROVE  SubscribedInv'
<1> SUFFICES ASSUME NEW s \in Sentinels
             PROVE  /\ sent'[s].known => main'.step \notin {"new", "freed"} /\ (main'.step = "sentinels" => s < main'.at)
                    /\ sent'[s].sub => sent'[s].known
                    /\ conn'[s] # "none" \/ sub'[s].step # "none" => sent'[s].sub \/ main'.step = "freed"
                    /\ conn'[s] = "subscribed" => env'.up[s]
                    /\ sub'[s].step = "created" => arg' # 0
                    /\ sub'[s].step = "listen" => sub'[s].con # 0
  BY DEF SubscribedInv
<1>1. sent'[s].known => main'.step \notin {"new", "freed"} /\ (main'.step = "sentinels" => s < main'.at)
  BY DEF SubscribedInv
<1>2. sent'[s].sub => sent'[s].known
  BY DEF SubscribedInv
<1>3. CASE ok /\ s = t
  <2>1. conn'[s] = "subscribed" /\ sub'[s].step = "created" /\ arg' = s
    BY <1>3 DEF Subscribe, TypeOK, ConnType, SubType
  <2>2. QED
    BY <1>1, <1>2, <1>3, <2>1
<1>4. CASE ok /\ s # t
  <2>1. conn'[s] = conn[s] /\ sub'[s] = sub[s] /\ arg' # 0
    BY <1>4 DEF Subscribe, TypeOK, ConnType, SubType
  <2>2. QED
    BY <1>1, <1>2, <1>4, <2>1 DEF SubscribedInv
<1>5. CASE ~ok
  <2>1. conn' = conn /\ sub' = sub /\ arg' = arg
    BY <1>5 DEF NoSubscription
  <2>2. sent'[s].sub <=> sent[s].sub
    BY <1>5
  <2>3. QED
    BY <1>1, <1>2, <2>1, <2>2 DEF SubscribedInv
<1>6. QED
  BY <1>3, <1>4, <1>5

LEMMA SubscribedKeptBySub ==
    ASSUME TypeOK, SubscribedInv, NEW t \in Sentinels, SubStep(t)
    PROVE  SubscribedInv'
<1>1. CASE SubStarts(t)
  <2>1. sub' = [sub EXCEPT ![t] = [step |-> "listen", con |-> arg]] /\ sub[t].step = "created"
    BY <1>1 DEF SubStarts
  <2>2. UNCHANGED <<main, sent, conn, arg, env, met>>
    BY <1>1 DEF SubStarts
  <2>3. sub'[t].step = "listen" /\ sub'[t].con = arg /\ \A s \in Sentinels \ {t} : sub'[s] = sub[s]
    BY <2>1 DEF TypeOK, SubType
  <2>4. sub'[t].step = "listen" /\ sub'[t].con = arg /\ arg # 0
    <3>1. sub[t].step = "created" => arg # 0
      BY DEF SubscribedInv
    <3>2. QED
      BY <2>1, <2>3, <3>1
  <2>5. sent[t].sub \/ main.step = "freed"
    BY <2>1 DEF SubscribedInv
  <2>6. QED
    BY <2>1, <2>2, <2>3, <2>4, <2>5 DEF SubscribedInv
<1>2. CASE SubReconnects(t)
  <2> DEFINE c == sub[t].con
  <2>1. c \in Sentinels
    BY <1>2 DEF SubReconnects, TypeOK, SubType, SubscribedInv
  <2>2. conn' = [conn EXCEPT ![c] = "plain"] /\ conn[c] = "lost" /\ met \subseteq met' /\ UNCHANGED <<main, sent, arg, sub, env>>
    BY <1>2 DEF SubReconnects
  <2> HIDE DEF c
  <2>3. conn'[c] = "plain" /\ conn[c] # "none" /\ \A s \in Sentinels \ {c} : conn'[s] = conn[s]
    BY <2>1, <2>2 DEF TypeOK, ConnType
  <2>4. QED
    BY <2>1, <2>2, <2>3 DEF SubscribedInv
<1>3. CASE SubSwitches(t)
  BY <1>3, SubscribedFrame DEF SubSwitches
<1>4. CASE SubEnds(t)
  <2>1. sub' = [sub EXCEPT ![t].step = "ended"] /\ sub[t].step = "listen" /\ UNCHANGED <<main, sent, conn, arg, env, met>>
    BY <1>4 DEF SubEnds
  <2>2. sub'[t].step = "ended" /\ \A s \in Sentinels \ {t} : sub'[s] = sub[s]
    BY <2>1 DEF TypeOK, SubType
  <2>3. QED
    BY <2>1, <2>2 DEF SubscribedInv
<1>5. QED
  BY <1>1, <1>2, <1>3, <1>4 DEF SubStep

LEMMA SubscribedKept ==
    ASSUME ClientAssumption, TypeOK, PlacesInv, SubscribedInv, Running
    PROVE  SubscribedInv'
<1>1. CASE InitThreads
  <2>1. main'.step = "sentinels" /\ main.step = "new" /\ UNCHANGED <<sent, arg, sub, conn, env, met>>
    BY <1>1 DEF InitThreads
  <2>2. \A s \in Sentinels : ~sent[s].known
    BY <2>1 DEF SubscribedInv
  <2>3. QED
    BY <2>1, <2>2 DEF SubscribedInv
<1>2. CASE InitSentinel
  <2>1. main.at \in Sentinels /\ 0 \notin Sentinels
    BY <1>2 DEF InitSentinel, TypeOK, PlacesInv, ClientAssumption, MainType
  <2>2. main'.step = "sentinels" /\ main.step = "sentinels" /\ main'.at = main.at + 1 /\ main.at \in Nat
    BY <1>2 DEF InitSentinel, TypeOK, MainType
  <2>3. PICK ok \in BOOLEAN :
          /\ ok => env.up[main.at]
          /\ IF ok THEN Subscribe(main.at) ELSE NoSubscription
          /\ sent' = [sent EXCEPT ![main.at] = [known |-> TRUE, alive |-> env.up[main.at], sub |-> ok]]
    BY <1>2, Zenon DEF InitSentinel
  <2>4. ~sent[main.at].sub
    <3>1. sent[main.at].known => main.at < main.at
      BY <2>1, <2>2 DEF SubscribedInv
    <3>2. sent[main.at].sub => sent[main.at].known
      BY <2>1 DEF SubscribedInv
    <3>3. QED
      BY <2>2, <3>1, <3>2
  <2>5. /\ sent'[main.at].known /\ (sent'[main.at].sub <=> (sent[main.at].sub \/ ok))
        /\ \A s \in Sentinels \ {main.at} : sent'[s] = sent[s]
    BY <2>1, <2>3, <2>4 DEF TypeOK, SentType
  <2>6. UNCHANGED <<env, met>>
    BY <1>2 DEF InitSentinel
  <2>7. \A s \in Sentinels : s < main.at => s < main'.at
    BY <2>2 DEF ClientAssumption
  <2>8. main.at < main'.at
    BY <2>2
  <2>9. QED
    BY <2>1, <2>2, <2>3, <2>4, <2>5, <2>6, <2>7, <2>8, SubscribedBy
<1>3. CASE InitSentinelsDone
  <2>1. main.step = "sentinels" /\ main'.step \in {"failed", "master"}
    BY <1>3 DEF InitSentinelsDone, TypeOK, MainType
  <2>2. UNCHANGED <<sent, arg, sub, conn, env>> /\ met \subseteq met'
    BY <1>3 DEF InitSentinelsDone
  <2>3. QED
    BY <2>1, <2>2, SubscribedFrame
<1>4. CASE InitMasterSlaves
  <2>1. main.step = "master" /\ main'.step \in {"failed", "ready"}
    BY <1>4 DEF InitMasterSlaves, TypeOK, MainType
  <2>2. UNCHANGED <<sent, arg, sub, conn, env>> /\ met \subseteq met'
    BY <1>4 DEF InitMasterSlaves
  <2>3. QED
    BY <2>1, <2>2, SubscribedFrame
<1>5. CASE HealthWakes \/ HealthAsks
  BY <1>5, SubscribedFrame DEF HealthWakes, HealthAsks
<1>6. CASE HealthReinit
  <2>1. CASE health.at > Last \/ ~sent[health.at].known
    <3>1. UNCHANGED <<main, conn, arg, sub, sent, env>> /\ met \subseteq met'
      BY <1>6, <2>1 DEF HealthReinit, NoSubscription
    <3>2. QED
      BY <3>1, SubscribedFrame
  <2>2. CASE ~(health.at > Last \/ ~sent[health.at].known)
    <3>1. health.at \in Sentinels /\ 0 \notin Sentinels
      <4>1. health.at \in Nat /\ health.at >= 1 /\ ~(health.at > Last)
        BY <1>6, <2>2 DEF HealthReinit, TypeOK, PlacesInv, HealthType
      <4>2. QED
        BY <4>1 DEF ClientAssumption
    <3>2. PICK ok \in BOOLEAN :
            /\ UNCHANGED met /\ (ok => env.up[health.at] /\ ~sent[health.at].sub)
            /\ IF ok THEN Subscribe(health.at) ELSE NoSubscription
            /\ sent' = [sent EXCEPT ![health.at].alive = sent[health.at].alive \/ env.up[health.at], ![health.at].sub = @ \/ ok]
      BY <1>6, <2>2, Zenon DEF HealthReinit
    <3>3. /\ sent'[health.at].known /\ (sent'[health.at].sub <=> (sent[health.at].sub \/ ok))
          /\ \A s \in Sentinels \ {health.at} : sent'[s] = sent[s]
      <4>1. sent \in SentType
        BY DEF TypeOK
      <4> DEFINE a == sent[health.at].alive \/ env.up[health.at]
      <4>2. sent' = [sent EXCEPT ![health.at].alive = a, ![health.at].sub = @ \/ ok]
        BY <3>2, Zenon
      <4> HIDE DEF a
      <4>3. /\ sent'[health.at].known = sent[health.at].known
            /\ sent'[health.at].sub <=> (sent[health.at].sub \/ ok)
            /\ \A s \in Sentinels \ {health.at} : sent'[s] = sent[s]
        BY <3>1, <4>1, <4>2 DEF SentType
      <4>4. QED
        BY <2>2, <4>3
    <3>4. UNCHANGED <<main, env, met>>
      BY <1>6, <3>2 DEF HealthReinit
    <3>5. main.step \notin {"new", "freed"} /\ (main.step = "sentinels" => health.at < main.at)
      BY <2>2, <3>1 DEF SubscribedInv
    <3>6. QED
      BY <3>1, <3>2, <3>3, <3>4, <3>5, SubscribedBy
  <2>3. QED
    BY <2>1, <2>2
<1>7. CASE HealthReports
  BY <1>7, SubscribedFrame DEF HealthReports
<1>8. CASE CheckWakes \/ CheckClears \/ CheckAsks
  BY <1>8, SubscribedFrame DEF CheckWakes, CheckClears, CheckAsks
<1>9. CASE CheckSwitches \/ CheckReports
  BY <1>9, SubscribedFrame DEF CheckSwitches, CheckReports
<1>10. CASE \E s \in Sentinels : SubStep(s)
  BY <1>10, SubscribedKeptBySub
<1>11. CASE Command
  BY <1>11, SubscribedFrame DEF Command
<1>12. CASE CommandCrashes \/ FreeBegins \/ FreeJoins
  <2>1. main.step # "freed" /\ main'.step \notin {"new", "freed", "sentinels"}
    BY <1>12 DEF CommandCrashes, Call, InUse, FreeBegins, FreeJoins, Stopping, JoinedSubs, TypeOK, MainType
  <2>2. UNCHANGED <<sent, conn, sub, arg, env, met>>
    BY <1>12 DEF CommandCrashes, FreeBegins, FreeJoins
  <2>3. QED
    BY <2>1, <2>2, SubscribedFrame
<1>13. CASE FreePools
  <2>1. main'.step = "freed" /\ UNCHANGED <<arg, sub, met>>
    BY <1>13 DEF FreePools, TypeOK, MainType
  <2>2. \A s \in Sentinels : ~sent'[s].known /\ ~sent'[s].sub /\ conn'[s] = "none"
    BY <1>13 DEF FreePools
  <2>3. QED
    BY <2>1, <2>2 DEF SubscribedInv
<1>14. CASE \E n \in Nodes : Failover(n)
  <2>1. PICK n \in Nodes : Failover(n)
    BY <1>14
  <2>2. env'.up = env.up
    BY <2>1 DEF Failover, TypeOK, EnvType
  <2>3. met \subseteq met' /\ UNCHANGED <<main, sent, conn, sub, arg>>
    BY <2>1 DEF Failover
  <2>4. QED
    BY <2>2, <2>3, SubscribedFrame
<1>15. CASE \E n \in Nodes : NodeDown(n)
  <2>1. PICK n \in Nodes : NodeDown(n)
    BY <1>15
  <2>2. env'.up = env.up
    BY <2>1 DEF NodeDown, TypeOK, EnvType
  <2>3. UNCHANGED <<main, sent, conn, sub, arg, met>>
    BY <2>1 DEF NodeDown
  <2>4. QED
    BY <2>2, <2>3, SubscribedFrame
<1>16. CASE \E s \in Sentinels : SentinelDown(s)
  <2>1. PICK t \in Sentinels : SentinelDown(t)
    BY <1>16
  <2>2. \A s \in Sentinels \ {t} : env'.up[s] = env.up[s]
    BY <2>1 DEF SentinelDown, TypeOK, EnvType
  <2>3. /\ \A s \in Sentinels \ {t} : conn'[s] = conn[s]
        /\ conn'[t] \in {"none", "lost"} /\ (conn[t] = "none" => conn'[t] = "none")
    BY <2>1 DEF SentinelDown, TypeOK, ConnType
  <2>4. UNCHANGED <<main, sent, sub, arg, met>>
    BY <2>1 DEF SentinelDown
  <2>5. QED
    BY <2>2, <2>3, <2>4 DEF SubscribedInv
<1>17. CASE Repair
  <2>1. \A s \in Sentinels : env'.up[s]
    BY <1>17 DEF Repair, TypeOK, EnvType
  <2>2. UNCHANGED <<main, sent, conn, sub, arg, met>>
    BY <1>17 DEF Repair
  <2>3. QED
    BY <2>1, <2>2 DEF SubscribedInv
<1>18. QED
  BY <1>1, <1>2, <1>3, <1>4, <1>5, <1>6, <1>7, <1>8, <1>9, <1>10, <1>11, <1>12, <1>13, <1>14, <1>15, <1>16, <1>17
     DEF Running, InitStep, HealthStep, CheckStep, FreeStep, Environment

-----------------------------------------------------------------------------
(* freeRedisClient *)

\* Where the steps of init lead
LEMMA InitGoesOn ==
    ASSUME TypeOK, InitStep
    PROVE  /\ main.step \in {"new", "sentinels", "master"}
           /\ main'.step \in {"sentinels", "master", "failed", "ready"}
           /\ main'.step = "failed" => "init" \in met'
           /\ met \subseteq met'
<1>1. CASE InitThreads
  BY <1>1 DEF InitThreads
<1>2. CASE InitSentinel
  <2>1. main.step = "sentinels" /\ main'.step = "sentinels" /\ met' = met
    BY <1>2 DEF InitSentinel, TypeOK, MainType
  <2>2. QED
    BY <2>1
<1>3. CASE InitSentinelsDone
  <2>1. /\ main.step = "sentinels" /\ met \subseteq met'
        /\ \/ main' = [main EXCEPT !.step = "failed"] /\ "init" \in met'
           \/ main' = [main EXCEPT !.step = "master"]
    BY <1>3 DEF InitSentinelsDone
  <2>2. QED
    BY <2>1 DEF TypeOK, MainType
<1>4. CASE InitMasterSlaves
  <2>1. /\ main.step = "master" /\ met \subseteq met'
        /\ \/ main' = [main EXCEPT !.step = "failed"] /\ "init" \in met'
           \/ main' = [main EXCEPT !.step = "ready"]
    BY <1>4 DEF InitMasterSlaves
  <2>2. QED
    BY <2>1 DEF TypeOK, MainType
<1>5. QED
  BY <1>1, <1>2, <1>3, <1>4 DEF InitStep

LEMMA NotReadyYet ==
    ASSUME TypeOK, InitThreads \/ InitSentinel \/ InitSentinelsDone
    PROVE  main'.step # "ready"
<1>1. CASE InitThreads
  BY <1>1 DEF InitThreads
<1>2. CASE InitSentinel
  BY <1>2 DEF InitSentinel, TypeOK, MainType
<1>3. CASE InitSentinelsDone
  <2>1. main' = [main EXCEPT !.step = "failed"] \/ main' = [main EXCEPT !.step = "master"]
    BY <1>3, Zenon DEF InitSentinelsDone
  <2>2. QED
    BY <2>1 DEF TypeOK, MainType
<1>4. QED
  BY <1>1, <1>2, <1>3

LEMMA JoinedKept ==
    ASSUME TypeOK, JoinedInv, Running
    PROVE  JoinedInv'
<1>1. CASE InitStep
  <2>1. main'.step \in {"sentinels", "master", "failed", "ready"}
    BY <1>1, InitGoesOn
  <2>2. QED
    BY <2>1 DEF JoinedInv
<1>2. CASE HealthStep
  <2>1. health.step \notin {"none", "ended"} /\ UNCHANGED main
    BY <1>2 DEF HealthStep, HealthWakes, HealthReinit, HealthAsks, HealthReports, Reports
  <2>2. QED
    BY <2>1 DEF JoinedInv
<1>3. CASE CheckStep
  <2>1. check.step \notin {"none", "ended"} /\ UNCHANGED <<main, health, sub>>
    BY <1>3 DEF CheckStep, CheckWakes, CheckClears, CheckAsks, CheckSwitches, CheckReports, Reports
  <2>2. QED
    BY <2>1 DEF JoinedInv
<1>4. CASE \E s \in Sentinels : SubStep(s)
  <2>1. UNCHANGED <<main, health, check>> /\ \E s \in Sentinels : sub[s].step \notin {"none", "ended"}
    BY <1>4 DEF SubStep, SubStarts, SubReconnects, SubSwitches, SubEnds
  <2>2. QED
    BY <2>1 DEF JoinedInv
<1>5. CASE CommandCrashes \/ FreeBegins
  <2>1. main'.step \in {"crashed", "stop health"}
    BY <1>5 DEF CommandCrashes, FreeBegins, TypeOK, MainType
  <2>2. QED
    BY <2>1 DEF JoinedInv
<1>6. CASE FreeJoins
  <2>1. /\ UNCHANGED <<sub, health, check>>
        /\ \/ health.step = "ended" /\ main'.step = "stop subs"
           \/ JoinedSubs /\ main'.step = "stop check"
           \/ main.step = "stop check" /\ check.step = "ended" /\ main'.step = "pools"
    BY <1>6 DEF FreeJoins, Stopping, TypeOK, MainType
  <2>2. QED
    BY <2>1 DEF JoinedInv, JoinedSubs, Stopping
<1>7. CASE FreePools
  <2>1. main.step = "pools" /\ main'.step = "freed" /\ UNCHANGED <<sub, health, check>>
    BY <1>7 DEF FreePools, TypeOK, MainType
  <2>2. QED
    BY <2>1 DEF JoinedInv
<1>8. CASE Command \/ Environment \/ Repair
  <2>1. UNCHANGED <<main, sub, health, check>>
    BY <1>8 DEF Command, Environment, Failover, NodeDown, SentinelDown, Repair
  <2>2. QED
    BY <2>1 DEF JoinedInv
<1>9. QED
  BY <1>1, <1>2, <1>3, <1>4, <1>5, <1>6, <1>7, <1>8 DEF Running, FreeStep

-----------------------------------------------------------------------------
(* The master's pool *)

\* A switch gives the new master its pool
LEMMA SwitchKeeps ==
    ASSUME TypeOK, MasterInv, "none" \notin Nodes, UNCHANGED main, met \subseteq met',
           \/ UNCHANGED master
           \/ \E n \in Nodes : master' = DoSwitchMaster(master, n).m
    PROVE  MasterInv'
<1>1. CASE UNCHANGED master
  BY <1>1 DEF MasterInv
<1>2. CASE \E n \in Nodes : master' = DoSwitchMaster(master, n).m
  <2>1. PICK n \in Nodes : master' = DoSwitchMaster(master, n).m
    BY <1>2
  <2>2. /\ master'.id = n
        /\ master.id = n \/ master'.node[n] \in {"pool", "alive"}
        /\ master.id = n => master' = master
    BY <2>1, SwitchIs DEF TypeOK
  <2>3. QED
    BY <2>2 DEF MasterInv, None
<1>3. QED
  BY <1>1, <1>2

LEMMA MasterKept ==
    ASSUME ClientAssumption, TypeOK, PlacesInv, SubscribedInv, MasterInv, Running
    PROVE  MasterInv'
<1>0. "none" \notin Nodes
  BY DEF ClientAssumption
<1>1. CASE InitThreads \/ InitSentinel \/ InitSentinelsDone
  <2>1. main'.step # "ready"
    BY <1>1, NotReadyYet
  <2>2. main'.step \in {"sentinels", "master", "failed", "ready"} /\ (main'.step = "failed" => "init" \in met')
    BY <1>1, InitGoesOn DEF InitStep
  <2>3. QED
    BY <2>1, <2>2 DEF MasterInv
<1>2. CASE InitMasterSlaves
  <2>1. main'.step \in {"sentinels", "master", "failed", "ready"} /\ (main'.step = "failed" => "init" \in met')
    BY <1>2, InitGoesOn DEF InitStep
  <2>2. CASE main'.step = "ready"
    <3> DEFINE m == [master EXCEPT !.id = master.init]
               opened == Connected(m, master.init)
    <3>1. m \in MasterType /\ master.init \in Nodes /\ m.id = master.init
      BY <1>2 DEF InitMasterSlaves, TypeOK, MasterType, PlacesInv
    <3>2. opened \in MasterType /\ opened.id = master.init
      BY <3>1, ConnectedIs
    <3>3. /\ opened.node[master.init] = "alive"
          /\ \E named \in {{}, Known \ {master.init}} :
               master' = [opened EXCEPT !.node = [x \in Nodes |-> IF x \in named THEN "null" ELSE opened.node[x]]]
      <4>1. main' # [main EXCEPT !.step = "failed"]
        BY <2>2 DEF TypeOK, MainType
      <4>2. QED
        BY <1>2, <4>1, Zenon DEF InitMasterSlaves
    <3> HIDE DEF opened
    <3>4. master'.id = master.init /\ master'.node[master.init] = "alive"
      BY <3>1, <3>2, <3>3 DEF MasterType
    <3>5. QED
      BY <1>0, <2>2, <3>1, <3>4 DEF MasterInv, None
  <2>3. CASE main'.step # "ready"
    BY <2>1, <2>3 DEF MasterInv
  <2>4. QED
    BY <2>2, <2>3
<1>3. CASE HealthStep
  <2>1. UNCHANGED <<main, master>> /\ met \subseteq met'
    BY <1>3 DEF HealthStep, HealthWakes, HealthReinit, HealthAsks, HealthReports
  <2>2. QED
    BY <2>1 DEF MasterInv
<1>4. CASE CheckWakes \/ CheckClears \/ CheckAsks \/ CheckReports
  <2>1. UNCHANGED <<main, master>> /\ met \subseteq met'
    BY <1>4 DEF CheckWakes, CheckClears, CheckAsks, CheckReports
  <2>2. QED
    BY <2>1 DEF MasterInv
<1>5. CASE CheckSwitches
  <2>1. check.answer \in Nodes
    BY <1>5 DEF CheckSwitches, TypeOK, CheckType, PlacesInv
  <2>2. master' = DoSwitchMaster(master, check.answer).m /\ UNCHANGED main /\ met \subseteq met'
    BY <1>5 DEF CheckSwitches
  <2>3. QED
    BY <1>0, <2>1, <2>2, SwitchKeeps
<1>6. CASE \E s \in Sentinels : SubStep(s)
  <2>1. UNCHANGED main /\ met \subseteq met'
    BY <1>6 DEF SubStep, SubStarts, SubReconnects, SubSwitches, SubEnds
  <2>2. QED
    BY <1>0, <1>6, <2>1, SubMaster, SwitchKeeps
<1>7. CASE CommandCrashes
  <2>1. NoPool /\ UNCHANGED met /\ main'.step = "crashed" /\ main.step \in {"ready", "failed"}
    BY <1>7 DEF CommandCrashes, Call, InUse, TypeOK, MainType
  <2>2. main.step # "ready"
    BY <2>1 DEF NoPool, MasterInv
  <2>3. QED
    BY <2>1, <2>2 DEF MasterInv
<1>8. CASE FreeBegins \/ FreeStep
  <2>1. main'.step \in {"stop health", "stop subs", "stop check", "pools", "freed"}
    BY <1>8 DEF FreeBegins, FreeStep, FreeJoins, FreePools, TypeOK, MainType
  <2>2. QED
    BY <2>1 DEF MasterInv
<1>9. CASE Command \/ Environment \/ Repair
  <2>1. UNCHANGED <<main, master>> /\ met \subseteq met'
    BY <1>9 DEF Command, Environment, Failover, NodeDown, SentinelDown, Repair
  <2>2. QED
    BY <2>1 DEF MasterInv
<1>10. QED
  BY <1>1, <1>2, <1>3, <1>4, <1>5, <1>6, <1>7, <1>8, <1>9 DEF Running, InitStep, CheckStep

-----------------------------------------------------------------------------
(* The status and the callback *)

\* A step that neither begins nor makes a report
LEMMA StatusFrame ==
    ASSUME StatusInv, met \subseteq met', UNCHANGED <<status, told>>,
           health'.step \in Reports <=> health.step \in Reports, check'.step \in Reports <=> check.step \in Reports,
           health'.step \in Reports => health'.step = health.step, check'.step \in Reports => check'.step = check.step
    PROVE  StatusInv'
  BY DEF StatusInv, ReportInv

\* A step of a report, by the only thread that reports
LEMMA ReportKeeps ==
    ASSUME TypeOK, NEW x \in Reports, ReportInv(x), Reported(x)
    PROVE  /\ ReportStep(x) = "over" => told' = status'
           /\ ReportStep(x) \in {"bad", "good", "tellgood"} => told' = status'
           /\ ReportStep(x) = "tellbad" => status' = Recoverable
           /\ ReportStep(x) = "set" => told' = Normal
<1> USE DEF Normal, Recoverable
<1>1. CASE x = "bad"
  BY <1>1 DEF ReportInv, Reported, ReportStep
<1>2. CASE x = "tellbad"
  BY <1>2 DEF ReportInv, Reported, ReportStep
<1>3. CASE x = "good"
  BY <1>3 DEF ReportInv, Reported, ReportStep, TypeOK
<1>4. CASE x = "tellgood"
  BY <1>4 DEF ReportInv, Reported, ReportStep
<1>5. CASE x = "set"
  BY <1>5 DEF ReportInv, Reported, ReportStep
<1>6. QED
  BY <1>1, <1>2, <1>3, <1>4, <1>5 DEF Reports

\* A report begins
LEMMA ReportBegins ==
    ASSUME StatusInv, met \subseteq met', UNCHANGED <<status, told>>,
           \/ health.step \notin Reports /\ health'.step \in {"good", "bad"} /\ UNCHANGED check
           \/ check.step \notin Reports /\ check'.step \in {"good", "bad"} /\ UNCHANGED health
    PROVE  StatusInv'
  BY DEF StatusInv, ReportInv, Reports

LEMMA StatusKeptByHealth ==
    ASSUME TypeOK, StatusInv, HealthStep
    PROVE  StatusInv'
<1>1. CASE HealthWakes
  <2>1. health.step = "sleep" /\ health'.step \in {"quorum", "reinit"}
    BY <1>1 DEF HealthWakes, TypeOK, HealthType
  <2>2. UNCHANGED <<check, status, told, met>>
    BY <1>1 DEF HealthWakes
  <2>3. QED
    BY <2>1, <2>2, StatusFrame DEF Reports
<1>2. CASE HealthReinit
  <2>1. health.step = "reinit" /\ health'.step \in {"quorum", "reinit"}
    BY <1>2 DEF HealthReinit, TypeOK, HealthType
  <2>2. UNCHANGED <<check, status, told>> /\ met \subseteq met'
    BY <1>2 DEF HealthReinit
  <2>3. QED
    BY <2>1, <2>2, StatusFrame DEF Reports
<1>3. CASE HealthAsks
  <2>1. health.step = "quorum" /\ health'.step \in {"good", "bad"}
    BY <1>3 DEF HealthAsks, TypeOK, HealthType
  <2>2. UNCHANGED <<check, status, told, met>>
    BY <1>3 DEF HealthAsks
  <2>3. QED
    BY <2>1, <2>2, ReportBegins DEF Reports
<1>4. CASE HealthReports
  <2>1. health.step \in Reports /\ Reported(health.step) /\ UNCHANGED check /\ met' = met \cup Overlap
    BY <1>4 DEF HealthReports
  <2>2. CASE met' \cap {"overlap", "init"} # {}
    BY <2>2 DEF StatusInv
  <2>3. CASE met' \cap {"overlap", "init"} = {}
    <3>1. check.step \notin Reports /\ met \cap {"overlap", "init"} = {}
      BY <2>1, <2>3 DEF Overlap
    <3>2. ReportInv(health.step)
      BY <2>1, <3>1 DEF StatusInv
    <3>3. CASE ReportStep(health.step) = "over"
      <4>1. told' = status' /\ health'.step \notin Reports
        BY <1>4, <2>1, <3>2, <3>3, ReportKeeps, HealthGoesOn DEF Reports
      <4>2. QED
        BY <2>1, <3>1, <4>1 DEF StatusInv
    <3>4. CASE ReportStep(health.step) # "over"
      <4>1. /\ health'.step \in Reports /\ health'.step = ReportStep(health.step)
            /\ health'.step \in {"bad", "good", "tellgood"} => told' = status'
            /\ health'.step = "tellbad" => status' = Recoverable
            /\ health'.step = "set" => told' = Normal
        BY <1>4, <2>1, <3>2, <3>4, ReportKeeps, HealthGoesOn
      <4>2. QED
        BY <2>1, <3>1, <4>1 DEF StatusInv, ReportInv
    <3>5. QED
      BY <3>3, <3>4
  <2>4. QED
    BY <2>2, <2>3
<1>5. QED
  BY <1>1, <1>2, <1>3, <1>4 DEF HealthStep

LEMMA StatusKeptByCheck ==
    ASSUME TypeOK, StatusInv, CheckStep
    PROVE  StatusInv'
<1>1. CASE CheckWakes
  <2>1. check.step = "wait" /\ check'.step \in {"woken", "ended"}
    BY <1>1 DEF CheckWakes, TypeOK, CheckType, Ended
  <2>2. UNCHANGED <<health, status, told, met>>
    BY <1>1 DEF CheckWakes
  <2>3. QED
    BY <2>1, <2>2, StatusFrame DEF Reports
<1>2. CASE CheckClears
  <2>1. check.step = "woken" /\ check'.step = "ask"
    BY <1>2 DEF CheckClears, TypeOK, CheckType
  <2>2. UNCHANGED <<health, status, told, met>>
    BY <1>2 DEF CheckClears
  <2>3. QED
    BY <2>1, <2>2, StatusFrame DEF Reports
<1>3. CASE CheckAsks
  <2>1. check.step = "ask" /\ check'.step \in {"bad", "ask", "switch"}
    BY <1>3 DEF CheckAsks, TypeOK, CheckType
  <2>2. UNCHANGED <<health, status, told, met>>
    BY <1>3 DEF CheckAsks
  <2>3. CASE check'.step = "bad"
    BY <2>1, <2>2, <2>3, ReportBegins DEF Reports
  <2>4. CASE check'.step # "bad"
    BY <2>1, <2>2, <2>4, StatusFrame DEF Reports
  <2>5. QED
    BY <2>3, <2>4
<1>4. CASE CheckSwitches
  <2>1. check.step = "switch" /\ check'.step \in {"good", "ask"}
    BY <1>4 DEF CheckSwitches, TypeOK, CheckType
  <2>2. UNCHANGED <<health, status, told>> /\ met \subseteq met'
    BY <1>4 DEF CheckSwitches
  <2>3. CASE check'.step = "good"
    BY <2>1, <2>2, <2>3, ReportBegins DEF Reports
  <2>4. CASE check'.step # "good"
    BY <2>1, <2>2, <2>4, StatusFrame DEF Reports
  <2>5. QED
    BY <2>3, <2>4
<1>5. CASE CheckReports
  <2>1. check.step \in Reports /\ Reported(check.step) /\ UNCHANGED health /\ met' = met \cup Overlap
    BY <1>5 DEF CheckReports
  <2>2. CASE met' \cap {"overlap", "init"} # {}
    BY <2>2 DEF StatusInv
  <2>3. CASE met' \cap {"overlap", "init"} = {}
    <3>1. health.step \notin Reports /\ met \cap {"overlap", "init"} = {}
      BY <2>1, <2>3 DEF Overlap
    <3>2. ReportInv(check.step)
      BY <2>1, <3>1 DEF StatusInv
    <3>3. CASE ReportStep(check.step) = "over"
      <4>1. told' = status' /\ check'.step \notin Reports
        BY <1>5, <2>1, <3>2, <3>3, ReportKeeps, CheckGoesOn DEF Reports
      <4>2. QED
        BY <2>1, <3>1, <4>1 DEF StatusInv
    <3>4. CASE ReportStep(check.step) # "over"
      <4>1. /\ check'.step \in Reports /\ check'.step = ReportStep(check.step)
            /\ check'.step \in {"bad", "good", "tellgood"} => told' = status'
            /\ check'.step = "tellbad" => status' = Recoverable
            /\ check'.step = "set" => told' = Normal
        BY <1>5, <2>1, <3>2, <3>4, ReportKeeps, CheckGoesOn
      <4>2. QED
        BY <2>1, <3>1, <4>1 DEF StatusInv, ReportInv
    <3>5. QED
      BY <3>3, <3>4
  <2>4. QED
    BY <2>2, <2>3
<1>6. QED
  BY <1>1, <1>2, <1>3, <1>4, <1>5 DEF CheckStep

LEMMA StatusKept ==
    ASSUME TypeOK, JoinedInv, StatusInv, Running
    PROVE  StatusInv'
<1>1. CASE InitThreads
  <2>1. health'.step = "sleep" /\ check'.step = "wait" /\ health.step = "none" /\ check.step = "none"
    BY <1>1 DEF InitThreads, JoinedInv, TypeOK, HealthType, CheckType
  <2>2. UNCHANGED <<status, told, met>>
    BY <1>1 DEF InitThreads
  <2>3. QED
    BY <2>1, <2>2, StatusFrame DEF Reports
<1>2. CASE InitSentinel
  BY <1>2, StatusFrame DEF InitSentinel
<1>3. CASE InitSentinelsDone \/ InitMasterSlaves
  <2>1. "init" \in met' \/ (UNCHANGED told /\ met \subseteq met')
    BY <1>3 DEF InitSentinelsDone, InitMasterSlaves
  <2>2. UNCHANGED <<health, check, status>>
    BY <1>3 DEF InitSentinelsDone, InitMasterSlaves
  <2>3. CASE "init" \in met'
    BY <2>3 DEF StatusInv
  <2>4. CASE UNCHANGED told /\ met \subseteq met'
    BY <2>2, <2>4, StatusFrame
  <2>5. QED
    BY <2>1, <2>3, <2>4
<1>4. CASE HealthStep
  BY <1>4, StatusKeptByHealth
<1>5. CASE CheckStep
  BY <1>5, StatusKeptByCheck
<1>6. CASE ~(InitStep \/ HealthStep \/ CheckStep)
  <2>1. UNCHANGED <<health, check, status, told>> /\ met \subseteq met'
    BY <1>6 DEF Running, SubStep, SubStarts, SubReconnects, SubSwitches, SubEnds, Command, CommandCrashes, FreeBegins,
                FreeStep, FreeJoins, FreePools, Environment, Failover, NodeDown, SentinelDown, Repair
  <2>2. QED
    BY <2>1, StatusFrame
<1>7. QED
  BY <1>1, <1>2, <1>3, <1>4, <1>5, <1>6 DEF InitStep

-----------------------------------------------------------------------------
(* The announcements *)

\* Nothing is announced, read or lost
LEMMA AnnouncedFrame ==
    ASSUME AnnouncedInv, met \subseteq met', UNCHANGED <<conn, inbox>>, env'.real = env.real
    PROVE  AnnouncedInv'
  BY DEF AnnouncedInv, Misled

\* A new subscription begins with an empty inbox
LEMMA AnnouncedBy ==
    ASSUME TypeOK, AnnouncedInv, NEW t \in Sentinels, NEW ok \in BOOLEAN, ok => conn[t] = "none",
           IF ok THEN Subscribe(t) ELSE NoSubscription, UNCHANGED <<inbox, env, met>>
    PROVE  AnnouncedInv'
<1>1. CASE ok
  <2>1. conn[t] = "none" /\ conn'[t] = "subscribed" /\ \A s \in Sentinels \ {t} : conn'[s] = conn[s]
    BY <1>1 DEF Subscribe, TypeOK, ConnType
  <2>2. QED
    BY <2>1 DEF AnnouncedInv, Misled
<1>2. CASE ~ok
  BY <1>2, AnnouncedFrame DEF NoSubscription
<1>3. QED
  BY <1>1, <1>2

LEMMA OnlyOne ==
    ASSUME NEW S, NEW q \in Seq(S), q # <<>>, Tail(q) = <<>>
    PROVE  Len(q) = 1
<1>1. Len(Tail(q)) = Len(<<>>)
  BY Zenon
<1>2. QED
  BY <1>1

LEMMA LastOfTail ==
    ASSUME NEW S, NEW q \in Seq(S), q # <<>>
    PROVE  /\ Tail(q) # <<>> => Tail(q)[Len(Tail(q))] = q[Len(q)]
           /\ Tail(q) = <<>> => Head(q) = q[Len(q)]
<1>1. Len(q) \in Nat /\ Len(q) >= 1 /\ Len(Tail(q)) = Len(q) - 1 /\ Tail(q) \in Seq(S)
  OBVIOUS
<1>2. \A i \in 1 .. Len(Tail(q)) : Tail(q)[i] = q[i + 1]
  OBVIOUS
<1>3. ASSUME Tail(q) # <<>> PROVE Tail(q)[Len(Tail(q))] = q[Len(q)]
  <2>1. Len(Tail(q)) >= 1
    BY <1>1, <1>3
  <2>2. QED
    BY <1>1, <1>2, <2>1
<1>4. ASSUME Tail(q) = <<>> PROVE Head(q) = q[Len(q)]
  <2>1. Len(q) = 1
    BY <1>4, OnlyOne
  <2>2. QED
    BY <2>1
<1>5. QED
  BY <1>3, <1>4

LEMMA AnnouncedKeptBySub ==
    ASSUME TypeOK, SubscribedInv, AnnouncedInv, NEW t \in Sentinels, SubStep(t)
    PROVE  AnnouncedInv'
<1>1. CASE SubStarts(t) \/ SubEnds(t)
  BY <1>1, AnnouncedFrame DEF SubStarts, SubEnds
<1>2. CASE SubReconnects(t)
  <2>1. "deaf" \in met'
    BY <1>2 DEF SubReconnects
  <2>2. QED
    BY <2>1 DEF AnnouncedInv, Misled
<1>3. CASE SubSwitches(t)
  <2> DEFINE c == sub[t].con
  <2>1. c \in Sentinels /\ inbox[c] # <<>>
    BY <1>3 DEF SubSwitches, TypeOK, SubType, SubscribedInv
  <2>2. inbox' = [inbox EXCEPT ![c] = Tail(inbox[c])] /\ UNCHANGED <<conn, env, met>>
    BY <1>3 DEF SubSwitches
  <2> HIDE DEF c
  <2>3. inbox[c] \in Seq(Nodes)
    BY <2>1 DEF TypeOK
  <2>4. inbox'[c] = Tail(inbox[c]) /\ \A s \in Sentinels \ {c} : inbox'[s] = inbox[s]
    BY <2>1, <2>2 DEF TypeOK
  <2>5. inbox'[c] # <<>> => inbox'[c][Len(inbox'[c])] = inbox[c][Len(inbox[c])]
    BY <2>1, <2>3, <2>4, LastOfTail
  <2>6. QED
    BY <2>1, <2>2, <2>4, <2>5 DEF AnnouncedInv, Misled
<1>4. QED
  BY <1>1, <1>2, <1>3 DEF SubStep

LEMMA AnnouncedKeptByWorld ==
    ASSUME TypeOK, SubscribedInv, AnnouncedInv, Environment \/ Repair
    PROVE  AnnouncedInv'
<1>1. CASE \E n \in Nodes : Failover(n)
  <2>1. PICK n \in Nodes : Failover(n)
    BY <1>1
  <2>2. env'.real = n /\ UNCHANGED conn /\ met \subseteq met'
    BY <2>1 DEF Failover, TypeOK, EnvType
  <2>3. inbox' = [s \in Sentinels |-> IF s \in Heard THEN Append(inbox[s], n) ELSE inbox[s]]
    BY <2>1 DEF Failover
  <2>4. \A s \in Sentinels : s \in Heard <=> conn[s] = "subscribed"
    BY DEF Heard, SubscribedInv
  <2>5. ASSUME ~Misled', \A s \in Sentinels : conn'[s] # "lost", NEW s \in Sentinels, inbox'[s] # <<>>
        PROVE  inbox'[s][Len(inbox'[s])] = env'.real /\ conn'[s] = "subscribed"
    <3>1. inbox[s] # <<>> => conn[s] = "subscribed"
      BY <2>2, <2>5 DEF AnnouncedInv, Misled
    <3>2. s \in Heard /\ conn[s] = "subscribed"
      BY <2>3, <2>4, <2>5, <3>1
    <3>3. inbox[s] \in Seq(Nodes) /\ inbox'[s] = Append(inbox[s], n)
      BY <2>3, <3>2 DEF TypeOK
    <3>4. inbox'[s][Len(inbox'[s])] = n
      BY <3>3
    <3>5. QED
      BY <2>2, <3>2, <3>4
  <2>6. QED
    BY <2>5 DEF AnnouncedInv
<1>2. CASE \E n \in Nodes : NodeDown(n)
  <2>1. UNCHANGED <<conn, inbox, met>> /\ env'.real = env.real
    BY <1>2 DEF NodeDown, TypeOK, EnvType
  <2>2. QED
    BY <2>1, AnnouncedFrame
<1>3. CASE \E s \in Sentinels : SentinelDown(s)
  <2>1. PICK t \in Sentinels : SentinelDown(t)
    BY <1>3
  <2>2. UNCHANGED <<inbox, met>> /\ env'.real = env.real
    BY <2>1 DEF SentinelDown, TypeOK, EnvType
  <2>3. conn' = conn \/ conn'[t] = "lost"
    BY <2>1 DEF SentinelDown, TypeOK, ConnType
  <2>4. CASE conn' = conn
    BY <2>2, <2>4, AnnouncedFrame
  <2>5. CASE conn'[t] = "lost"
    BY <2>1, <2>5 DEF AnnouncedInv
  <2>6. QED
    BY <2>3, <2>4, <2>5
<1>4. CASE Repair
  <2>1. UNCHANGED <<conn, inbox, met>> /\ env'.real = env.real
    BY <1>4 DEF Repair, TypeOK, EnvType
  <2>2. QED
    BY <2>1, AnnouncedFrame
<1>5. QED
  BY <1>1, <1>2, <1>3, <1>4 DEF Environment

\* Whoever subscribes to a sentinel finds it without a subscribed connection
LEMMA NotSubscribed ==
    ASSUME SubscribedInv, NEW s \in Sentinels, ~sent[s].sub, main.step # "freed"
    PROVE  conn[s] = "none"
  BY DEF SubscribedInv

LEMMA InitSubscribes ==
    ASSUME ClientAssumption, TypeOK, PlacesInv, SubscribedInv, InitSentinel
    PROVE  \E s \in Sentinels, ok \in BOOLEAN :
             (ok => conn[s] = "none") /\ IF ok THEN Subscribe(s) ELSE NoSubscription
<1>1. main.at \in Sentinels /\ main.at \in Nat /\ main.step = "sentinels"
  BY DEF InitSentinel, TypeOK, PlacesInv, ClientAssumption, MainType
<1>2. PICK ok \in BOOLEAN : IF ok THEN Subscribe(main.at) ELSE NoSubscription
  BY Zenon DEF InitSentinel
<1>3. sent[main.at].known => main.at < main.at
  BY <1>1 DEF SubscribedInv
<1>4. sent[main.at].sub => sent[main.at].known
  BY <1>1 DEF SubscribedInv
<1>5. ~sent[main.at].sub
  BY <1>1, <1>3, <1>4
<1>6. conn[main.at] = "none"
  BY <1>1, <1>5, NotSubscribed
<1>7. QED
  BY <1>1, <1>2, <1>6

LEMMA HealthSubscribes ==
    ASSUME ClientAssumption, TypeOK, PlacesInv, SubscribedInv, HealthReinit
    PROVE  \/ NoSubscription /\ met \subseteq met'
           \/ /\ met' = met
              /\ \E s \in Sentinels, ok \in BOOLEAN :
                   (ok => conn[s] = "none") /\ IF ok THEN Subscribe(s) ELSE NoSubscription
<1>1. CASE health.at > Last \/ ~sent[health.at].known
  BY <1>1 DEF HealthReinit
<1>2. CASE ~(health.at > Last \/ ~sent[health.at].known)
  <2>1. health.at \in Sentinels
    <3>1. health.at \in Nat /\ health.at >= 1 /\ ~(health.at > Last)
      BY <1>2 DEF HealthReinit, TypeOK, PlacesInv, HealthType
    <3>2. QED
      BY <3>1 DEF ClientAssumption
  <2>2. PICK ok \in BOOLEAN :
          /\ UNCHANGED met /\ (ok => ~sent[health.at].sub)
          /\ IF ok THEN Subscribe(health.at) ELSE NoSubscription
    BY <1>2, Zenon DEF HealthReinit
  <2>3. main.step # "freed"
    BY <1>2, <2>1 DEF SubscribedInv
  <2>4. ok => conn[health.at] = "none"
    BY <2>1, <2>2, <2>3, NotSubscribed
  <2>5. QED
    BY <2>1, <2>2, <2>4
<1>3. QED
  BY <1>1, <1>2

LEMMA AnnouncedKept ==
    ASSUME ClientAssumption, TypeOK, PlacesInv, SubscribedInv, AnnouncedInv, Running
    PROVE  AnnouncedInv'
<1>1. CASE InitSentinel
  <2>1. UNCHANGED <<inbox, env, met>>
    BY <1>1 DEF InitSentinel
  <2>2. QED
    BY <1>1, <2>1, InitSubscribes, AnnouncedBy
<1>2. CASE InitThreads \/ InitSentinelsDone \/ InitMasterSlaves
  <2>1. UNCHANGED <<conn, inbox, env>>
    BY <1>2 DEF InitThreads, InitSentinelsDone, InitMasterSlaves
  <2>2. met \subseteq met'
    BY <1>2, InitGoesOn DEF InitStep
  <2>3. QED
    BY <2>1, <2>2, AnnouncedFrame
<1>3. CASE HealthReinit
  <2>1. UNCHANGED <<inbox, env>>
    BY <1>3 DEF HealthReinit
  <2>2. CASE NoSubscription /\ met \subseteq met'
    BY <2>1, <2>2, AnnouncedFrame DEF NoSubscription
  <2>3. CASE ~(NoSubscription /\ met \subseteq met')
    BY <1>3, <2>1, <2>3, HealthSubscribes, AnnouncedBy
  <2>4. QED
    BY <2>2, <2>3
<1>4. CASE HealthWakes \/ HealthAsks \/ HealthReports
  BY <1>4, AnnouncedFrame DEF HealthWakes, HealthAsks, HealthReports
<1>5. CASE CheckStep
  <2>1. UNCHANGED <<conn, inbox, env>> /\ met \subseteq met'
    BY <1>5 DEF CheckStep, CheckWakes, CheckClears, CheckAsks, CheckSwitches, CheckReports
  <2>2. QED
    BY <2>1, AnnouncedFrame
<1>6. CASE \E s \in Sentinels : SubStep(s)
  BY <1>6, AnnouncedKeptBySub
<1>7. CASE Command \/ CommandCrashes \/ FreeBegins \/ FreeJoins
  BY <1>7, AnnouncedFrame DEF Command, CommandCrashes, FreeBegins, FreeJoins
<1>8. CASE FreePools
  <2>1. \A s \in Sentinels : inbox'[s] = <<>>
    BY <1>8 DEF FreePools
  <2>2. QED
    BY <2>1 DEF AnnouncedInv
<1>9. CASE Environment \/ Repair
  BY <1>9, AnnouncedKeptByWorld
<1>10. QED
  BY <1>1, <1>2, <1>3, <1>4, <1>5, <1>6, <1>7, <1>8, <1>9 DEF Running, InitStep, HealthStep, FreeStep

-----------------------------------------------------------------------------
(* The master is followed *)

LEMMA FollowsFrame ==
    ASSUME FollowsFailover, met \subseteq met', UNCHANGED <<conn, inbox>>, env'.real = env.real, master'.id = master.id,
           main'.step = "ready" => main.step = "ready"
    PROVE  FollowsFailover'
  BY DEF FollowsFailover, Misled

LEMMA FollowsBy ==
    ASSUME TypeOK, FollowsFailover, NEW t \in Sentinels, NEW ok \in BOOLEAN, ok => conn[t] = "none",
           IF ok THEN Subscribe(t) ELSE NoSubscription, UNCHANGED <<main, inbox, master, env, met>>
    PROVE  FollowsFailover'
<1>1. CASE ok
  <2>1. conn[t] = "none" /\ \A s \in Sentinels \ {t} : conn'[s] = conn[s]
    BY <1>1 DEF Subscribe, TypeOK, ConnType
  <2>2. QED
    BY <2>1 DEF FollowsFailover, Misled
<1>2. CASE ~ok
  BY <1>2, FollowsFrame DEF NoSubscription
<1>3. QED
  BY <1>1, <1>2

LEMMA FollowsKeptBySub ==
    ASSUME TypeOK, SubscribedInv, AnnouncedInv, FollowsFailover, NEW t \in Sentinels, SubStep(t)
    PROVE  FollowsFailover'
<1>1. CASE SubStarts(t) \/ SubEnds(t)
  BY <1>1, FollowsFrame DEF SubStarts, SubEnds
<1>2. CASE SubReconnects(t)
  <2>1. "deaf" \in met'
    BY <1>2 DEF SubReconnects
  <2>2. QED
    BY <2>1 DEF FollowsFailover, Misled
<1>3. CASE SubSwitches(t)
  <2> DEFINE c == sub[t].con
  <2>1. c \in Sentinels /\ inbox[c] # <<>>
    BY <1>3 DEF SubSwitches, TypeOK, SubType, SubscribedInv
  <2>2. /\ inbox' = [inbox EXCEPT ![c] = Tail(inbox[c])] /\ UNCHANGED <<conn, env, met>>
        /\ master' = DoSwitchMaster(master, Head(inbox[c])).m
    BY <1>3 DEF SubSwitches
  <2> HIDE DEF c
  <2>3. inbox[c] \in Seq(Nodes)
    BY <2>1 DEF TypeOK
  <2>4. Head(inbox[c]) \in Nodes
    BY <2>1, <2>3
  <2>5. master'.id = Head(inbox[c])
    BY <2>2, <2>4, SwitchIs DEF TypeOK
  <2>6. inbox'[c] = Tail(inbox[c])
    BY <2>1, <2>2 DEF TypeOK
  <2>7. inbox'[c] = <<>> => Head(inbox[c]) = inbox[c][Len(inbox[c])]
    BY <2>1, <2>3, <2>6, LastOfTail
  <2>8. ~Misled /\ (\A s \in Sentinels : conn[s] # "lost") => inbox[c][Len(inbox[c])] = env.real
    BY <2>1 DEF AnnouncedInv
  <2>9. QED
    BY <2>1, <2>2, <2>5, <2>7, <2>8 DEF FollowsFailover, Misled
<1>4. QED
  BY <1>1, <1>2, <1>3 DEF SubStep

LEMMA FollowsKeptByWorld ==
    ASSUME TypeOK, FollowsFailover, Environment \/ Repair
    PROVE  FollowsFailover'
<1>1. CASE \E n \in Nodes : Failover(n)
  <2>1. PICK n \in Nodes : Failover(n)
    BY <1>1
  <2>2. inbox' = [s \in Sentinels |-> IF s \in Heard THEN Append(inbox[s], n) ELSE inbox[s]]
    BY <2>1 DEF Failover
  <2>3. CASE Heard = {}
    <3>1. "unheard" \in met'
      BY <2>1, <2>3 DEF Failover
    <3>2. QED
      BY <3>1 DEF FollowsFailover, Misled
  <2>4. CASE Heard # {}
    <3>1. PICK s \in Heard : TRUE
      BY <2>4
    <3>2. s \in Sentinels /\ inbox[s] \in Seq(Nodes)
      BY <3>1 DEF Heard, TypeOK
    <3>3. inbox'[s] = Append(inbox[s], n)
      BY <2>2, <3>1, <3>2
    <3>4. inbox'[s] # <<>>
      BY <3>2, <3>3
    <3>5. QED
      BY <3>2, <3>4 DEF FollowsFailover
  <2>5. QED
    BY <2>3, <2>4
<1>2. CASE \E n \in Nodes : NodeDown(n)
  <2>1. UNCHANGED <<main, conn, inbox, master, met>> /\ env'.real = env.real
    BY <1>2 DEF NodeDown, TypeOK, EnvType
  <2>2. QED
    BY <2>1, FollowsFrame
<1>3. CASE \E s \in Sentinels : SentinelDown(s)
  <2>1. PICK t \in Sentinels : SentinelDown(t)
    BY <1>3
  <2>2. UNCHANGED <<main, inbox, master, met>> /\ env'.real = env.real
    BY <2>1 DEF SentinelDown, TypeOK, EnvType
  <2>3. conn' = conn \/ conn'[t] = "lost"
    BY <2>1 DEF SentinelDown, TypeOK, ConnType
  <2>4. CASE conn' = conn
    BY <2>2, <2>4, FollowsFrame
  <2>5. CASE conn'[t] = "lost"
    BY <2>1, <2>5 DEF FollowsFailover
  <2>6. QED
    BY <2>3, <2>4, <2>5
<1>4. CASE Repair
  <2>1. UNCHANGED <<main, conn, inbox, master, met>> /\ env'.real = env.real
    BY <1>4 DEF Repair, TypeOK, EnvType
  <2>2. QED
    BY <2>1, FollowsFrame
<1>5. QED
  BY <1>1, <1>2, <1>3, <1>4 DEF Environment

LEMMA FollowsKept ==
    ASSUME ClientAssumption, TypeOK, PlacesInv, SubscribedInv, AnnouncedInv, FollowsFailover, Running
    PROVE  FollowsFailover'
<1>1. CASE InitThreads \/ InitSentinel \/ InitSentinelsDone
  <2>1. main'.step # "ready"
    BY <1>1, NotReadyYet
  <2>2. QED
    BY <2>1 DEF FollowsFailover
<1>2. CASE InitMasterSlaves
  <2>1. CASE main'.step = "ready"
    <3> DEFINE m == [master EXCEPT !.id = master.init]
               opened == Connected(m, master.init)
    <3>1. m \in MasterType /\ master.init \in Nodes /\ m.id = master.init
      BY <1>2 DEF InitMasterSlaves, TypeOK, MasterType, PlacesInv
    <3>2. opened \in MasterType /\ opened.id = master.init
      BY <3>1, ConnectedIs
    <3>3. /\ met' = met \cup Stale(master.init)
          /\ \E named \in {{}, Known \ {master.init}} :
               master' = [opened EXCEPT !.node = [x \in Nodes |-> IF x \in named THEN "null" ELSE opened.node[x]]]
      <4>1. main' # [main EXCEPT !.step = "failed"]
        BY <2>1 DEF TypeOK, MainType
      <4>2. QED
        BY <1>2, <4>1, Zenon DEF InitMasterSlaves
    <3> HIDE DEF opened
    <3>4. master'.id = master.init
      BY <3>2, <3>3 DEF MasterType
    <3>5. Misled' \/ master.init = env.real
      BY <3>3 DEF Misled, Stale
    <3>6. UNCHANGED env
      BY <1>2 DEF InitMasterSlaves
    <3>7. QED
      BY <3>4, <3>5, <3>6 DEF FollowsFailover
  <2>2. CASE main'.step # "ready"
    BY <2>2 DEF FollowsFailover
  <2>3. QED
    BY <2>1, <2>2
<1>3. CASE HealthReinit
  <2>1. UNCHANGED <<main, inbox, master, env>>
    BY <1>3 DEF HealthReinit
  <2>2. CASE NoSubscription /\ met \subseteq met'
    BY <2>1, <2>2, FollowsFrame DEF NoSubscription
  <2>3. CASE ~(NoSubscription /\ met \subseteq met')
    BY <1>3, <2>1, <2>3, HealthSubscribes, FollowsBy
  <2>4. QED
    BY <2>2, <2>3
<1>4. CASE HealthWakes \/ HealthAsks \/ HealthReports
  BY <1>4, FollowsFrame DEF HealthWakes, HealthAsks, HealthReports
<1>5. CASE CheckWakes \/ CheckClears \/ CheckAsks \/ CheckReports
  BY <1>5, FollowsFrame DEF CheckWakes, CheckClears, CheckAsks, CheckReports
<1>6. CASE CheckSwitches
  <2>1. check.answer \in Nodes
    BY <1>6 DEF CheckSwitches, TypeOK, CheckType, PlacesInv
  <2>2. master' = DoSwitchMaster(master, check.answer).m /\ UNCHANGED env /\ met' = met \cup Stale(check.answer)
    BY <1>6 DEF CheckSwitches
  <2>3. master'.id = check.answer
    BY <2>1, <2>2, SwitchIs DEF TypeOK
  <2>4. Misled' \/ check.answer = env.real
    BY <2>2 DEF Misled, Stale
  <2>5. QED
    BY <2>2, <2>3, <2>4 DEF FollowsFailover
<1>7. CASE \E s \in Sentinels : SubStep(s)
  BY <1>7, FollowsKeptBySub
<1>8. CASE Command
  BY <1>8, FollowsFrame DEF Command
<1>9. CASE CommandCrashes \/ FreeBegins \/ FreeStep
  <2>1. main'.step # "ready"
    BY <1>9, FreeGoesOn
  <2>2. QED
    BY <2>1 DEF FollowsFailover
<1>10. CASE Environment \/ Repair
  BY <1>10, FollowsKeptByWorld
<1>11. QED
  BY <1>1, <1>2, <1>3, <1>4, <1>5, <1>6, <1>7, <1>8, <1>9, <1>10 DEF Running, InitStep, HealthStep, CheckStep

-----------------------------------------------------------------------------
(* Safety *)

LEMMA InitClientInv ==
    ASSUME ClientAssumption, Init
    PROVE  ClientInv
<1>1. TypeOK
  BY InitTypeOK
<1>2. PlacesInv /\ MasterInv /\ JoinedInv /\ FollowsFailover
  BY DEF Init, PlacesInv, MasterInv, JoinedInv, FollowsFailover
<1>3. SubscribedInv /\ AnnouncedInv
  BY DEF Init, SubscribedInv, AnnouncedInv
<1>4. StatusInv
  BY DEF Init, StatusInv, Reports
<1>5. QED
  BY <1>1, <1>2, <1>3, <1>4 DEF ClientInv

LEMMA TypeKept ==
    ASSUME ClientAssumption, TypeOK, PlacesInv, SubscribedInv, Running
    PROVE  TypeOK'
  BY TypeKeptByInit, TypeKeptByHealth, TypeKeptByCheck, TypeKeptBySub, TypeKeptByMain, TypeKeptByWorld DEF Running

LEMMA NextClientInv ==
    ASSUME ClientAssumption, ClientInv, [Next]_vars
    PROVE  ClientInv'
<1> USE DEF ClientInv
<1>1. CASE Running
  <2>1. TypeOK'
    BY <1>1, TypeKept
  <2>2. PlacesInv' /\ SubscribedInv' /\ AnnouncedInv'
    BY <1>1, PlacesKept, SubscribedKept, AnnouncedKept
  <2>3. FollowsFailover' /\ MasterInv' /\ JoinedInv' /\ StatusInv'
    BY <1>1, FollowsKept, MasterKept, JoinedKept, StatusKept
  <2>4. QED
    BY <2>1, <2>2, <2>3
<1>2. CASE UNCHANGED vars
  <2>1. TypeOK'
    BY <1>2 DEF vars, TypeOK
  <2>2. PlacesInv' /\ MasterInv' /\ JoinedInv'
    BY <1>2 DEF vars, PlacesInv, MasterInv, JoinedInv
  <2>3. SubscribedInv'
    BY <1>2, SubscribedFrame DEF vars
  <2>4. AnnouncedInv' /\ FollowsFailover' /\ StatusInv'
    BY <1>2, AnnouncedFrame, FollowsFrame, StatusFrame DEF vars
  <2>5. QED
    BY <2>1, <2>2, <2>3, <2>4
<1>3. QED
  BY <1>1, <1>2 DEF Next

\* The client of gb_down_linker is safe for any number of sentinels, data nodes, faults and
\* commands: the restorer has been told m_workStatus when no thread reports and the two never
\* reported at once (StatusTold), the last failover is followed once what was announced is read
\* (FollowsFailover), no command meets a master without a pool object unless init has failed
\* (NoNullMaster), and freeRedisClient deletes the pools after it has joined every thread
\* (ThreadsJoinedFirst).
THEOREM ClientSafe ==
    ASSUME ClientAssumption
    PROVE  Spec => [](StatusTold /\ FollowsFailover /\ NoNullMaster /\ ThreadsJoinedFirst)
<1>1. Init => ClientInv
  BY InitClientInv
<1>2. ClientInv /\ [Next]_vars => ClientInv'
  BY NextClientInv
<1>3. ClientInv => StatusTold /\ FollowsFailover /\ NoNullMaster /\ ThreadsJoinedFirst
  <2>1. ClientInv => StatusTold
    BY DEF ClientInv, StatusInv, StatusTold, Quiet
  <2>2. ClientInv => FollowsFailover /\ NoNullMaster /\ ThreadsJoinedFirst
    BY DEF ClientInv, MasterInv, JoinedInv, NoNullMaster, ThreadsJoinedFirst
  <2>3. QED
    BY <2>1, <2>2
<1>4. QED
  BY <1>1, <1>2, <1>3, PTL DEF Spec
=============================================================================
