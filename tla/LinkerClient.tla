---------------------------- MODULE LinkerClient ----------------------------
(***************************************************************************)
(* RedisClient of gb/gb_down_linker in sentinel mode: init, the sentinel   *)
(* health check thread, the master check thread, one subscription thread   *)
(* per sentinel, the application's commands, and freeRedisClient, against  *)
(* sentinels and data nodes that go away, come back and fail over.         *)
(*                                                                         *)
(* Read as intended where the sources do not compile or are not connected  *)
(* yet: m_workStatus and m_callback belong to the client although the      *)
(* thread functions are static; SetCallback (declared only) has registered *)
(* RedisClientCallback of the restorer; the new entry of initMasterSlaves  *)
(* is the one of the master's address.                                     *)
(***************************************************************************)
EXTENDS Integers, Sequences, FiniteSets

CONSTANTS Sentinels,        \* 1 .. n, in the order of m_sentinelHandlers
          Nodes, First,     \* data nodes, and the master at the start
          Known,            \* the slaves the first master names
          Quorum,           \* CKQUORUM is answered OK if so many sentinels are up
          MaxFaults, MaxCommands

Last == Cardinality(Sentinels)

ClientAssumption ==
    /\ Last \in Nat /\ Sentinels = 1 .. Last
    /\ First \in Nodes /\ Known \subseteq Nodes /\ "none" \notin Nodes

None == "none"
Normal == "Normal"
Recoverable == "Recoverable"

VARIABLES main,     \* the application's thread: step, sentinel it is at
          sent,     \* m_sentinelHandlers: known, isAlived, subscribed
          lock,     \* who holds m_rwSentinelHandlers for writing
          arg,      \* m_threadArg.con: the sentinel of the connection
          sub,      \* per subscription thread: step, and the connection it reads from
          conn,     \* per sentinel: its subscribed connection: "none", "subscribed", "lost", "plain"
          inbox,    \* per sentinel: announced masters on that connection
          health, check,    \* the two threads: step and the sentinel it is at; for health
                            \* sentinel_reinit_work_all_done and what it is to become, for check the
                            \* address a sentinel has answered
          signal,   \* m_checkMasterSignalQueue is not empty
          status, told,     \* m_workStatus, and the last callback
          master,   \* m_masterClusterId, m_dataNodes (handler and address per node), m_initMasterAddr
          env,      \* the actual master, which sentinels and nodes are up
          count, met

vars == <<main, sent, lock, arg, sub, conn, inbox, health, check, signal, status, told, master, env, count, met>>

Init == /\ main = [step |-> "new", at |-> 0] /\ lock = None /\ arg = 0
        /\ sent = [s \in Sentinels |-> [known |-> FALSE, alive |-> FALSE, sub |-> FALSE]]
        /\ sub = [s \in Sentinels |-> [step |-> "none", con |-> 0]]
        /\ conn = [s \in Sentinels |-> "none"] /\ inbox = [s \in Sentinels |-> <<>>]
        /\ health = [step |-> "none", at |-> 0, done |-> FALSE, all |-> TRUE]
        /\ check = [step |-> "none", at |-> 0, answer |-> None]
        /\ signal = FALSE /\ status = Normal /\ told = Normal
        /\ master = [id |-> None, node |-> [n \in Nodes |-> "absent"], addr |-> [n \in Nodes |-> n], init |-> None]
        /\ env = [real |-> First, up |-> [x \in Sentinels |-> TRUE], nodes |-> [n \in Nodes |-> TRUE]]
        /\ count = [faults |-> 0, commands |-> 0] /\ met = {}

\* The master a sentinel answers with, None if it does not answer
MasterAddrByName(s) == IF sent[s].alive /\ env.up[s] THEN env.real ELSE None

-----------------------------------------------------------------------------
(* The data nodes *)

NodeUp(addr) == addr # None /\ env.nodes[addr]

\* initConnectPool of node n of m, and isAlived
Connected(m, n) == [m EXCEPT !.node[n] = IF NodeUp(m.addr[n]) THEN "alive" ELSE "pool"]

\* Wrong on purpose: a master nobody has named before is ignored
SwitchKnownOnly(m, n) ==
    IF m.id = n \/ m.node[n] = "absent" THEN [ok |-> TRUE, m |-> m]
    ELSE [ok |-> TRUE, m |-> Connected([m EXCEPT !.id = n], n)]

\* DoSwitchMaster, under the write lock of the data nodes: result and new state.  A node
\* that was not known gets the address of the first master.
DoSwitchMaster(m, n) ==
    LET named == [m EXCEPT !.id = n]
        entered == IF m.node[n] = "absent" THEN [named EXCEPT !.node[n] = "null", !.addr[n] = m.init] ELSE named
        opened == Connected(entered, n) IN
    CASE m.id = n -> [ok |-> TRUE, m |-> m]
      [] m.id # n /\ entered.node[n] = "alive" -> [ok |-> TRUE, m |-> entered]
      [] OTHER -> [ok |-> opened.node[n] = "alive", m |-> opened]

-----------------------------------------------------------------------------
(* init: the two check threads, the sentinels, the master and its slaves *)

InitThreads == /\ main.step = "new" /\ main' = [step |-> "sentinels", at |-> 1]
               /\ health' = [health EXCEPT !.step = "sleep"] /\ check' = [check EXCEPT !.step = "wait"]
               /\ UNCHANGED <<sent, lock, arg, sub, conn, inbox, signal, status, told, master, env, count, met>>

\* SubscribeSwitchMaster: the thread is given the one m_threadArg of the client
Subscribe(s) == /\ conn' = [conn EXCEPT ![s] = "subscribed"] /\ arg' = s
                /\ sub' = [sub EXCEPT ![s] = [step |-> "created", con |-> 0]]

NoSubscription == UNCHANGED <<conn, arg, sub>>

\* One sentinel: connect, subscribe (which may fail), ask for the master
InitSentinel ==
    LET s == main.at alive == env.up[s] IN
    /\ main.step = "sentinels" /\ s <= Last /\ lock \in {None, "init"} /\ lock' = "init"
    /\ \E ok \in IF alive THEN BOOLEAN ELSE {FALSE} :
         /\ IF ok THEN Subscribe(s) ELSE NoSubscription
         /\ sent' = [sent EXCEPT ![s] = [known |-> TRUE, alive |-> alive, sub |-> ok]]
    /\ master' = IF master.init = None /\ alive THEN [master EXCEPT !.init = env.real] ELSE master
    /\ main' = [main EXCEPT !.at = s + 1]
    /\ UNCHANGED <<inbox, health, check, signal, status, told, env, count, met>>

\* Wrong on purpose: init keeps the lock of the sentinels
InitSentinelsDoneLocked ==
    /\ main.step = "sentinels" /\ main.at > Last /\ UNCHANGED lock
    /\ IF master.init = None
       THEN main' = [main EXCEPT !.step = "failed"] /\ told' = Recoverable /\ met' = met \cup {"init"}
       ELSE main' = [main EXCEPT !.step = "master"] /\ UNCHANGED <<told, met>>
    /\ UNCHANGED <<sent, arg, sub, conn, inbox, health, check, signal, status, master, env, count>>

\* No sentinel has named the master: RecoverableFail; the restorer takes that as a report
InitSentinelsDone ==
    /\ main.step = "sentinels" /\ main.at > Last /\ lock' = None
    /\ IF master.init = None
       THEN main' = [main EXCEPT !.step = "failed"] /\ told' = Recoverable /\ met' = met \cup {"init"}
       ELSE main' = [main EXCEPT !.step = "master"] /\ UNCHANGED <<told, met>>
    /\ UNCHANGED <<sent, arg, sub, conn, inbox, health, check, signal, status, master, env, count>>

\* An answer of a sentinel that is used after another failover
Stale(n) == IF n = env.real THEN {} ELSE {"stale answer"}

InitMasterSlaves ==
    LET n == master.init
        opened == Connected([master EXCEPT !.id = n], n) IN
    /\ main.step = "master"
    /\ IF opened.node[n] = "alive"
       THEN /\ main' = [main EXCEPT !.step = "ready"]
            /\ \E named \in {{}, Known \ {n}} :
                 master' = [opened EXCEPT !.node = [x \in Nodes |-> IF x \in named THEN "null" ELSE opened.node[x]]]
            /\ met' = met \cup Stale(n) /\ UNCHANGED told
       ELSE main' = [main EXCEPT !.step = "failed"] /\ master' = opened /\ told' = Recoverable
            /\ met' = met \cup {"init"}
    /\ UNCHANGED <<sent, lock, arg, sub, conn, inbox, health, check, signal, status, env, count>>

-----------------------------------------------------------------------------
(* SentinelHealthCheckTask *)

Stopping(step) == main.step = step

\* The loop's condition
Ended(step, to) == IF Stopping(step) THEN "ended" ELSE to

HealthWakes == /\ health.step = "sleep"
               /\ health' = [health EXCEPT !.step = IF health.done THEN "quorum" ELSE "reinit", !.at = 1, !.all = TRUE]
               /\ UNCHANGED <<main, sent, lock, arg, sub, conn, inbox, check, signal, status, told, master, env, count, met>>

\* The master check holds the lock for reading
CheckReads == check.step = "switch" \/ (check.step = "ask" /\ check.at > 1)

\* What is left to do for a sentinel after this round
ReinitDone(s, alive, ok) == alive /\ (sent[s].sub \/ ok)

\* SentinelReinit, for one sentinel, under the write lock from the first to the last
HealthReinit ==
    LET s == health.at IN
    /\ health.step = "reinit" /\ lock \in {None, "health"} /\ ~CheckReads
    /\ IF s > Last \/ ~sent[s].known
       THEN /\ lock' = None /\ health' = [health EXCEPT !.step = "quorum", !.done = health.all]
            /\ met' = IF s = 1 THEN met \cup {"nothing to reinit"} ELSE met
            /\ NoSubscription /\ UNCHANGED sent
       ELSE LET alive == sent[s].alive \/ env.up[s] IN
            \E ok \in IF alive /\ env.up[s] /\ ~sent[s].sub THEN BOOLEAN ELSE {FALSE} :
              /\ lock' = "health" /\ UNCHANGED met
              /\ IF ok THEN Subscribe(s) ELSE NoSubscription
              /\ sent' = [sent EXCEPT ![s].alive = alive, ![s].sub = @ \/ ok]
              /\ health' = [health EXCEPT !.at = s + 1, !.all = @ /\ ReinitDone(s, alive, ok)]
    /\ UNCHANGED <<main, inbox, check, signal, status, told, master, env, count>>

\* CheckSentinelCkquorum: one of the sentinels that are alive answers OK
CheckSentinelCkquorum ==
    /\ Cardinality({s \in Sentinels : env.up[s]}) >= Quorum
    /\ \E s \in Sentinels : sent[s].alive /\ env.up[s]

HealthAsks == /\ health.step = "quorum" /\ lock # "init"
              /\ health' = [health EXCEPT !.step = IF CheckSentinelCkquorum THEN "good" ELSE "bad"]
              /\ UNCHANGED <<main, sent, lock, arg, sub, conn, inbox, check, signal, status, told, master, env, count, met>>

\* The two threads do the same with the result of their check
ReportStep(step) == CASE step = "bad" -> "tellbad"                          \* status, then the callback
                      [] step = "good" -> IF status = Normal THEN "set" ELSE "tellgood"
                      [] step = "tellgood" -> "set"                         \* the callback, then status
                      [] OTHER -> "over"
Reports == {"bad", "tellbad", "good", "tellgood", "set"}

\* Wrong on purpose: the recovery is not reported
ReportedBadOnly(step) ==
    /\ status' = CASE step = "bad" -> Recoverable [] step = "set" -> Normal [] OTHER -> status
    /\ told' = CASE step = "tellbad" -> Recoverable [] OTHER -> told

Reported(step) ==
    /\ status' = CASE step = "bad" -> Recoverable [] step = "set" -> Normal [] OTHER -> status
    /\ told' = CASE step = "tellbad" -> Recoverable [] step = "tellgood" -> Normal [] OTHER -> told

Overlap == IF health.step \in Reports /\ check.step \in Reports THEN {"overlap"} ELSE {}

HealthReports ==
    /\ health.step \in Reports /\ Reported(health.step) /\ met' = met \cup Overlap
    /\ LET to == ReportStep(health.step) IN
       health' = [health EXCEPT !.step = IF to = "over" THEN Ended("stop health", "sleep") ELSE to]
    /\ UNCHANGED <<main, sent, lock, arg, sub, conn, inbox, check, signal, master, env, count>>

-----------------------------------------------------------------------------
(* CheckMasterNodeThreadFunc *)

\* The signal is taken off the queue outside the lock it was awaited under
CheckWakes == /\ check.step = "wait" /\ (signal \/ Stopping("stop check"))
              /\ check' = [check EXCEPT !.step = Ended("stop check", "woken")]
              /\ UNCHANGED <<main, sent, lock, arg, sub, conn, inbox, health, signal, status, told, master, env, count, met>>
CheckClears == /\ check.step = "woken" /\ signal' = FALSE /\ check' = [check EXCEPT !.step = "ask", !.at = 1]
               /\ UNCHANGED <<main, sent, lock, arg, sub, conn, inbox, health, status, told, master, env, count, met>>

\* DoConnectMasterNode: the next sentinel is asked for the master ...
CheckAsks ==
    /\ check.step = "ask" /\ lock = None
    /\ check' = IF check.at > Last \/ ~sent[check.at].known THEN [check EXCEPT !.step = "bad"]
                ELSE LET answer == MasterAddrByName(check.at) IN
                     IF answer = None THEN [check EXCEPT !.at = @ + 1]
                     ELSE [check EXCEPT !.step = "switch", !.answer = answer]
    /\ UNCHANGED <<main, sent, lock, arg, sub, conn, inbox, health, signal, status, told, master, env, count, met>>

\* ... and its answer used, until a switch succeeds
CheckSwitches ==
    LET switched == DoSwitchMaster(master, check.answer) IN
    /\ check.step = "switch" /\ master' = switched.m /\ met' = met \cup Stale(check.answer)
    /\ check' = IF switched.ok THEN [check EXCEPT !.step = "good", !.answer = None]
                ELSE [check EXCEPT !.step = "ask", !.at = @ + 1, !.answer = None]
    /\ UNCHANGED <<main, sent, lock, arg, sub, conn, inbox, health, signal, status, told, env, count>>

CheckReports ==
    /\ check.step \in Reports /\ Reported(check.step) /\ met' = met \cup Overlap
    /\ LET to == ReportStep(check.step) IN
       check' = [check EXCEPT !.step = IF to = "over" THEN Ended("stop check", "wait") ELSE to]
    /\ UNCHANGED <<main, sent, lock, arg, sub, conn, inbox, health, signal, master, env, count>>

-----------------------------------------------------------------------------
(* SubscribeSwitchMasterThreadFun *)

SubStarts(s) == /\ sub[s].step = "created" /\ sub' = [sub EXCEPT ![s] = [step |-> "listen", con |-> arg]]
                /\ UNCHANGED <<main, sent, lock, arg, conn, inbox, health, check, signal, status, told, master, env, count, met>>

\* WaitMessage says Disconnected: CheckConnected connects again, and nobody subscribes
SubReconnects(s) ==
    LET c == sub[s].con IN
    /\ sub[s].step = "listen" /\ conn[c] = "lost" /\ env.up[c]
    /\ conn' = [conn EXCEPT ![c] = "plain"] /\ inbox' = [inbox EXCEPT ![c] = <<>>] /\ met' = met \cup {"deaf"}
    /\ UNCHANGED <<main, sent, lock, arg, sub, health, check, signal, status, told, master, env, count>>

SubSwitches(s) ==
    LET c == sub[s].con IN
    /\ sub[s].step = "listen" /\ inbox[c] # <<>>
    /\ master' = DoSwitchMaster(master, Head(inbox[c])).m /\ inbox' = [inbox EXCEPT ![c] = Tail(@)]
    /\ UNCHANGED <<main, sent, lock, arg, sub, conn, health, check, signal, status, told, env, count, met>>

SubEnds(s) == /\ sub[s].step = "listen" /\ Stopping("stop subs")
              /\ sub' = [sub EXCEPT ![s].step = "ended"]
              /\ UNCHANGED <<main, sent, lock, arg, conn, inbox, health, check, signal, status, told, master, env, count, met>>

-----------------------------------------------------------------------------
(* doRedisCommandMaster, in the application's thread *)

\* The restorer works with a client that init has connected, or that reports Normal later
InUse == main.step = "ready" \/ (main.step = "failed" /\ told = Normal)

NoPool == master.id = None \/ (master.id # None /\ master.node[master.id] = "null")

Call == InUse /\ count.commands < MaxCommands /\ count' = [count EXCEPT !.commands = @ + 1]

\* The command goes to the entry of m_masterClusterId; the pool of a node that is not alive
\* is empty; if the command fails, the master check is woken
Command ==
    /\ Call /\ ~NoPool
    /\ signal' = (signal \/ ~(master.node[master.id] = "alive" /\ NodeUp(master.addr[master.id])))
    /\ UNCHANGED <<main, sent, lock, arg, sub, conn, inbox, health, check, status, told, master, env, met>>

\* Without a pool object the command ends the process
CommandCrashes ==
    /\ Call /\ (NoPool = TRUE) /\ main' = [main EXCEPT !.step = "crashed"]
    /\ UNCHANGED <<sent, lock, arg, sub, conn, inbox, health, check, signal, status, told, master, env, met>>

-----------------------------------------------------------------------------
(* freeRedisClient: StopSentinelThreads joins thread after thread, then the pools go *)

FreeBegins == /\ main.step = "ready" /\ main' = [main EXCEPT !.step = "stop health"]
              /\ UNCHANGED <<sent, lock, arg, sub, conn, inbox, health, check, signal, status, told, master, env, count, met>>

JoinedSubs == Stopping("stop subs") /\ \A s \in Sentinels : sub[s].step \in {"none", "ended"}

FreeJoins ==
    /\ \/ Stopping("stop health") /\ health.step = "ended" /\ main' = [main EXCEPT !.step = "stop subs"]
       \/ JoinedSubs /\ main' = [main EXCEPT !.step = "stop check"]
       \/ Stopping("stop check") /\ check.step = "ended" /\ main' = [main EXCEPT !.step = "pools"]
    /\ UNCHANGED <<sent, lock, arg, sub, conn, inbox, health, check, signal, status, told, master, env, count, met>>

FreePools == /\ main.step = "pools" /\ main' = [main EXCEPT !.step = "freed"]
             /\ sent' = [s \in Sentinels |-> [known |-> FALSE, alive |-> FALSE, sub |-> FALSE]]
             /\ conn' = [s \in Sentinels |-> "none"] /\ inbox' = [s \in Sentinels |-> <<>>]
             /\ master' = [master EXCEPT !.id = None, !.node = [n \in Nodes |-> "absent"], !.init = None]
             /\ UNCHANGED <<lock, arg, sub, health, check, signal, status, told, env, count, met>>

-----------------------------------------------------------------------------
(* The sentinels and the data nodes *)

Fault == count.faults < MaxFaults /\ count' = [count EXCEPT !.faults = @ + 1]

Heard == {s \in Sentinels : conn[s] = "subscribed" /\ env.up[s]}

\* The sentinels agree on a new master and announce it
Failover(n) == /\ Fault /\ n # env.real /\ env.nodes[n] /\ env' = [env EXCEPT !.real = n]
               /\ met' = IF Heard = {} THEN met \cup {"unheard"} ELSE met
               /\ inbox' = [s \in Sentinels |-> IF s \in Heard THEN Append(inbox[s], n) ELSE inbox[s]]
               /\ UNCHANGED <<main, sent, lock, arg, sub, conn, health, check, signal, status, told, master>>

SentinelDown(s) == /\ Fault /\ env.up[s] /\ env' = [env EXCEPT !.up[s] = FALSE]
                   /\ conn' = [conn EXCEPT ![s] = IF @ = "none" THEN @ ELSE "lost"]
                   /\ UNCHANGED <<main, sent, lock, arg, sub, inbox, health, check, signal, status, told, master, met>>

NodeDown(n) == /\ Fault /\ env.nodes[n] /\ env' = [env EXCEPT !.nodes[n] = FALSE]
               /\ UNCHANGED <<main, sent, lock, arg, sub, conn, inbox, health, check, signal, status, told, master, met>>

Repair == /\ env' = [env EXCEPT !.up = [s \in Sentinels |-> TRUE], !.nodes = [n \in Nodes |-> TRUE]] /\ env' # env
          /\ UNCHANGED <<main, sent, lock, arg, sub, conn, inbox, health, check, signal, status, told, master, count, met>>

Environment == (\E n \in Nodes : Failover(n) \/ NodeDown(n)) \/ (\E s \in Sentinels : SentinelDown(s))

-----------------------------------------------------------------------------
InitStep == InitThreads \/ InitSentinel \/ InitSentinelsDone \/ InitMasterSlaves
HealthStep == HealthWakes \/ HealthReinit \/ HealthAsks \/ HealthReports
CheckStep == CheckWakes \/ CheckClears \/ CheckAsks \/ CheckSwitches \/ CheckReports
SubStep(s) == SubStarts(s) \/ SubReconnects(s) \/ SubSwitches(s) \/ SubEnds(s)
FreeStep == FreeJoins \/ FreePools

Alive == main.step \notin {"freed", "crashed"}
Running == \/ InitStep \/ HealthStep \/ CheckStep \/ (\E s \in Sentinels : SubStep(s))
           \/ Command \/ CommandCrashes \/ FreeBegins \/ FreeStep \/ Environment \/ Repair

Next == (Alive /\ Running) \/ (~Alive /\ UNCHANGED vars)

\* The threads run, calls come to an end, and what is down is repaired
Spec == /\ Init /\ [][Next]_vars
        /\ WF_vars(Alive /\ HealthStep) /\ WF_vars(Alive /\ CheckStep) /\ WF_vars(Alive /\ Repair)
        /\ WF_vars(Alive /\ (InitStep \/ FreeStep)) /\ WF_vars(Alive /\ \E s \in Sentinels : SubStep(s))

-----------------------------------------------------------------------------
(* The inductive invariant *)

MainSteps == {"new", "sentinels", "master", "failed", "ready", "stop health", "stop subs", "stop check", "pools",
              "freed", "crashed"}
HealthSteps == {"none", "sleep", "reinit", "quorum", "ended"} \cup Reports
CheckSteps == {"none", "wait", "woken", "ask", "switch", "ended"} \cup Reports

MainType == [step : MainSteps, at : Nat]
SentType == [Sentinels -> [known : BOOLEAN, alive : BOOLEAN, sub : BOOLEAN]]
SubType == [Sentinels -> [step : {"none", "created", "listen", "ended"}, con : Sentinels \cup {0}]]
ConnType == [Sentinels -> {"none", "subscribed", "lost", "plain"}]
HealthType == [step : HealthSteps, at : Nat, done : BOOLEAN, all : BOOLEAN]
CheckType == [step : CheckSteps, at : Nat, answer : Nodes \cup {None}]
MasterType == [id : Nodes \cup {None}, node : [Nodes -> {"absent", "null", "pool", "alive"}],
               addr : [Nodes -> Nodes \cup {None}], init : Nodes \cup {None}]
EnvType == [real : Nodes, up : [Sentinels -> BOOLEAN], nodes : [Nodes -> BOOLEAN]]
CountType == [faults : Nat, commands : Nat]
Events == {"init", "nothing to reinit", "overlap", "deaf", "unheard", "stale answer"}

TypeOK ==
    /\ main \in MainType /\ sent \in SentType /\ lock \in {None, "init", "health"} /\ arg \in Sentinels \cup {0}
    /\ sub \in SubType /\ conn \in ConnType /\ inbox \in [Sentinels -> Seq(Nodes)]
    /\ health \in HealthType /\ check \in CheckType
    /\ signal \in BOOLEAN /\ status \in {Normal, Recoverable} /\ told \in {Normal, Recoverable}
    /\ master \in MasterType /\ env \in EnvType /\ count \in CountType /\ met \subseteq Events

\* A step works on a sentinel or a node that exists
PlacesInv ==
    /\ main.step = "sentinels" => main.at >= 1
    /\ health.step = "reinit" => health.at >= 1
    /\ check.step = "ask" => check.at >= 1
    /\ check.step = "switch" => check.answer # None
    /\ main.step = "master" => master.init # None

\* A sentinel is subscribed to at most once, by who has entered it in the list
SubscribedInv == \A s \in Sentinels :
    /\ sent[s].known => main.step \notin {"new", "freed"} /\ (main.step = "sentinels" => s < main.at)
    /\ sent[s].sub => sent[s].known
    /\ conn[s] # "none" \/ sub[s].step # "none" => sent[s].sub \/ main.step = "freed"
    /\ conn[s] = "subscribed" => env.up[s]
    /\ sub[s].step = "created" => arg # 0
    /\ sub[s].step = "listen" => sub[s].con # 0

Misled == met \cap {"unheard", "deaf", "stale answer"} # {}

\* What was announced last is the actual master
AnnouncedInv ==
    ~Misled /\ (\A s \in Sentinels : conn[s] # "lost") =>
        \A s \in Sentinels : inbox[s] # <<>> => inbox[s][Len(inbox[s])] = env.real /\ conn[s] = "subscribed"

\* The master has a pool object once init is done
MasterInv ==
    /\ main.step = "ready" => master.id # None /\ master.node[master.id] \in {"pool", "alive"}
    /\ main.step \in {"failed", "crashed"} => "init" \in met

\* init starts the threads, and freeRedisClient joins them one after the other
JoinedInv ==
    /\ main.step = "new" => health.step = "none" /\ check.step = "none"
    /\ main.step \in {"stop subs", "stop check", "pools", "freed"} => health.step = "ended"
    /\ main.step \in {"stop check", "pools", "freed"} => \A s \in Sentinels : sub[s].step \in {"none", "ended"}
    /\ main.step \in {"pools", "freed"} => check.step = "ended"

\* What a thread that is about to report still has to do
ReportInv(step) ==
    /\ step \in {"bad", "good", "tellgood"} => told = status
    /\ step = "tellbad" => status = Recoverable
    /\ step = "set" => told = Normal

\* When only one of the two threads reports, the restorer will know the status
StatusInv ==
    met \cap {"overlap", "init"} = {} =>
        /\ health.step \notin Reports /\ check.step \notin Reports => told = status
        /\ health.step \in Reports /\ check.step \notin Reports => ReportInv(health.step)
        /\ health.step \notin Reports /\ check.step \in Reports => ReportInv(check.step)

-----------------------------------------------------------------------------
Over == main.step \in {"stop health", "stop subs", "stop check", "pools", "freed", "crashed"}
Quiet == health.step \notin Reports /\ check.step \notin Reports

\* When neither thread is about to report, the restorer knows the client's status - unless
\* both reported at once: the one says Normal, the other sets Recoverable and says so, the
\* first sets Normal, and no callback will follow; or init has failed, which the restorer
\* takes for Recoverable while m_workStatus is Normal from the start.
StatusTold == Quiet /\ met \cap {"overlap", "init"} = {} => told = status

\* The client follows the last failover once it has read its announcements: the messages of
\* two sentinels may be read in any order, and two threads may read the same connection.  Not
\* if nobody listened when it happened, a connection was lost with its messages or came back
\* without a subscription, or an older answer was used after the announcement.
FollowsFailover ==
    /\ main.step = "ready" /\ ~Misled
    /\ \A s \in Sentinels : inbox[s] = <<>> /\ conn[s] # "lost"
    => master.id = env.real

\* A command never meets a master without a pool object, which doRedisCommandMaster would
\* dereference: whoever makes a node the master gives it one first - but if init fails, there
\* is no master, and a later report of the sentinels' health makes the restorer go on.
NoNullMaster == main.step = "crashed" => "init" \in met

\* No thread of the client is left when its pools are deleted: freeRedisClient joins them all.
ThreadsJoinedFirst ==
    main.step \in {"pools", "freed"} =>
        health.step = "ended" /\ check.step = "ended" /\ \A s \in Sentinels : sub[s].step \in {"none", "ended"}

\* All of the above, and what it needs to be inductive.
ClientInv ==
    /\ TypeOK /\ PlacesInv /\ SubscribedInv /\ AnnouncedInv /\ FollowsFailover /\ MasterInv /\ JoinedInv /\ StatusInv

\* A failed command is followed by a look for the actual master: the signal is not lost
\* although it is taken off the queue without the lock.
SignalAnswered == signal ~> (check.step = "ask" \/ Over)

\* A sentinel that was away at init is connected when it is back, unless the health check was
\* done with an empty list of sentinels, before init had entered them.
SentinelsRetried ==
    (main.step = "ready" /\ \E s \in Sentinels : ~sent[s].alive)
        ~> (main.step # "ready" \/ "nothing to reinit" \in met \/ \A s \in Sentinels : sent[s].alive)

\* Once everything stays up, the client's status is Normal again - but for the same case.
StatusRecovers == (status = Recoverable) ~> (status = Normal \/ "nothing to reinit" \in met \/ Over)

\* freeRedisClient returns.
FreeEnds == (main.step = "stop health") ~> (main.step = "freed")

\* "when master node disconnect, try to get the actual master and re-connect": a master that
\* is up is connected again some time after a command has found it is not.
MasterReconnected ==
    (main.step = "ready" /\ signal) ~> (main.step # "ready" \/ master.node[master.id] = "alive")
=============================================================================
