----------------------------- MODULE MCClientLive ---------------------------
(***************************************************************************)
(* One instance of each part of RedisClient whose runs must come to an end *)
(* or catch up with the servers: a connection, the reading of a reply, the *)
(* routing in a cluster, the sentinels, and the scan of the keys; and the  *)
(* linker's copies of the connection and the scan.  The parts share no     *)
(* state: part picks the one that runs.                                    *)
(***************************************************************************)
EXTENDS RedisConnection, TLC

Nodes == {1, 2}
Shape(sentinels, sessions, failovers, refusals) ==
    [sentinels |-> sentinels, sessions |-> sessions, failovers |-> failovers, refusals |-> refusals]
Shapes == {Shape(2, 1, 1, 0), Shape(2, 1, 0, 1), Shape(1, 1, 1, 2), Shape(1, 2, 1, 0), Shape(1, 2, 0, 1)}

Callers == {"c1", "c2"}
TwoPages == << <<{}, {"a", "b"}>>, <<{"c"}>> >>
OnePage == << <<{"a"}>>, <<{"b"}>> >>
Layouts == {TwoPages, OnePage}
Counts == {5}
MaxFaults == 1

VARIABLES part,
          shape, spc, sentinel, scursor, initMaster, threads, threadArg, wire, health, allDone,
          started, node, masterId, master, session, failovers, refusals, smet,
          layout, count, mode, kcursor, kpc, at, info, keys, faults, kmet,
          members, owner, version, slotMap, clusterMap, unused, live, npools, signal, refresh, got, seen, saved,
          failed, cpc, cmd,
          bytes, setup, unparse, buf, pos, mallocLen, valid, ppc, parser, reply, parseState, arrayNum, doneNum,
          arrayLen, haveArray, curArray, parsed

sent == INSTANCE Sentinel WITH pc <- spc, cursor <- scursor, met <- smet
scan == INSTANCE ScanKeys WITH pc <- kpc, cursor <- kcursor, met <- kmet

routing == INSTANCE ClusterRouting
    WITH NumNodes <- 2, Slots <- {"s1"}, Threads <- {"t1"}, MaxChanges <- 2, MaxPools <- 4, MaxCommands <- 1,
         Disagree <- TRUE, Failures <- {"fetch"}, rstate <- refresh, pc <- cpc
replies == INSTANCE ReplyRecv WITH Few <- TRUE, wire <- bytes, pc <- ppc, info <- parsed
linker == INSTANCE LinkerCalls
    WITH cursor <- kcursor, met <- kmet, Layouts <- {OnePage}

sentinelVars == <<shape, spc, sentinel, scursor, initMaster, threads, threadArg, wire, health, allDone,
                  started, node, masterId, master, session, failovers, refusals, smet>>
scanVars == <<layout, count, mode, kcursor, kpc, at, info, keys, faults, kmet>>
routingVars == <<members, owner, version, slotMap, clusterMap, unused, live, npools, signal, refresh, got, seen,
                 saved, failed, cpc, cmd>>
replyVars == <<bytes, setup, unparse, buf, pos, mallocLen, valid, ppc, parser, reply, parseState, arrayNum,
               doneNum, arrayLen, haveArray, curArray, parsed>>
liveVars == <<part, vars, sentinelVars, scanVars, routingVars, replyVars>>

\* A part that does not run stays in one of its initial states
LiveInit ==
    /\ part \in {"connection", "lconnection", "sentinel", "scan", "lscan", "routing", "replies"}
    /\ Init /\ sent!Init /\ scan!Init /\ routing!Init /\ replies!Init
    /\ part # "sentinel" => shape = Shape(2, 1, 1, 0)
    /\ part \notin {"scan", "lscan"} => mode = "loop"
    /\ layout = IF part = "scan" THEN TwoPages ELSE OnePage
    /\ part = "lscan" => linker!ScanInit
    /\ part # "routing" => members = {1}
    /\ part # "replies" => bytes = <<>> /\ reply = [type |-> "integer", text |-> <<>>, num |-> 2, elems |-> <<>>]

Connection(A) == A /\ UNCHANGED <<part, sentinelVars, scanVars, routingVars, replyVars>>
Sentinels(A) == part = "sentinel" /\ A /\ UNCHANGED <<part, vars, scanVars, routingVars, replyVars>>
Scans(A) == A /\ UNCHANGED <<part, vars, sentinelVars, routingVars, replyVars>>
Routing(A) == part = "routing" /\ A /\ UNCHANGED <<part, vars, sentinelVars, scanVars, replyVars>>
Replies(A) == part = "replies" /\ A /\ UNCHANGED <<part, vars, sentinelVars, scanVars, routingVars>>

LiveNext ==
    \/ part = "connection" /\ Connection(Next)
    \/ part = "lconnection" /\ Connection(linker!ConnectionNext)
    \/ Sentinels(sent!Next)
    \/ part = "scan" /\ Scans(scan!Next)
    \/ part = "lscan" /\ Scans(linker!ScanNext)
    \/ Routing(routing!Next) \/ Replies(replies!Next)

\* Whoever is in a call goes on: the thread of a connection; the threads that call init or
\* handle messages, whose steps are few; the callers of a scan; a command in a cluster; a
\* parser.  The health check, which may go on for ever, is on its own, and so is the thread
\* that refreshes the maps of a cluster.
Progress ==
    \/ part = "connection" /\ Connection(Client)
    \/ part = "lconnection" /\ Connection(linker!Client)
    \/ Sentinels(sent!Main \/ sent!AnyThread)
    \/ part = "scan" /\ Scans(\E t \in Callers : scan!Proceed(t))
    \/ part = "lscan" /\ Scans(linker!Proceed)
    \/ Routing(routing!Step("t1")) \/ Replies(replies!Next)

LiveSpec ==
    /\ LiveInit /\ [][LiveNext]_liveVars
    /\ WF_liveVars(Progress) /\ WF_liveVars(Sentinels(sent!Health) \/ Routing(routing!Refresh))

-----------------------------------------------------------------------------
\* Every call returns: a command on a connection, whatever the server does (RedisConnection); recv, whatever part of the
\* reply arrives (ReplyRecv); a command in a cluster whose nodes redirect it in circles (ClusterRouting); and a scan
\* (ScanKeys).
CallsReturn ==
    /\ CommandReturns
    /\ part = "replies" => replies!Returns
    /\ routing!CommandReturns
    /\ scan!ScanEnds

\* After a MOVED reply the maps of the cluster are refreshed (ClusterRouting).
RefreshFollows == routing!RefreshFollows

\* The client follows every move of the master; sentinels that were down are subscribed later; there is a health check
\* thread exactly while its flag is set, and the subscription threads end when the client is freed (Sentinel).
MasterFollowed ==
    sent!MasterFollowed /\ sent!SentinelsJoin /\ sent!ReleaseEndsThreads /\ []sent!HealthFlagTrue

\* A scan that ends early has found every key once, two scans that share the cursors find every key between them
\* (ScanKeys), and so it is in the linker (LinkerCalls).
ScanComplete ==
    /\ part = "scan" => scan!ScanComplete /\ scan!ScansCoverTogether
    /\ part = "lscan" => linker!ScanComplete
=============================================================================
