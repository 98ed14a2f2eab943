------------------------------ MODULE MCLinker ------------------------------
(***************************************************************************)
(* One instance of each part of gb/gb_down_linker: the restorer with its   *)
(* threads, the keys in Redis, the client in sentinel mode, and the        *)
(* entities' way into a value and back.  part picks the one that runs.     *)
(***************************************************************************)
EXTENDS LinkerRestorer

CONSTANTS Parts, Nodes, Known, MaxFaults

Linker == "34020000002000000001"
Devices == {"d1", "d2"}
Channels == {"c1"}
Workers == {"0", "1", "10"}
Index(w) == CASE w = "0" -> 0 [] w = "1" -> 1 [] OTHER -> 10
Starts == {<<"1", "10">>}
ThreadNumbers == {1, 10, 11}

Sentinels == {1, 2}
First == "a"
Quorum == 2
MaxCommands == 1

Block == 8
Sizes == {1, 20}
MaxChannels == 2

VARIABLES part,
          stored, meant, ops, loader, operations, faults,
          main, sent, lock, arg, sub, conn, inbox, health, check, signal, cstatus, ctold, master, env, ccount, cmet,
          entity, step, copy, todo, out, in

keys == INSTANCE LinkerStore WITH queue <- operations, MaxFaults <- 1, MaxOps <- 3
client == INSTANCE LinkerClient WITH status <- cstatus, told <- ctold, count <- ccount, met <- cmet
codec == INSTANCE EntityCodec

ASSUME Assumption == client!ClientAssumption

keyVars == <<stored, meant, ops, loader, operations, faults>>
clientVars == <<main, sent, lock, arg, sub, conn, inbox, health, check, signal, cstatus, ctold, master, env, ccount, cmet>>
codecVars == <<entity, step, copy, todo, out, in>>
linkerVars == <<part, vars, keyVars, clientVars, codecVars>>

\* A part that does not run stays in one of its initial states
LinkerInit ==
    /\ part \in Parts
    /\ Init /\ keys!Init /\ client!Init /\ codec!Init
    /\ part # "keys" => \A k \in DOMAIN stored : stored[k] = 0
    /\ part # "codec" => entity.kind = "channel" /\ entity.size = 1

Restorer(A) == part = "restorer" /\ A /\ UNCHANGED <<part, keyVars, clientVars, codecVars>>
Client(A) == part = "client" /\ A /\ UNCHANGED <<part, vars, keyVars, codecVars>>
Keys == part = "keys" /\ keys!Next /\ UNCHANGED <<part, vars, clientVars, codecVars>>
Codec == part = "codec" /\ codec!Next /\ UNCHANGED <<part, vars, keyVars, clientVars>>

\* Of two faults of the client's environment the second is a failover
SecondIsFailover == ccount'.faults = 2 => ccount.faults = 2 \/ env'.real # env.real

LinkerNext == Restorer(Next) \/ Client(client!Next /\ SecondIsFailover) \/ Keys \/ Codec

LinkerSpec == LinkerInit /\ [][LinkerNext]_linkerVars

\* One condition per thread of each part: as only one part runs, those of the two parts are
\* paired.  The restorer's worker and the client's health check ...
Loops == Restorer(WorkerDoes) \/ Client(client!Alive /\ client!HealthStep)
\* ... a report that has begun, and the master check
Answers == Restorer(\E t \in Threads : CbDoes(t)) \/ Client(client!Alive /\ client!CheckStep)
\* ... Stop, once it has been called, and init and freeRedisClient
Returns == \/ Restorer(At("stopping") /\ AppDoes)
           \/ Client(client!Alive /\ (client!InitStep \/ client!FreeStep))
\* ... a failed assertion, and the subscription thread
Others == Restorer(Wrecks) \/ Client(client!Alive /\ \E s \in Sentinels : client!SubStep(s))
\* ... and what is down is repaired
Repairs == Client(client!Alive /\ client!Repair)

LiveSpec ==
    /\ LinkerSpec /\ WF_linkerVars(Loops) /\ WF_linkerVars(Answers) /\ WF_linkerVars(Returns)
    /\ WF_linkerVars(Others) /\ WF_linkerVars(Repairs)

-----------------------------------------------------------------------------
\* The store is what the processed operations ask for; devices, channels and invites that are loaded fit together, every
\* stored invite is loaded by one worker, and PrepareLoadData deletes nothing that fits together (LinkerStore).
StoredAsMeant ==
    part = "keys" =>
        keys!StoredAsMeant /\ keys!LoadedFitsTogether /\ keys!PrepareKeepsTheRest /\ keys!EachInviteLoadedOnce

\* The restorer knows the client's status, whatever threads report at once (LinkerClient).
StatusTold == part = "client" => client!StatusTold

\* The client follows the last failover it has heard of, and no command meets a master without a pool; its threads are
\* joined before the pools are deleted; the invariant these facts need is one (LinkerClient).
FollowsFailover ==
    part = "client" =>
        client!FollowsFailover /\ client!NoNullMaster /\ client!ThreadsJoinedFirst /\ client!ClientInv

\* What is loaded is what was handed over, a queued entity can be saved, and the stream never writes behind its buffer
\* (EntityCodec).
RoundTrip == part = "codec" => codec!RoundTrip /\ codec!CopyCanBeSaved /\ codec!StreamHolds

\* Stop and freeRedisClient come to an end, and a queue that outgrows the threshold ends the restorer (LinkerRestorer,
\* LinkerClient).
CallsEnd == StopEnds /\ OverloadNoticed /\ client!FreeEnds

\* The client's status becomes Normal again: a failed command is followed by a look for the master, and a sentinel that
\* was away at init is connected later (LinkerClient).
StatusRecovers == client!StatusRecovers /\ client!SignalAnswered /\ client!SentinelsRetried
=============================================================================
