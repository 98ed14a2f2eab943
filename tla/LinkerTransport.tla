-------------------------- MODULE LinkerTransport ---------------------------
(***************************************************************************)
(* What the Redis client of gb_down_linker                                 *)
(* (redis_client/redisconnection.cpp, redisclient.cpp, redisbase.cpp and   *)
(* socket.cpp) has in common with that of downdatarestorer_norah below its *)
(* commands: the reading of replies, the answers about other servers and   *)
(* about the nodes of a cluster, and the sockets. The code is that of the  *)
(* original but for log calls and what the sections say; every step is the *)
(* one of the module for the original.                                     *)
(***************************************************************************)
EXTENDS Integers, Sequences, FiniteSets

CONSTANT Few            \* of [parser, reply, size, whole]

VARIABLES wire, setup, unparse, buf, pos, mallocLen, valid, pc,
          parser, reply, parseState, arrayNum, doneNum, arrayLen, haveArray, curArray, info

CONSTANTS Addrs, MaxSlaves

VARIABLES kind, truth, type, answer, nread, count, found, result

CONSTANTS Inputs, Servers, MaxSlot

VARIABLES task, answers, lines, iter, filled, done, clusterMap

CONSTANTS Objs, MaxFd, ClosingEvents, MaxIncidents

VARIABLES open, fd, handler, met

recv == INSTANCE ReplyRecv
servers == INSTANCE ServerReplies
socket == INSTANCE Socket

-----------------------------------------------------------------------------
(***************************************************************************)
(* recv, parse, parseScanReply, recvWithParseEnhance and parseEnhance of   *)
(* redisconnection.cpp                                                     *)
(***************************************************************************)

\* recv and recvWithParseEnhance, up to the loop
InitRecv(c) ==
    \/ parser = "common" /\ recv!ParseInit(c.reply, c.size, c.whole) /\ curArray = 0
    \/ parser = "scan" /\ recv!ScanInit(c.reply, c.size, c.whole) /\ arrayLen = 0 /\ haveArray = FALSE /\ curArray = 0
InitRecvWithParseEnhance(c) == parser = "enhance" /\ recv!EnhInit(c.reply, c.size, c.whole)

ReplyInit == \E c \in recv!Cases : parser = c.parser /\ (InitRecv(c) \/ InitRecvWithParseEnhance(c))

Common(A)  == parser = "common"  /\ A /\ UNCHANGED <<parser, curArray>>
Scan(A)    == parser = "scan"    /\ A /\ UNCHANGED <<parser, arrayLen, haveArray, curArray>>
Enhance(A) == parser = "enhance" /\ A /\ UNCHANGED parser

\* recv, with either parser
Read    == Common(recv!ParseRead) \/ Scan(recv!ScanRead)
GiveUp  == Common(recv!ParseGiveUp) \/ Scan(recv!ScanGiveUp)

\* parse
ParseType == Common(recv!ParseType)
ParseInteger == Common(recv!ParseInteger)
ParseResult == Common(recv!ParseResult)
ParseLineElement == Common(recv!ParseLineElement)
ParseLength == Common(recv!ParseLength)
ParseString == Common(recv!ParseString)
ParseArrayLength == Common(recv!ParseArrayLength)
ParseNeedMore == Common(recv!ParseNeedMore)
ParseEnd == Common(recv!ParseEnd)

ScanType == Scan(recv!ScanType)
ScanError == Scan(recv!ScanError)
ScanArrayLength == Scan(recv!ScanArrayLength)
ScanCursorLength == Scan(recv!ScanCursorLength)
ScanCursor == Scan(recv!ScanCursor)
ScanKeysLength == Scan(recv!ScanKeysLength)
ScanKeyLength == Scan(recv!ScanKeyLength)
ScanKey == Scan(recv!ScanKey)
ScanRest == Scan(recv!ScanRest)

\* recvWithParseEnhance and parseEnhance
EnhRead == Enhance(recv!EnhRead)
EnhGiveUp == Enhance(recv!EnhGiveUp)
EnhType == Enhance(recv!EnhType)
EnhCheckArrays == Enhance(recv!EnhCheckArrays)
EnhInteger == Enhance(recv!EnhInteger)
EnhResult == Enhance(recv!EnhResult)
EnhArrayLength == Enhance(recv!EnhArrayLength)
EnhLineElement == Enhance(recv!EnhLineElement)
EnhLength == Enhance(recv!EnhLength)
EnhString == Enhance(recv!EnhString)
EnhEnd == Enhance(recv!EnhEnd)

\* The commands that are read by parseEnhance
doCommandWithParseEnhance ==
    \/ EnhRead \/ EnhGiveUp \/ EnhType \/ EnhCheckArrays \/ EnhInteger \/ EnhResult \/ EnhArrayLength
    \/ EnhLineElement \/ EnhLength \/ EnhString \/ EnhEnd

ReplyNext ==
    \/ Read \/ GiveUp
    \/ ParseType \/ ParseInteger \/ ParseResult \/ ParseLineElement \/ ParseLength \/ ParseString
    \/ ParseArrayLength \/ ParseNeedMore \/ ParseEnd
    \/ ScanType \/ ScanError \/ ScanArrayLength \/ ScanCursorLength \/ ScanCursor \/ ScanKeysLength
    \/ ScanKeyLength \/ ScanKey \/ ScanRest
    \/ doCommandWithParseEnhance

-----------------------------------------------------------------------------
\* A command that returns true returns the reply the server sent, however recv's reads
\* cut it.
Decodes == recv!Decodes
-----------------------------------------------------------------------------
(***************************************************************************)
(* INFO replication, SENTINEL slaves, SUBSCRIBE, and parseRedisReply       *)
(***************************************************************************)

ServersInit == servers!ServersInit
ParseInfoReplicationReply == servers!ParseInfoReplicationReply
ParseSentinelSlavesReply == servers!ParseSentinelSlavesReply
ParseSubsribeSwitchMasterReply == servers!ParseSubsribeSwitchMasterReply
parseRedisReply == servers!parseRedisReply
parseArrayInfo(k) == servers!parseArrayInfo(k)

ServersNext ==
    \/ servers!AnswerInfo \/ servers!AnswerSlaves \/ servers!AnswerSubscribe \/ servers!AnswerWhole
    \/ servers!wrongType
    \/ ParseInfoReplicationReply
    \/ ParseSentinelSlavesReply
    \/ ParseSubsribeSwitchMasterReply
    \/ parseRedisReply

-----------------------------------------------------------------------------
\* A positive result is complete (redis_client/redisclient.cpp:866, 1269, 1352)
AnswerUnderstood == servers!AnswerUnderstood
-----------------------------------------------------------------------------
(***************************************************************************)
(* CLUSTER NODES                                                           *)
(***************************************************************************)

NodesInit == servers!NodesInit

parseClusterInfo(ls) == servers!parseClusterInfo(ls)
\* parseOneCluster of one of the lines returns false
parseFails(ls) == servers!parseFails(ls)

Parse == IF parseFails(lines) THEN done' = "failed" /\ UNCHANGED clusterMap
         ELSE done' = "ok" /\ clusterMap' = parseClusterInfo(lines)

Skip == iter' = iter + 1 /\ UNCHANGED <<done, clusterMap>>

\* A command without an answer frees the parameter list: the servers after it are sent nothing
getRedisClusterNodes ==
    /\ task = "init"
    /\ \/ answers[iter] = "refuse" /\ Skip /\ UNCHANGED filled
       \/ (answers[iter] = "mute" \/ ~filled) /\ answers[iter] # "refuse" /\ Skip /\ filled' = FALSE
       \/ answers[iter] = "error" /\ filled /\ done' = "failed" /\ UNCHANGED <<iter, clusterMap, filled>>
       \/ answers[iter] \in {"slave", "nodes"} /\ filled /\ Parse /\ UNCHANGED <<iter, filled>>

getRedisClustersByCommand ==
    /\ task = "refresh" /\ UNCHANGED filled
    /\ \/ answers[iter] \in {"refuse", "mute", "slave"} /\ Skip
       \/ answers[iter] = "error" /\ done' = "failed" /\ UNCHANGED <<iter, clusterMap>>
       \/ answers[iter] = "nodes" /\ Parse /\ UNCHANGED iter
NobodyAnswered == servers!NobodyAnswered

NodesNext ==
    \/ /\ done = "no" /\ iter <= Servers /\ UNCHANGED <<task, answers, lines>>
       /\ getRedisClusterNodes \/ getRedisClustersByCommand
    \/ NobodyAnswered

-----------------------------------------------------------------------------
\* The client starts, and keeps its map fresh, as long as one server answers behind
\* servers that cannot be reached.
OneServerSuffices == servers!OneServerSuffices
-----------------------------------------------------------------------------
(***************************************************************************)
(* The Socket class. WaitReadEvent asks for readable before it asks for a  *)
(* disconnect, so that ClosingEvents does not hold the event with both,    *)
(* and the calls of getByName are guarded, which is one more way to return *)
(* before anything is created.                                             *)
(***************************************************************************)

SocketInit == socket!Init
close(o, ok) == socket!close(o, ok)
connectOk(o) == socket!connectOk(o)
connectRefused(o) == socket!connectRefused(o)
connectFails(o, ok) == socket!connectFails(o, ok)
connectOriginally(o) == socket!connectOriginally(o)
accept(o, s) == socket!accept(o, s)
read2Fails(o, ok) == fd[o] # -1 /\ close(o, ok) /\ UNCHANGED handler
readFullFails(o, ok) == socket!readFullFails(o, ok)
sendtoFails(o, ok) == socket!sendtoFails(o, ok)
bind(o) == socket!bind(o)
listen(o) == socket!listen(o)
writeFails(o, ok) == socket!writeFails(o, ok)
WatchReadEvent(o) == socket!WatchReadEvent(o)
WatchFails(o) == socket!WatchFails(o)
WaitReadEvent(o, event, ok) == socket!WaitReadEvent(o, event, ok)
UnWatchEvent(o) == socket!UnWatchEvent(o)

Other == socket!OtherOpens \/ \E n \in socket!Fds : socket!OtherCloses(n)

Step ==
    \/ \E o \in Objs :
        \/ connectOk(o) \/ connectRefused(o) \/ connectOriginally(o) \/ bind(o) \/ listen(o)
        \/ WatchReadEvent(o) \/ WatchFails(o) \/ UnWatchEvent(o)
        \/ \E s \in Objs : accept(o, s)
        \/ \E ok \in BOOLEAN : connectFails(o, ok) \/ read2Fails(o, ok) \/ readFullFails(o, ok) \/ sendtoFails(o, ok) \/ writeFails(o, ok)
        \/ \E ok \in BOOLEAN, event \in {"in", "hup", "inhup", "other"} : WaitReadEvent(o, event, ok)
    \/ Other

SocketNext == Step /\ Cardinality(met') <= MaxIncidents

-----------------------------------------------------------------------------
\* Each object's descriptor is an open one of its own, as long as close(2) has never failed
\* (socket.cpp:177)
OwnsItsDescriptor == socket!OwnsItsDescriptor
=============================================================================
