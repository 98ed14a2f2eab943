---------------------------- MODULE LinkerCalls -----------------------------
(***************************************************************************)
(* Two kinds of calls of the Redis client of gb_down_linker: a command on  *)
(* one connection (redisconnection.cpp, socket.cpp), and scanKeys and      *)
(* getKeysInCluster (redisclient.cpp).                                     *)
(***************************************************************************)
EXTENDS Integers, Sequences, SequencesExt

CONSTANT MaxCmd         \* commands issued on the connection

VARIABLES pc, cur, fd, nsock, chan, open, executed, result

CONSTANTS Callers, Layouts, Counts, MaxFaults

VARIABLES layout, count, mode, cursor, kpc, at, info, keys, faults, met

connection == INSTANCE RedisConnection
scan == INSTANCE ScanKeys WITH pc <- kpc

-----------------------------------------------------------------------------
(***************************************************************************)
(* A RedisConnection of gb_down_linker (redis_client/redisconnection.cpp,  *)
(* socket.cpp): the code of downdatarestorer_norah, but that               *)
(* Socket::connect catches what getByName throws, which is one more way    *)
(* for a connect to fail.                                                  *)
(***************************************************************************)

ConnectionInit == connection!Init
Begin == connection!Begin
ConnectOk == connection!ConnectOk
ConnectFails == connection!ConnectFails
SendOk == connection!SendOk
SendPart == connection!SendPart
SendFails == connection!SendFails
Read(n) == connection!Read(n)
ReadTimeout == connection!ReadTimeout
ReadEof == connection!ReadEof

\* The server and the network
Server(s) == connection!Execute(s) \/ connection!Deliver(s) \/ connection!ServerCloses(s)

Client ==
    \/ Begin \/ ConnectOk \/ ConnectFails \/ SendOk \/ SendPart \/ SendFails
    \/ (\E n \in 1 .. 2 : Read(n)) \/ ReadTimeout \/ ReadEof

ConnectionNext == Client \/ \E s \in 1 .. MaxCmd + 1 : Server(s)

-----------------------------------------------------------------------------
(***************************************************************************)
(* scanKeys and getKeysInCluster of gb_down_linker                         *)
(* (redis_client/redisclient.cpp): the code of downdatarestorer_norah, but *)
(* that getKeys asks every master only in cluster mode; in the other modes *)
(* KEYS is a command like others (LinkerCommands).                         *)
(***************************************************************************)

ScanInit == scan!Init
fillScanCommandPara(c) == scan!fillScanCommandPara(c)
updateClusterCursor(c, new) == scan!updateClusterCursor(c, new)
BeginScan(t) == scan!BeginScan(t)
ScanEnd(t) == scan!ScanEnd(t)
Visit(t) == scan!Visit(t)

Answer(t) ==
    /\ kpc[t] = "answer"
    /\ LET c == at[t]
           sent == fillScanCommandPara(info[t])
           new == keys[t] \o SetToSeq(scan!Page(c, sent))
       IN  /\ keys' = [keys EXCEPT ![t] = new]
           /\ updateClusterCursor(c, scan!Following(c, sent))
           /\ scan!NextPage(t, new, scan!Following(c, sent))
    /\ UNCHANGED <<layout, count, mode, info, faults, met>>

AnswerError(t) == scan!AnswerError(t)
AnswerFails(t) == scan!AnswerFails(t)
Backup(t) == scan!Backup(t)
BackupFails(t) == scan!BackupFails(t)
getKeysInCluster(t) == scan!BeginKeys(t)
KeysOfCluster(t) == scan!KeysOfCluster(t)
KeysFromBackups(t) == scan!KeysFromBackups(t)

ScanNext ==
    \/ \E t \in Callers :
          \/ BeginScan(t) \/ Visit(t) \/ Answer(t) \/ AnswerError(t) \/ AnswerFails(t) \/ Backup(t)
          \/ BackupFails(t) \/ ScanEnd(t) \/ getKeysInCluster(t) \/ KeysOfCluster(t) \/ KeysFromBackups(t)
    \/ \E c \in 1 .. Len(layout) : scan!Leave(c)

\* A caller goes on
Proceed == \E t \in Callers : Visit(t) \/ Answer(t) \/ Backup(t) \/ ScanEnd(t) \/ KeysOfCluster(t)

-----------------------------------------------------------------------------
\* In loop mode a scan that ends before it has enough keys has found every key of every
\* master exactly once, if nobody scanned at the same time and no cluster failed, was
\* asked through its backup, or left the map; so has getKeysInCluster.
ScanComplete == scan!ScanComplete
=============================================================================
