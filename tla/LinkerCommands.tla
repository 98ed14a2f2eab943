------------------------- MODULE LinkerCommands -------------------------
(***************************************************************************)
(* The commands of RedisClient in gb_down_linker                           *)
(* (redis_client/redisclient.cpp, redisclient.h).  Filling the parameters  *)
(* and reading replies is the code of downdatarestorer_norah               *)
(* (ClientCommands).  What differs: KEYS is a command of its own outside a *)
(* cluster, there are neither optimistic locks nor the commands for        *)
(* parseEnhance, and doRedisCommandMaster asks no slave but has the master *)
(* checked.                                                                *)
(***************************************************************************)
EXTENDS Integers, Sequences

CONSTANTS Lengths, Slaves, MaxExec

VARIABLES stage, mode, op, cmd, at, answer, results, outcome

norah == INSTANCE ClientCommands

getSerial(k, v) == norah!getSerial(k, v)
find(k, v) == norah!find(k, v)
setSerial(k, v) == norah!setSerial(k, v)
setSerialString(k, v) == norah!setSerialString(k, v)
setSerialWithExpire(k, v) == norah!setSerialWithExpire(k, v)
del(k, v) == norah!del(k, v)
setKeyExpireTime(k, v) == norah!setKeyExpireTime(k, v)
zadd(k, v) == norah!zadd(k, v)
zrem(k, v) == norah!zrem(k, v)
zincby(k, v) == norah!zincby(k, v)
zcount(k, v) == norah!zcount(k, v)
zcard(k, v) == norah!zcard(k, v)
dbsize(k, v) == norah!dbsize(k, v)
zscore(k, v) == norah!zscore(k, v)
zrangebyscore(k, v) == norah!zrangebyscore(k, v)
zremrangebyscore(k, v) == norah!zremrangebyscore(k, v)
sadd(k, v) == norah!sadd(k, v)
srem(k, v) == norah!srem(k, v)
scard(k, v) == norah!scard(k, v)
sismember(k, v) == norah!sismember(k, v)
smembers(k, v) == norah!smembers(k, v)
\* KEYS, outside a cluster
getKeys(k, v) == norah!getKeys(k, v)

SentinelGetSlavesInfo(k, v) == norah!SentinelGetSlavesInfo(k, v)
SentinelGetMasterAddrByName(k, v) == norah!SentinelGetMasterAddrByName(k, v)
MasterGetReplicationSlavesInfo(k, v) == norah!MasterGetReplicationSlavesInfo(k, v)
SubscribeSwitchMaster(k, v) == norah!SubscribeSwitchMaster(k, v)
AuthPasswd(k, v) == norah!AuthPasswd(k, v)
getRedisClustersByCommand(k, v) == norah!getRedisClustersByCommand(k, v)
getRedisClusterNodes(k, v) == norah!getRedisClusterNodes(k, v)
fillScanCommandPara(k, v) == norah!fillScanCommandPara(k, v)
StartTransaction(k, v) == norah!StartTransaction(k, v)
DiscardTransaction(k, v) == norah!DiscardTransaction(k, v)
ExecTransaction(k, v) == norah!ExecTransaction(k, v)
WatchKey(k, v) == norah!WatchKey(k, v)
Unwatch(k, v) == norah!Unwatch(k, v)
SetIn(k, v) == norah!SetIn(k, v)
SetStringIn(k, v) == norah!SetStringIn(k, v)
DelIn(k, v) == norah!DelIn(k, v)
SaddIn(k, v) == norah!SaddIn(k, v)
SremIn(k, v) == norah!SremIn(k, v)

Operations(k, v) ==
    [get |-> getSerial(k, v), find |-> find(k, v), set |-> setSerial(k, v),
     setstring |-> setSerialString(k, v), setex |-> setSerialWithExpire(k, v), del |-> del(k, v),
     expire |-> setKeyExpireTime(k, v), zadd |-> zadd(k, v), zrem |-> zrem(k, v), zincrby |-> zincby(k, v),
     zcount |-> zcount(k, v), zcard |-> zcard(k, v), dbsize |-> dbsize(k, v), zscore |-> zscore(k, v),
     zrangebyscore |-> zrangebyscore(k, v), zremrangebyscore |-> zremrangebyscore(k, v), sadd |-> sadd(k, v),
     srem |-> srem(k, v), scard |-> scard(k, v), sismember |-> sismember(k, v), smembers |-> smembers(k, v),
     keys |-> getKeys(k, v)]

Others(k, v) ==
    [slaves |-> SentinelGetSlavesInfo(k, v), master |-> SentinelGetMasterAddrByName(k, v),
     info |-> MasterGetReplicationSlavesInfo(k, v), subscribe |-> SubscribeSwitchMaster(k, v),
     auth |-> AuthPasswd(k, v), nodes |-> getRedisClustersByCommand(k, v),
     initnodes |-> getRedisClusterNodes(k, v), scan |-> fillScanCommandPara(k, v)]

InTransaction(k, v) ==
    [multi |-> StartTransaction(k, v), discard |-> DiscardTransaction(k, v), exec |-> ExecTransaction(k, v),
     watch |-> WatchKey(k, v), unwatch |-> Unwatch(k, v), setin |-> SetIn(k, v),
     setstringin |-> SetStringIn(k, v), delin |-> DelIn(k, v), saddin |-> SaddIn(k, v),
     sremin |-> SremIn(k, v)]

CommandTypes ==
    <<"UNKNOWN", "AUTH",
      "READ_START", "GET", "EXISTS", "DBSIZE", "ZCOUNT", "ZCARD", "ZSCORE", "ZRANGEBYSCORE", "SCARD",
      "SISMEMBER", "SMEMBERS", "KEYS", "READ_END",
      "WRITE_START", "SET", "DEL", "EXPIRE", "ZADD", "ZREM", "ZINCRBY", "ZREMRANGEBYSCORE", "SADD",
      "SREM", "WRITE_END",
      "ALONE_START", "WATCH", "UNWATCH", "MULTI", "EXEC", "DISCARD", "ALONE_END",
      "SENTINEL_START", "SENTINEL_GET_MASTER_ADDR", "INFO_REPLICATION", "SENTINEL_CKQUORUM", "SENTINEL_END">>

Rank(type) == CHOOSE i \in DOMAIN CommandTypes : CommandTypes[i] = type

IsCommandWriteType(type) == Rank(type) > Rank("WRITE_START") /\ Rank(type) < Rank("WRITE_END")

-----------------------------------------------------------------------------
(* ParseRedisReplyForStandAloneAndMasterMode, and the switches of          *)
(* doRedisCommandCluster and doTransactionCommandInConnection              *)

parseGetSerialReply(a) == norah!parseGetSerialReply(a)
parseSetSerialReply(a) == norah!parseSetSerialReply(a)
parseFindReply(a) == norah!parseFindReply(a)
parseKeysCommandReply(a) == norah!parseGetKeysReply(a)
parseStatusResponseReply(a) == norah!parseStatusResponseReply(a)
parseQueuedResponseReply(a) == norah!parseQueuedResponseReply(a)
parseExecReply(a, rs) == norah!parseExecReply(a, rs)
checkIfNeedRedirect(a) == norah!checkIfNeedRedirect("cluster", a)

AloneKeyReply(type, a) ==
    CASE type = "GET" -> parseGetSerialReply(a)
      [] type \in {"SET", "AUTH"} -> parseSetSerialReply(a)
      [] OTHER -> parseFindReply(a) /\ a # "int0"

AloneSortedSetReply(type, a) == norah!AloneSortedSetReply(type, a)

AloneCountReply(type, a) ==
    CASE type = "ZSCORE" -> a \in norah!Bulks \ {"nilbulk"}
      [] type \in {"ZRANGEBYSCORE", "SMEMBERS", "KEYS"} -> parseKeysCommandReply(a)
      [] OTHER -> parseFindReply(a)

AloneReply(type, a) ==
    norah!Said(IF type \in norah!Keys THEN AloneKeyReply(type, a)
               ELSE IF type \in norah!SortedSets THEN AloneSortedSetReply(type, a)
               ELSE AloneCountReply(type, a))

ClusterKeyReply(type, a) == norah!ClusterKeyReply(type, a)
ClusterSortedSetReply(type, a) == norah!ClusterSortedSetReply(type, a)
ClusterCountReply(type, a) == norah!ClusterCountReply(type, a)

ClusterReply(type, a) ==
    IF checkIfNeedRedirect(a) THEN "redirect"
    ELSE norah!Said(IF type \in norah!Keys THEN ClusterKeyReply(type, a)
                    ELSE IF type \in norah!SortedSets THEN ClusterSortedSetReply(type, a)
                    ELSE ClusterCountReply(type, a))

TransactionReply(type, a, rs) ==
    norah!Said(CASE type \in {"SET", "DEL", "SADD", "SREM"} -> parseQueuedResponseReply(a)
                 [] type \in {"WATCH", "UNWATCH", "MULTI", "DISCARD"} -> parseStatusResponseReply(a)
                 [] type = "EXEC" -> parseExecReply(a, rs))

-----------------------------------------------------------------------------
Init == norah!Init

\* doRedisCommand; getKeys does not come here in a cluster
Issue(o, k, v) ==
    /\ stage = "idle" /\ stage' = "sent" /\ op' = o /\ cmd' = Operations(k, v)[o]
    /\ o = "keys" => mode # "cluster"
    /\ UNCHANGED <<mode, at, answer, results, outcome>>

\* The other commands: only their buffer matters here
IssueOther(o, k, v) ==
    /\ stage = "idle" /\ stage' = "done" /\ op' = "other" /\ cmd' = Others(k, v)[o]
    /\ UNCHANGED <<mode, at, answer, results, outcome>>

IssueInTransaction(o, k, v) ==
    /\ stage = "idle" /\ mode = "alone" /\ stage' = "sent" /\ op' = "transaction" /\ cmd' = InTransaction(k, v)[o]
    /\ UNCHANGED <<mode, at, answer, results, outcome>>

Finish(a, rs, r) == stage' = "done" /\ answer' = a /\ results' = rs /\ outcome' = r /\ UNCHANGED <<mode, op, cmd, at>>

\* doRedisCommandStandAlone and doRedisCommandMaster
AnswerAlone(a) ==
    /\ stage = "sent" /\ mode \in {"alone", "master"} /\ op # "transaction" /\ a \in norah!Simple
    /\ Finish(a, <<>>, AloneReply(cmd.type, a))

AnswerCluster(a) ==
    /\ stage = "sent" /\ mode = "cluster" /\ a \in norah!Simple \cup {"moved"}
    /\ Finish(a, <<>>, ClusterReply(cmd.type, a))

AnswerTransaction(a) ==
    /\ stage = "sent" /\ op = "transaction"
    /\ a \in (IF cmd.type = "EXEC" THEN {"array", "nullarray", "error"} ELSE {"status", "error"})
    /\ \E rs \in (IF a = "array" THEN norah!Results ELSE {<<>>}) : Finish(a, rs, TransactionReply(cmd.type, a, rs))

\* No answer: only in a cluster, and only for a read, the slaves are asked
Fails ==
    /\ stage = "sent"
    /\ IF mode = "cluster" /\ ~IsCommandWriteType(cmd.type) /\ at < Slaves
       THEN at' = at + 1 /\ UNCHANGED <<stage, mode, op, cmd, answer, results, outcome>>
       ELSE Finish("none", <<>>, "failed")

Next ==
    \/ \E k, v \in Lengths :
          \/ \E o \in DOMAIN Operations(k, v) : Issue(o, k, v)
          \/ \E o \in DOMAIN Others(k, v) : IssueOther(o, k, v)
          \/ \E o \in DOMAIN InTransaction(k, v) : IssueInTransaction(o, k, v)
    \/ \E a \in norah!Simple \cup {"moved"} : AnswerAlone(a) \/ AnswerCluster(a) \/ AnswerTransaction(a)
    \/ Fails

-----------------------------------------------------------------------------
\* The buffer doRedisCommand allocates from an operation's estimate holds what
\* createRedisCommand writes into it, for parameters of every length.
CommandFits == norah!CommandFits

\* Only reads are sent to a slave, and none outside a cluster: the KEYS that the enum was
\* given has not moved an operation across its bounds.
WritesStayOnMaster == at > 0 => mode = "cluster" /\ op \in norah!Reads
=============================================================================
