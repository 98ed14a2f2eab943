---------------------------- MODULE ClientCommands --------------------------
(***************************************************************************)
(* The commands of RedisClient (gb/downdatarestorer_norah/redisclient.cpp):*)
(* how each operation fills its parameter list and estimates the buffer    *)
(* createRedisCommand writes into, whether its type keeps it off the       *)
(* slaves, and how the three copies of the reply switch read the answer.   *)
(* Texts are abstracted to their lengths.                                  *)
(***************************************************************************)
EXTENDS Integers, FiniteSets, SequencesExt

CONSTANTS Lengths,      \* lengths of keys, members and values: at most six digits
          Slaves,       \* nodes that follow the master
          MaxExec       \* commands of a transaction

VARIABLES stage,        \* "idle", "sent", "done"
          mode,         \* m_redisMode: "alone", "master" or "cluster"
          op, cmd,      \* the operation, and the command it has built
          at,           \* the node it was sent to last: 0 the master, 1 .. Slaves
          answer,       \* the server's answer
          results,      \* and what it holds, for EXEC
          outcome       \* "none", "ok", "failed", "redirect"

vars == <<stage, mode, op, cmd, at, answer, results, outcome>>

-----------------------------------------------------------------------------
(* fillCommandPara and what each call adds to paraLen.                     *)

Para(len, budget) == [len |-> len, budget |-> budget]
Verb(len, budget) == <<Para(len, budget)>>
\* paraLen += length + slack
Arg(len, slack) == <<Para(len, len + slack)>>

Command(params, type) == [params |-> params, type |-> type]

getSerial(k, v) == Command(Verb(3, 15) \o Arg(k, 20), "GET")
find(k, v) == Command(Verb(6, 15) \o Arg(k, 20), "EXISTS")
setSerial(k, v) == Command(Verb(3, 15) \o Arg(k, 20) \o Arg(v, 20), "SET")
setSerialString(k, v) == Command(Verb(3, 15) \o Arg(k, 20) \o Arg(v, 20), "SET")
setSerialWithExpire(k, v) == Command(Verb(5, 17) \o Arg(k, 20) \o Arg(10, 20) \o Arg(v, 20), "SET")
del(k, v) == Command(Verb(3, 15) \o Arg(k, 20), "DEL")
setKeyExpireTime(k, v) == Command(Verb(6, 15) \o Arg(k, 20) \o Arg(10, 20), "EXPIRE")
\* A score is an int: at most 11 characters
zadd(k, v) == Command(Verb(4, 16) \o Arg(k, 20) \o Arg(11, 20) \o Arg(v, 20), "ZADD")
zrem(k, v) == Command(Verb(4, 16) \o Arg(k, 20) \o Arg(v, 20), "ZREM")
zincby(k, v) == Command(Verb(7, 19) \o Arg(k, 20) \o Arg(11, 20) \o Arg(v, 20), "ZINCRBY")
zcount(k, v) == Command(Verb(6, 18) \o Arg(k, 20) \o Arg(11, 20) \o Arg(11, 20), "ZCOUNT")
zcard(k, v) == Command(Verb(5, 16) \o Arg(k, 20), "ZCARD")
dbsize(k, v) == Command(Verb(6, 17), "DBSIZE")
zscore(k, v) == Command(Verb(6, 18) \o Arg(k, 20) \o Arg(v, 20), "ZSCORE")
zrangebyscore(k, v) == Command(Verb(13, 25) \o Arg(k, 20) \o Arg(11, 20) \o Arg(11, 20), "ZRANGEBYSCORE")
zremrangebyscore(k, v) == Command(Verb(16, 28) \o Arg(k, 20) \o Arg(11, 20) \o Arg(11, 20), "ZREMRANGEBYSCORE")
sadd(k, v) == Command(Verb(4, 15) \o Arg(k, 20) \o Arg(v, 20), "SADD")
srem(k, v) == Command(Verb(4, 15) \o Arg(k, 20) \o Arg(v, 20), "SREM")
scard(k, v) == Command(Verb(5, 16) \o Arg(k, 20), "SCARD")
sismember(k, v) == Command(Verb(9, 20) \o Arg(k, 20) \o Arg(v, 20), "SISMEMBER")
smembers(k, v) == Command(Verb(8, 19) \o Arg(k, 11), "SMEMBERS")
DoSaddWithParseEnhance(k, v) == Command(Verb(4, 15) \o Arg(k, 11) \o Arg(v, 11), "RAW")
DoGetWithParseEnhance(k, v) == Command(Verb(3, 14) \o Arg(k, 11), "RAW")
DoSetWithParseEnhance(k, v) == Command(Verb(3, 14) \o Arg(k, 11) \o Arg(v, 11), "RAW")
\* The callers pass a short word; one of 100 characters would not fit
DoWrongCmdWithParseEnhance(k, v) == Command(Arg(IF k < 100 THEN k ELSE 99, 11), "RAW")
DoScanWithParseEnhance(k, v) == Command(Verb(4, 15) \o Arg(1, 11), "RAW")
DoSmembersWithParseEnhance(k, v) == Command(Verb(8, 19) \o Arg(k, 11), "RAW")
SentinelGetSlavesInfo(k, v) == Command(Verb(8, 18) \o Verb(6, 16) \o Arg(k, 20), "RAW")
SentinelGetMasterAddrByName(k, v) == Command(Verb(8, 18) \o Verb(23, 33) \o Arg(k, 10), "RAW")
MasterGetReplicationSlavesInfo(k, v) == Command(Verb(4, 14) \o Verb(11, 21), "RAW")
SubscribeSwitchMaster(k, v) == Command(Verb(9, 19) \o Verb(14, 24), "RAW")
AuthPasswd(k, v) == Command(Verb(4, 15) \o Arg(k, 20), "AUTH")
getKeys(k, v) == Command(Verb(4, 15) \o Arg(k + 1, 20), "KEYS")
getRedisClustersByCommand(k, v) == Command(<<Para(7, 30), Para(5, 0)>>, "RAW")
getRedisClusterNodes(k, v) == Command(<<Para(7, 30), Para(5, 0)>>, "RAW")
\* scan <cursor> MATCH <key>* COUNT <count>: an int has at most 10 digits here
fillScanCommandPara(k, v) ==
    Command(Verb(4, 15) \o Arg(10, 11) \o Verb(5, 16) \o Arg(k + 1, 11) \o Verb(5, 16) \o Arg(5, 11), "SCAN")
StartTransaction(k, v) == Command(Verb(5, 18), "MULTI")
DiscardTransaction(k, v) == Command(Verb(7, 18), "DISCARD")
ExecTransaction(k, v) == Command(Verb(4, 18), "EXEC")
WatchKey(k, v) == Command(Verb(5, 18) \o Arg(k, 20), "WATCH")
\* "unwatch" is handed over with length 6: the server sees the unknown command "unwatc"
Unwatch(k, v) == Command(Verb(6, 20), "UNWATCH")
SetIn(k, v) == Command(Verb(3, 15) \o Arg(k, 20) \o Arg(v, 20), "SET")
SetStringIn(k, v) == Command(Verb(3, 15) \o Arg(k, 20) \o Arg(v, 20), "SET")
DelIn(k, v) == Command(Verb(3, 15) \o Arg(k, 20), "DEL")
SaddIn(k, v) == Command(Verb(4, 15) \o Arg(k, 20) \o Arg(v, 20), "SADD")
SremIn(k, v) == Command(Verb(4, 15) \o Arg(k, 20) \o Arg(v, 20), "SREM")

Build(o, k, v) ==
    CASE o = "get" -> getSerial(k, v) [] o = "find" -> find(k, v) [] o = "set" -> setSerial(k, v)
      [] o = "setstring" -> setSerialString(k, v) [] o = "setex" -> setSerialWithExpire(k, v)
      [] o = "del" -> del(k, v) [] o = "expire" -> setKeyExpireTime(k, v)
      [] o = "zadd" -> zadd(k, v) [] o = "zrem" -> zrem(k, v) [] o = "zincrby" -> zincby(k, v)
      [] o = "zcount" -> zcount(k, v) [] o = "zcard" -> zcard(k, v) [] o = "dbsize" -> dbsize(k, v)
      [] o = "zscore" -> zscore(k, v) [] o = "zrangebyscore" -> zrangebyscore(k, v)
      [] o = "zremrangebyscore" -> zremrangebyscore(k, v)
      [] o = "sadd" -> sadd(k, v) [] o = "srem" -> srem(k, v) [] o = "scard" -> scard(k, v)
      [] o = "sismember" -> sismember(k, v) [] o = "smembers" -> smembers(k, v)

Routed == {"get", "find", "set", "setstring", "setex", "del", "expire", "zadd", "zrem", "zincrby", "zcount",
           "zcard", "dbsize", "zscore", "zrangebyscore", "zremrangebyscore", "sadd", "srem", "scard",
           "sismember", "smembers"}

\* The commands that do not go through the reply switch
Special(k, v) ==
    {DoSaddWithParseEnhance(k, v), DoGetWithParseEnhance(k, v), DoSetWithParseEnhance(k, v),
     DoWrongCmdWithParseEnhance(k, v), DoScanWithParseEnhance(k, v), DoSmembersWithParseEnhance(k, v),
     SentinelGetSlavesInfo(k, v), SentinelGetMasterAddrByName(k, v), MasterGetReplicationSlavesInfo(k, v),
     SubscribeSwitchMaster(k, v), AuthPasswd(k, v), getKeys(k, v), getRedisClustersByCommand(k, v),
     getRedisClusterNodes(k, v), fillScanCommandPara(k, v), StartTransaction(k, v), DiscardTransaction(k, v),
     ExecTransaction(k, v), WatchKey(k, v), Unwatch(k, v), SetIn(k, v), SetStringIn(k, v), DelIn(k, v),
     SaddIn(k, v), SremIn(k, v)}

Digits(n) == IF n = 0 THEN 1 ELSE Cardinality({d \in 0 .. 9 : n >= 10 ^ d})

\* createRedisCommand: "*n\r\n", and "$len\r\n" text "\r\n" for each parameter
Encoded(params) ==
    3 + Digits(Len(params))
    + FoldLeft(LAMBDA sum, p : sum + p.len + 5 + Digits(p.len), 0, params)

Allocated(params) == FoldLeft(LAMBDA sum, p : sum + p.budget, 0, params)

-----------------------------------------------------------------------------
(* The order of enum RedisCommandType decides what is a write.             *)

CommandTypes ==
    <<"UNKNOWN", "AUTH",
      "READ_START", "GET", "EXISTS", "DBSIZE", "ZCOUNT", "ZCARD", "ZSCORE", "ZRANGEBYSCORE", "SCARD",
      "SISMEMBER", "SMEMBERS", "READ_END",
      "WRITE_START", "SET", "DEL", "EXPIRE", "ZADD", "ZREM", "ZINCRBY", "ZREMRANGEBYSCORE", "SADD",
      "SREM", "WRITE_END",
      "ALONE_START", "WATCH", "UNWATCH", "MULTI", "EXEC", "DISCARD", "ALONE_END">>

Rank(type) == CHOOSE i \in DOMAIN CommandTypes : CommandTypes[i] = type

IsCommandWriteType(type) == Rank(type) > Rank("WRITE_START") /\ Rank(type) < Rank("WRITE_END")

-----------------------------------------------------------------------------
(* Answers, by what the parsers tell apart, and the functions that read    *)
(* them.  "badtext" is a value DBSerialize::load does not accept; an EXEC  *)
(* is answered with the sequence of its results.                           *)

Ints == {"int0", "int1", "int2"}
Bulks == {"nilbulk", "text", "badtext"}
Simple == {"status", "error", "array", "nullarray"} \cup Ints \cup Bulks
Results == UNION {[1 .. n -> {"ok", "int0", "int1", "error", "nilbulk"}] : n \in 0 .. MaxExec}

NoResults == <<>>

\* MOVED comes from the nodes of a cluster only
checkIfNeedRedirect(m, a) == m # "alone" /\ a = "moved"
parseGetSerialReply(a) == a = "text"
parseFindReply(a) == a \in Ints
parseSetSerialReply(a) == a = "status"
parseStatusResponseReply(a) == a = "status"
parseQueuedResponseReply(a) == a = "status"
parseGetKeysReply(a) == a \in {"error", "array", "nullarray"}

Said(b) == IF b THEN "ok" ELSE "failed"

Keys == {"GET", "SET", "AUTH", "EXISTS", "DEL", "EXPIRE"}
SortedSets == {"ZADD", "ZREM", "ZINCRBY", "ZREMRANGEBYSCORE"}

\* ParseRedisReplyForStandAloneAndMasterMode
AloneKeyReply(type, a) ==
    CASE type = "GET" -> parseGetSerialReply(a)
      [] type \in {"SET", "AUTH"} -> parseSetSerialReply(a)
      [] OTHER -> parseFindReply(a) /\ a # "int0"

AloneSortedSetReply(type, a) == IF type = "ZINCRBY" THEN a \in Bulks ELSE parseFindReply(a) /\ a # "int0"

AloneCountReply(type, a) ==
    CASE type = "ZSCORE" -> a \in Bulks \ {"nilbulk"}
      [] type \in {"ZRANGEBYSCORE", "SMEMBERS"} -> parseGetKeysReply(a)
      [] OTHER -> parseFindReply(a)

AloneReply(type, a) ==
    Said(IF type \in Keys THEN AloneKeyReply(type, a)
         ELSE IF type \in SortedSets THEN AloneSortedSetReply(type, a)
         ELSE AloneCountReply(type, a))

\* Wrong on purpose: takes any answer but an error for success
ClusterKeyReplyAccepting(type, a) == IF type = "GET" THEN parseGetSerialReply(a) ELSE a # "error"

\* The switch of doRedisCommandCluster: list reads do not look at what the parser says
ClusterKeyReply(type, a) ==
    CASE type = "GET" -> parseGetSerialReply(a)
      [] type \in {"SET", "AUTH"} -> parseSetSerialReply(a)
      [] OTHER -> parseFindReply(a) /\ a # "int0"

ClusterSortedSetReply(type, a) == IF type = "ZINCRBY" THEN a \in Bulks ELSE parseFindReply(a) /\ a # "int0"

ClusterCountReply(type, a) ==
    CASE type = "ZSCORE" -> a \in Bulks \ {"nilbulk"}
      [] type \in {"ZRANGEBYSCORE", "SMEMBERS"} -> TRUE
      [] OTHER -> parseFindReply(a)

ClusterReply(type, a) ==
    IF checkIfNeedRedirect("cluster", a) THEN "redirect"
    ELSE Said(IF type \in Keys THEN ClusterKeyReply(type, a)
              ELSE IF type \in SortedSets THEN ClusterSortedSetReply(type, a)
              ELSE ClusterCountReply(type, a))

\* parseExecReply of a transaction: results are looked at in order, and ":0" ends the search
parseExecReply(a, rs) ==
    /\ a = "array"
    /\ \A i \in DOMAIN rs : rs[i] \in {"error", "nilbulk"} => \E j \in 1 .. i - 1 : rs[j] = "int0"

\* The switch of doTransactionCommandInConnection
TransactionReply(type, a, rs) ==
    Said(CASE type \in {"SET", "DEL", "SADD", "SREM"} -> parseQueuedResponseReply(a)
           [] type \in {"WATCH", "UNWATCH", "MULTI", "DISCARD"} -> parseStatusResponseReply(a)
           [] type = "EXEC" -> parseExecReply(a, rs))

-----------------------------------------------------------------------------
Init == /\ stage = "idle" /\ mode \in {"alone", "master", "cluster"} /\ op = "none"
        /\ cmd = Command(<<>>, "UNKNOWN") /\ at = 0 /\ answer = "none" /\ results = NoResults /\ outcome = "none"

\* doRedisCommand hands the command to the function of the mode
Issue(o, k, v) ==
    /\ stage = "idle" /\ stage' = "sent" /\ op' = o /\ cmd' = Build(o, k, v)
    /\ UNCHANGED <<mode, at, answer, results, outcome>>

\* The other commands: only their buffer matters here
IssueSpecial(k, v) ==
    /\ stage = "idle" /\ stage' = "done" /\ \E c \in Special(k, v) : cmd' = c
    /\ op' = "special" /\ UNCHANGED <<mode, at, answer, results, outcome>>

\* A command of a transaction, on the connection of PrepareTransaction
IssueInTransaction(c) ==
    /\ stage = "idle" /\ mode = "alone" /\ stage' = "sent" /\ op' = "transaction" /\ cmd' = c
    /\ UNCHANGED <<mode, at, answer, results, outcome>>

Finish(a, rs, r) == stage' = "done" /\ answer' = a /\ results' = rs /\ outcome' = r

\* doRedisCommandStandAlone
AnswerAlone(a) ==
    /\ mode \in {"alone", "master"} /\ op \in Routed
    /\ a \in Simple /\ Finish(a, NoResults, AloneReply(cmd.type, a))

AnswerCluster(a) ==
    /\ mode = "cluster" /\ op \in Routed
    /\ a \in Simple \cup {"moved"} /\ Finish(a, NoResults, ClusterReply(cmd.type, a))

AnswerTransaction(a) ==
    /\ op = "transaction"
    /\ a \in (IF cmd.type = "EXEC" THEN {"array", "nullarray", "error"} ELSE {"status", "error"})
    /\ \E rs \in (IF a = "array" THEN Results ELSE {NoResults}) :
          Finish(a, rs, TransactionReply(cmd.type, a, rs))

Answer(a) ==
    /\ stage = "sent" /\ (AnswerAlone(a) \/ AnswerCluster(a) \/ AnswerTransaction(a))
    /\ UNCHANGED <<mode, op, cmd, at>>

\* Wrong on purpose: sends a failed write to a slave
FailsRetriesWrites ==
    /\ stage = "sent"
    /\ IF mode = "alone" \/ at = Slaves
       THEN Finish("none", NoResults, "failed") /\ UNCHANGED at
       ELSE at' = at + 1 /\ UNCHANGED <<stage, answer, results, outcome>>
    /\ UNCHANGED <<mode, op, cmd>>

\* The node does not answer: doRedisCommandMaster and doRedisCommandCluster try the slaves
\* (in master mode those that are alive) unless the command is a write
Fails ==
    /\ stage = "sent"
    /\ \/ /\ Finish("none", NoResults, "failed") /\ UNCHANGED at
          /\ mode = "alone" \/ IsCommandWriteType(cmd.type) \/ at = Slaves \/ mode = "master"
       \/ /\ mode # "alone" /\ ~IsCommandWriteType(cmd.type)
          /\ at' \in at + 1 .. (IF mode = "master" THEN Slaves ELSE at + 1) /\ at' <= Slaves
          /\ UNCHANGED <<stage, answer, results, outcome>>
    /\ UNCHANGED <<mode, op, cmd>>

InTransaction ==
    {StartTransaction(1, 1), DiscardTransaction(1, 1), ExecTransaction(1, 1), WatchKey(1, 1), SetIn(1, 1),
     DelIn(1, 1), SaddIn(1, 1), SremIn(1, 1)}

Next ==
    \/ \E o \in Routed, k, v \in Lengths : Issue(o, k, v)
    \/ \E k, v \in Lengths : IssueSpecial(k, v)
    \/ \E c \in InTransaction : IssueInTransaction(c)
    \/ \E a \in Simple \cup {"moved"} : Answer(a)
    \/ Fails

Spec == Init /\ [][Next]_vars

-----------------------------------------------------------------------------
Lists == {"smembers", "zrangebyscore"}
Reads == {"get", "find", "zcount", "zcard", "dbsize", "zscore", "scard", "sismember"} \cup Lists

\* The buffer doRedisCommand allocates from the operation's estimate holds what
\* createRedisCommand writes into it, for parameters of every length.
CommandFits == Encoded(cmd.params) <= Allocated(cmd.params) \/ stage = "idle"

\* Only reads are sent to a slave: every operation that changes data has a type that
\* IsCommandWriteType, the position in the enum, takes for a write.
WritesStayOnMaster == at > 0 => op \in Reads

\* An operation does not report success for an error, an absent value or a broken one,
\* whichever copy of the reply switch has read the answer; a list read is the exception,
\* parseGetKeysReply takes an error for an empty list.
SuccessIsReal ==
    outcome = "ok" /\ op \in Routed \ Lists =>
        /\ answer \notin {"error", "nullarray", "moved"}
        /\ answer \in {"nilbulk", "badtext"} => op \in {"zincrby", "zscore"}

\* The copies of the reply switch for the cluster and for the other modes agree on
\* everything but redirections and list reads.
SwitchesAgree ==
    mode = "cluster" /\ outcome \in {"ok", "failed"} /\ answer # "none" /\ op \notin Lists =>
        outcome = AloneReply(cmd.type, answer)

\* A transaction with a refused command is reported as failed, unless a command before it
\* removed or added nothing: parseExecReply stops at ":0".
ExecRefusalReported ==
    outcome = "ok" =>
        \A i \in DOMAIN results : results[i] = "error" => \E j \in 1 .. i - 1 : results[j] = "int0"
=============================================================================
