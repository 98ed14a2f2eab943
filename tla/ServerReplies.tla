--------------------------- MODULE ServerReplies ----------------------------
(***************************************************************************)
(* What RedisClient (gb/downdatarestorer_norah/redisclient.cpp) makes of   *)
(* the answers that tell it about other servers: INFO replication,         *)
(* SENTINEL slaves and the confirmation of SUBSCRIBE in the first part,    *)
(* CLUSTER NODES in the second.                                            *)
(***************************************************************************)
EXTENDS Integers, Sequences, SequencesExt, FiniteSets, FiniteSetsExt, TLC

-----------------------------------------------------------------------------
(***************************************************************************)
(* What RedisClient makes of the answers that tell it about other servers  *)
(* (gb/downdatarestorer_norah/redisclient.cpp): INFO replication of the    *)
(* server configured as master, SENTINEL slaves, the confirmation of       *)
(* SUBSCRIBE; and parseRedisReply (redisbase.cpp), which takes a whole     *)
(* reply apart at once.  An answer is described by what the server knows   *)
(* (truth) and by its lines, arrays or elements; a loop of the code is one *)
(* step per line, array or element.                                        *)
(***************************************************************************)

CONSTANTS Addrs,              \* addresses of slaves, positive numbers
          MaxSlaves

VARIABLES kind,               \* which answer: "none", "info", "slaves", "subscribe", "whole"
          truth,              \* [role, form, known]: the answering server's role, how it writes, what it knows
          type,               \* replyType: "error", "expected" or "other"
          answer, nread,      \* the lines, arrays or elements; those already read
          count,              \* slavescount
          found,              \* the vector or list that is filled
          result              \* "none", "true", "false": what the function returned

serversVars == <<kind, truth, type, answer, nread, count, found, result>>

Types == {"error", "expected", "other"}
Slaves == {s \in UNION {[1 .. n -> Addrs] : n \in 0 .. MaxSlaves} : \A x, y \in DOMAIN s : x # y => s[x] # s[y]}

ServersInit ==
    /\ kind = "none" /\ truth = [role |-> "master", form |-> "new", known |-> <<>>] /\ type = "other"
    /\ answer = <<>> /\ nread = 0 /\ count = 0 /\ found = <<>> /\ result = "none"

-----------------------------------------------------------------------------
(* The servers *)

Line(t, n, addr) == [t |-> t, n |-> n, addr |-> addr]

\* INFO replication.  A replica describes its own link first, in lines that begin with "slave" too; a server before
\* version 2.8 writes an address without "ip="; a slave that has just connected is counted but has no line
InfoAnswer(role, form, slaves, hidden) ==
    <<Line("other", 0, 0), Line("role", 0, 0)>>
    \o (IF role = "slave" THEN <<Line("slave", 0, 0)>> ELSE <<>>)
    \o <<Line("count", Len(slaves) + hidden, 0)>>
    \o [k \in DOMAIN slaves |-> Line("slave", 0, IF form = "new" THEN slaves[k] ELSE 0)]
    \o <<Line("other", 0, 0)>>

\* SENTINEL slaves: one array per slave, names and values in turn; any other string is 0
Ip == -1
Port == -2
SlaveArray(addr) == <<0, 0, Ip, addr, Port, addr, 0, 0>>

Answered(k, r, f, known, t, a) ==
    /\ kind = "none" /\ kind' = k /\ truth' = [role |-> r, form |-> f, known |-> known] /\ type' = t
    /\ answer' = a
    /\ UNCHANGED <<nread, count, found, result>>

AnswerInfo ==
    \E s \in Slaves, r \in {"master", "slave"}, f \in {"new", "old"}, hidden \in {0, 1}, t \in Types :
        Answered("info", r, f, s, t, IF t = "expected" THEN InfoAnswer(r, f, s, hidden) ELSE <<>>)

AnswerSlaves ==
    \E s \in Slaves, t \in Types : Answered("slaves", "sentinel", "new", s, t, IF t = "expected" THEN [k \in DOMAIN s |-> SlaveArray(s[k])] ELSE <<>>)

\* The third element counts the channels that the connection is subscribed to
AnswerSubscribe ==
    \E n \in 0 .. 2, t \in Types : Answered("subscribe", "sentinel", "new", <<n>>, t, IF t = "expected" THEN <<0, 0, n>> ELSE <<>>)

\* A whole reply: the elements of an array, or the one value of any other type; an unknown first character is "other"
AnswerWhole ==
    \E s \in Slaves, f \in {"array", "value"}, t \in {"expected", "other"} :
        /\ f = "value" => Len(s) = 1
        /\ Answered("whole", "any", f, s, t, IF t = "expected" THEN s ELSE <<>>)

-----------------------------------------------------------------------------
(* The client *)

Return(b) == result' = (IF b THEN "true" ELSE "false") /\ UNCHANGED <<kind, truth, type, answer>>
Step == nread' = nread + 1 /\ UNCHANGED <<kind, truth, type, answer>>

\* An error, or a reply of another type than the function expects
wrongType == kind # "none" /\ result = "none" /\ type # "expected" /\ Return(FALSE) /\ UNCHANGED <<nread, count, found>>

Reading(k) == kind = k /\ result = "none" /\ type = "expected"

\* The address of a line that begins with "slave", when there is one
SlaveAddress(line) == IF line.addr = 0 THEN <<>> ELSE <<line.addr>>

EnoughSlaves(slaves, n) == Len(slaves) >= n

\* One turn of the loop over the lines; the loop ends after a slave line once there are as many as counted
ParseInfoReplicationReply ==
    /\ Reading("info")
    /\ \/ nread = Len(answer) /\ Return(TRUE) /\ UNCHANGED <<nread, count, found>>
       \/ /\ nread < Len(answer)
          /\ LET line == answer[nread + 1] IN
             \/ line.t = "count" /\ Step /\ count' = line.n /\ UNCHANGED <<found, result>>
             \/ line.t = "slave" /\ LET slaves == found \o SlaveAddress(line) IN
                /\ Step /\ found' = slaves /\ UNCHANGED count
                /\ result' = IF EnoughSlaves(slaves, count) THEN "true" ELSE "none"
             \/ line.t \in {"role", "other"} /\ Step /\ UNCHANGED <<count, found, result>>

\* The first element "ip" that three others follow decides: its address, when "port" is the second of these
ArrayAddress(a) ==
    LET ips == {j \in DOMAIN a : a[j] = Ip /\ j + 3 <= Len(a)} IN
    IF ips = {} \/ a[Min(ips) + 2] # Port THEN <<>> ELSE <<a[Min(ips) + 1]>>

\* One turn of the loop over the arrays
ParseSentinelSlavesReply ==
    /\ Reading("slaves")
    /\ \/ nread = Len(answer) /\ Return(TRUE) /\ UNCHANGED <<nread, count, found>>
       \/ nread < Len(answer) /\ Step /\ found' = found \o ArrayAddress(answer[nread + 1]) /\ UNCHANGED <<count, result>>

\* Three elements, of which the third has to be ":1"
ParseSubsribeSwitchMasterReply ==
    /\ Reading("subscribe")
    /\ Return(Len(answer) = 3 /\ answer[3] = 1)
    /\ UNCHANGED <<nread, count, found>>

\* Where element k of an array is looked for: arrayString is set to the first element in every turn
ElementAt(k) == 1

parseArrayInfo(k) == answer[k]

\* One turn of the loop over the elements
parseRedisReply ==
    /\ Reading("whole")
    /\ \/ nread = Len(answer) /\ Return(TRUE) /\ UNCHANGED <<nread, count, found>>
       \/ nread < Len(answer) /\ Step /\ found' = Append(found, parseArrayInfo(ElementAt(nread + 1))) /\ UNCHANGED <<count, result>>

ServersNext ==
    \/ AnswerInfo \/ AnswerSlaves \/ AnswerSubscribe \/ AnswerWhole
    \/ wrongType
    \/ ParseInfoReplicationReply \/ ParseSentinelSlavesReply \/ ParseSubsribeSwitchMasterReply \/ parseRedisReply

ServersSpec == ServersInit /\ [][ServersNext]_serversVars

-----------------------------------------------------------------------------

\* The client takes no address for a slave's that the server did not give, keeps their order and takes none twice:
\* what it has found, at any time and also when it gives up early, is the beginning of what the server knows.
NoneMadeUp == kind \in {"info", "slaves"} => IsPrefix(found, truth.known)

\* A positive result is complete: all slaves of a master that writes addresses as "ip=,port=" are found, however many
\* more it counts than lists, all slaves that a sentinel lists, the first subscription of a connection, and the elements
\* of a whole reply when there are not several of them.
AnswerUnderstood ==
    result = "true" =>
        /\ type = "expected"
        /\ kind = "info" /\ truth.role = "master" /\ truth.form = "new" => found = truth.known
        /\ kind = "slaves" => found = truth.known
        /\ kind = "subscribe" => truth.known = <<1>>
        /\ kind = "whole" /\ Len(truth.known) < 2 => found = truth.known
-----------------------------------------------------------------------------
(***************************************************************************)
(* How RedisClient (gb/downdatarestorer_norah/redisclient.cpp) learns the  *)
(* nodes of a cluster: it asks one server after the other for CLUSTER      *)
(* NODES, getRedisClusterNodes when it starts and                          *)
(* getRedisClustersByCommand afterwards, and reads the answer line by line *)
(* into the map of clusters and the map of slots.                          *)
(*                                                                         *)
(* A line is a record.  Nodes are numbered in the order of their           *)
(* addresses, which is the order of std::map.  A token of the slot list is *)
(* a range, a single slot, or a slot that moves ("[93-<-...]").            *)
(***************************************************************************)

CONSTANTS Inputs,       \* answers to CLUSTER NODES: sequences of lines
          Servers,      \* servers that are asked
          MaxSlot       \* slots are 0 .. MaxSlot

VARIABLES task,         \* "init" or "refresh"
          answers,      \* per server: "refuse", "mute", "error", "slave" or "nodes"
          lines,        \* what a server that answers "nodes" answers
          iter,         \* the server that is asked next
          filled,       \* the parameter list still holds "cluster nodes"
          done,         \* "no", "ok" or "failed"
          clusterMap    \* the clusters by address

Slots == 0 .. MaxSlot
NoSlot == 65535         \* (uint16_t)-1

nodesVars == <<task, answers, lines, iter, filled, done, clusterMap>>

NoClusters == <<>>

-----------------------------------------------------------------------------
(* parseSlotStr: the text that is searched for "-" starts at the token and *)
(* goes on behind it, so that a single slot takes the end of the next      *)
(* range; a moving slot reads as 0-0.                                      *)

parseSlotStr(tokens, k) ==
    LET later == {j \in k .. Len(tokens) : tokens[j].kind # "single"}
        j == CHOOSE j \in later : \A i \in later : j <= i
    IN  IF later = {} THEN <<NoSlot, NoSlot>>
        ELSE IF tokens[j].kind = "moving" THEN <<IF j = k THEN 0 ELSE tokens[k].from, 0>>
        ELSE <<tokens[k].from, tokens[j].to>>

\* slotMap[startSlotNum] = stopSlotNum, for each token
SlotMap(tokens) ==
    FoldLeftDomain(LAMBDA m, k : (parseSlotStr(tokens, k)[1] :> parseSlotStr(tokens, k)[2]) @@ m, <<>>, tokens)

\* A master without slots ends before the blank that is searched for
parseOneClusterFails(line) == line.master = 0 /\ line.slots = <<>>

parseOneCluster(line) ==
    [isMaster |-> line.master = 0, masterClusterId |-> line.master,
     slotMap |-> IF line.master = 0 THEN SlotMap(line.slots) ELSE <<>>]

\* Lines with "fail", "noaddr" or "disconnected" are skipped
Listed(ls) == SelectSeq(ls, LAMBDA line : line.state = "connected")

parseFails(ls) == \E i \in DOMAIN Listed(ls) : parseOneClusterFails(Listed(ls)[i])

LineOf(ls, n) == CHOOSE line \in Range(ls) : line.node = n

\* Wrong on purpose: a backup is listed under itself
bakClusterListSelf(ls, m) ==
    SetToSortSeq({line.node : line \in {l \in Range(Listed(ls)) : l.node = m /\ l.master # 0}}, <)

\* parseClusterInfo: the clusters, and then for each backup the masters that it belongs to
bakClusterList(ls, m) ==
    SetToSortSeq({line.node : line \in {l \in Range(Listed(ls)) : l.master = m}}, <)

parseClusterInfo(ls) ==
    [n \in {line.node : line \in Range(Listed(ls))} |->
        parseOneCluster(LineOf(Listed(ls), n)) @@ [bakClusterList |-> bakClusterList(ls, n)]]

-----------------------------------------------------------------------------
NodesInit == /\ task \in {"init", "refresh"} /\ lines \in Inputs
             /\ answers \in [1 .. Servers -> {"refuse", "mute", "error", "slave", "nodes"}]
             /\ iter = 1 /\ filled = TRUE /\ done = "no" /\ clusterMap = NoClusters

Parse == IF parseFails(lines) THEN done' = "failed" /\ UNCHANGED clusterMap
         ELSE done' = "ok" /\ clusterMap' = parseClusterInfo(lines)

Skip == iter' = iter + 1 /\ UNCHANGED <<done, clusterMap>>

\* getRedisClusterNodes.  The answer of a slave is used too.  A command that fails frees the
\* parameter list: the servers after it are sent nothing, and do not answer.
AskToInit ==
    /\ \/ answers[iter] = "refuse" /\ Skip /\ UNCHANGED filled
       \/ (answers[iter] = "mute" \/ ~filled) /\ answers[iter] # "refuse" /\ Skip /\ filled' = FALSE
       \/ answers[iter] = "error" /\ filled /\ done' = "failed" /\ UNCHANGED <<iter, clusterMap, filled>>
       \/ answers[iter] \in {"slave", "nodes"} /\ filled /\ Parse /\ UNCHANGED <<iter, filled>>

\* getRedisClustersByCommand: through the pools, and not from a slave
AskToRefresh ==
    /\ \/ answers[iter] \in {"refuse", "mute", "slave"} /\ Skip
       \/ answers[iter] = "error" /\ done' = "failed" /\ UNCHANGED <<iter, clusterMap>>
       \/ answers[iter] = "nodes" /\ Parse /\ UNCHANGED iter
    /\ UNCHANGED filled

Ask ==
    /\ done = "no" /\ iter <= Servers
    /\ IF task = "init" THEN AskToInit ELSE AskToRefresh
    /\ UNCHANGED <<task, answers, lines>>

NobodyAnswered ==
    /\ done = "no" /\ iter > Servers /\ done' = "failed"
    /\ UNCHANGED <<task, answers, lines, iter, filled, clusterMap>>

NodesNext == Ask \/ NobodyAnswered

NodesSpec == NodesInit /\ [][NodesNext]_nodesVars

-----------------------------------------------------------------------------
\* initRedisCluster and checkAndSaveRedisClusters fill m_slotMap in the order of the
\* addresses: the last cluster that claims a slot gets it
Claims(n, s) == \E from \in DOMAIN clusterMap[n].slotMap : from <= s /\ s <= clusterMap[n].slotMap[from]
m_slotMap(s) ==
    LET who == {n \in DOMAIN clusterMap : clusterMap[n].isMaster /\ Claims(n, s)}
    IN  IF who = {} THEN 0 ELSE CHOOSE n \in who : \A k \in who : k <= n

Holds(token, s) == token.from <= s /\ s <= token.to
Owner(s) ==
    LET who == {line \in Range(lines) : line.state = "connected" /\ \E t \in Range(line.slots) : t.kind # "moving" /\ Holds(t, s)}
    IN  IF who = {} THEN 0 ELSE (CHOOSE line \in who : TRUE).node

Moves == \E line \in Range(lines), t \in UNION {Range(l.slots) : l \in Range(lines)} : t.kind # "range"

\* Every slot is looked up at the master that CLUSTER NODES lists for it, as long as the
\* list holds ranges only: a single slot or one that moves is not understood.
SlotsFollowAnswer == done = "ok" /\ ~Moves => \A s \in Slots : m_slotMap(s) = Owner(s)

\* No slot that a connected master serves is left without a cluster, not even by single
\* slots, as long as a range follows them.
SlotsFound ==
    done = "ok" /\ (\A line \in Range(lines) : line.slots # <<>> => Last(line.slots).kind = "range") =>
        \A s \in Slots : Owner(s) # 0 => m_slotMap(s) # 0

\* The backups of a cluster are exactly the connected slaves of that master, each once, so
\* that a read that fails is sent to data of the same slots.
BackupsOfMaster ==
    done = "ok" =>
        \A n \in DOMAIN clusterMap :
            /\ Range(clusterMap[n].bakClusterList) =
                 {line.node : line \in {l \in Range(lines) : l.state = "connected" /\ l.master = n}}
            /\ IsInjective(clusterMap[n].bakClusterList)

Usable == {i \in 1 .. Servers : answers[i] = "nodes" \/ (answers[i] = "slave" /\ task = "init")}

\* The client starts, and keeps its map fresh, as long as one server answers behind servers
\* that cannot be reached; for a start all servers before it must refuse the connection,
\* because a command without an answer frees the parameter list.
OneServerSuffices ==
    done = "failed" /\ ~parseFails(lines) =>
        \A i \in Usable : \E j \in 1 .. i - 1 :
            answers[j] = "error" \/ (task = "init" /\ answers[j] = "mute")
=============================================================================
