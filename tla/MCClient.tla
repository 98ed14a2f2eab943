------------------------------- MODULE MCClient -----------------------------
(***************************************************************************)
(* The optimistic lock, and one instance of each other part of RedisClient *)
(* that is checked for safety only: the commands and what their replies    *)
(* mean, the reading of replies, what servers say of others, and the       *)
(* linker's copies of these.  part picks the one that runs; the lock has   *)
(* its own variables, the others share x1 .. x17.                          *)
(***************************************************************************)
EXTENDS OptimisticLock, Sequences

Lengths == {1, 10, 99999, 999999}
Slaves == 2
MaxExec == 3

ASSUME CommandsAssumption == Lengths \subseteq 1 .. 999999 /\ Slaves \in Nat /\ MaxExec \in Nat

Servers == 2
MaxSlot == 4
Token(kind, from, to) == [kind |-> kind, from |-> from, to |-> to]
Tokens == {Token("range", 0, 1), Token("range", 2, 3), Token("single", 0, 0), Token("single", 1, 1),
           Token("moving", 1, 1)}
SlotLists == {l \in UNION {[1 .. n -> Tokens] : n \in 0 .. 2} :
                \A i, j \in DOMAIN l : i < j => l[i].kind = "moving" \/ l[i].to < l[j].from}
Line(node, master, state, slots) == [node |-> node, master |-> master, state |-> state, slots |-> slots]

\* Node 1 is a master; node 2 a second master or a slave of the first; node 3 a slave
Inputs ==
    {<<Line(1, 0, s1, l1), Line(2, m2, "connected", IF m2 = 0 THEN l2 ELSE <<>>), Line(3, m3, s3, <<>>)>> :
        s1 \in {"connected", "fail"}, l1 \in SlotLists, m2 \in {0, 1},
        l2 \in {<<Token("range", 4, 4)>>, <<Token("single", 4, 4)>>, <<>>},
        m3 \in {1, 2}, s3 \in {"connected", "disconnected"}}

FewInputs == {l \in Inputs : l[1].slots \in {<<>>, <<Token("range", 0, 1), Token("range", 2, 3)>>}}


VARIABLES part, x1, x2, x3, x4, x5, x6, x7, x8, x9, x10, x11, x12, x13, x14, x15, x16, x17

others == <<x1, x2, x3, x4, x5, x6, x7, x8, x9, x10, x11, x12, x13, x14, x15, x16, x17>>
clientVars == <<part, vars, others>>

commands == INSTANCE ClientCommands
    WITH stage <- x1, mode <- x2, op <- x3, cmd <- x4, at <- x5, answer <- x6, results <- x7, outcome <- x8

lcommands == INSTANCE LinkerCommands
    WITH Lengths <- {1, 999999},
         stage <- x1, mode <- x2, op <- x3, cmd <- x4, at <- x5, answer <- x6, results <- x7, outcome <- x8

servers == INSTANCE ServerReplies
    WITH Addrs <- {1, 2, 3}, MaxSlaves <- 3,
         kind <- x1, truth <- x2, type <- x3, answer <- x4, nread <- x5, count <- x6, found <- x7,
         result <- x8, task <- x1, answers <- x2, lines <- x3, iter <- x4, filled <- x5, done <- x6,
         clusterMap <- x7

replies == INSTANCE ReplyRecv
    WITH Few <- FALSE,
         wire <- x1, setup <- x2, unparse <- x3, buf <- x4, pos <- x5, mallocLen <- x6, valid <- x7, pc <- x8,
         reply <- x9, parseState <- x10, arrayNum <- x11, doneNum <- x12, arrayLen <- x13, haveArray <- x14,
         info <- x15, curArray <- x16, parser <- x17

linker == INSTANCE LinkerTransport
    WITH Few <- TRUE, Addrs <- {1, 2}, MaxSlaves <- 2, Inputs <- FewInputs, Objs <- {"a"}, MaxFd <- 1,
         ClosingEvents <- {}, MaxIncidents <- 0,
         wire <- x1, setup <- x2, unparse <- x3, buf <- x4, pos <- x5, mallocLen <- x6, valid <- x7, pc <- x8,
         parser <- x9, reply <- x10, parseState <- x11, arrayNum <- x12, doneNum <- x13, arrayLen <- x14,
         haveArray <- x15, curArray <- x16, info <- x17, kind <- x1, truth <- x2, type <- x3, answer <- x4,
         nread <- x5, count <- x6, found <- x7, result <- x8, task <- x1, answers <- x2, lines <- x3,
         iter <- x4, filled <- x5, done <- x6, clusterMap <- x7, open <- x1, fd <- x2, handler <- x3, met <- x4

ASSUME Assumptions == replies!CasesAssumption

Zero9 == x9 = 0 /\ x10 = 0 /\ x11 = 0 /\ x12 = 0 /\ x13 = 0 /\ x14 = 0 /\ x15 = 0 /\ x16 = 0 /\ x17 = 0
Zero8 == x8 = 0 /\ Zero9
Zero1 == x1 = 0 /\ x2 = 0 /\ x3 = 0 /\ x4 = 0 /\ x5 = 0 /\ x6 = 0 /\ x7 = 0 /\ Zero8

ClientInit ==
    /\ Init
    /\ \/ part = "lock" /\ Zero1
       \/ part = "commands" /\ commands!Init /\ Zero9
       \/ part = "lcommands" /\ lcommands!Init /\ Zero9
       \/ part = "servers" /\ servers!ServersInit /\ Zero9
       \/ part = "lservers" /\ linker!ServersInit /\ Zero9
       \/ part = "nodes" /\ servers!NodesInit /\ Zero8
       \/ part = "lnodes" /\ linker!NodesInit /\ Zero8
       \/ part = "replies" /\ replies!Init
       \/ part = "lreplies" /\ linker!ReplyInit

Rest9 == <<part, vars, x9, x10, x11, x12, x13, x14, x15, x16, x17>>

ClientNext ==
    \/ part = "lock" /\ Next /\ UNCHANGED <<part, others>>
    \/ part = "commands" /\ commands!Next /\ UNCHANGED Rest9
    \/ part = "lcommands" /\ lcommands!Next /\ UNCHANGED Rest9
    \/ part = "servers" /\ servers!ServersNext /\ UNCHANGED Rest9
    \/ part = "lservers" /\ linker!ServersNext /\ UNCHANGED Rest9
    \/ part = "nodes" /\ servers!NodesNext /\ UNCHANGED <<x8, Rest9>>
    \/ part = "lnodes" /\ linker!NodesNext /\ UNCHANGED <<x8, Rest9>>
    \/ part = "replies" /\ replies!Next /\ UNCHANGED <<part, vars>>
    \/ part = "lreplies" /\ linker!ReplyNext /\ UNCHANGED <<part, vars>>

ClientSpec == ClientInit /\ [][ClientNext]_clientVars

-----------------------------------------------------------------------------
\* A command that returns true returns the reply that was sent, however the bytes arrive, and leaves none of it in the
\* socket; a reply that has arrived completely is recognised, and its bytes fit into their buffer (ReplyRecv,
\* LinkerTransport).
Decodes ==
    /\ part = "replies" => replies!TypeOK /\ replies!BufferHolds /\ replies!NothingLeft /\ replies!NoTimeout /\ replies!Decodes
    /\ part = "lreplies" => linker!Decodes

\* What is sent is what was asked for: the buffer of a command holds all that createRedisCommand writes, and a write is
\* never sent to a slave (ClientCommands, LinkerCommands).
CommandsRight ==
    /\ part = "commands" => commands!CommandFits /\ commands!WritesStayOnMaster
    /\ part = "lcommands" => lcommands!CommandFits /\ lcommands!WritesStayOnMaster

\* No operation reports success for an error, an absent value or a refused transaction, and the two copies of the
\* reply switch agree (ClientCommands).
SuccessIsReal ==
    part = "commands" => commands!SuccessIsReal /\ commands!SwitchesAgree /\ commands!ExecRefusalReported

\* What servers say of others is understood completely or refused: slots are found where CLUSTER NODES puts them, backups
\* are the connected slaves of their master, no address is made up, and one server that answers is enough behind servers
\* that refuse (ServerReplies, LinkerTransport).
AnswersUnderstood ==
    /\ part = "nodes" => /\ servers!SlotsFollowAnswer /\ servers!SlotsFound
                         /\ servers!BackupsOfMaster /\ servers!OneServerSuffices
    /\ part = "lnodes" => linker!OneServerSuffices
    /\ part = "servers" => servers!NoneMadeUp /\ servers!AnswerUnderstood
    /\ part = "lservers" => linker!AnswerUnderstood
=============================================================================
