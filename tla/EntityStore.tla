---------------------------- MODULE EntityStore -----------------------------
(***************************************************************************)
(* DeviceMgr, ChannelMgr and, for one worker thread, ExecutingInviteCmdMgr *)
(* (gb/downdatarestorer_norah): entities kept in Redis as one key each and *)
(* one set of ids.  An operation holds the manager's write lock from end   *)
(* to end and is a sequence of Redis commands; every command is a step of  *)
(* its own and may fail in each of the ways of Rpc.  In stand-alone mode   *)
(* Insert and Delete are a MULTI .. EXEC on one connection, in the other   *)
(* modes two commands and an undo.  Clear and Update are plain commands in *)
(* every mode, and ignore failures.                                        *)
(***************************************************************************)
EXTENDS Integers, Sequences, FiniteSets, SequencesExt

CONSTANTS Ids, Vals,
          Modes,            \* of redis_mode_: subset of {"stand_alone", "cluster"}
          UndoOther,        \* the undo addresses another key: ExecutingInviteCmdMgr
          Kinds,            \* the operations that occur
          Reinsert,         \* TRUE: Insert may be called for an id that is stored
          Failures,         \* subset of {"refused", "lost", "unanswered", "late", "drop", "crash"}
          MaxFaults, MaxOps

None == "none"

EntityAssumption ==
    /\ Modes \subseteq {"stand_alone", "cluster"} /\ {UndoOther, Reinsert} \subseteq BOOLEAN
    /\ Kinds \subseteq {"insert", "delete", "clear", "update"}
    /\ Failures \subseteq {"refused", "lost", "unanswered", "late", "drop", "crash"}
    /\ MaxFaults \in Nat /\ MaxOps \in Nat
    /\ IsFiniteSet(Ids) /\ None \notin Ids \cup Vals

VARIABLES mode,         \* redis_mode_, set when the manager is created
          db,           \* the server: keys, and members of the set
          session,      \* of the connection: MULTI open, an error seen in it, what is queued
          pending,      \* batches that have reached the server but are not executed yet
          op,           \* the operation that runs: its kind, entity, commands left, undo, result
          acked,        \* per id: what the last operation that returned 0 has promised
          faults, ops,  \* how many of each there were
          happened      \* which failure met which kind of operation

vars == <<mode, db, session, pending, op, acked, faults, ops, happened>>

Cmd(c, id, v) == [cmd |-> c, id |-> id, val |-> v]
Plain(c) == Cmd(c, None, None)
Closed == [multi |-> FALSE, dirty |-> FALSE, queue |-> <<>>]
Idle == [kind |-> "idle", id |-> None, val |-> None, stored |-> FALSE, todo |-> <<>>, undo |-> <<>>, ret |-> 0]

Transactions == mode = "stand_alone"

Init == /\ mode \in Modes /\ happened = {}
        /\ db = [keys |-> [i \in Ids |-> None], set |-> {}] /\ session = Closed /\ pending = {}
        /\ op = Idle /\ acked = [i \in Ids |-> None] /\ faults = 0 /\ ops = 0

-----------------------------------------------------------------------------
(* The server *)

Effect(d, c) ==
    CASE c.cmd = "set"    -> [d EXCEPT !.keys[c.id] = c.val]
      [] c.cmd = "del"    -> [d EXCEPT !.keys[c.id] = None]
      [] c.cmd = "sadd"   -> [d EXCEPT !.set = @ \cup {c.id}]
      [] c.cmd = "srem"   -> [d EXCEPT !.set = @ \ {c.id}]
      [] c.cmd = "delset" -> [d EXCEPT !.set = {}]
      [] OTHER            -> d

\* One after the other
Apply(d, batch) ==
    LET after[n \in 0 .. Len(batch)] == IF n = 0 THEN d ELSE Effect(after[n - 1], batch[n]) IN after[Len(batch)]

InTransaction == Transactions /\ op.kind \in {"insert", "delete"}

\* What the server does with a command that reaches it, and the type of its reply
Handle(c) ==
    CASE c.cmd = "multi" ->
            [db |-> db, session |-> [session EXCEPT !.multi = TRUE], reply |-> IF session.multi THEN "error" ELSE "status"]
      [] c.cmd = "exec" ->
            [db |-> IF session.dirty THEN db ELSE Apply(db, session.queue), session |-> Closed,
             reply |-> IF session.multi /\ ~session.dirty THEN "array" ELSE "error"]
      [] c.cmd \notin {"multi", "exec"} /\ session.multi ->
            [db |-> db, session |-> [session EXCEPT !.queue = Append(@, c)], reply |-> "status"]
      [] OTHER ->
            [db |-> Effect(db, c), session |-> session,
             reply |-> CASE c.cmd = "set" -> "status" [] c.cmd = "smembers" -> "array"
                         [] c.cmd = "del" /\ db.keys[c.id] = None -> "zero" [] OTHER -> "integer"]

\* What the client takes for success: doTransactionCommandInConnection, or the plain
\* commands' ParseRedisReplyForStandAloneAndMasterMode
Accepts(c, reply) ==
    IF InTransaction
    THEN reply = IF c.cmd = "exec" THEN "array" ELSE "status"
    ELSE CASE c.cmd = "set" -> reply = "status" [] c.cmd = "smembers" -> reply = "array"
           [] c.cmd = "del" -> reply = "integer" [] OTHER -> reply \in {"integer", "zero"}

-----------------------------------------------------------------------------
(* The operations *)

\* Wrong on purpose: no MULTI
InsertNoMulti(id, v) ==
    [todo |-> <<Cmd("set", id, v), Cmd("sadd", id, None), Plain("exec")>>, undo |-> <<>>]

Insert(id, v) ==
    IF Transactions
    THEN [todo |-> <<Plain("multi"), Cmd("set", id, v), Cmd("sadd", id, None), Plain("exec")>>, undo |-> <<>>]
    ELSE [todo |-> <<Cmd("set", id, v), Cmd("sadd", id, None)>>, undo |-> <<Cmd("del", id, None)>>]

Delete(id, v) ==
    IF Transactions
    THEN [todo |-> <<Plain("multi"), Cmd("del", id, None), Cmd("srem", id, None), Plain("exec")>>, undo |-> <<>>]
    ELSE [todo |-> <<Cmd("del", id, None), Cmd("srem", id, None)>>, undo |-> <<Cmd("set", id, v)>>]

Begin(kind, id, v, script) ==
    /\ op = Idle /\ ops < MaxOps /\ kind \in Kinds /\ ops' = ops + 1
    /\ op' = [kind |-> kind, id |-> id, val |-> v, stored |-> id \in db.set, todo |-> script.todo, undo |-> script.undo, ret |-> 0]
    /\ acked' = [i \in Ids |-> IF id \in {i, None} THEN "unknown" ELSE acked[i]]
    /\ UNCHANGED <<mode, db, session, pending, faults, happened>>

BeginInsert(id, v) == (Reinsert \/ id \notin db.set) /\ Begin("insert", id, v, Insert(id, v))

BeginDelete(id) == \E v \in Vals : Begin("delete", id, v, Delete(id, v))

BeginClear == Begin("clear", None, None, [todo |-> <<Plain("smembers")>>, undo |-> <<>>])

\* Update with a list of one entity: Clear, then its sadd and set
BeginUpdate(id, v) ==
    /\ op = Idle /\ ops < MaxOps /\ "update" \in Kinds /\ ops' = ops + 1
    /\ op' = [kind |-> "update", id |-> id, val |-> v, stored |-> id \in db.set,
              todo |-> <<Plain("smembers")>>, undo |-> <<>>, ret |-> 0]
    /\ acked' = [i \in Ids |-> "unknown"]
    /\ UNCHANGED <<mode, db, session, pending, faults, happened>>

\* What follows a reply to smembers: the set, each key, and the new entity of an update
ClearScript(members) ==
    <<Plain("delset")>> \o [i \in 1 .. Len(members) |-> Cmd("del", members[i], None)]
    \o IF op.kind = "update" THEN <<Cmd("sadd", op.id, None), Cmd("set", op.id, op.val)>> ELSE <<>>

Promise(i) ==
    CASE op.kind = "insert" -> IF i = op.id THEN op.val ELSE acked[i]
      [] op.kind = "delete" -> IF i = op.id THEN None ELSE acked[i]
      [] op.kind = "clear"  -> None
      [] op.kind = "update" -> IF i = op.id THEN op.val ELSE None

Return(ret) ==
    /\ op' = Idle
    /\ acked' = IF ret = 0 THEN [i \in Ids |-> Promise(i)] ELSE acked

GoOn(todo, ret) ==
    IF todo = <<>> THEN Return(ret) ELSE op' = [op EXCEPT !.todo = todo, !.ret = ret] /\ UNCHANGED acked

\* The undo of an invite uses the key without the worker's number, which nobody else uses
Undo == IF UndoOther THEN <<>> ELSE op.undo

\* Wrong on purpose: goes on after a command failed
FailedGoesOn == GoOn(Tail(op.todo), op.ret)

\* A command failed: a transaction is left as it is, the second of two commands has an
\* undo, whose own failure is only logged; clear and update go on
Failed ==
    IF op.kind \in {"clear", "update"}
    THEN GoOn(IF Head(op.todo).cmd = "smembers" THEN ClearScript(<<>>) ELSE Tail(op.todo), 0)
    ELSE IF ~InTransaction /\ op.ret = 0 /\ Len(op.todo) = 1 /\ Undo # <<>>
         THEN op' = [op EXCEPT !.todo = Undo, !.ret = -1] /\ UNCHANGED acked
         ELSE Return(-1)

Succeeded ==
    GoOn(IF Head(op.todo).cmd = "smembers" THEN ClearScript(SetToSeq(db.set)) ELSE Tail(op.todo), op.ret)

Met(f) == happened' = happened \cup {[kind |-> op.kind, stored |-> op.stored, fault |-> f]}

\* The command is executed and answered
Command ==
    /\ op # Idle
    /\ LET c == Head(op.todo) IN
         /\ db' = Handle(c).db /\ session' = Handle(c).session
         /\ IF Accepts(c, Handle(c).reply) THEN Succeeded ELSE Failed
    /\ IF session.multi /\ ~InTransaction THEN Met("queued") ELSE UNCHANGED happened
    /\ UNCHANGED <<mode, pending, faults, ops>>

Fault(f) == f \in Failures /\ faults < MaxFaults /\ faults' = faults + 1 /\ Met(f) /\ UNCHANGED <<mode, ops>>

\* The server answers a write with an error: out of memory, read only, loading
Refused ==
    /\ op # Idle /\ Fault("refused") /\ Head(op.todo).cmd \in {"set", "sadd"}
    /\ session' = [session EXCEPT !.dirty = session.multi]
    /\ Failed /\ UNCHANGED <<db, pending>>

\* No answer in time, and the connection is closed: the command was never received ..
Lost == op # Idle /\ Fault("lost") /\ session' = Closed /\ Failed /\ UNCHANGED <<db, pending>>

\* .. or it was executed ..
Unanswered ==
    /\ op # Idle /\ Fault("unanswered") /\ db' = Handle(Head(op.todo)).db /\ session' = Closed
    /\ Failed /\ UNCHANGED pending

\* .. or it will be executed some time later
Late ==
    /\ op # Idle /\ Fault("late") /\ session' = Closed
    /\ LET c == Head(op.todo)
           batch == CASE c.cmd = "exec" -> IF session.dirty THEN <<>> ELSE session.queue
                      [] c.cmd # "exec" /\ (session.multi \/ c.cmd = "multi") -> <<>> [] OTHER -> <<c>>
       IN  pending' = pending \cup {batch}
    /\ Failed /\ UNCHANGED db

ExecuteLate ==
    /\ \E batch \in pending : db' = Apply(db, batch) /\ pending' = pending \ {batch}
    /\ UNCHANGED <<mode, session, op, acked, faults, ops, happened>>

\* The server drops the connection between two commands: the client connects again
\* without a word to its caller
Drop == Fault("drop") /\ session # Closed /\ session' = Closed /\ UNCHANGED <<db, pending, op, acked>>

\* The process ends, and starts again
Crash == Fault("crash") /\ op' = Idle /\ session' = Closed /\ UNCHANGED <<db, pending, acked>>

Next == \/ \E id \in Ids : BeginDelete(id) \/ \E v \in Vals : BeginInsert(id, v) \/ BeginUpdate(id, v)
        \/ BeginClear \/ Command
        \/ Refused \/ Lost \/ Unanswered \/ Late \/ ExecuteLate \/ Drop \/ Crash

Spec == Init /\ [][Next]_vars

-----------------------------------------------------------------------------
(* What the readers return: SearchDevice, LoadDevices, GetDeviceCount *)

Search(i) == IF i \in db.set THEN db.keys[i] ELSE None
Load == {i \in db.set : db.keys[i] # None}
Count == Cardinality(db.set)

TypeOK ==
    /\ db \in [keys : [Ids -> Vals \cup {None}], set : SUBSET Ids]
    /\ op.kind \in {"idle", "insert", "delete", "clear", "update"} /\ (op # Idle => op.todo # <<>>)
    /\ acked \in [Ids -> Vals \cup {None, "unknown"}]

MetBy(kinds) == {h.fault : h \in {g \in happened : g.kind \in kinds}}

\* An Insert that returned 0 has stored the entity, a Delete that returned 0 has removed
\* it, and neither is lost by what happens to other operations, to the connection or to
\* the process, in either mode.  Not so when a command is executed after the caller gave
\* it up, and not for Clear and Update, which ignore failures.
Durable ==
    "late" \notin MetBy({h.kind : h \in happened}) /\ MetBy({"clear", "update"}) \subseteq {"crash"} =>
        \A i \in Ids : acked[i] # "unknown" => Search(i) = acked[i]

Agree == \A i \in Ids : i \in db.set <=> db.keys[i] # None

KeepsPairs ==
    /\ Transactions /\ op.kind \notin {"clear", "update"}
    /\ \A h \in happened : h.fault # "drop"
    /\ "late" \notin MetBy({"clear", "update"})
    => (Agree => Agree')

\* Stand-alone mode: an Insert or Delete adds or removes key and set member of an entity
\* together, whatever fails, wherever the process ends and however late EXEC is executed:
\* this is what MULTI .. EXEC is used for.  Not so once a connection dropped inside a
\* MULTI, or while a command of a Clear or Update is still on its way.
PairsTogether == [][KeepsPairs]_vars

\* Between operations, an Insert of a new entity or a Delete one of whose commands failed
\* has been undone: every id that is counted can be loaded, and no key is left without
\* its id.
UndoneWhenIdle ==
    /\ op = Idle /\ faults <= 1
    /\ \A h \in happened : h.kind = "delete" \/ (h.kind = "insert" /\ ~h.stored)
    /\ \A h \in happened : h.fault \in {"refused", "lost"}
    => Agree /\ Cardinality(Load) = Count

-----------------------------------------------------------------------------
(***************************************************************************)
(* The inductive invariant behind these: where in its script an operation  *)
(* is, what the open MULTI has queued at that place, and what the commands *)
(* that were executed have left in the server.                             *)
(***************************************************************************)

PairKinds == {"insert", "delete"}        \* of a key and a member; the others go through all of them
Names == {"multi", "exec", "set", "del", "sadd", "srem", "smembers", "delset"}
Faults == {"refused", "lost", "unanswered", "late", "drop", "crash", "queued"}

Commands == [cmd : Names, id : Ids \cup {None}, val : Vals \cup {None}]

DbType == [keys : [Ids -> Vals \cup {None}], set : SUBSET Ids]
SessionType == [multi : BOOLEAN, dirty : BOOLEAN, queue : Seq(Commands)]
OpType == [kind : {"idle", "clear", "update"} \cup PairKinds, id : Ids \cup {None}, val : Vals \cup {None}, stored : BOOLEAN,
           todo : Seq(Commands), undo : Seq(Commands), ret : {0, -1}]
AckedType == [Ids -> Vals \cup {None, "unknown"}]
HappenedType == SUBSET [kind : {"idle", "clear", "update"} \cup PairKinds, stored : BOOLEAN, fault : Faults]

TypesInv ==
    /\ mode \in {"stand_alone", "cluster"} /\ db \in DbType /\ session \in SessionType
    /\ op \in OpType /\ acked \in AckedType /\ faults \in Nat /\ ops \in Nat /\ happened \in HappenedType
    /\ pending \subseteq Seq(Commands)

\* Only the two commands of a transaction are ever executed in one batch
Batch(b) == Len(b) <= 2 /\ \A n \in 1 .. Len(b) : b[n].cmd = "sadd" => b[n].id \in Ids
BatchInv == \A b \in pending : Batch(b)

\* The two commands of an insert or a delete, and the one that takes back the first
First == IF op.kind = "insert" THEN Cmd("set", op.id, op.val) ELSE Cmd("del", op.id, None)
Second == Cmd(IF op.kind = "insert" THEN "sadd" ELSE "srem", op.id, None)
Back == IF op.kind = "insert" THEN Cmd("del", op.id, None) ELSE Cmd("set", op.id, op.val)

TransactionScript ==
    /\ op.undo = <<>> /\ op.ret = 0
    /\ op.todo \in {<<Plain("multi"), First, Second, Plain("exec")>>, <<First, Second, Plain("exec")>>,
                    <<Second, Plain("exec")>>, <<Plain("exec")>>}

PlainScript ==
    /\ op.undo = <<Back>>
    /\ \/ op.ret = 0 /\ op.todo \in {<<First, Second>>, <<Second>>}
       \/ op.ret = -1 /\ op.todo = <<Back>> /\ ~UndoOther

\* A clear, with what an update does behind it: del for the members, the new one, its key
SweepScript ==
    LET n == Len(op.todo) more == IF op.kind = "update" THEN 2 ELSE 0 IN
    /\ op.undo = <<>> /\ op.ret = 0 /\ n > 0
    /\ \/ op.todo = <<Plain("smembers")>>
       \/ /\ n >= more
          /\ \A k \in 1 .. n - more : op.todo[k].cmd = "del" \/ (k = 1 /\ op.todo[k].cmd = "delset")
          /\ op.kind = "update" => /\ op.todo[n - 1] = Cmd("sadd", op.id, None)
                                   /\ op.todo[n] = Cmd("set", op.id, op.val)
       \/ op.kind = "update" /\ op.todo = <<Cmd("set", op.id, op.val)>>

ScriptInv ==
    /\ op.kind = "idle" => op = Idle
    /\ op.kind \in PairKinds => op.id \in Ids /\ op.val \in Vals /\ IF Transactions THEN TransactionScript ELSE PlainScript
    /\ op.kind \in {"clear", "update"} => SweepScript
    /\ op.kind = "update" => op.id \in Ids /\ op.val \in Vals

\* MULTI is open in stand-alone mode only.  Whoever could open it finds in the queue what it has put there; the queue of
\* one that was left open is never executed, since the next MULTI is answered by an error.
SessionInv ==
    /\ ~session.multi => session = Closed
    /\ session.multi => Transactions
    /\ InTransaction /\ session.multi =>
        /\ op.todo = <<First, Second, Plain("exec")>> => session.queue = <<>>
        /\ op.todo = <<Second, Plain("exec")>> => session.queue = <<First>>
        /\ op.todo = <<Plain("exec")>> => session.queue = <<First, Second>>

\* What an operation is about to change is promised by nobody
AckedInv ==
    /\ op.kind \in PairKinds => acked[op.id] = "unknown"
    /\ op.kind \in {"clear", "update"} => \A i \in Ids : acked[i] = "unknown"

\* As in Durable: nothing is executed late, and every clear and update runs to its end or to that of the process
InTime == \A h \in happened : h.fault # "late"
SweepsDone == \A h \in happened : h.kind \in {"clear", "update"} => h.fault = "crash"

\* What the commands before the next one have done
DoneInv ==
    /\ op.kind \in PairKinds /\ ~Transactions /\ op.todo = <<Second>> =>
            db.keys[op.id] = IF op.kind = "insert" THEN op.val ELSE None
    /\ op.kind \in {"clear", "update"} /\ Head(op.todo).cmd \in {"del", "sadd"} => db.set = {}
    /\ op.kind = "update" /\ Head(op.todo).cmd = "set" => db.set = {op.id}

Kept == \A i \in Ids : acked[i] # "unknown" => Search(i) = acked[i]

DurableInv == InTime /\ SweepsDone => pending = {} /\ DoneInv /\ Kept

\* For PairsTogether: no connection dropped inside a MULTI, no sweep is executed late
PairBatch(batch) ==
    \/ batch = <<>>
    \/ \E i \in Ids : \/ \E v \in Vals : batch = <<Cmd("set", i, v), Cmd("sadd", i, None)>>
                      \/ batch = <<Cmd("del", i, None), Cmd("srem", i, None)>>

PairsInv ==
    /\ Transactions /\ (\A h \in happened : h.fault # "drop")
    /\ \A h \in happened : h.kind \in {"clear", "update"} => h.fault # "late"
    => /\ op.kind \in PairKinds /\ Head(op.todo) # Plain("multi") => session.multi
       /\ \A batch \in pending : PairBatch(batch)

\* For UndoneWhenIdle: at most one command failed, and left no doubt whether it was executed
Undoable ==
    /\ faults <= 1
    /\ \A h \in happened : (h.kind = "delete" \/ (h.kind = "insert" /\ ~h.stored)) /\ h.fault \in {"refused", "lost"}

\* The entity of an insert or delete without a transaction, between its commands
HalfDone ==
    /\ op.todo = <<First, Second>> => Agree /\ (op.stored <=> op.id \in db.set)
    /\ op.todo = <<Second>> /\ op.ret = 0 =>
        IF op.kind = "insert" THEN db.keys[op.id] # None /\ (op.stored <=> op.id \in db.set)
        ELSE db.keys[op.id] = None /\ op.id \in db.set
    /\ op.ret = -1 => faults = 1 /\ (op.kind = "delete" <=> op.id \in db.set)

UndoneInv ==
    ~UndoOther /\ Undoable =>
        /\ op.kind = "idle" \/ InTransaction => Agree
        /\ op.kind \in PairKinds /\ ~Transactions =>
            HalfDone /\ \A i \in Ids : i # op.id => (i \in db.set <=> db.keys[i] # None)
        /\ op.kind \in {"clear", "update"} =>
            IF op.todo = <<Plain("smembers")>> THEN Agree
            ELSE \A i \in Ids : db.keys[i] # None => \E n \in 1 .. Len(op.todo) : op.todo[n] = Cmd("del", i, None)

StoreInv == TypesInv /\ BatchInv /\ ScriptInv /\ SessionInv /\ AckedInv /\ DurableInv /\ PairsInv /\ UndoneInv
=============================================================================
