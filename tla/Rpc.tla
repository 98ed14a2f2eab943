-------------------------------- MODULE Rpc ---------------------------------
(***************************************************************************)
(* What RedisConnection::doRedisCommand promises the code above it.  The   *)
(* commands 1 .. MaxCmd are issued one after the other.  A command that    *)
(* returns true was executed, once, and its reply is its own.  A command   *)
(* that returns false may have been executed, or may be executed later,    *)
(* but at most once.                                                       *)
(***************************************************************************)
EXTENDS Integers

CONSTANT MaxCmd

VARIABLES cur,          \* the last command that was issued
          executed,     \* the commands the server has executed
          result        \* "none", "failed", or the command whose reply was returned

vars == <<cur, executed, result>>

Init == cur = 0 /\ executed = {} /\ result = [c \in 1 .. MaxCmd |-> "none"]

Returned(c) == result[c] # "none"

Call == /\ cur < MaxCmd
        /\ cur > 0 => Returned(cur)
        /\ cur' = cur + 1 /\ UNCHANGED <<executed, result>>

Execute(c) == /\ c \in 1 .. cur /\ c \notin executed
              /\ executed' = executed \cup {c} /\ UNCHANGED <<cur, result>>

Succeed == /\ cur \in executed /\ ~Returned(cur)
           /\ result' = [result EXCEPT ![cur] = "ok"] /\ UNCHANGED <<cur, executed>>

Fail == /\ cur > 0 /\ ~Returned(cur)
        /\ result' = [result EXCEPT ![cur] = "failed"] /\ UNCHANGED <<cur, executed>>

Next == Call \/ Succeed \/ Fail \/ \E c \in 1 .. MaxCmd : Execute(c)

Spec == Init /\ [][Next]_vars
=============================================================================
