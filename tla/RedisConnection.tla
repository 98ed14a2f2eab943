--------------------------- MODULE RedisConnection --------------------------
(***************************************************************************)
(* One RedisConnection (gb/downdatarestorer_norah/redisconnection.cpp,     *)
(* socket.cpp) and the Redis server it talks to: doRedisCommand checks the *)
(* socket, reconnects if it is closed, writes the command and reads until  *)
(* the reply is complete.  Commands come one after the other, from         *)
(* whichever thread holds the connection.  A reply travels as two pieces,  *)
(* so that a timeout can fall between them; how pieces are put together is *)
(* the subject of RespParser.                                              *)
(***************************************************************************)
EXTENDS Integers, Sequences

CONSTANT MaxCmd         \* commands issued on the connection

ASSUME MaxCmdAssumption == MaxCmd \in Nat \ {0}

Cmds == 1 .. MaxCmd
Socks == 1 .. MaxCmd + 1    \* each command connects at most once
NoSock == 0                 \* fd == INVALID_SOCKET_HANDLE
Raw == -1                   \* fd is a socket that never was connected

VARIABLES pc,           \* "idle", "connect", "send" or "recv"
          cur,          \* the command that runs, or ran last
          fd,           \* the connection's socket
          nsock,        \* sockets that were connected so far
          chan,         \* per socket: up (to the server), out (its replies), down (arrived)
          open,         \* the sockets the server has not closed
          executed,     \* commands the server has executed
          result        \* per command: what doRedisCommand returned

vars == <<pc, cur, fd, nsock, chan, open, executed, result>>

Piece(c, last) == [cmd |-> c, last |-> last]
Empty == [up |-> <<>>, out |-> <<>>, down |-> <<>>]

Init == /\ pc = "idle" /\ cur = 0 /\ fd = 1 /\ nsock = 1
        /\ chan = [s \in Socks |-> Empty] /\ open = {1}
        /\ executed = <<>> /\ result = [c \in Cmds |-> "none"]

Return(r) == result' = [result EXCEPT ![cur] = r] /\ pc' = "idle"

\* checkConnectionStatus reads one byte without blocking: end of file closes the socket.
\* A byte that is there is lost, and with it the piece it belongs to.
Begin ==
    /\ pc = "idle" /\ cur < MaxCmd /\ cur' = cur + 1
    /\ IF fd \notin Socks
       THEN /\ pc' = IF fd = NoSock THEN "connect" ELSE "send"
            /\ UNCHANGED <<fd, chan>>
       ELSE IF chan[fd].down # <<>>
            THEN pc' = "send" /\ chan' = [chan EXCEPT ![fd].down = Tail(@)] /\ UNCHANGED fd
            ELSE /\ fd' = IF fd \in open THEN fd ELSE NoSock
                 /\ pc' = IF fd \in open THEN "send" ELSE "connect"
                 /\ UNCHANGED chan
    /\ UNCHANGED <<nsock, open, executed, result>>

\* Wrong on purpose: a reconnect goes on with the socket it had
ConnectOkOldSocket ==
    /\ pc = "connect" /\ nsock' = nsock /\ fd' = nsock /\ open' = open \cup {nsock}
    /\ pc' = "send" /\ UNCHANGED <<cur, chan, executed, result>>

ConnectOk ==
    /\ pc = "connect" /\ nsock' = nsock + 1 /\ fd' = nsock + 1 /\ open' = open \cup {nsock + 1}
    /\ pc' = "send" /\ UNCHANGED <<cur, chan, executed, result>>

\* A timeout or an asynchronous error closes the new socket, an immediate error does not
ConnectFails ==
    /\ pc = "connect" /\ fd' \in {NoSock, Raw} /\ Return("failed")
    /\ UNCHANGED <<cur, nsock, chan, open, executed>>

\* writeFull wrote all of it: the kernel has it, whether or not the server is still there
SendOk ==
    /\ pc = "send" /\ fd \in Socks
    /\ chan' = [chan EXCEPT ![fd].up = Append(@, cur)] /\ pc' = "recv"
    /\ UNCHANGED <<cur, fd, nsock, open, executed, result>>

\* An error after a part was written: the socket is closed, but the count that is
\* returned is positive and taken for success; recv then polls fd -1 until the timeout
SendPart ==
    /\ pc = "send" /\ fd \in Socks /\ fd' = NoSock /\ pc' = "recv"
    /\ UNCHANGED <<cur, nsock, chan, open, executed, result>>

\* An error at the first byte: the socket is closed and 0 is returned
SendFails ==
    /\ pc = "send" /\ fd' = NoSock /\ Return("failed")
    /\ UNCHANGED <<cur, nsock, chan, open, executed>>

FirstLast(s) == CHOOSE i \in 1 .. Len(s) : s[i].last /\ \A j \in 1 .. i - 1 : ~s[j].last

\* One read takes n pieces; bytes behind the end of the first complete reply are dropped
Read(n) ==
    /\ pc = "recv" /\ fd \in Socks /\ n <= Len(chan[fd].down)
    /\ LET got == SubSeq(chan[fd].down, 1, n)
       IN  IF \E i \in 1 .. n : got[i].last
           THEN Return(IF got[FirstLast(got)].cmd = cur THEN "ok" ELSE "wrong")
           ELSE UNCHANGED <<pc, result>>
    /\ chan' = [chan EXCEPT ![fd].down = SubSeq(@, n + 1, Len(@))]
    /\ UNCHANGED <<cur, fd, nsock, open, executed>>

\* Wrong on purpose: leaves the socket open when the answer does not come in time
ReadTimeoutKeepsSocket ==
    /\ pc = "recv" /\ (fd \in Socks => chan[fd].down = <<>>)
    /\ Return("failed")
    /\ UNCHANGED <<cur, fd, nsock, chan, open, executed>>

\* Wrong on purpose: retries instead of giving up
ReadTimeoutRetries ==
    /\ pc = "recv" /\ (fd \in Socks => chan[fd].down = <<>>)
    /\ UNCHANGED vars

\* poll times out, or reports an error: the socket is closed
ReadTimeout ==
    /\ pc = "recv" /\ (fd \in Socks => chan[fd].down = <<>>)
    /\ fd' = NoSock /\ Return("failed")
    /\ UNCHANGED <<cur, nsock, chan, open, executed>>

\* End of file: read closes the socket and returns 0, and recv goes on reading
ReadEof ==
    /\ pc = "recv" /\ fd \in Socks \ open /\ chan[fd].down = <<>>
    /\ fd' = NoSock /\ UNCHANGED <<pc, cur, nsock, chan, open, executed, result>>

Client == Begin \/ ConnectOk \/ ConnectFails \/ SendOk \/ SendPart \/ SendFails
          \/ (\E n \in 1 .. 2 : Read(n)) \/ ReadTimeout \/ ReadEof

(* The server and the network.  The server executes what has reached it on *)
(* a socket also after the client has closed that socket.                  *)

Execute(s) ==
    /\ s \in open /\ chan[s].up # <<>>
    /\ LET c == Head(chan[s].up)
       IN  /\ executed' = Append(executed, c)
           /\ chan' = [chan EXCEPT ![s].up = Tail(@), ![s].out = @ \o <<Piece(c, FALSE), Piece(c, TRUE)>>]
    /\ UNCHANGED <<pc, cur, fd, nsock, open, result>>

Deliver(s) ==
    /\ chan[s].out # <<>>
    /\ chan' = [chan EXCEPT ![s].down = Append(@, Head(chan[s].out)), ![s].out = Tail(@)]
    /\ UNCHANGED <<pc, cur, fd, nsock, open, executed, result>>

\* The server ends, or drops an idle or slow client: what it did not read or send is lost
ServerCloses(s) ==
    /\ s \in open /\ open' = open \ {s}
    /\ chan' = [chan EXCEPT ![s].up = <<>>, ![s].out = <<>>]
    /\ UNCHANGED <<pc, cur, fd, nsock, executed, result>>

Next == Client \/ \E s \in Socks : Execute(s) \/ Deliver(s) \/ ServerCloses(s)

Spec == Init /\ [][Next]_vars

\* The calling thread runs; poll has a timeout
FairSpec == Spec /\ WF_vars(Client)

-----------------------------------------------------------------------------
TypeOK ==
    /\ pc \in {"idle", "connect", "send", "recv"}
    /\ cur \in 0 .. MaxCmd /\ fd \in Socks \cup {NoSock, Raw} /\ nsock \in Socks
    /\ open \subseteq 1 .. nsock
    /\ result \in [Cmds -> {"none", "failed", "ok", "wrong"}]

\* Between commands nothing is under way on the connection's socket: no answer, late or
\* not, can be taken for the answer to the next command.  This is what the close in the
\* timeout path of Socket::read is for.
CleanWhenIdle ==
    pc \in {"idle", "send"} /\ fd \in Socks =>
        chan[fd].up = <<>> /\ chan[fd].out = <<>> /\ chan[fd].down = <<>>

rpc == INSTANCE Rpc WITH executed <- {executed[i] : i \in DOMAIN executed}

\* The connection, its reconnects and its timeouts implement Rpc.
ImplementsRpc == rpc!Spec

\* The server executes a command at most once: doRedisCommand never sends it twice.
AtMostOnce == \A i, j \in DOMAIN executed : executed[i] = executed[j] => i = j

Done == {executed[i] : i \in DOMAIN executed}

\* Every socket carries at most one command, which was not executed and is on no other
OnceOnly(s) ==
    chan[s].up # <<>> =>
        /\ Len(chan[s].up) = 1 /\ chan[s].up[1] \in 1 .. cur \ Done
        /\ \A t \in Socks \ {s} : chan[t].up # <<>> => chan[t].up[1] # chan[s].up[1]

\* What is under way on a socket is the command that runs, or pieces of its one reply
OnlyCurrent(ch) ==
    /\ ch.up # <<>> => ch.up[1] = cur /\ ch.out = <<>> /\ ch.down = <<>>
    /\ ch.out # <<>> \/ ch.down # <<>> => cur \in Done
    /\ \A i \in DOMAIN ch.out : ch.out[i].cmd = cur /\ (ch.out[i].last => i = Len(ch.out))
    /\ \A i \in DOMAIN ch.down :
           ch.down[i].cmd = cur /\ (ch.down[i].last => i = Len(ch.down) /\ ch.out = <<>>)

Pieces == [cmd : Cmds, last : BOOLEAN]
Channel == [up : Seq(Cmds), out : Seq(Pieces), down : Seq(Pieces)]

ChannelInv == TypeOK /\ chan \in [Socks -> Channel] /\ executed \in Seq(Cmds)

\* A reconnect finds an unused socket, and unused sockets are empty
SocketInv ==
    /\ nsock <= cur + 1 /\ fd <= nsock
    /\ pc # "idle" => cur > 0
    /\ pc = "connect" => nsock <= cur
    /\ \A s \in Socks : s > nsock => chan[s] = Empty

\* Commands are sent once: a command that was not sent yet is nowhere
OnceInv ==
    /\ \A s \in Socks : OnceOnly(s)
    /\ Done \subseteq 1 .. cur /\ AtMostOnce
    /\ pc \in {"connect", "send"} =>
           cur \notin Done /\ \A s \in Socks : chan[s].up # <<>> => chan[s].up[1] # cur

ReplyInv == CleanWhenIdle /\ (pc = "recv" /\ fd \in Socks => OnlyCurrent(chan[fd]))

ResultInv ==
    /\ \A c \in Cmds : result[c] # "wrong" /\ (c > cur => result[c] = "none")
    /\ cur > 0 => (result[cur] = "none" <=> pc # "idle")

\* Why no reply can be taken for another command's: a socket that was closed is never used
\* again, a new one is empty, and while a command runs its socket carries only that command
\* and its reply.  Commands are sent once, so none is executed twice; none is answered
\* before it is executed.
ConnectionInv == ChannelInv /\ SocketInv /\ OnceInv /\ ReplyInv /\ ResultInv

\* Every command returns, also when the server is gone.
CommandReturns == pc # "idle" ~> pc = "idle"
=============================================================================
