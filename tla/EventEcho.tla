----------------------------- MODULE EventEcho ------------------------------
(***************************************************************************)
(* The clients and servers of libevent_demo, each in three versions that   *)
(* are meant to do the same: 1 with events on sockets, 2 with bufferevents *)
(* on sockets it makes itself, 3 with libevent's own connect and listener. *)
(* A client sends what is typed and prints what comes back; a server sends *)
(* back a prefix and what it has read (3: a fixed reply).  One client of   *)
(* any version meets one server of any version.                            *)
(*                                                                         *)
(* The characters typed are 1, 2, 3 ...; 0 is the prefix, which takes      *)
(* PrefixLen, -1 the fixed reply.  libevent and TCP are external: a        *)
(* bufferevent reads at most ReadMax, calls back once for what it got and  *)
(* keeps what the callback leaves; a write on a socket takes what TCP has  *)
(* room for (Room), and the programs do not look at what it returns.  A    *)
(* store behind the end of an array is not followed further ("wild").      *)
(***************************************************************************)
EXTENDS Integers, Sequences, SequencesExt

CONSTANTS ClientSize,    \* sizeof(msg) of the clients, 1024
          ServerSize,    \* sizeof(msg) and sizeof(reply_msg) of the servers, 4096
          PrefixLen,     \* of the reply, with what ends the string
          ReadMax,       \* 4096
          Room, MaxTyped

VARIABLES cv, sv,                      \* the versions that meet
          client, cmd,                 \* the client, and whether its event on stdin is there
          server, peer,                \* the server, and its end of the connection
          typed, queued, up,           \* what is typed; the client's output; what is under way to the server
          sin, taken, squeued, down,   \* the server's input, what it has read, its output; what is under way back
          cin, shown,                  \* the client's input, and what it has printed
          cfin, sfin,                  \* the client's and the server's socket is closed
          met

vars == <<cv, sv, client, cmd, server, peer, typed, queued, up, sin, taken, squeued, down, cin, shown, cfin, sfin, met>>
versions == <<cv, sv>>
clientData == <<typed, queued, cin, shown>>
serverData == <<sin, taken, squeued>>
wire == <<up, down, cfin, sfin>>

Init ==
    /\ cv \in 1 .. 3 /\ sv \in 1 .. 3 /\ client = "start" /\ cmd = FALSE /\ server = "start" /\ peer = "none"
    /\ typed = 0 /\ queued = <<>> /\ up = <<>> /\ sin = <<>> /\ taken = <<>> /\ squeued = <<>> /\ down = <<>>
    /\ cin = <<>> /\ shown = <<>> /\ cfin = FALSE /\ sfin = FALSE /\ met = {}

First(s, n) == SubSeq(s, 1, IF Len(s) < n THEN Len(s) ELSE n)
Behind(s, n) == SubSeq(s, n + 1, Len(s))
Meets(what) == met' = met \cup what

-----------------------------------------------------------------------------
(* TCP and libevent *)

\* What write(2) takes of s on a socket that holds w
Written(w, s) == First(s, Room - Len(w))
Short(w, s) == IF Len(s) > Room - Len(w) THEN {"short"} ELSE {}

\* The bufferevents of the client and of the server write
ClientFlush ==
    /\ client = "up" /\ queued # <<>> /\ Written(up, queued) # <<>> /\ ~cfin
    /\ up' = up \o Written(up, queued) /\ queued' = Behind(queued, Room - Len(up))
    /\ UNCHANGED <<client, cmd, server, peer, typed, cin, shown, down, cfin, sfin, met>> /\ UNCHANGED serverData
ServerFlush ==
    /\ peer = "up" /\ squeued # <<>> /\ Written(down, squeued) # <<>> /\ ~sfin
    /\ down' = down \o Written(down, squeued) /\ squeued' = Behind(squeued, Room - Len(down))
    /\ UNCHANGED <<client, cmd, server, peer, sin, taken, up, cfin, sfin, met>> /\ UNCHANGED clientData

\* The connection breaks: what is under way is lost
Break ==
    /\ client = "up" /\ peer # "none" /\ ~(cfin /\ sfin) /\ cfin' = TRUE /\ sfin' = TRUE /\ up' = <<>> /\ down' = <<>>
    /\ UNCHANGED <<client, cmd, server, peer, met>> /\ UNCHANGED clientData /\ UNCHANGED serverData

\* A write on a connection that the other end has closed, or that is broken, may end the process (SIGPIPE)
ClientKilled ==
    /\ client = "up" /\ sfin /\ (queued # <<>> \/ (cv = 1 /\ cmd)) /\ client' = "exit" /\ cfin' = TRUE
    /\ UNCHANGED <<cmd, server, peer, up, down, sfin, met>> /\ UNCHANGED clientData /\ UNCHANGED serverData
ServerKilled ==
    /\ peer = "up" /\ cfin /\ (squeued # <<>> \/ (sv = 1 /\ up # <<>>))
    /\ server' = "killed" /\ peer' = "freed" /\ sfin' = TRUE /\ sin' = <<>> /\ squeued' = <<>>
    /\ UNCHANGED <<client, cmd, taken, up, down, cfin, met>> /\ UNCHANGED clientData

\* event_base_dispatch of a client without events
DispatchReturns ==
    /\ client = "freed" /\ ~cmd /\ client' = "exit" /\ cfin' = TRUE
    /\ UNCHANGED <<cmd, server, peer, up, down, sfin, met>> /\ UNCHANGED clientData /\ UNCHANGED serverData

-----------------------------------------------------------------------------
(* The clients *)

Connects(ok) ==
    /\ client = "start"
    /\ IF ok THEN server \in {"bound", "listening"} /\ peer = "none" /\ peer' = "pending" /\ client' = "connected"
       ELSE client' = "exit" /\ UNCHANGED peer
    /\ UNCHANGED <<cmd, server, met>> /\ UNCHANGED clientData /\ UNCHANGED serverData /\ UNCHANGED wire
tcp_connect_server1(ok) == cv = 1 /\ Connects(ok)
tcp_connect_server2(ok) == cv = 2 /\ Connects(ok)

\* Both events, or the event and the bufferevent, are registered
Registers ==
    /\ client = "connected" /\ client' = "up" /\ cmd' = TRUE
    /\ UNCHANGED <<server, peer, met>> /\ UNCHANGED clientData /\ UNCHANGED serverData /\ UNCHANGED wire
client1main == cv = 1 /\ Registers
client2main == cv = 2 /\ Registers

\* The connect is under way, or has failed before event_cb was set, which is never told
client3main(fails) ==
    /\ cv = 3 /\ client = "start" /\ client' = (IF fails THEN "deaf" ELSE "connecting") /\ cmd' = TRUE
    /\ UNCHANGED <<server, peer, met>> /\ UNCHANGED clientData /\ UNCHANGED serverData /\ UNCHANGED wire

Typed(n) == [i \in 1 .. n |-> typed + i]
TypesMore(n) == cmd /\ typed + n <= MaxTyped /\ typed' = typed + n

\* n characters, or none at the end of the input, or an error (-1)
cmd_msg_cb1(n) ==
    /\ cv = 1 /\ client = "up"
    /\ IF n <= 0 THEN client' = "exit" /\ cfin' = TRUE /\ UNCHANGED <<typed, up, met>>
       ELSE /\ TypesMore(n) /\ UNCHANGED <<client, cfin>>
            /\ IF cfin THEN UNCHANGED <<up, met>> ELSE up' = up \o Written(up, Typed(n)) /\ Meets(Short(up, Typed(n)))
    /\ UNCHANGED <<cmd, server, peer, queued, down, sfin, cin, shown>> /\ UNCHANGED serverData

\* At the end of the input nothing is written, and the event stays
Queues(n) ==
    /\ client # "start" /\ cmd
    /\ CASE n = -1 -> client' = "exit" /\ cfin' = TRUE /\ UNCHANGED <<typed, queued, met>>
         [] client = "freed" -> Meets({"freed"}) /\ UNCHANGED <<client, cfin, typed, queued>>
         [] OTHER -> n > 0 /\ TypesMore(n) /\ queued' = queued \o Typed(n) /\ UNCHANGED <<client, cfin, met>>
    /\ UNCHANGED <<cmd, server, peer, up, down, sfin, cin, shown>> /\ UNCHANGED serverData
cmd_msg_cb2(n) == cv = 2 /\ client # "exit" /\ Queues(n)
cmd_msg_cb3(n) == cv = 3 /\ client # "exit" /\ Queues(n)

\* read(fd, msg, limit) and the '\0' behind what it got
ClientReads(limit) ==
    /\ cv = 1 /\ client = "up"
    /\ \/ down # <<>> /\ shown' = shown \o First(down, limit) /\ down' = Behind(down, limit)
          /\ Meets(IF Len(First(down, limit)) = ClientSize THEN {"wild"} ELSE {}) /\ UNCHANGED <<client, cfin>>
       \/ down = <<>> /\ sfin /\ client' = "exit" /\ cfin' = TRUE /\ UNCHANGED <<shown, down, met>>
    /\ UNCHANGED <<cmd, server, peer, typed, queued, cin, up, sfin>> /\ UNCHANGED serverData

\* socket_read_cb of client1
client1read == ClientReads(ClientSize - 1)

\* The bufferevent reads, the callback prints sizeof(msg) of it at most, with the '\0' behind
ClientGets ==
    LET arrived == cin \o First(down, ReadMax)
    IN  /\ client = "up" /\ down # <<>> /\ down' = Behind(down, ReadMax)
        /\ cin' = Behind(arrived, ClientSize) /\ shown' = shown \o First(arrived, ClientSize)
        /\ Meets(IF Len(arrived) >= ClientSize THEN {"wild"} ELSE {})
        /\ UNCHANGED <<client, cmd, server, peer, typed, queued, up, cfin, sfin>> /\ UNCHANGED serverData
server_msg_cb2 == cv = 2 /\ ClientGets
server_msg_cb3 == cv = 3 /\ ClientGets

Frees(keeps) ==
    /\ client' = "freed" /\ cmd' = keeps /\ queued' = <<>> /\ cin' = <<>> /\ cfin' = TRUE
    /\ UNCHANGED <<server, peer, typed, shown, up, down, sfin, met>> /\ UNCHANGED serverData
event_cb2 == cv = 2 /\ client = "up" /\ down = <<>> /\ sfin /\ Frees(FALSE)

\* Connected, refused, or at the end
event_cb3 ==
    /\ cv = 3
    /\ \/ /\ client = "connecting" /\ server \in {"bound", "listening"} /\ peer = "none" /\ peer' = "pending" /\ client' = "up"
          /\ UNCHANGED <<cmd, server, met>> /\ UNCHANGED clientData /\ UNCHANGED serverData /\ UNCHANGED wire
       \/ (client = "connecting" \/ (client = "up" /\ down = <<>> /\ sfin)) /\ Frees(FALSE)

-----------------------------------------------------------------------------
(* The servers *)

ServerStep(from, to) ==
    /\ server = from /\ server' = to
    /\ UNCHANGED <<client, cmd, peer, met>> /\ UNCHANGED clientData /\ UNCHANGED serverData /\ UNCHANGED wire
tcp_server_init1(ok) == sv = 1 /\ ServerStep("start", IF ok THEN "bound" ELSE "exit")
tcp_server_init2(ok) == sv = 2 /\ ServerStep("start", IF ok THEN "bound" ELSE "exit")
server1main == sv = 1 /\ ServerStep("bound", "listening")
server2main == sv = 2 /\ ServerStep("bound", "listening")
\* Without a listener the loop ends at once, and frees it
server3main(ok) == sv = 3 /\ ServerStep("start", IF ok THEN "listening" ELSE "crashed")

Accepts ==
    /\ server = "listening" /\ peer = "pending" /\ peer' = "up"
    /\ UNCHANGED <<client, cmd, server, met>> /\ UNCHANGED clientData /\ UNCHANGED serverData /\ UNCHANGED wire
accept_cb1 == sv = 1 /\ Accepts
accept_cb2 == sv = 2 /\ Accepts
listener_cb == sv = 3 /\ Accepts

\* The connection ends, and its buffers with it
PeerFreed ==
    /\ peer = "up" /\ up = <<>> /\ cfin /\ peer' = "freed" /\ sfin' = TRUE /\ sin' = <<>> /\ squeued' = <<>>
    /\ UNCHANGED <<client, cmd, server, taken, up, down, cfin, met>> /\ UNCHANGED clientData

\* strcat(reply_msg + strlen(reply_msg), msg), with the '\0' behind msg[len] and behind reply_msg
Reply(msg) == <<0>> \o msg
Overflows(msg) == Len(msg) = ServerSize \/ PrefixLen + Len(msg) > ServerSize

\* socket_read_cb of server1
server1read ==
    LET msg == First(up, ServerSize - 1)
    IN  /\ sv = 1 /\ peer = "up" /\ up # <<>> /\ up' = Behind(up, ServerSize - 1) /\ taken' = taken \o msg
        /\ down' = down \o Written(down, Reply(msg))
        /\ Meets(Short(down, Reply(msg)) \cup IF Overflows(msg) THEN {"wild"} ELSE {})
        /\ UNCHANGED <<client, cmd, server, peer, sin, squeued, cfin, sfin>> /\ UNCHANGED clientData
server1ends == sv = 1 /\ PeerFreed

Arrived == sin \o First(up, ReadMax)

\* socket_read_cb and event_cb of server2
server2read ==
    LET msg == First(Arrived, ServerSize)
    IN  /\ sv = 2 /\ peer = "up" /\ up # <<>> /\ up' = Behind(up, ReadMax)
        /\ sin' = Behind(Arrived, ServerSize) /\ taken' = taken \o msg /\ squeued' = squeued \o Reply(msg)
        /\ Meets(IF Overflows(msg) THEN {"wild"} ELSE {})
        /\ UNCHANGED <<client, cmd, server, peer, down, cfin, sfin>> /\ UNCHANGED clientData
server2ends == sv = 2 /\ PeerFreed

\* socket_read_cb and socket_event_cb of server3
server3read ==
    LET msg == First(Arrived, ServerSize - 1)
    IN  /\ sv = 3 /\ peer = "up" /\ up # <<>> /\ up' = Behind(up, ReadMax)
        /\ sin' = Behind(Arrived, ServerSize - 1) /\ taken' = taken \o msg /\ squeued' = squeued \o <<-1>>
        /\ UNCHANGED <<client, cmd, server, peer, down, cfin, sfin, met>> /\ UNCHANGED clientData
socket_event_cb == sv = 3 /\ PeerFreed

Next ==
    /\ "wild" \notin met /\ UNCHANGED versions
    /\ \/ ClientFlush \/ ServerFlush \/ Break \/ ClientKilled \/ ServerKilled \/ DispatchReturns \/ client1main \/ client2main \/ client1read
       \/ server_msg_cb2 \/ server_msg_cb3 \/ event_cb2 \/ event_cb3 \/ server1main \/ server2main
       \/ accept_cb1 \/ accept_cb2 \/ listener_cb \/ server1read \/ server1ends \/ server2read \/ server2ends
       \/ server3read \/ socket_event_cb
       \/ \E ok \in BOOLEAN : \/ tcp_connect_server1(ok) \/ tcp_connect_server2(ok) \/ client3main(~ok)
                              \/ tcp_server_init1(ok) \/ tcp_server_init2(ok) \/ server3main(ok)
       \/ \E n \in -1 .. ClientSize : cmd_msg_cb1(n) \/ cmd_msg_cb2(n) \/ cmd_msg_cb3(n)

-----------------------------------------------------------------------------
\* The server reads what was typed, from its begin and without a gap, and as long as the connection lasts what it has
\* not read yet is still in a buffer on its way: however the input is cut, and whatever socket_read_cb leaves in the
\* bufferevent.  Not when write on a socket took a part.
NothingTypedIsLost ==
    "short" \notin met =>
        /\ IsPrefix(taken, [i \in 1 .. typed |-> i])
        /\ ~cfin /\ peer # "freed" => taken \o sin \o up \o queued = [i \in 1 .. typed |-> i]

\* The client prints what the servers that send it back have read, in order and nothing twice, and what it has not
\* printed yet is still on its way
EchoIsWhatWasRead ==
    LET echoed(s) == SelectSeq(s, LAMBDA c : c # 0)
    IN  sv # 3 /\ met \cap {"short", "wild"} = {} =>
            /\ IsPrefix(echoed(shown), taken)
            /\ ~cfin /\ ~sfin => echoed(shown \o cin \o down \o squeued) = taken

\* After event_cb has freed the bufferevent nothing that is typed is written to it: the event on stdin, which has it
\* as its argument, goes with it
FreedIsNotUsed == "freed" \notin met

\* client1 and server3 stay within their buffers whatever comes, a full buffer being the last case: they read one
\* character less than it has; client2, client3 and server2, which do not, and the replies of server1 and server2,
\* which are put behind a prefix in a buffer of the same size, stay within them as long as nothing fills them
BuffersHold == "wild" \in met => cv # 1 \/ sv # 3
=============================================================================
