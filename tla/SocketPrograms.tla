--------------------------- MODULE SocketPrograms ---------------------------
(***************************************************************************)
(* Two programs that serve a socket with several threads: the reactors of  *)
(* tiny_server, and the WebSocket client of from_sihua.                    *)
(***************************************************************************)
EXTENDS Integers, Sequences, FiniteSets

-----------------------------------------------------------------------------
(***************************************************************************)
(* tiny_server/reactors in threads: the main reactor accepts a connection  *)
(* and sends its number, as text, through a socket pair to a worker that   *)
(* is not busy; the worker adds it to its epoll set and serves it.  The    *)
(* pair is a stream, so that two numbers may arrive in one recv, and buf   *)
(* is not terminated there, so that atoi goes on into what an earlier recv *)
(* left.  Descriptors have one digit, as they have in a small server: of   *)
(* buf the model keeps whether buf[1] is a digit.                          *)
(***************************************************************************)
CONSTANTS Conns, Workers, MaxSends

None == 0       \* connfd = -1
Wrong == -1     \* a number that is no connection

VARIABLES conn,                  \* "none", "waiting" to be accepted, "open" or "closed" here
          peer, inbox,           \* the client's end: is it open, and what it sent that is not read
          sent,                  \* how much it sent
          mainAt, x,             \* the accepted connection main holds, and the worker it found
          pipe,                  \* the numbers on their way to each worker
          busy, connfd,          \* of each Thread
          watched,               \* a function: connection to the events its worker's epoll has
          digit,                 \* buf[1] of each worker is a digit
          signals,               \* SIGPIPEs in the signal pipe
          reactorMet

reactorVars == <<conn, peer, inbox, sent, mainAt, x, pipe, busy, connfd, watched, digit, signals, reactorMet>>
clients == <<peer, inbox, sent>>

ReactorInit ==
    /\ conn = [c \in Conns |-> "none"] /\ peer = [c \in Conns |-> FALSE] /\ inbox = [c \in Conns |-> <<>>]
    /\ sent = [c \in Conns |-> 0] /\ mainAt = None /\ x = 0
    /\ pipe = [w \in Workers |-> <<>>] /\ busy = [w \in Workers |-> FALSE] /\ connfd = [w \in Workers |-> None]
    /\ watched = [c \in Conns |-> {}] /\ digit \in [Workers -> BOOLEAN] /\ signals = 0 /\ reactorMet = {}

-----------------------------------------------------------------------------
(* The clients, and the kernel *)

Connects(c) ==
    /\ conn[c] = "none" /\ conn' = [conn EXCEPT ![c] = "waiting"] /\ peer' = [peer EXCEPT ![c] = TRUE]
    /\ UNCHANGED <<inbox, sent, mainAt, x, pipe, busy, connfd, watched, digit, signals, reactorMet>>

\* A message of one byte, or of more of which the second may be a digit
Sends(c, text) ==
    /\ peer[c] /\ sent[c] < MaxSends /\ sent' = [sent EXCEPT ![c] = @ + 1] /\ inbox' = [inbox EXCEPT ![c] = Append(@, text)]
    /\ UNCHANGED <<conn, peer, mainAt, x, pipe, busy, connfd, watched, digit, signals, reactorMet>>

Leaves(c) ==
    /\ peer[c] /\ peer' = [peer EXCEPT ![c] = FALSE]
    /\ UNCHANGED <<conn, inbox, sent, mainAt, x, pipe, busy, connfd, watched, digit, signals, reactorMet>>

-----------------------------------------------------------------------------
(* main_reactor *)

\* accept, and the search for a worker that is not busy
Accept(c) ==
    /\ conn[c] = "waiting" /\ mainAt = None /\ conn' = [conn EXCEPT ![c] = "open"] /\ mainAt' = c
    /\ x' = (IF \E w \in Workers : ~busy[w] THEN CHOOSE w \in Workers : ~busy[w] /\ \A v \in Workers : ~busy[v] => w <= v ELSE 0)
    /\ UNCHANGED <<peer, inbox, sent, pipe, busy, connfd, watched, digit, signals, reactorMet>>

\* Wrong on purpose: waits for a worker
AssignWaits ==
    /\ mainAt # None /\ x # 0 /\ ~busy[x] /\ mainAt' = None /\ x' = 0
    /\ pipe' = [pipe EXCEPT ![x] = Append(@, mainAt)] /\ UNCHANGED <<conn, peer, inbox, sent, busy, connfd, watched, digit, signals, reactorMet>>

\* The number goes to the worker, which is asked again whether it is busy; it is not, too, while an
\* earlier number is on its way
Assign ==
    /\ mainAt # None /\ mainAt' = None /\ x' = 0
    /\ IF x # 0 /\ ~busy[x]
       THEN /\ pipe' = [pipe EXCEPT ![x] = Append(@, mainAt)] /\ UNCHANGED conn
            /\ reactorMet' = IF pipe[x] # <<>> THEN reactorMet \cup {"overtaken"} ELSE reactorMet
       ELSE conn' = [conn EXCEPT ![mainAt] = "closed"] /\ UNCHANGED <<pipe, reactorMet>>
    /\ UNCHANGED <<peer, inbox, sent, busy, connfd, watched, digit, signals>>

\* The signal pipe is read up to ten bytes at a time
ReadSignals ==
    /\ mainAt = None /\ signals > 0 /\ signals' = (IF signals > 10 THEN signals - 10 ELSE 0)
    /\ UNCHANGED <<conn, peer, inbox, sent, mainAt, x, pipe, busy, connfd, watched, digit, reactorMet>>

-----------------------------------------------------------------------------
(* work, in the worker's thread *)

main == <<mainAt, x>>

addfd(c, events) == watched' = IF c \in Conns /\ conn[c] = "open" THEN [watched EXCEPT ![c] = events] ELSE watched
modfd(c, events) == watched' = IF c \in Conns /\ watched[c] # {} THEN [watched EXCEPT ![c] = events] ELSE watched

\* What the number read is: the connection, unless a digit follows it
Number(w) == IF Len(pipe[w]) = 1 /\ ~digit[w] THEN Head(pipe[w]) ELSE Wrong

\* All that is in the pair is read as one number; the connection is added and the worker is busy
PipeEvent(w) ==
    /\ pipe[w] # <<>> /\ pipe' = [pipe EXCEPT ![w] = <<>>]
    /\ connfd' = [connfd EXCEPT ![w] = Number(w)] /\ busy' = [busy EXCEPT ![w] = TRUE] /\ addfd(Number(w), {"in"})
    /\ reactorMet' = IF Number(w) = Wrong /\ Len(pipe[w]) = 1 THEN reactorMet \cup {"digit"} ELSE reactorMet
    /\ digit' = [digit EXCEPT ![w] = IF Len(pipe[w]) > 1 THEN TRUE ELSE @]
    /\ UNCHANGED <<conn, signals>> /\ UNCHANGED clients /\ UNCHANGED main

Readable(c) == inbox[c] # <<>> \/ ~peer[c]

\* recv has returned 0 or an error
Closed(w) ==
    /\ conn' = [conn EXCEPT ![connfd[w]] = "closed"] /\ watched' = [watched EXCEPT ![connfd[w]] = {}]
    /\ connfd' = [connfd EXCEPT ![w] = None] /\ busy' = [busy EXCEPT ![w] = FALSE]

\* EPOLLIN: echo, and ask for EPOLLOUT
ReadEvent(w) ==
    LET c == connfd[w]
    IN  /\ busy[w] /\ c \in Conns /\ "in" \in watched[c] /\ Readable(c)
        /\ IF inbox[c] = <<>>
           THEN Closed(w) /\ UNCHANGED <<inbox, digit, signals>>
           ELSE /\ inbox' = [inbox EXCEPT ![c] = Tail(@)]
                /\ digit' = [digit EXCEPT ![w] = Head(inbox[c]) = "digit"] /\ modfd(c, {"in", "out"})
                /\ signals' = IF peer[c] \/ signals >= 2 THEN signals ELSE signals + 1
                /\ UNCHANGED <<conn, busy, connfd>>
        /\ UNCHANGED <<peer, sent, pipe, reactorMet>> /\ UNCHANGED main

\* EPOLLOUT: the result is sent; when that fails the connection is closed, and the worker stays busy
WriteEvent(w, ok) ==
    LET c == connfd[w]
    IN  /\ busy[w] /\ c \in Conns /\ "out" \in watched[c] /\ (peer[c] => ok)
        /\ IF ok
           THEN modfd(c, {"in"}) /\ UNCHANGED <<conn, connfd, signals, reactorMet>>
           ELSE /\ conn' = [conn EXCEPT ![c] = "closed"] /\ watched' = [watched EXCEPT ![c] = {}]
                /\ connfd' = [connfd EXCEPT ![w] = None] /\ reactorMet' = reactorMet \cup {"unsent"}
                /\ signals' = IF signals >= 2 THEN signals ELSE signals + 1
        /\ UNCHANGED <<pipe, busy, digit>> /\ UNCHANGED clients /\ UNCHANGED main

Work(w) == PipeEvent(w) \/ ReadEvent(w) \/ \E ok \in BOOLEAN : WriteEvent(w, ok)

Client == \E c \in Conns : Connects(c) \/ Leaves(c) \/ \E text \in {"digit", "other"} : Sends(c, text)

Main == Assign \/ ReadSignals \/ \E c \in Conns : Accept(c)

ReactorNext == Client \/ Main \/ \E w \in Workers : Work(w)

ReactorSpec == ReactorInit /\ [][ReactorNext]_reactorVars /\ WF_reactorVars(Main) /\ WF_reactorVars(\E w \in Workers : Work(w))

-----------------------------------------------------------------------------
Held(c) == c = mainAt \/ (\E w \in Workers : connfd[w] = c /\ watched[c] # {} /\ busy[w]) \/ \E w \in Workers : \E i \in DOMAIN pipe[w] : pipe[w][i] = c

\* A connection that is accepted and not closed is with the main reactor, on its way to one worker or in
\* that worker's epoll set: none is forgotten between the threads, except where a second number
\* overtakes the first one's reading, or follows a digit in buf
NoneForgotten == reactorMet \cap {"overtaken", "digit"} = {} => \A c \in Conns : conn[c] = "open" => Held(c)

\* A worker that says it is busy serves an open connection, and one that serves is busy: unless a result
\* could not be sent, after which it stays busy for good
BusyServes ==
    reactorMet = {} => \A w \in Workers : busy[w] <=> (connfd[w] \in Conns /\ conn[connfd[w]] = "open")

\* A client that leaves is noticed: its connection is closed, as long as none of the three has happened
LeavingIsNoticed == \A c \in Conns : (conn[c] = "open" /\ ~peer[c]) ~> (conn[c] = "closed" \/ reactorMet # {})

\* A client that connects gets a worker that watches its connection, or is refused, when none is free
EveryoneIsAnswered == \A c \in Conns : conn[c] = "waiting" ~> (conn[c] = "closed" \/ watched[c] # {} \/ reactorMet # {})
-----------------------------------------------------------------------------
(***************************************************************************)
(* WebsocketClient of from_sihua/websocket_demo: open() connects, trying   *)
(* again for ever, and starts the thread that reads; close() shuts the     *)
(* socket and joins that thread; both callbacks run in it and may call     *)
(* the client themselves, as the user's thread does.  Poco is external: a  *)
(* Thread that is running cannot be started, receiveFrame returns 0 when   *)
(* the peer has closed and throws when the connection is broken or shut.   *)
(***************************************************************************)
CONSTANTS MaxOpens, MaxFrames

Callers == {"user", "reader"}       \* the thread that is in a call

VARIABLES isRun_,
          ws_,                  \* "null", "open", "ended" by the peer, "broken", or "shut" here
          frames,               \* messages that were sent and not read
          at,                   \* where each caller is: "none" when it is not in open() or close()
          reader,               \* "none", "loop" at its test of isRun_, "reading", "callback" or "done"
          reason,               \* why the callback runs: "read", "size" or "exception"
          opens, reports, read, \* connections made, disconnections reported, frames sent
          pc,                   \* "up", or "exited", "crashed" or "hung"
          webMet

webVars == <<isRun_, ws_, frames, at, reader, reason, opens, reports, read, pc, webMet>>

WebInit ==
    /\ isRun_ = FALSE /\ ws_ = "null" /\ frames = 0 /\ at = [t \in Callers |-> "none"] /\ reader = "none" /\ reason = "read"
    /\ opens = 0 /\ reports = 0 /\ read = 0 /\ pc = "up" /\ webMet = {}

\* The user calls when it is in no call, a callback while it runs
MayCall(t) == pc = "up" /\ at[t] = "none" /\ (t = "reader" => reader = "callback")
Goes(t, where) == at' = [at EXCEPT ![t] = where]

-----------------------------------------------------------------------------
open(t) ==
    /\ MayCall(t) /\ ~isRun_ /\ opens < MaxOpens /\ Goes(t, "connecting")
    /\ UNCHANGED <<isRun_, ws_, frames, reader, reason, opens, reports, read, pc, webMet>>

openConnects(t) ==
    /\ pc = "up" /\ at[t] = "connecting" /\ opens < MaxOpens
    /\ ws_' = "open" /\ frames' = 0 /\ opens' = opens + 1 /\ Goes(t, "starting")
    /\ UNCHANGED <<isRun_, reader, reason, reports, read, pc, webMet>>

\* Every exception is logged, and the call tries again in three seconds
openRetries(t) == pc = "up" /\ at[t] = "connecting" /\ UNCHANGED webVars

\* Thread::start throws when the thread runs, as it does in a callback, and open() then exits the process
openStarts(t) ==
    /\ pc = "up" /\ at[t] = "starting" /\ isRun_' = TRUE /\ Goes(t, "none")
    /\ IF reader \in {"none", "done"}
       THEN reader' = "loop" /\ UNCHANGED <<pc, webMet>>
       ELSE pc' = "exited" /\ webMet' = webMet \cup {"started"} /\ UNCHANGED reader
    /\ UNCHANGED <<ws_, frames, reason, opens, reports, read>>

\* close(): the flag, the socket, then the join.  Without a socket it follows a null pointer
close(t) ==
    /\ MayCall(t) /\ isRun_' = FALSE
    /\ IF ws_ = "null"
       THEN pc' = "crashed" /\ webMet' = webMet \cup {"null"} /\ UNCHANGED <<ws_, at>>
       ELSE ws_' = "shut" /\ Goes(t, "joining") /\ UNCHANGED <<pc, webMet>>
    /\ UNCHANGED <<frames, reader, reason, opens, reports, read>>

\* join returns when the thread has ended; a thread that joins itself waits for ever
closeReturns(t) ==
    /\ pc = "up" /\ at[t] = "joining"
    /\ \/ t = "user" /\ reader \in {"none", "done"} /\ Goes(t, "none") /\ UNCHANGED <<pc, webMet>>
       \/ t = "reader" /\ pc' = "hung" /\ webMet' = webMet \cup {"self"} /\ UNCHANGED at
    /\ UNCHANGED <<isRun_, ws_, frames, reader, reason, opens, reports, read>>

-----------------------------------------------------------------------------
(* InnerRunnable::run *)

\* while (client_->isRun_): the flag is read before each receiveFrame, not during one
runLoops ==
    /\ pc = "up" /\ reader = "loop" /\ reader' = (IF isRun_ THEN "reading" ELSE "done")
    /\ UNCHANGED <<isRun_, ws_, frames, at, reason, opens, reports, read, pc, webMet>>

\* A message goes to the read callback
receives ==
    /\ pc = "up" /\ reader = "reading" /\ frames > 0 /\ ws_ \in {"open", "ended"}
    /\ frames' = frames - 1 /\ reader' = "callback" /\ reason' = "read"
    /\ UNCHANGED <<isRun_, ws_, at, opens, reports, read, pc, webMet>>

\* receiveFrame has returned 0: reported, but isRun_ stays
receivesNothing ==
    /\ pc = "up" /\ reader = "reading" /\ frames = 0 /\ ws_ = "ended"
    /\ reader' = "callback" /\ reason' = "size" /\ reports' = reports + 1
    /\ webMet' = IF isRun_ THEN webMet \cup {"size"} ELSE webMet
    /\ UNCHANGED <<isRun_, ws_, frames, at, opens, read, pc>>

\* Any exception: exception_lambda
throws ==
    /\ pc = "up" /\ reader = "reading" /\ ws_ \in {"broken", "shut"} /\ isRun_' = FALSE
    /\ reader' = "callback" /\ reason' = "exception" /\ reports' = reports + 1
    /\ UNCHANGED <<ws_, frames, at, opens, read, pc, webMet>>

\* Only after a message the loop goes on
callbackReturns ==
    /\ pc = "up" /\ reader = "callback" /\ at["reader"] = "none"
    /\ reader' = (IF reason = "read" THEN "loop" ELSE "done")
    /\ UNCHANGED <<isRun_, ws_, frames, at, reason, opens, reports, read, pc, webMet>>

-----------------------------------------------------------------------------
(* The server, and the network *)

PeerSends == pc = "up" /\ ws_ = "open" /\ read < MaxFrames /\ frames' = frames + 1 /\ read' = read + 1 /\ UNCHANGED <<isRun_, ws_, at, reader, reason, opens, reports, pc, webMet>>
PeerEnds == pc = "up" /\ ws_ = "open" /\ ws_' = "ended" /\ UNCHANGED <<isRun_, frames, at, reader, reason, opens, reports, read, pc, webMet>>
Breaks == pc = "up" /\ ws_ \in {"open", "ended"} /\ ws_' = "broken" /\ UNCHANGED <<isRun_, frames, at, reader, reason, opens, reports, read, pc, webMet>>

Calls(t) == open(t) \/ openConnects(t) \/ openRetries(t) \/ openStarts(t) \/ close(t) \/ closeReturns(t)

Run == runLoops \/ receives \/ receivesNothing \/ throws \/ callbackReturns

WebNext == Run \/ PeerSends \/ PeerEnds \/ Breaks \/ \E t \in Callers : Calls(t)

\* The threads run, and a server accepts after some tries
WebSpec ==
    /\ WebInit /\ [][WebNext]_webVars /\ WF_webVars(Run)
    /\ WF_webVars(\E t \in Callers : openConnects(t) \/ openStarts(t)) /\ WF_webVars(\E t \in Callers : closeReturns(t))

-----------------------------------------------------------------------------
\* A disconnection is reported once for each connection, whatever ends it: the peer, the network, a
\* close() of the user or one of the two at the same time
ReportedOnce == reports <= opens

\* isRun_ means that the reading thread is there or being started, so that open() may return at once: it
\* does not after receiveFrame returned 0, when isRun_ stays and the client cannot be opened again
RunsWhileSet == isRun_ /\ "size" \notin webMet /\ pc = "up" => reader \in {"loop", "reading", "callback"}

\* A connection that ends is reported, or the process is gone, or a new connection replaced it
EndIsReported ==
    \A n \in 0 .. MaxOpens - 1 :
        (reader = "reading" /\ isRun_ /\ ws_ \in {"ended", "broken"} /\ reports = n) ~> (reports > n \/ opens > n + 1 \/ pc # "up" \/ ~isRun_)

\* close() returns in the user's thread: the reader leaves receiveFrame when the socket is shut
CloseReturns == at["user"] = "joining" ~> (at["user"] = "none" \/ pc # "up")
=============================================================================
