---------------------------- MODULE MCLibraryLive ----------------------------
(***************************************************************************)
(* One instance of each part beside the restorers whose threads must get   *)
(* on: the asynchronous logger, the reactors of tiny_server and the        *)
(* WebSocket client.  The parts share no state: part picks the one that    *)
(* runs, the others stay in their initial states.                          *)
(***************************************************************************)
EXTENDS Integers, Sequences

CONSTANTS Size, Limit, MaxMessages,    \* Logging
          Conns, Workers, MaxSends,    \* SocketPrograms: the reactors
          MaxOpens, MaxFrames          \* and the WebSocket client

VARIABLES part,
          running, current, next, buffers, toWrite, new1, new2, file, logged, dropped, bpc, opc, lmet,
          conn, peer, inbox, sent, mainAt, x, pipe, busy, connfd, watched, digit, signals, rmet,
          isRun_, ws_, frames, at, reader, reason, opens, reports, read, pc, wmet

\* Of Logging only the asynchronous logger runs here
log == INSTANCE Logging
    WITH Day <- 1, RollSize <- 1, FlushInterval <- 1, FileLengths <- {}, CheckValues <- {}, MaxNow <- 1,
         MaxAppends <- 1, Capacity <- 1, NumericSize <- 1, Width <- 1, Numbers <- {}, LineLengths <- {},
         MaxValues <- 1,
         asyncFile <- file, asyncMet <- lmet, now <- lmet, files <- lmet, name <- lmet, writtenBytes <- lmet,
         count <- lmet, startOfPeriod <- lmet, lastFlush <- lmet, flushed <- lmet, checkEveryN <- lmet,
         appends <- lmet, fileMet <- lmet, g_loglevel <- lmet, phase <- lmet, level_ <- lmet, buffer <- lmet,
         high <- lmet, values <- lmet, number <- lmet, line <- lmet
sockets == INSTANCE SocketPrograms WITH reactorMet <- rmet, webMet <- wmet

logVars == <<running, current, next, buffers, toWrite, new1, new2, file, logged, dropped, bpc, opc, lmet>>
reactorVars == <<conn, peer, inbox, sent, mainAt, x, pipe, busy, connfd, watched, digit, signals, rmet>>
clientVars == <<isRun_, ws_, frames, at, reader, reason, opens, reports, read, pc, wmet>>
vars == <<part, logVars, reactorVars, clientVars>>

Init == part \in {"log", "reactors", "client"} /\ log!AsyncInit /\ sockets!ReactorInit /\ sockets!WebInit

Log(A) == part = "log" /\ A /\ UNCHANGED <<part, reactorVars, clientVars>>
Reactor(A) == part = "reactors" /\ A /\ UNCHANGED <<part, logVars, clientVars>>
Client(A) == part = "client" /\ A /\ UNCHANGED <<part, logVars, reactorVars>>

Next == Log(log!AsyncNext) \/ Reactor(sockets!ReactorNext) \/ Client(sockets!WebNext)

\* The fairness of the three, each with its own threads: the background thread, the main reactor and the reader;
\* the owner that joins, the workers and the callers that open; the callers that close
Spec ==
    /\ Init /\ [][Next]_vars
    /\ WF_vars(Log(log!Thread) \/ Reactor(sockets!Main) \/ Client(sockets!Run))
    /\ WF_vars(\/ Log(log!stopReturns) \/ Reactor(\E w \in Workers : sockets!Work(w))
               \/ Client(\E t \in sockets!Callers : sockets!openConnects(t) \/ sockets!openStarts(t)))
    /\ WF_vars(Client(\E t \in sockets!Callers : sockets!closeReturns(t)))

-----------------------------------------------------------------------------
\* Every message is written, in order, or dropped by the limit; there are always enough buffers to refill from; stop
\* returns, unless it came before the thread's first line (Logging).
EachWritten == log!EachWritten /\ log!StopEnds /\ [](log!InOrder /\ log!AssertionsHold)

\* Who connects is served or refused, and who leaves is noticed, with no connection forgotten between the threads
\* and a connection that ends is reported, once, and close() returns (SocketPrograms).
EveryoneIsAnswered ==
    /\ sockets!EveryoneIsAnswered /\ sockets!LeavingIsNoticed /\ [](sockets!NoneForgotten /\ sockets!BusyServes)
    /\ sockets!EndIsReported /\ sockets!CloseReturns /\ [](sockets!ReportedOnce /\ sockets!RunsWhileSet)
=============================================================================
