------------------------------- MODULE Socket -------------------------------
(***************************************************************************)
(* The Socket class (gb/downdatarestorer_norah/socket.cpp) over the        *)
(* process's table of descriptors: which descriptor each Socket object     *)
(* has, who owns each open descriptor, and whether it blocks.  The kernel  *)
(* gives out the lowest free number, and frees the number of a descriptor  *)
(* also when close reports an error.  The rest of the process, other,      *)
(* opens and closes one descriptor.  The addresses, ports and      *)
(* bytes do not matter here, nor which of the two families is used: the v4 *)
(* and v6 functions take the same steps.                                   *)
(***************************************************************************)
EXTENDS Integers, FiniteSets

CONSTANTS Objs, MaxFd, ClosingEvents,    \* the events on which WaitReadEvent closes
          MaxIncidents      \* bound on the kinds of incidents in met

VARIABLES open,      \* the open descriptors: number |-> [owner, state, nonblock]
          fd,        \* the member fd of each object
          handler,   \* the epoll descriptor each object's user holds, or -1
          met        \* what has happened that leaves a property open

vars == <<open, fd, handler, met>>

Fds == 0 .. MaxFd
INVALID == -1
Free == [owner |-> "none", state |-> "new", nonblock |-> FALSE]
Desc(o) == [owner |-> o, state |-> "new", nonblock |-> FALSE]
FreeFds == {n \in Fds : open[n] = Free}
Lowest(s) == CHOOSE n \in s : \A m \in s : n <= m

Init ==
    /\ open \in {[n \in Fds |-> IF n \in s THEN Desc("other") ELSE Free] : s \in {{}, {0}}}
    /\ fd = [o \in Objs |-> INVALID] /\ handler = [o \in Objs |-> INVALID] /\ met = {}

(* close(2) of number n: nothing happens to a free one *)
Closed(t, n) == IF n \in Fds THEN [t EXCEPT ![n] = Free] ELSE t

\* Socket::close: on an error of close(2) the member keeps the number
close(o, ok) ==
    IF fd[o] = INVALID THEN UNCHANGED <<open, fd, met>>
    ELSE /\ open' = Closed(open, fd[o])
         /\ fd' = [fd EXCEPT ![o] = IF ok THEN INVALID ELSE @]
         /\ met' = met \cup (IF ok THEN {} ELSE {"closeFailed"})

\* Socket::create takes a new number whatever the member holds; [table, number], or no number
create(t, o) ==
    LET free == {n \in Fds : t[n] = Free}
    IN {[t |-> [t EXCEPT ![n] = Desc(o)], n |-> n] : n \in IF free = {} THEN {} ELSE {Lowest(free)}} \cup {[t |-> t, n |-> INVALID]}

\* The first lines of connectNonBock: a socket that got the number 0 is created once more
Created(o) ==
    LET first == IF fd[o] = INVALID THEN create(open, o) ELSE {[t |-> open, n |-> fd[o]]}
    IN UNION {IF r.n = 0 THEN create(r.t, o) ELSE {r} : r \in first}
ZeroAgain(o, r) == fd[o] = 0 \/ (fd[o] = INVALID /\ 0 \in FreeFds)

\* The end of __connectNonBockv4 puts back the flags it found, which are those of a socket that an
\* earlier connect left nonblocking
Connected(r, o, ok) == [r.t EXCEPT ![r.n].state = "connected"]

\* connect to the server by connectNonBock
connectOk(o) ==
    \E r \in Created(o) :
        /\ r.n # INVALID /\ r.t[r.n] # Free /\ r.t[r.n].state \in {"new", "bound"}
        /\ open' = Connected(r, o, TRUE) /\ fd' = [fd EXCEPT ![o] = r.n]
        /\ met' = met \cup (IF ZeroAgain(o, r) THEN {"zero"} ELSE {})
        /\ UNCHANGED handler

\* It is refused at once, or getsockopt fails: the socket stays, nonblocking
connectRefused(o) ==
    \E r \in Created(o) :
        /\ open' = IF r.n = INVALID \/ r.t[r.n] = Free THEN r.t ELSE [r.t EXCEPT ![r.n].nonblock = TRUE]
        /\ fd' = [fd EXCEPT ![o] = r.n]
        /\ met' = met \cup (IF ZeroAgain(o, r) THEN {"zero"} ELSE {}) \cup (IF r.n = INVALID THEN {} ELSE {"refused"})
        /\ UNCHANGED handler

\* poll fails or times out, or the connection was refused later: the socket is closed
connectFails(o, ok) ==
    \E r \in Created(o) :
        /\ r.n # INVALID /\ open' = Closed(r.t, r.n) /\ fd' = [fd EXCEPT ![o] = IF ok THEN INVALID ELSE r.n]
        /\ met' = met \cup (IF ZeroAgain(o, r) THEN {"zero"} ELSE {}) \cup (IF ok THEN {} ELSE {"closeFailed"})
        /\ UNCHANGED handler

\* connectOriginally: connect(2) on a blocking socket
connectOriginally(o) ==
    \E r \in IF fd[o] = INVALID THEN create(open, o) ELSE {[t |-> open, n |-> fd[o]]} :
        /\ r.n # INVALID /\ UNCHANGED <<handler, met>>
        /\ \/ r.t[r.n] # Free /\ r.t[r.n].state \in {"new", "bound"} /\ open' = [r.t EXCEPT ![r.n].state = "connected"] /\ fd' = [fd EXCEPT ![o] = r.n]
           \/ open' = Closed(r.t, r.n) /\ fd' = [fd EXCEPT ![o] = INVALID]

\* bind and listen on the object's socket, when the kernel lets them
bind(o) ==
    /\ fd[o] # INVALID /\ open[fd[o]].owner = o /\ open[fd[o]].state = "new" /\ open' = [open EXCEPT ![fd[o]].state = "bound"]
    /\ UNCHANGED <<fd, handler, met>>

listen(o) ==
    /\ fd[o] # INVALID /\ open[fd[o]].owner = o /\ open[fd[o]].state \in {"new", "bound"}
    /\ open' = [open EXCEPT ![fd[o]].state = "listening"] /\ UNCHANGED <<fd, handler, met>>

\* accept on o's listening socket gives s the new number, over the one it may have
accept(o, s) ==
    /\ o # s /\ fd[o] # INVALID /\ open[fd[o]].state = "listening" /\ FreeFds # {}
    /\ LET n == Lowest(FreeFds)
       IN open' = [open EXCEPT ![n] = [Desc(s) EXCEPT !.state = "connected"]] /\ fd' = [fd EXCEPT ![s] = n]
    /\ met' = met \cup (IF fd[s] = INVALID THEN {} ELSE {"acceptOver"})
    /\ UNCHANGED handler

\* read2 on an error and at the end of the file: the socket is closed
read2Fails(o, ok) == fd[o] # INVALID /\ close(o, ok) /\ UNCHANGED handler

\* readFull reads until it has all, or read fails or ends, which closes the socket
readFullFails(o, ok) == fd[o] # INVALID /\ close(o, ok) /\ UNCHANGED handler

\* writeFull of a datagram socket
sendtoFails(o, ok) == fd[o] # INVALID /\ close(o, ok) /\ UNCHANGED handler

\* writeFull of a stream also clears the member when close failed
writeFails(o, ok) ==
    /\ fd[o] # INVALID /\ open' = Closed(open, fd[o]) /\ fd' = [fd EXCEPT ![o] = INVALID] /\ UNCHANGED <<handler, met>>

WatchReadEvent(o) ==
    /\ handler[o] = INVALID /\ FreeFds # {}
    /\ LET n == Lowest(FreeFds) IN handler' = [handler EXCEPT ![o] = n] /\ open' = [open EXCEPT ![n] = Desc(o)]
    /\ UNCHANGED <<fd, met>>

\* epoll_ctl fails: the new descriptor is closed again
WatchFails(o) == handler[o] = INVALID /\ FreeFds # {} /\ UNCHANGED vars

WaitReadEvent(o, event, ok) ==
    /\ handler[o] # INVALID /\ fd[o] # INVALID
    /\ IF event \in ClosingEvents THEN close(o, ok) ELSE UNCHANGED <<open, fd, met>>
    /\ UNCHANGED handler

UnWatchEvent(o) ==
    /\ handler[o] # INVALID /\ open' = Closed(open, handler[o]) /\ handler' = [handler EXCEPT ![o] = INVALID]
    /\ UNCHANGED <<fd, met>>

closeCalled(o, ok) == close(o, ok) /\ UNCHANGED handler

(* The rest of the process *)
OtherOpens ==
    /\ FreeFds # {} /\ (\A n \in Fds : open[n].owner # "other")
    /\ open' = [open EXCEPT ![Lowest(FreeFds)] = Desc("other")] /\ UNCHANGED <<fd, handler, met>>

OtherCloses(n) == open[n].owner = "other" /\ open' = Closed(open, n) /\ UNCHANGED <<fd, handler, met>>

Step ==
    \/ \E o \in Objs :
        \/ connectOk(o) \/ connectRefused(o) \/ connectOriginally(o) \/ bind(o) \/ listen(o)
        \/ WatchReadEvent(o) \/ WatchFails(o) \/ UnWatchEvent(o)
        \/ \E s \in Objs : accept(o, s)
        \/ \E ok \in BOOLEAN : connectFails(o, ok) \/ read2Fails(o, ok) \/ readFullFails(o, ok) \/ sendtoFails(o, ok)
                              \/ writeFails(o, ok) \/ closeCalled(o, ok)
        \/ \E ok \in BOOLEAN, event \in {"in", "hup", "inhup", "other"} : WaitReadEvent(o, event, ok)
    \/ OtherOpens \/ \E n \in Fds : OtherCloses(n)

Next == Step /\ Cardinality(met') <= MaxIncidents

-----------------------------------------------------------------------------
\* Each object's descriptor is an open one of its own, so that neither its reads and writes nor its
\* next close (~Socket's included) reach somebody else's file, as long as close(2) has never failed:
\* then the member keeps a number that the kernel has given up (socket.cpp:156)
OwnsItsDescriptor ==
    "closeFailed" \notin met => \A o \in Objs : fd[o] # INVALID => open[fd[o]].owner = o /\ fd[o] # handler[o]

\* No descriptor of the class is left open without somebody who can close it, but for the first of
\* two that connectNonBock creates when it gets number 0 (line 338), and the one accept overwrites
NothingLeaked ==
    met \cap {"zero", "acceptOver", "closeFailed"} = {} =>
        \A n \in Fds : open[n].owner \in Objs => n \in {fd[open[n].owner], handler[open[n].owner]}

\* A connected socket blocks, so that a read without a timeout waits, unless an earlier connect on
\* it was refused at once and left it nonblocking (line 375)
ConnectedBlocks == "refused" \notin met => \A n \in Fds : ~open[n].nonblock
=============================================================================
