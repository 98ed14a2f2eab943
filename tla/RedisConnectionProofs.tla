------------------------ MODULE RedisConnectionProofs -----------------------
(***************************************************************************)
(* That a RedisConnection implements Rpc, for any number of commands: a    *)
(* command that returns true was executed once and got its own reply.      *)
(* ConnectionInv is the inductive invariant.  There is one lemma for each  *)
(* kind of step; steps that give up a socket share one.                    *)
(***************************************************************************)
EXTENDS RedisConnection, SequenceTheorems, TLAPS

\* The invariant holds when the connection was just made.
LEMMA InitInv == Init => ConnectionInv
<1> SUFFICES ASSUME Init PROVE ConnectionInv
    OBVIOUS
<1> USE MaxCmdAssumption DEF Init
<1>1. ChannelInv
    BY DEF ChannelInv, TypeOK, Channel, Empty, Socks, Cmds, NoSock, Raw
<1>2. SocketInv
    BY DEF SocketInv
<1>3. OnceInv
    BY DEF OnceInv, OnceOnly, Done, AtMostOnce, Empty
<1>4. ReplyInv
    BY DEF ReplyInv, CleanWhenIdle, Empty
<1>5. ResultInv
    BY DEF ResultInv, Cmds
<1> QED
    BY <1>1, <1>2, <1>3, <1>4, <1>5 DEF ConnectionInv

\* checkConnectionStatus finds nothing to read on a socket that is clean, so a command begins
\* with its socket as it was, or without one.
LEMMA BeginStep == ConnectionInv /\ Begin => ConnectionInv'
<1> SUFFICES ASSUME ConnectionInv, Begin PROVE ConnectionInv'
    OBVIOUS
<1> USE MaxCmdAssumption DEF ConnectionInv
<1>1. chan' = chan /\ UNCHANGED <<nsock, open, executed, result>>
    BY DEF Begin, ReplyInv, CleanWhenIdle
<1>2. /\ pc = "idle" /\ cur < MaxCmd /\ cur' = cur + 1 /\ fd' \in {fd, NoSock}
      /\ pc' \in {"connect", "send"}
    BY DEF Begin
<1>3. ChannelInv'
  <2>1. TypeOK'
    BY <1>1, <1>2 DEF ChannelInv, TypeOK
  <2> QED
    BY <1>1, <2>1 DEF ChannelInv
<1>4. SocketInv'
    BY <1>1, <1>2 DEF SocketInv, ChannelInv, TypeOK, NoSock, Raw, Socks
<1>5. OnceInv'
  <2> cur \in 0 .. MaxCmd
    BY DEF ChannelInv, TypeOK
  <2>1. \A s \in Socks : OnceOnly(s)'
    BY <1>1, <1>2 DEF OnceInv, OnceOnly, Done
  <2>2. (Done \subseteq 1 .. cur /\ AtMostOnce)'
    BY <1>1, <1>2 DEF OnceInv, Done, AtMostOnce
  <2>3. cur' \notin Done /\ \A s \in Socks : chan[s].up # <<>> => chan[s].up[1] # cur'
    BY <1>1, <1>2 DEF OnceInv, OnceOnly
  <2> QED
    BY <1>1, <2>1, <2>2, <2>3 DEF OnceInv, Done
<1>6. ReplyInv'
    BY <1>1, <1>2 DEF ReplyInv, CleanWhenIdle, Socks, NoSock
<1>7. ResultInv'
    BY <1>1, <1>2 DEF ResultInv, ChannelInv, TypeOK, Cmds
<1> QED
    BY <1>3, <1>4, <1>5, <1>6, <1>7

\* Whatever gives up the socket while a command runs keeps the invariant: what is under way on
\* that socket belongs to nobody any more.
LEMMA LeavesSocket ==
    ASSUME ConnectionInv, UNCHANGED <<cur, nsock, chan, open, executed>>,
           pc # "idle", fd' \in {NoSock, Raw},
           \/ pc' = "recv" /\ result' = result
           \/ pc' = "idle" /\ result' = [result EXCEPT ![cur] = "failed"]
    PROVE  ConnectionInv'
<1> USE MaxCmdAssumption DEF ConnectionInv
<1>1. cur \in Cmds /\ result \in [Cmds -> {"none", "failed", "ok", "wrong"}]
    BY DEF ChannelInv, TypeOK, SocketInv, Cmds
<1>2. ChannelInv'
  <2>1. TypeOK'
    BY <1>1 DEF ChannelInv, TypeOK
  <2> QED
    BY <2>1 DEF ChannelInv
<1>3. SocketInv'
    BY DEF SocketInv, ChannelInv, TypeOK, NoSock, Raw, Socks
<1>4. OnceInv'
    BY DEF OnceInv, OnceOnly, Done, AtMostOnce
<1>5. ReplyInv'
    BY DEF ReplyInv, CleanWhenIdle, Socks, NoSock, Raw
<1>6. ResultInv'
  <2>1. CASE pc' = "recv" /\ result' = result
    BY <2>1 DEF ResultInv
  <2>2. CASE pc' = "idle" /\ result' = [result EXCEPT ![cur] = "failed"]
    BY <1>1, <2>2 DEF ResultInv, Cmds
  <2> QED
    BY <2>1, <2>2
<1> QED
    BY <1>2, <1>3, <1>4, <1>5, <1>6

\* Failed connects, failed and partial writes, timeouts and ends of file give up the socket.
LEMMA LeavingSteps ==
    ConnectionInv /\ (ConnectFails \/ SendPart \/ SendFails \/ ReadTimeout \/ ReadEof) => ConnectionInv'
<1> SUFFICES ASSUME ConnectionInv, ConnectFails \/ SendPart \/ SendFails \/ ReadTimeout \/ ReadEof
             PROVE  ConnectionInv'
    OBVIOUS
<1> /\ pc # "idle" /\ fd' \in {NoSock, Raw} /\ UNCHANGED <<cur, nsock, chan, open, executed>>
    /\ \/ pc' = "recv" /\ result' = result
       \/ pc' = "idle" /\ result' = [result EXCEPT ![cur] = "failed"]
    BY DEF ConnectFails, SendPart, SendFails, ReadTimeout, ReadEof, Return
<1> QED
    BY LeavesSocket

\* A connect uses a socket that was never used.
LEMMA ConnectOkStep == ConnectionInv /\ ConnectOk => ConnectionInv'
<1> SUFFICES ASSUME ConnectionInv, ConnectOk PROVE ConnectionInv'
    OBVIOUS
<1> USE MaxCmdAssumption DEF ConnectionInv
<1>1. /\ pc = "connect" /\ nsock' = nsock + 1 /\ fd' = nsock + 1 /\ open' = open \cup {nsock + 1}
      /\ pc' = "send" /\ UNCHANGED <<cur, chan, executed, result>>
    BY DEF ConnectOk
<1>2. cur \in 0 .. MaxCmd /\ nsock \in Nat /\ nsock + 1 \in Socks /\ nsock <= cur
    BY <1>1 DEF ChannelInv, TypeOK, SocketInv, Socks
<1>3. ChannelInv'
  <2>1. TypeOK'
    BY <1>1, <1>2 DEF ChannelInv, TypeOK
  <2> QED
    BY <1>1, <2>1 DEF ChannelInv
<1>4. SocketInv'
    BY <1>1, <1>2 DEF SocketInv, Socks
<1>5. OnceInv'
    BY <1>1 DEF OnceInv, OnceOnly, Done, AtMostOnce
<1>6. ReplyInv'
    BY <1>1, <1>2 DEF ReplyInv, CleanWhenIdle, SocketInv, Empty
<1>7. ResultInv'
    BY <1>1 DEF ResultInv
<1> QED
    BY <1>3, <1>4, <1>5, <1>6, <1>7

\* What a change of the commands under way on a socket leaves alone.
LEMMA UpChanges ==
    ASSUME NEW ch \in Channel, NEW u \in Seq(Cmds)
    PROVE  LET new == [ch EXCEPT !.up = u]
           IN  new \in Channel /\ new.up = u /\ new.out = ch.out /\ new.down = ch.down
    BY DEF Channel

\* What a change of the pieces that have arrived leaves alone.
LEMMA DownChanges ==
    ASSUME NEW ch \in Channel, NEW d \in Seq(Pieces)
    PROVE  LET new == [ch EXCEPT !.down = d]
           IN  new \in Channel /\ new.up = ch.up /\ new.out = ch.out /\ new.down = d
    BY DEF Channel

\* What a change of the pieces that are on their way leaves alone.
LEMMA OutChanges ==
    ASSUME NEW ch \in Channel, NEW o \in Seq(Pieces)
    PROVE  LET new == [ch EXCEPT !.out = o]
           IN  new \in Channel /\ new.up = ch.up /\ new.out = o /\ new.down = ch.down
    BY DEF Channel

\* A change of one socket leaves the others alone.
LEMMA SocketChanges ==
    ASSUME ChannelInv, NEW s \in Socks, NEW ch \in Channel, chan' = [chan EXCEPT ![s] = ch]
    PROVE  chan' \in [Socks -> Channel] /\ chan'[s] = ch /\ \A t \in Socks \ {s} : chan'[t] = chan[t]
    BY DEF ChannelInv

\* A command is written to a socket that is clean, and was not written before.
LEMMA SendOkStep == ConnectionInv /\ SendOk => ConnectionInv'
<1> SUFFICES ASSUME ConnectionInv, SendOk PROVE ConnectionInv'
    OBVIOUS
<1> USE MaxCmdAssumption DEF ConnectionInv
<1> DEFINE ch == [chan[fd] EXCEPT !.up = Append(chan[fd].up, cur)]
<1>1. /\ pc = "send" /\ fd \in Socks /\ pc' = "recv" /\ UNCHANGED <<cur, fd, nsock, open, executed, result>>
      /\ chan' = [chan EXCEPT ![fd] = ch]
    BY DEF SendOk
<1>2. cur \in Cmds /\ chan[fd] \in Channel /\ fd <= nsock /\ nsock \in Nat
    BY <1>1 DEF ChannelInv, TypeOK, SocketInv, Cmds, Socks
<1>3. chan[fd].up = <<>> /\ chan[fd].out = <<>> /\ chan[fd].down = <<>>
    BY <1>1 DEF ReplyInv, CleanWhenIdle
<1>4. Append(chan[fd].up, cur) = <<cur>> /\ <<cur>> \in Seq(Cmds)
    BY <1>2, <1>3
<1>5. ch \in Channel /\ ch.up = <<cur>> /\ ch.out = <<>> /\ ch.down = <<>>
    BY <1>2, <1>3, <1>4, UpChanges
<1> HIDE DEF ch
<1>6. chan' \in [Socks -> Channel] /\ chan'[fd] = ch /\ \A t \in Socks \ {fd} : chan'[t] = chan[t]
    BY <1>1, <1>5, SocketChanges
<1>7. ChannelInv'
  <2>1. TypeOK'
    BY <1>1 DEF ChannelInv, TypeOK
  <2> QED
    BY <1>1, <1>6, <2>1 DEF ChannelInv
<1>8. SocketInv'
    BY <1>1, <1>2, <1>6 DEF SocketInv, Socks
<1>9. OnceInv'
  <2>1. ASSUME NEW s \in Socks PROVE OnceOnly(s)'
    <3>1. chan'[fd].up = <<cur>> /\ \A t \in Socks \ {fd} : chan'[t].up = chan[t].up
      BY <1>1, <1>5, <1>6
    <3>2. OnceOnly(s) /\ Done' = Done /\ cur' = cur
      BY <1>1 DEF OnceInv, Done
    <3>3. cur \in 1 .. cur \ Done /\ \A t \in Socks : chan[t].up # <<>> => chan[t].up[1] # cur
      BY <1>1, <1>2 DEF OnceInv, Cmds
    <3>4. <<cur>> # <<>> /\ Len(<<cur>>) = 1 /\ <<cur>>[1] = cur
      OBVIOUS
    <3>5. CASE s = fd
      BY <3>1, <3>2, <3>3, <3>4, <3>5 DEF OnceOnly
    <3>6. CASE s # fd
      BY <3>1, <3>2, <3>3, <3>4, <3>6 DEF OnceOnly
    <3> QED
      BY <3>5, <3>6
  <2> QED
    BY <1>1, <2>1 DEF OnceInv, Done, AtMostOnce
<1>10. ReplyInv'
    BY <1>1, <1>5, <1>6 DEF ReplyInv, CleanWhenIdle, OnlyCurrent
<1>11. ResultInv'
    BY <1>1 DEF ResultInv
<1> QED
    BY <1>7, <1>8, <1>9, <1>10, <1>11

\* Commands are still sent once when some that were under way are gone.
LEMMA UpsShrink ==
    ASSUME OnceInv, cur' = cur, executed' = executed, pc' \in {pc, "idle"},
           \A t \in Socks : chan'[t].up = chan[t].up \/ chan'[t].up = <<>>
    PROVE  OnceInv'
<1>1. Done' = Done
    BY DEF Done
<1>2. ASSUME NEW s \in Socks PROVE OnceOnly(s)'
    BY <1>1 DEF OnceInv, OnceOnly
<1> QED
    BY <1>1, <1>2 DEF OnceInv, AtMostOnce

\* A server that closes takes away commands and pieces, and adds none.
LEMMA ServerClosesStep ==
    ASSUME ConnectionInv, NEW s \in Socks, ServerCloses(s)
    PROVE  ConnectionInv'
<1> USE MaxCmdAssumption DEF ConnectionInv
<1> DEFINE noUp == [chan[s] EXCEPT !.up = <<>>]
           ch == [noUp EXCEPT !.out = <<>>]
<1>1. /\ s \in open /\ open' = open \ {s} /\ UNCHANGED <<pc, cur, fd, nsock, executed, result>>
      /\ chan' = [chan EXCEPT ![s] = ch]
    BY DEF ServerCloses, ChannelInv
<1>2. chan[s] \in Channel /\ s <= nsock
    BY <1>1 DEF ChannelInv, TypeOK, Socks
<1>3. noUp \in Channel /\ noUp.up = <<>> /\ noUp.out = chan[s].out /\ noUp.down = chan[s].down
  <2> <<>> \in Seq(Cmds)
    OBVIOUS
  <2> QED
    BY <1>2, UpChanges
<1> HIDE DEF noUp
<1>4. ch \in Channel /\ ch.up = <<>> /\ ch.out = <<>> /\ ch.down = chan[s].down
  <2> <<>> \in Seq(Pieces)
    OBVIOUS
  <2> QED
    BY <1>3, OutChanges
<1> HIDE DEF ch
<1>5. chan' \in [Socks -> Channel] /\ chan'[s] = ch /\ \A t \in Socks \ {s} : chan'[t] = chan[t]
    BY <1>1, <1>4, SocketChanges
<1>6. ChannelInv'
  <2>1. TypeOK'
    BY <1>1 DEF ChannelInv, TypeOK
  <2> QED
    BY <1>1, <1>5, <2>1 DEF ChannelInv
<1>7. SocketInv'
    BY <1>1, <1>2, <1>5 DEF SocketInv, ChannelInv, TypeOK, Socks
<1>8. OnceInv'
    BY <1>1, <1>4, <1>5, UpsShrink
<1>9. ReplyInv'
  <2>1. Done' = Done
    BY <1>1 DEF Done
  <2>2. CASE s = fd
    BY <1>1, <1>4, <1>5, <2>1, <2>2 DEF ReplyInv, CleanWhenIdle, OnlyCurrent
  <2>3. CASE s # fd
    BY <1>1, <1>5, <2>1, <2>3 DEF ReplyInv, CleanWhenIdle, OnlyCurrent
  <2> QED
    BY <2>2, <2>3
<1>10. ResultInv'
    BY <1>1 DEF ResultInv
<1> QED
    BY <1>6, <1>7, <1>8, <1>9, <1>10

\* The piece that ends a reply is the last to arrive.
LEMMA DeliverStep ==
    ASSUME ConnectionInv, NEW s \in Socks, Deliver(s)
    PROVE  ConnectionInv'
<1> USE MaxCmdAssumption DEF ConnectionInv
<1> DEFINE o == chan[s].out
           d == chan[s].down
           more == [chan[s] EXCEPT !.down = Append(d, Head(o))]
           ch == [more EXCEPT !.out = Tail(o)]
<1>1. UNCHANGED <<pc, cur, fd, nsock, open, executed, result>> /\ o # <<>>
    BY DEF Deliver
<1>2. chan[s] \in Channel /\ o \in Seq(Pieces) /\ d \in Seq(Pieces)
    BY DEF ChannelInv, Channel
<1>3. Append(d, Head(o)) \in Seq(Pieces) /\ Tail(o) \in Seq(Pieces)
    BY <1>1, <1>2
<1>4. more \in Channel /\ more.up = chan[s].up /\ more.out = o /\ more.down = Append(d, Head(o))
    BY <1>2, <1>3, DownChanges
<1>5. chan' = [chan EXCEPT ![s] = ch]
    BY <1>4 DEF Deliver, ChannelInv
<1> HIDE DEF more
<1>6. ch \in Channel /\ ch.up = chan[s].up /\ ch.out = Tail(o) /\ ch.down = Append(d, Head(o))
    BY <1>3, <1>4, OutChanges
<1> HIDE DEF ch
<1>7. chan' \in [Socks -> Channel] /\ chan'[s] = ch /\ \A t \in Socks \ {s} : chan'[t] = chan[t]
    BY <1>5, <1>6, SocketChanges
<1>8. ChannelInv'
  <2>1. TypeOK'
    BY <1>1 DEF ChannelInv, TypeOK
  <2> QED
    BY <1>1, <1>7, <2>1 DEF ChannelInv
<1>9. SocketInv'
  <2>1. s <= nsock
    BY <1>1 DEF SocketInv, ChannelInv, TypeOK, Socks, Empty
  <2> QED
    BY <1>1, <1>7, <2>1 DEF SocketInv, ChannelInv, TypeOK, Socks
<1>10. OnceInv'
    BY <1>1, <1>6, <1>7, UpsShrink
<1>11. ReplyInv'
  <2>1. Done' = Done
    BY <1>1 DEF Done
  <2>2. CASE s = fd
    <3>1. pc \notin {"idle", "send"}
      BY <1>1, <2>2 DEF ReplyInv, CleanWhenIdle
    <3>2. ASSUME pc = "recv" PROVE OnlyCurrent(chan[fd])'
      <4>1. OnlyCurrent(chan[s])
        BY <2>2, <3>2 DEF ReplyInv
      <4>2. chan[s].up = <<>> /\ cur \in Done
        BY <1>1, <4>1 DEF OnlyCurrent
      <4>3. chan'[fd'].up = <<>> /\ chan'[fd'].out = Tail(o) /\ chan'[fd'].down = Append(d, Head(o))
        BY <1>1, <1>6, <1>7, <2>2, <4>2
      <4>4. /\ \A i \in DOMAIN o : o[i].cmd = cur /\ (o[i].last => i = Len(o))
            /\ \A i \in DOMAIN d : d[i].cmd = cur /\ ~d[i].last
        BY <1>1, <4>1 DEF OnlyCurrent
      <4> HIDE DEF o, d
      <4>5. \A i \in DOMAIN Tail(o) : Tail(o)[i].cmd = cur /\ (Tail(o)[i].last => i = Len(Tail(o)))
        BY <1>1, <1>2, <4>4
      <4>6. \A i \in DOMAIN Append(d, Head(o)) :
               /\ Append(d, Head(o))[i].cmd = cur
               /\ Append(d, Head(o))[i].last => i = Len(Append(d, Head(o))) /\ Tail(o) = <<>>
        BY <1>1, <1>2, <4>4
      <4> QED
        BY <1>1, <2>1, <4>2, <4>3, <4>5, <4>6 DEF OnlyCurrent
    <3> QED
      BY <1>1, <1>7, <2>2, <3>1, <3>2 DEF ReplyInv, CleanWhenIdle
  <2>3. CASE s # fd
    BY <1>1, <1>7, <2>1, <2>3 DEF ReplyInv, CleanWhenIdle, OnlyCurrent
  <2> QED
    BY <2>2, <2>3
<1>12. ResultInv'
    BY <1>1 DEF ResultInv
<1> QED
    BY <1>8, <1>9, <1>10, <1>11, <1>12

\* A sequence of one element.
LEMMA SingleSeq ==
    ASSUME NEW S, NEW q \in Seq(S), Len(q) = 1
    PROVE  Head(q) = q[1] /\ q[1] \in S /\ Tail(q) = <<>>
<1>1. Head(q) = q[1] /\ q[1] \in S
    OBVIOUS
<1>2. Tail(q) \in Seq(S) /\ Len(Tail(q)) = 0
    OBVIOUS
<1> QED
    BY <1>1, <1>2, EmptySeq

\* Two elements put behind a sequence.
LEMMA PairSeq ==
    ASSUME NEW S, NEW q \in Seq(S), NEW a \in S, NEW b \in S
    PROVE  q \o <<a, b>> \in Seq(S)
<1>1. <<a, b>> \in Seq(S)
    OBVIOUS
<1> QED
    BY <1>1

\* The server executes a command that was issued and not executed before.
LEMMA ExecuteEffect ==
    ASSUME ConnectionInv, NEW s \in Socks, Execute(s), NEW c, c = Head(chan[s].up)
    PROVE  /\ chan[s].up[1] = c /\ c \in Cmds /\ c \in 1 .. cur \ Done /\ Tail(chan[s].up) = <<>>
           /\ \A t \in Socks \ {s} : chan[t].up # <<>> => chan[t].up[1] # c
           /\ executed' \in Seq(Cmds) /\ Done' = Done \cup {c}
<1> USE DEF ConnectionInv
<1>1. executed' = Append(executed, c) /\ chan[s].up # <<>>
    BY DEF Execute
<1>2. chan[s].up \in Seq(Cmds) /\ executed \in Seq(Cmds)
    BY DEF ChannelInv, Channel
<1>3. OnceOnly(s)
    BY DEF OnceInv
<1>4. Len(chan[s].up) = 1
    BY <1>1, <1>3 DEF OnceOnly
<1>5. chan[s].up[1] = c /\ c \in Cmds /\ Tail(chan[s].up) = <<>>
    BY <1>2, <1>4, SingleSeq
<1>6. executed' \in Seq(Cmds) /\ Len(executed') = Len(executed) + 1 /\ executed'[Len(executed) + 1] = c
    BY <1>1, <1>2, <1>5
<1>7. \A i \in 1 .. Len(executed) : executed'[i] = executed[i]
    BY <1>1, <1>2, <1>5
<1>8. DOMAIN executed = 1 .. Len(executed) /\ DOMAIN executed' = 1 .. Len(executed) + 1
    BY <1>2, <1>6
<1>9. Done' = Done \cup {c}
    BY <1>2, <1>6, <1>7, <1>8 DEF Done
<1> QED
    BY <1>1, <1>3, <1>5, <1>6, <1>9 DEF OnceOnly

\* A command's reply has its own number, and ends with its last piece.
LEMMA ExecuteStep ==
    ASSUME ConnectionInv, NEW s \in Socks, Execute(s)
    PROVE  ConnectionInv'
<1> USE MaxCmdAssumption DEF ConnectionInv
<1> DEFINE c == Head(chan[s].up)
           both == <<Piece(c, FALSE), Piece(c, TRUE)>>
           noUp == [chan[s] EXCEPT !.up = Tail(chan[s].up)]
           ch == [noUp EXCEPT !.out = chan[s].out \o both]
<1>1. /\ UNCHANGED <<pc, cur, fd, nsock, open, result>> /\ executed' = Append(executed, c)
      /\ s \in open /\ chan[s].up # <<>>
    BY DEF Execute
<1>2. /\ chan[s] \in Channel /\ chan[s].up \in Seq(Cmds) /\ chan[s].out \in Seq(Pieces)
      /\ executed \in Seq(Cmds) /\ s <= nsock
    BY <1>1 DEF ChannelInv, TypeOK, Channel, Socks
<1>3. executed' \in Seq(Cmds) /\ Done' = Done \cup {c}
    BY ExecuteEffect
<1>4. /\ chan[s].up[1] = c /\ c \in Cmds /\ c \in 1 .. cur \ Done /\ Tail(chan[s].up) = <<>>
      /\ \A t \in Socks \ {s} : chan[t].up # <<>> => chan[t].up[1] # c
    BY ExecuteEffect
<1>5. Tail(chan[s].up) \in Seq(Cmds) /\ chan[s].out \o both \in Seq(Pieces)
  <2>1. Piece(c, FALSE) \in Pieces /\ Piece(c, TRUE) \in Pieces
    BY <1>4 DEF Piece, Pieces
  <2>2. chan[s].out \o both \in Seq(Pieces)
    BY <1>2, <2>1, PairSeq
  <2>3. <<>> \in Seq(Cmds)
    OBVIOUS
  <2> QED
    BY <1>4, <2>2, <2>3
<1>6. noUp \in Channel /\ noUp.up = <<>> /\ noUp.out = chan[s].out /\ noUp.down = chan[s].down
    BY <1>2, <1>4, <1>5, UpChanges
<1>7. chan' = [chan EXCEPT ![s] = ch]
    BY <1>6 DEF Execute, ChannelInv
<1> HIDE DEF noUp, both
<1>8. ch \in Channel /\ ch.up = <<>> /\ ch.out = chan[s].out \o both /\ ch.down = chan[s].down
    BY <1>5, <1>6, OutChanges
<1> HIDE DEF ch
<1>9. chan' \in [Socks -> Channel] /\ chan'[s] = ch /\ \A t \in Socks \ {s} : chan'[t] = chan[t]
    BY <1>7, <1>8, SocketChanges
<1> HIDE DEF c
<1>10. ChannelInv'
  <2>1. TypeOK'
    BY <1>1 DEF ChannelInv, TypeOK
  <2> QED
    BY <1>3, <1>9, <2>1 DEF ChannelInv
<1>11. SocketInv'
    BY <1>1, <1>2, <1>9 DEF SocketInv, ChannelInv, TypeOK, Socks
<1>12. OnceInv'
  <2>1. ASSUME NEW t \in Socks PROVE OnceOnly(t)'
    <3>1. CASE t = s
      BY <1>8, <1>9, <3>1 DEF OnceOnly
    <3>2. CASE t # s
      <4>1. OnceOnly(t)
        BY DEF OnceInv
      <4>2. chan'[t].up = chan[t].up /\ chan'[s].up = <<>>
        BY <1>8, <1>9, <3>2
      <4>3. \A r \in Socks \ {s} : chan'[r].up = chan[r].up
        BY <1>9
      <4> QED
        BY <1>1, <1>3, <1>4, <3>2, <4>1, <4>2, <4>3 DEF OnceOnly
    <3> QED
      BY <3>1, <3>2
  <2>2. AtMostOnce'
    BY <1>1, <1>2, <1>4 DEF OnceInv, AtMostOnce, Done
  <2>3. (Done \subseteq 1 .. cur)'
    BY <1>1, <1>3, <1>4 DEF OnceInv
  <2>4. ASSUME pc' \in {"connect", "send"}
        PROVE  cur' \notin Done' /\ \A t \in Socks : chan'[t].up # <<>> => chan'[t].up[1] # cur'
    BY <1>1, <1>3, <1>4, <1>8, <1>9, <2>4 DEF OnceInv
  <2> QED
    BY <2>1, <2>2, <2>3, <2>4 DEF OnceInv
<1>13. ReplyInv'
  <2>1. CASE s = fd
    <3>1. pc \notin {"idle", "send"}
      BY <1>1, <2>1 DEF ReplyInv, CleanWhenIdle
    <3>2. ASSUME pc = "recv" PROVE OnlyCurrent(chan[fd])'
      <4>1. OnlyCurrent(chan[s])
        BY <2>1, <3>2 DEF ReplyInv
      <4>2. c = cur /\ chan[s].out = <<>> /\ chan[s].down = <<>>
        BY <1>1, <1>4, <4>1 DEF OnlyCurrent
      <4>3. <<>> \o both = both
        BY DEF both
      <4>4. chan'[fd'].up = <<>> /\ chan'[fd'].out = both /\ chan'[fd'].down = <<>>
        BY <1>1, <1>8, <1>9, <2>1, <4>2, <4>3
      <4>5. \A i \in DOMAIN both : both[i].cmd = cur /\ (both[i].last => i = Len(both))
        BY <4>2 DEF both, Piece
      <4> QED
        BY <1>1, <1>3, <4>2, <4>4, <4>5 DEF OnlyCurrent
    <3> QED
      BY <1>1, <1>9, <2>1, <3>1, <3>2 DEF ReplyInv, CleanWhenIdle
  <2>2. CASE s # fd
    BY <1>1, <1>3, <1>9, <2>2 DEF ReplyInv, CleanWhenIdle, OnlyCurrent
  <2> QED
    BY <2>1, <2>2
<1>14. ResultInv'
    BY <1>1 DEF ResultInv
<1> QED
    BY <1>10, <1>11, <1>12, <1>13, <1>14

\* What a read takes and what it leaves.
LEMMA ReadParts ==
    ASSUME NEW S, NEW q \in Seq(S), NEW n \in 1 .. Len(q)
    PROVE  /\ SubSeq(q, 1, n) \in Seq(S) /\ Len(SubSeq(q, 1, n)) = n
           /\ \A i \in 1 .. n : SubSeq(q, 1, n)[i] = q[i]
           /\ SubSeq(q, n + 1, Len(q)) \in Seq(S) /\ Len(SubSeq(q, n + 1, Len(q))) = Len(q) - n
           /\ \A i \in 1 .. Len(q) - n : SubSeq(q, n + 1, Len(q))[i] = q[n + i]
           /\ n = Len(q) => SubSeq(q, n + 1, Len(q)) = <<>>
<1>1. /\ SubSeq(q, 1, n) \in Seq(S) /\ Len(SubSeq(q, 1, n)) = n
      /\ \A i \in 1 .. n : SubSeq(q, 1, n)[i] = q[i]
    OBVIOUS
<1>2. SubSeq(q, n + 1, Len(q)) \in Seq(S) /\ Len(SubSeq(q, n + 1, Len(q))) = Len(q) - n
    BY SubSeqProperties
<1>3. \A i \in 1 .. Len(q) - n : SubSeq(q, n + 1, Len(q))[i] = q[n + i]
    OBVIOUS
<1> QED
    BY <1>1, <1>2, <1>3, EmptySeq

\* A read that completes a reply takes all that is under way, and it is the reply to the command
\* that runs.
LEMMA ReadStep ==
    ASSUME ConnectionInv, NEW n \in 1 .. 2, Read(n)
    PROVE  ConnectionInv'
<1> USE MaxCmdAssumption DEF ConnectionInv
<1> DEFINE d == chan[fd].down
           got == SubSeq(d, 1, n)
           rest == SubSeq(d, n + 1, Len(d))
           ch == [chan[fd] EXCEPT !.down = rest]
           whole == \E i \in 1 .. n : got[i].last
<1>1. /\ pc = "recv" /\ fd \in Socks /\ n <= Len(d)
      /\ UNCHANGED <<cur, fd, nsock, open, executed>> /\ chan' = [chan EXCEPT ![fd] = ch]
      /\ IF whole THEN Return(IF got[FirstLast(got)].cmd = cur THEN "ok" ELSE "wrong")
                  ELSE UNCHANGED <<pc, result>>
    BY DEF Read
<1>2. /\ chan[fd] \in Channel /\ d \in Seq(Pieces) /\ fd <= nsock /\ nsock \in Nat /\ cur \in Cmds
      /\ result \in [Cmds -> {"none", "failed", "ok", "wrong"}]
  <2>1. chan[fd] \in Channel
    BY <1>1 DEF ChannelInv
  <2>2. d \in Seq(Pieces)
    BY <2>1 DEF Channel
  <2> QED
    BY <1>1, <2>1, <2>2 DEF ChannelInv, TypeOK, Socks, SocketInv, Cmds
<1>3. OnlyCurrent(chan[fd])
    BY <1>1 DEF ReplyInv
<1>4. n \in 1 .. Len(d) /\ d # <<>>
    BY <1>1, <1>2
<1>5. chan[fd].up = <<>> /\ cur \in Done
    BY <1>3, <1>4 DEF OnlyCurrent
<1>6. \A i \in 1 .. Len(d) : d[i].cmd = cur /\ (d[i].last => i = Len(d) /\ chan[fd].out = <<>>)
    BY <1>2, <1>3 DEF OnlyCurrent
<1>7. /\ got \in Seq(Pieces) /\ Len(got) = n /\ \A i \in 1 .. n : got[i] = d[i]
      /\ rest \in Seq(Pieces) /\ Len(rest) = Len(d) - n
      /\ \A i \in 1 .. Len(d) - n : rest[i] = d[n + i]
      /\ n = Len(d) => rest = <<>>
  <2> HIDE DEF d
  <2> QED
    BY <1>2, <1>4, ReadParts
<1>8. ch \in Channel /\ ch.up = <<>> /\ ch.out = chan[fd].out /\ ch.down = rest
    BY <1>2, <1>5, <1>7, DownChanges
<1> HIDE DEF ch, got, rest, d
<1>9. chan' \in [Socks -> Channel] /\ chan'[fd] = ch /\ \A t \in Socks \ {fd} : chan'[t] = chan[t]
    BY <1>1, <1>8, SocketChanges
<1>10. ASSUME whole PROVE n = Len(d) /\ chan[fd].out = <<>> /\ got[FirstLast(got)].cmd = cur
  <2>1. PICK i \in 1 .. n : got[i].last
    BY <1>10
  <2>2. i = Len(d) /\ i = n /\ chan[fd].out = <<>>
    BY <1>2, <1>4, <1>6, <1>7, <2>1
  <2>3. \A j \in 1 .. i - 1 : ~got[j].last
    BY <1>2, <1>4, <1>6, <1>7, <2>2
  <2>4. \E k \in 1 .. Len(got) : got[k].last /\ \A j \in 1 .. k - 1 : ~got[j].last
    BY <1>7, <2>1, <2>2, <2>3
  <2>5. FirstLast(got) \in 1 .. n
    BY <1>7, <2>4 DEF FirstLast
  <2> QED
    BY <1>4, <1>6, <1>7, <2>2, <2>5
<1>11. \/ whole /\ pc' = "idle" /\ result' = [result EXCEPT ![cur] = "ok"]
       \/ ~whole /\ pc' = pc /\ result' = result
    BY <1>1, <1>10 DEF Return
<1> HIDE DEF whole
<1>12. ChannelInv'
  <2>1. TypeOK'
    BY <1>1, <1>2, <1>11 DEF ChannelInv, TypeOK
  <2> QED
    BY <1>1, <1>9, <2>1 DEF ChannelInv
<1>13. SocketInv'
    BY <1>1, <1>2, <1>9, <1>11 DEF SocketInv, Socks
<1>14. OnceInv'
    BY <1>1, <1>8, <1>9, <1>11, UpsShrink
<1>15. ReplyInv'
  <2>1. CASE whole
    BY <1>1, <1>7, <1>8, <1>9, <1>10, <1>11, <2>1 DEF ReplyInv, CleanWhenIdle
  <2>2. CASE ~whole
    <3>1. chan'[fd'].up = <<>> /\ chan'[fd'].out = chan[fd].out /\ chan'[fd'].down = rest /\ Done' = Done
      BY <1>1, <1>8, <1>9 DEF Done
    <3>2. \A i \in DOMAIN rest : rest[i].cmd = cur /\ (rest[i].last => i = Len(rest) /\ chan[fd].out = <<>>)
      BY <1>2, <1>4, <1>6, <1>7
    <3>3. OnlyCurrent(chan[fd])'
      BY <1>1, <1>3, <1>5, <3>1, <3>2 DEF OnlyCurrent
    <3> QED
      BY <1>1, <1>11, <2>2, <3>3 DEF ReplyInv, CleanWhenIdle
  <2> QED
    BY <2>1, <2>2
<1>16. ResultInv'
  <2>1. CASE pc' = "idle" /\ result' = [result EXCEPT ![cur] = "ok"]
    BY <1>1, <1>2, <2>1 DEF ResultInv, Cmds
  <2>2. CASE pc' = pc /\ result' = result
    BY <1>1, <2>2 DEF ResultInv
  <2> QED
    BY <1>11, <2>1, <2>2
<1> QED
    BY <1>12, <1>13, <1>14, <1>15, <1>16

\* Every step keeps the invariant.
LEMMA InvStep == ConnectionInv /\ [Next]_vars => ConnectionInv'
<1> SUFFICES ASSUME ConnectionInv, [Next]_vars PROVE ConnectionInv'
    OBVIOUS
<1>1. CASE Begin
    BY <1>1, BeginStep
<1>2. CASE ConnectOk
    BY <1>2, ConnectOkStep
<1>3. CASE ConnectFails \/ SendPart \/ SendFails \/ ReadTimeout \/ ReadEof
    BY <1>3, LeavingSteps
<1>4. CASE SendOk
    BY <1>4, SendOkStep
<1>5. ASSUME NEW n \in 1 .. 2, Read(n) PROVE ConnectionInv'
    BY <1>5, ReadStep
<1>6. ASSUME NEW s \in Socks, Execute(s) PROVE ConnectionInv'
    BY <1>6, ExecuteStep
<1>7. ASSUME NEW s \in Socks, Deliver(s) PROVE ConnectionInv'
    BY <1>7, DeliverStep
<1>8. ASSUME NEW s \in Socks, ServerCloses(s) PROVE ConnectionInv'
    BY <1>8, ServerClosesStep
<1>9. CASE UNCHANGED vars
    BY <1>9 DEF vars, ConnectionInv, ChannelInv, TypeOK, SocketInv, OnceInv, OnceOnly, Done, AtMostOnce,
                ReplyInv, CleanWhenIdle, OnlyCurrent, ResultInv
<1> QED
    BY <1>1, <1>2, <1>3, <1>4, <1>5, <1>6, <1>7, <1>8, <1>9 DEF Next, Client

\* ConnectionInv is an invariant of the connection, its reconnects, its timeouts and the server.
THEOREM Safety == Spec => []ConnectionInv
    BY InitInv, InvStep, PTL DEF Spec

\* Between commands nothing is under way on the socket of the connection (what the close in the
\* timeout path of Socket::read is for), and no command is executed twice.
THEOREM Consequences == Spec => [](TypeOK /\ CleanWhenIdle /\ AtMostOnce)
<1>1. ConnectionInv => TypeOK /\ CleanWhenIdle /\ AtMostOnce
    BY DEF ConnectionInv, ChannelInv, ReplyInv, OnceInv
<1> QED
    BY <1>1, Safety, PTL

\* Every step of the connection is a step of Rpc or leaves its variables alone.
LEMMA RpcStep == ConnectionInv /\ ConnectionInv' /\ [Next]_vars => [rpc!Next]_rpc!vars
<1> SUFFICES ASSUME ConnectionInv, ConnectionInv', [Next]_vars PROVE rpc!Next \/ UNCHANGED rpc!vars
    BY DEF rpc!vars
<1> USE MaxCmdAssumption DEF ConnectionInv
<1>0. Done = {executed[i] : i \in DOMAIN executed} /\ (executed' = executed => Done' = Done)
    BY DEF Done
<1>1. CASE Begin
  <2>1. cur < MaxCmd /\ (cur > 0 => result[cur] # "none") /\ cur' = cur + 1 /\ UNCHANGED <<executed, result>>
    BY <1>1 DEF Begin, ResultInv
  <2>2. rpc!Call
    BY <2>1 DEF rpc!Call, rpc!Returned
  <2> QED
    BY <2>2 DEF rpc!Next
<1>2. CASE ConnectFails \/ SendFails \/ ReadTimeout
  <2>1. /\ cur > 0 /\ result[cur] = "none" /\ UNCHANGED <<cur, executed>>
        /\ result' = [result EXCEPT ![cur] = "failed"]
    BY <1>2 DEF ConnectFails, SendFails, ReadTimeout, Return, SocketInv, ResultInv
  <2>2. rpc!Fail
    BY <2>1 DEF rpc!Fail, rpc!Returned
  <2> QED
    BY <2>2 DEF rpc!Next
<1>3. ASSUME NEW n \in 1 .. 2, Read(n) PROVE rpc!Next \/ UNCHANGED rpc!vars
  <2>1. CASE UNCHANGED result
    BY <1>3, <2>1 DEF Read, rpc!vars
  <2>2. CASE ~UNCHANGED result
    <3>1. /\ UNCHANGED <<cur, executed>> /\ pc = "recv" /\ fd \in Socks /\ chan[fd].down # <<>>
          /\ \E r \in {"ok", "wrong"} : result' = [result EXCEPT ![cur] = r]
      BY <1>3, <2>2 DEF Read, Return
    <3>2. cur \in Cmds /\ result \in [Cmds -> {"none", "failed", "ok", "wrong"}]
      BY <3>1 DEF ChannelInv, TypeOK, SocketInv, Cmds
    <3>3. result' = [result EXCEPT ![cur] = "ok"]
      BY <3>1, <3>2 DEF ResultInv
    <3>4. cur \in Done /\ result[cur] = "none"
      BY <3>1, <3>2 DEF ReplyInv, OnlyCurrent, ResultInv, Cmds
    <3>5. rpc!Succeed
      BY <1>0, <3>1, <3>3, <3>4 DEF rpc!Succeed, rpc!Returned
    <3> QED
      BY <3>5 DEF rpc!Next
  <2> QED
    BY <2>1, <2>2
<1>4. ASSUME NEW s \in Socks, Execute(s) PROVE rpc!Next
  <2> DEFINE c == Head(chan[s].up)
  <2>1. c \in Cmds /\ c \in 1 .. cur /\ c \notin Done /\ Done' = Done \cup {c}
    BY <1>4, ExecuteEffect
  <2>2. UNCHANGED <<cur, result>>
    BY <1>4 DEF Execute
  <2> HIDE DEF c
  <2>3. \E e \in 1 .. MaxCmd : rpc!Execute(e)
    BY <2>1, <2>2 DEF rpc!Execute, Done, Cmds
  <2> QED
    BY <2>3 DEF rpc!Next
<1>5. CASE ConnectOk \/ SendOk \/ SendPart \/ ReadEof
    BY <1>5 DEF ConnectOk, SendOk, SendPart, ReadEof, rpc!vars
<1>6. ASSUME NEW s \in Socks, Deliver(s) \/ ServerCloses(s) PROVE UNCHANGED rpc!vars
    BY <1>6 DEF Deliver, ServerCloses, rpc!vars
<1>7. CASE UNCHANGED vars
    BY <1>7 DEF vars, rpc!vars
<1> QED
    BY <1>1, <1>2, <1>3, <1>4, <1>5, <1>6, <1>7 DEF Next, Client

\* doRedisCommand implements Rpc: commands are issued one after the other, true means executed
\* once and answered by its own reply, and false means executed at most once, now or later.
THEOREM Implements == Spec => ImplementsRpc
<1>1. Init => rpc!Init
    BY DEF Init, rpc!Init, Cmds
<1> QED
    BY <1>1, RpcStep, Safety, PTL DEF Spec, ImplementsRpc, rpc!Spec
=============================================================================
