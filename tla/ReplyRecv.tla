----------------------------- MODULE ReplyRecv ------------------------------
(***************************************************************************)
(* How RedisConnection of gb/downdatarestorer_norah/redisconnection.cpp    *)
(* reads a reply: the loop of recv and recvWithParseEnhance, and the three *)
(* parsers it calls, parse, parseScanReply and parseEnhance. One reply is  *)
(* on its way; the kernel may cut it anywhere. A byte is a one-character   *)
(* string, CR and LF included.                                             *)
(***************************************************************************)
EXTENDS Integers, Sequences, FiniteSetsExt, SequencesExt

-----------------------------------------------------------------------------
(***************************************************************************)
(* RedisConnection::recv and recvWithParseEnhance: the loop that reads     *)
(* what the socket has, appends it to the bytes the parser left over, and  *)
(* calls the parser until m_valid.                                         *)
(***************************************************************************)

VARIABLES wire,         \* bytes of the reply that arrive and were not read yet
          setup,        \* what is fixed beforehand: see below
          unparse,      \* m_unparseBuf
          buf, pos,     \* toParseBuf, and where parseBuf points into it
          mallocLen,    \* size of the memory behind toParseBuf
          valid,        \* m_valid
          pc            \* "read", "parse", "done" or "failed"

recvVars == <<wire, setup, unparse, buf, pos, mallocLen, valid, pc>>

BuffSize == setup.size          \* REDIS_READ_BUFF_SIZE
Whole    == setup.whole         \* a read returns all that fits, or else any part of it
complete == setup.complete      \* the whole reply arrives

\* The server may fail while it answers: what arrives is any first part of the reply
RecvInit(bytes, size, whole) ==
    /\ \E k \in 0 .. Len(bytes) :
          wire = SubSeq(bytes, 1, k) /\ setup = [size |-> size, whole |-> whole, complete |-> k = Len(bytes)]
    /\ unparse = <<>> /\ buf = <<>> /\ pos = 1
    /\ mallocLen = size /\ valid = FALSE /\ pc = "read"

\* m_socket.read returns n > 0 bytes; the buffer doubles when they do not fit
Read(n) ==
    /\ pc = "read" /\ n \in 1 .. BuffSize - 1 /\ n <= Len(wire)
    /\ Whole => n \in {Len(wire), BuffSize - 1}
    /\ wire' = SubSeq(wire, n + 1, Len(wire))
    /\ buf' = unparse \o SubSeq(wire, 1, n) /\ pos' = 1
    /\ mallocLen' = IF unparse # <<>> /\ Len(unparse) + n >= mallocLen
                    THEN 2 * mallocLen ELSE mallocLen
    /\ unparse' = <<>> /\ pc' = "parse" /\ UNCHANGED <<setup, valid>>

\* Nothing is left to come: the read times out and recv returns false
ReadTimeout ==
    /\ pc = "read" /\ wire = <<>>
    /\ pc' = "failed"
    /\ UNCHANGED <<wire, setup, unparse, buf, pos, mallocLen, valid>>

-----------------------------------------------------------------------------
(* What the parsers use.                                                   *)

\* The parser's loop looks at the byte parseBuf points to
Parsing == pc = "parse" /\ pos <= Len(buf)
Byte == buf[pos]

\* strstr(parseBuf, "\r\n") from offset i: its place, or 0
CRLF(i) == LET at == {j \in i .. Len(buf) - 1 : buf[j] = "CR" /\ buf[j + 1] = "LF"}
           IN  IF at = {} THEN 0 ELSE Min(at)

\* The bytes from offset i to the line end at p
Line(i, p) == SubSeq(buf, i, p - 1)

Digits == [d \in {"0", "1", "2", "3"} |-> CASE d = "0" -> 0 [] d = "1" -> 1 [] d = "2" -> 2 [] d = "3" -> 3]

\* atoi: an optional sign, then digits up to the first byte that is none
atoi(s) ==
    LET signed == s # <<>> /\ s[1] \in {"-", "+"}
        t == IF signed THEN Tail(s) ELSE s
        n == Max({k \in 0 .. Len(t) : \A i \in 1 .. k : t[i] \in DOMAIN Digits})
        value == FoldLeft(LAMBDA acc, d : 10 * acc + Digits[d], 0, SubSeq(t, 1, n))
    IN  IF signed /\ s[1] = "-" THEN -value ELSE value

\* The parser goes on behind offset p - 1
GoOn(p) == pos' = p /\ UNCHANGED <<wire, setup, unparse, buf, mallocLen, pc>>

\* check_buf: the rest from offset p is kept for the next read unless the reply is complete;
\* recv then reads again or returns m_valid
Leave(p) ==
    /\ unparse' = IF valid' THEN <<>> ELSE SubSeq(buf, p, Len(buf))
    /\ pc' = IF valid' THEN "done" ELSE "read"
    /\ pos' = p /\ UNCHANGED <<wire, setup, buf, mallocLen>>

\* A return that skips check_buf
ReturnAtOnce ==
    /\ pc' = IF valid' THEN "done" ELSE "read"
    /\ UNCHANGED <<wire, setup, unparse, buf, pos, mallocLen>>

-----------------------------------------------------------------------------
\* memcpy into toParseBuf stays inside it and leaves the terminating zero that strstr
\* needs, however the reply is cut and however much the parser leaves over.
BufferHolds == Len(buf) < mallocLen

\* A reply that arrives completely is recognised: recv does not run into the read
\* timeout, and so the caller does not take an executed command for a failed one.
NoTimeout == pc = "failed" => ~complete

\* A finished command has read its whole reply, and leaves no byte of it in the socket
\* for the next command.
NothingLeft == pc = "done" => complete /\ wire = <<>>

-----------------------------------------------------------------------------
(***************************************************************************)
(* RedisConnection::parse, the parser of all replies but SCAN's: a state   *)
(* machine over the buffer, one action per state and iteration, called     *)
(* again with the bytes it left over when a reply arrives in pieces.       *)
(***************************************************************************)

VARIABLES reply,        \* the reply on its way
          parseState, arrayNum, doneNum, arrayLen,
          haveArray,    \* a local variable of parse
          info          \* RedisReplyInfo

parseVars == <<parseState, arrayNum, doneNum, arrayLen, haveArray, info>>

NilElem == [nil |-> TRUE, val |-> <<>>]
Elem(s) == [nil |-> FALSE, val |-> s]

(* What a Redis server sends for a reply.  An element of an array is a     *)
(* bulk string or a line: a status, an error or an integer.                *)
Eol == <<"CR", "LF">>
Digit(n) == IF n = -1 THEN <<"-", "1">> ELSE <<CHOOSE d \in DOMAIN Digits : Digits[d] = n>>
Bulk(e) == IF e.nil THEN <<"$", "-", "1">> \o Eol
           ELSE <<"$">> \o Digit(Len(e.val)) \o Eol \o e.val \o Eol
IsLine(e) == ~e.nil /\ e.val # <<>> /\ e.val[1] \in {"+", "-", ":"}
Encode(r) ==
    CASE r.type = "status"  -> <<"+">> \o r.text \o Eol
      [] r.type = "error"   -> <<"-">> \o r.text \o Eol
      [] r.type = "integer" -> <<":">> \o Digit(r.num) \o Eol
      [] r.type = "string"  -> Bulk(r.elems[1])
      [] r.type = "array"   ->
            <<"*">> \o Digit(r.num) \o Eol
              \o FlattenSeq([i \in 1 .. Len(r.elems) |->
                    IF IsLine(r.elems[i]) THEN r.elems[i].val \o Eol ELSE Bulk(r.elems[i])])

NoInfo == [type |-> "none", text |-> <<>>, num |-> 0, elems |-> <<>>]

ParseInit(r, size, whole) ==
    /\ reply = r /\ RecvInit(Encode(r), size, whole)
    /\ parseState = "TYPE" /\ arrayNum = 0 /\ doneNum = 0 /\ arrayLen = 0
    /\ haveArray = FALSE /\ info = NoInfo

\* recv reads and calls parse, whose haveArray starts false
ParseRead ==
    /\ \E n \in 1 .. BuffSize : Read(n)
    /\ haveArray' = FALSE
    /\ UNCHANGED <<reply, parseState, arrayNum, doneNum, arrayLen, info>>

TypeNames == [b \in {"-", "+", ":", "$", "*"} |->
    CASE b = "-" -> "error" [] b = "+" -> "status" [] b = ":" -> "integer"
      [] b = "$" -> "string" [] b = "*" -> "array"]
TypeStates == [b \in {"-", "+", ":", "$", "*"} |->
    CASE b \in {"-", "+"} -> "RESULT" [] b = ":" -> "INTEGER"
      [] b = "$" -> "LENGTH" [] b = "*" -> "ARRAYLENGTH"]

\* The first byte tells the reply's type; at an unknown one parse drops all it was given
ParseType ==
    /\ Parsing /\ parseState = "TYPE"
    /\ IF Byte \in DOMAIN TypeNames
       THEN /\ parseState' = TypeStates[Byte] /\ info' = [info EXCEPT !.type = TypeNames[Byte]]
            /\ arrayNum' = IF Byte = "$" THEN 1 ELSE arrayNum
            /\ valid' = valid /\ GoOn(pos + 1)
       ELSE /\ info' = [info EXCEPT !.type = "unknown"]
            /\ valid' = valid /\ ReturnAtOnce
            /\ UNCHANGED <<parseState, arrayNum>>
    /\ UNCHANGED <<reply, doneNum, arrayLen, haveArray>>

\* No CRLF in sight: keep the rest.  A leading $ of a length is already skipped.
ParseNeedMore ==
    /\ Parsing /\ parseState \in {"INTEGER", "RESULT", "LENGTH", "ARRAYLENGTH"} /\ CRLF(pos) = 0
    /\ UNCHANGED <<reply, parseVars, valid>>
    /\ Leave(IF parseState = "LENGTH" /\ Byte = "$" THEN pos + 1 ELSE pos)

ParseInteger ==
    /\ Parsing /\ parseState = "INTEGER" /\ CRLF(pos) # 0
    /\ info' = [info EXCEPT !.num = atoi(Line(pos, CRLF(pos)))]
    /\ valid' = TRUE /\ GoOn(CRLF(pos) + 2)
    /\ UNCHANGED <<reply, parseState, arrayNum, doneNum, arrayLen, haveArray>>

ParseResult ==
    /\ Parsing /\ parseState = "RESULT" /\ CRLF(pos) # 0
    /\ info' = [info EXCEPT !.text = Line(pos, CRLF(pos))]
    /\ valid' = TRUE /\ GoOn(CRLF(pos) + 2)
    /\ UNCHANGED <<reply, parseState, arrayNum, doneNum, arrayLen, haveArray>>

\* An element is done: either more are expected or the reply is complete
ParseDone(e) ==
    /\ info' = [info EXCEPT !.elems = Append(@, e)]
    /\ doneNum' = doneNum + 1
    /\ valid' = (valid \/ doneNum + 1 >= arrayNum)

\* In an array this call has seen the length of, a status, error or integer element
ParseLineElement ==
    /\ Parsing /\ parseState = "LENGTH" /\ CRLF(pos) # 0
    /\ haveArray /\ Byte \in {"-", "+", ":"}
    /\ ParseDone(Elem(Line(pos, CRLF(pos)))) /\ GoOn(CRLF(pos) + 2)
    /\ UNCHANGED <<reply, parseState, arrayNum, arrayLen, haveArray>>

\* The length of a bulk string, or -1 for nil
ParseLength ==
    LET from == IF Byte = "$" THEN pos + 1 ELSE pos
        len  == atoi(Line(from, CRLF(from)))
    IN  /\ Parsing /\ parseState = "LENGTH" /\ CRLF(pos) # 0
        /\ ~(haveArray /\ Byte \in {"-", "+", ":"})
        /\ arrayLen' = len /\ GoOn(CRLF(from) + 2)
        /\ IF len # -1
           THEN parseState' = "STRING" /\ UNCHANGED <<doneNum, info, valid>>
           ELSE ParseDone(NilElem) /\ UNCHANGED parseState
        /\ UNCHANGED <<reply, arrayNum, haveArray>>

\* The bytes of a bulk string, once they are there with their CR LF
ParseString ==
    /\ Parsing /\ parseState = "STRING"
    /\ IF Len(buf) - pos + 1 >= arrayLen + 2
       THEN /\ ParseDone(Elem(SubSeq(buf, pos, pos + arrayLen - 1))) /\ GoOn(pos + arrayLen + 2)
            /\ parseState' = IF doneNum' < arrayNum THEN "LENGTH" ELSE parseState
       ELSE UNCHANGED <<parseState, doneNum, info, valid>> /\ Leave(pos)
    /\ UNCHANGED <<reply, arrayNum, arrayLen, haveArray>>

\* The number of elements: 0 and -1 (what EXEC answers when it did not run) are complete
ParseArrayLength ==
    LET num == atoi(Line(pos, CRLF(pos)))
    IN  /\ Parsing /\ parseState = "ARRAYLENGTH" /\ CRLF(pos) # 0
        /\ arrayNum' = num /\ GoOn(CRLF(pos) + 2)
        /\ valid' = (valid \/ num \in {0, -1})
        /\ info' = IF num = -1 THEN [info EXCEPT !.num = -1] ELSE info
        /\ parseState' = IF num \in {0, -1} THEN parseState ELSE "LENGTH"
        /\ haveArray' = (haveArray \/ num \notin {0, -1})
        /\ UNCHANGED <<reply, doneNum, arrayLen>>

ParseEnd ==
    /\ pc = "parse" /\ pos > Len(buf)
    /\ UNCHANGED <<reply, parseVars, valid>> /\ Leave(pos)

ParseGiveUp == ReadTimeout /\ UNCHANGED <<reply, parseVars>>

ParseNext == \/ ParseRead \/ ParseType \/ ParseNeedMore \/ ParseInteger \/ ParseResult
             \/ ParseLineElement \/ ParseLength \/ ParseString \/ ParseArrayLength
             \/ ParseEnd \/ ParseGiveUp

-----------------------------------------------------------------------------
\* What parse stores for a reply: of an array reply the number is kept only when it is -1
ParseMeaning(r) == IF r.type = "array" /\ r.num # -1 THEN [r EXCEPT !.num = 0] ELSE r

ParseRight == info = ParseMeaning(reply)
-----------------------------------------------------------------------------
(***************************************************************************)
(* RedisConnection::parseScanReply, the parser of the replies to SCAN: a   *)
(* cursor and an array of keys.  It marks the reply valid also when it     *)
(* rejects it, and recv does not look at what it returns.                  *)
(***************************************************************************)

scanVars == <<parseState, arrayNum, doneNum, info>>

ScanBulk(s) == <<"$">> \o Digit(Len(s)) \o Eol \o s \o Eol
ScanEncode(r) ==
    IF r.error # <<>> THEN <<"-">> \o r.error \o Eol
    ELSE <<"*", "2">> \o Eol \o ScanBulk(Digit(r.cursor))
            \o <<"*">> \o Digit(Len(r.keys)) \o Eol
            \o FlattenSeq([i \in 1 .. Len(r.keys) |-> ScanBulk(r.keys[i])])

ScanInit(r, size, whole) ==
    /\ reply = r /\ RecvInit(ScanEncode(r), size, whole)
    /\ parseState = "TYPE" /\ arrayNum = 0 /\ doneNum = 0
    /\ info = [type |-> "unknown", error |-> <<>>, cursor |-> 0, keys |-> <<>>]

ScanRead == (\E n \in 1 .. BuffSize : Read(n)) /\ UNCHANGED <<reply, scanVars>>

\* The parser gives up: the reply counts as complete
Reject == valid' = TRUE /\ ReturnAtOnce /\ UNCHANGED scanVars

ScanType ==
    /\ Parsing /\ parseState = "TYPE" /\ UNCHANGED reply
    /\ IF Byte \in {"-", "*"}
       THEN /\ parseState' = IF Byte = "-" THEN "RESULT" ELSE "ARRAYLENGTH"
            /\ info' = [info EXCEPT !.type = IF Byte = "-" THEN "error" ELSE "array"]
            /\ GoOn(pos + 1) /\ UNCHANGED <<valid, arrayNum, doneNum>>
       ELSE Reject

\* No CRLF in sight: the rest is kept
ScanNeedMore(p) == UNCHANGED <<scanVars, valid>> /\ Leave(p)

ScanError ==
    /\ Parsing /\ parseState = "RESULT" /\ UNCHANGED reply
    /\ IF CRLF(pos) = 0 THEN ScanNeedMore(pos)
       ELSE /\ info' = [info EXCEPT !.error = Line(pos, CRLF(pos))]
            /\ valid' = TRUE /\ ReturnAtOnce /\ UNCHANGED <<parseState, arrayNum, doneNum>>

ScanArrayLength ==
    /\ Parsing /\ parseState = "ARRAYLENGTH" /\ UNCHANGED reply
    /\ CASE CRLF(pos) = 0 -> ScanNeedMore(pos)
         [] CRLF(pos) # 0 /\ atoi(Line(pos, CRLF(pos))) # 2 -> Reject
         [] OTHER -> /\ parseState' = "CURSORLEN" /\ GoOn(CRLF(pos) + 2)
                     /\ UNCHANGED <<valid, arrayNum, doneNum, info>>

\* The $ is skipped before it is known whether the line is complete: what is left for
\* the next read then starts behind it
ScanCursorLength ==
    /\ Parsing /\ parseState = "CURSORLEN" /\ UNCHANGED reply
    /\ CASE Byte # "$" -> Reject
         [] Byte = "$" /\ CRLF(pos + 1) = 0 -> ScanNeedMore(pos + 1)
         [] Byte = "$" /\ CRLF(pos + 1) # 0 /\ atoi(Line(pos + 1, CRLF(pos + 1))) < 0 -> Reject
         [] OTHER -> /\ parseState' = "CURSOR" /\ GoOn(CRLF(pos + 1) + 2)
                     /\ UNCHANGED <<valid, arrayNum, doneNum, info>>

ScanCursor ==
    LET cursor == atoi(Line(pos, CRLF(pos)))
    IN  /\ Parsing /\ parseState = "CURSOR" /\ UNCHANGED reply
        /\ CASE CRLF(pos) = 0 -> ScanNeedMore(pos)
             [] CRLF(pos) # 0 /\ cursor < 0 -> Reject
             [] OTHER -> /\ parseState' = "KEYSLEN" /\ info' = [info EXCEPT !.cursor = cursor]
                         /\ GoOn(CRLF(pos) + 2) /\ UNCHANGED <<valid, arrayNum, doneNum>>

\* The number of keys.  The * is skipped like the $ of a length.
ScanKeysLength ==
    LET num == atoi(Line(pos + 1, CRLF(pos + 1)))
    IN  /\ Parsing /\ parseState = "KEYSLEN" /\ UNCHANGED reply
        /\ CASE Byte # "*" -> Reject
             [] Byte = "*" /\ CRLF(pos + 1) = 0 -> ScanNeedMore(pos + 1)
             [] Byte = "*" /\ CRLF(pos + 1) # 0 /\ num <= 0 ->
                    /\ arrayNum' = num /\ valid' = TRUE /\ ReturnAtOnce
                    /\ UNCHANGED <<parseState, doneNum, info>>
             [] OTHER -> /\ arrayNum' = num /\ parseState' = "KEYLEN" /\ GoOn(CRLF(pos + 1) + 2)
                         /\ UNCHANGED <<valid, doneNum, info>>

ScanKeyLength ==
    /\ Parsing /\ parseState = "KEYLEN" /\ UNCHANGED reply
    /\ CASE Byte # "$" -> Reject
         [] Byte = "$" /\ CRLF(pos + 1) = 0 -> ScanNeedMore(pos + 1)
         [] Byte = "$" /\ CRLF(pos + 1) # 0 /\ atoi(Line(pos + 1, CRLF(pos + 1))) < 0 -> Reject
         [] OTHER -> /\ parseState' = "KEY" /\ GoOn(CRLF(pos + 1) + 2)
                     /\ UNCHANGED <<valid, arrayNum, doneNum, info>>

\* Wrong on purpose: stops one key early
ScanKeyOneEarly ==
    /\ Parsing /\ parseState = "KEY" /\ UNCHANGED reply
    /\ IF CRLF(pos) = 0 THEN ScanNeedMore(pos)
       ELSE /\ info' = [info EXCEPT !.keys = Append(@, Line(pos, CRLF(pos)))]
            /\ doneNum' = doneNum + 1 /\ UNCHANGED arrayNum
            /\ IF doneNum + 2 < arrayNum
               THEN parseState' = "KEYLEN" /\ GoOn(CRLF(pos) + 2) /\ UNCHANGED valid
               ELSE valid' = TRUE /\ ReturnAtOnce /\ UNCHANGED parseState

\* A key ends at the next CR LF, whatever its length line said
ScanKey ==
    /\ Parsing /\ parseState = "KEY" /\ UNCHANGED reply
    /\ IF CRLF(pos) = 0 THEN ScanNeedMore(pos)
       ELSE /\ info' = [info EXCEPT !.keys = Append(@, Line(pos, CRLF(pos)))]
            /\ doneNum' = doneNum + 1 /\ UNCHANGED arrayNum
            /\ IF doneNum + 1 < arrayNum
               THEN parseState' = "KEYLEN" /\ GoOn(CRLF(pos) + 2) /\ UNCHANGED valid
               ELSE valid' = TRUE /\ ReturnAtOnce /\ UNCHANGED parseState

ScanRest == pc = "parse" /\ pos > Len(buf) /\ ScanNeedMore(pos) /\ UNCHANGED reply

ScanGiveUp == ReadTimeout /\ UNCHANGED <<reply, scanVars>>

ScanNext == \/ ScanRead \/ ScanType \/ ScanError \/ ScanArrayLength \/ ScanCursorLength
            \/ ScanCursor \/ ScanKeysLength \/ ScanKeyLength \/ ScanKey \/ ScanRest \/ ScanGiveUp

-----------------------------------------------------------------------------
\* What parseScanReply stores for a reply
ScanMeaning(r) == [type |-> IF r.error # <<>> THEN "error" ELSE "array", error |-> r.error,
               cursor |-> IF r.error # <<>> THEN 0 ELSE r.cursor,
               keys |-> IF r.error # <<>> THEN <<>> ELSE r.keys]

ScanRight == info = ScanMeaning(reply)
-----------------------------------------------------------------------------
(***************************************************************************)
(* RedisConnection::parseEnhance, the parser that recvWithParseEnhance     *)
(* calls: it also reads an array of arrays of strings ("multi").           *)
(***************************************************************************)

VARIABLE curArray

enhVars == <<parseState, arrayNum, doneNum, arrayLen, haveArray, curArray, info>>

Item(e) == CASE e.nil -> <<"$", "-", "1">> \o Eol
             [] IsLine(e) -> e.val \o Eol
             [] OTHER -> <<"$">> \o Digit(Len(e.val)) \o Eol \o e.val \o Eol
Items(a) == <<"*">> \o Digit(Len(a)) \o Eol \o FlattenSeq([i \in 1 .. Len(a) |-> Item(a[i])])
EnhEncode(r) ==
    CASE r.type = "status"  -> <<"+">> \o r.text \o Eol
      [] r.type = "error"   -> <<"-">> \o r.text \o Eol
      [] r.type = "integer" -> <<":">> \o Digit(r.num) \o Eol
      [] r.type = "string"  -> Item(r.arrays[1][1])
      [] r.type = "array"   -> Items(r.arrays[1])
      [] r.type = "multi"   -> <<"*">> \o Digit(Len(r.arrays)) \o Eol
                                 \o FlattenSeq([i \in 1 .. Len(r.arrays) |-> Items(r.arrays[i])])

EnhInit(r, size, whole) ==
    /\ reply = r /\ RecvInit(EnhEncode(r), size, whole)
    /\ parseState = "TYPE" /\ arrayNum = 0 /\ doneNum = 0 /\ arrayLen = 0
    /\ haveArray = FALSE /\ curArray = 0
    /\ info = [type |-> "none", text |-> <<>>, num |-> 0, arrays |-> <<>>]

EnhRead ==
    /\ \E n \in 1 .. BuffSize : Read(n)
    /\ haveArray' = FALSE
    /\ UNCHANGED <<reply, parseState, arrayNum, doneNum, arrayLen, curArray, info>>

\* The end of the line after the * at p - 1, if the byte behind it is there as well
SecondLine(p) == LET t == CRLF(p) IN IF t # 0 /\ t + 2 <= Len(buf) THEN t ELSE 0

\* Behind the * at p - 1: one array, or an array of arrays if the second line starts with *
CheckArrays(p) ==
    LET t == SecondLine(p)
        n == atoi(Line(p, t))
    IN  IF t = 0
        THEN parseState' = "CHECK" /\ valid' = FALSE /\ Leave(p) /\ UNCHANGED <<info, arrayNum, curArray>>
        ELSE /\ curArray' = 0 /\ valid' = valid /\ GoOn(t + 3)
             /\ IF buf[t + 2] = "*"
                THEN /\ parseState' = "ARRAYLENGTH" /\ UNCHANGED arrayNum
                     /\ info' = [info EXCEPT !.type = "multi", !.arrays = [i \in 1 .. n |-> <<>>]]
                ELSE /\ parseState' = "LENGTH" /\ arrayNum' = n
                     /\ info' = [info EXCEPT !.type = "array", !.arrays = <<<<>>>>]

EnhType ==
    /\ Parsing /\ parseState = "TYPE"
    /\ CASE Byte = "-" -> /\ parseState' = "RESULT" /\ info' = [info EXCEPT !.type = "error"]
                          /\ GoOn(pos + 1) /\ UNCHANGED <<arrayNum, curArray, valid>>
         [] Byte = "+" -> /\ parseState' = "RESULT" /\ info' = [info EXCEPT !.type = "status"]
                          /\ GoOn(pos) /\ UNCHANGED <<arrayNum, curArray, valid>>
         [] Byte = ":" -> /\ parseState' = "INTEGER" /\ info' = [info EXCEPT !.type = "integer"]
                          /\ GoOn(pos) /\ UNCHANGED <<arrayNum, curArray, valid>>
         [] Byte = "$" -> /\ parseState' = "LENGTH"
                          /\ info' = [info EXCEPT !.type = "string", !.arrays = <<<<>>>>]
                          /\ arrayNum' = 1 /\ curArray' = 0 /\ GoOn(pos) /\ UNCHANGED valid
         [] Byte = "*" -> CheckArrays(pos + 1)
         [] OTHER -> /\ info' = [info EXCEPT !.type = "unknown"] /\ valid' = TRUE
                     /\ ReturnAtOnce /\ UNCHANGED <<parseState, arrayNum, curArray>>
    /\ UNCHANGED <<reply, doneNum, arrayLen, haveArray>>

EnhCheckArrays ==
    /\ Parsing /\ parseState = "CHECK" /\ CheckArrays(pos)
    /\ UNCHANGED <<reply, doneNum, arrayLen, haveArray>>

\* The line still starts with its colon, which atoi does not skip
EnhInteger ==
    /\ Parsing /\ parseState = "INTEGER"
    /\ IF CRLF(pos) = 0 THEN UNCHANGED <<parseState, info, valid>> /\ Leave(pos)
       ELSE /\ info' = [info EXCEPT !.num = atoi(Line(pos, CRLF(pos)))]
            /\ IF curArray >= Len(info.arrays) THEN valid' = TRUE /\ UNCHANGED parseState
               ELSE parseState' = "ARRAYLENGTH" /\ UNCHANGED valid
            /\ GoOn(CRLF(pos) + 2)
    /\ UNCHANGED <<reply, arrayNum, doneNum, arrayLen, haveArray, curArray>>

EnhResult ==
    /\ Parsing /\ parseState = "RESULT"
    /\ IF CRLF(pos) = 0 THEN UNCHANGED <<info, valid>> /\ Leave(pos)
       ELSE info' = [info EXCEPT !.text = Line(pos, CRLF(pos))] /\ valid' = TRUE /\ ReturnAtOnce
    /\ UNCHANGED <<reply, parseState, arrayNum, doneNum, arrayLen, haveArray, curArray>>

\* The length of one of several arrays; an empty one ends the reply
EnhArrayLength ==
    LET num == atoi(Line(pos, CRLF(pos)))
    IN  /\ Parsing /\ parseState = "ARRAYLENGTH" /\ doneNum' = 0
        /\ IF CRLF(pos) = 0 THEN UNCHANGED <<parseState, arrayNum, haveArray, info, valid>> /\ Leave(pos)
           ELSE /\ arrayNum' = num /\ GoOn(CRLF(pos) + 2)
                /\ valid' = (valid \/ num \in {0, -1})
                /\ info' = IF num = -1 THEN [info EXCEPT !.num = -1] ELSE info
                /\ parseState' = IF num \in {0, -1} THEN parseState ELSE "LENGTH"
                /\ haveArray' = (haveArray \/ num \notin {0, -1})
        /\ UNCHANGED <<reply, arrayLen, curArray>>

LastOfArray == doneNum + 1 >= arrayNum
LastArray == curArray + 1 >= Len(info.arrays)

\* An element of the current array is done: the next element, the next array, or the end
EnhDone(e) ==
    /\ info' = [info EXCEPT !.arrays[curArray + 1] = Append(@, e)]
    /\ valid' = (valid \/ (LastOfArray /\ LastArray))
    /\ IF LastOfArray /\ ~LastArray
       THEN parseState' = "ARRAYLENGTH" /\ curArray' = curArray + 1 /\ doneNum' = 0 /\ arrayNum' = 0
       ELSE /\ parseState' = IF LastOfArray THEN parseState ELSE "LENGTH"
            /\ doneNum' = doneNum + 1 /\ UNCHANGED <<curArray, arrayNum>>

\* A status, error or integer element; the break behind it leaves the parser's loop
EnhLineElement ==
    /\ Parsing /\ parseState = "LENGTH" /\ haveArray /\ Byte \in {"-", "+", ":"}
    /\ IF CRLF(pos) = 0 THEN UNCHANGED <<parseState, arrayNum, doneNum, curArray, info, valid>> /\ Leave(pos)
       ELSE EnhDone(Elem(Line(pos, CRLF(pos)))) /\ Leave(CRLF(pos) + 1)
    /\ UNCHANGED <<reply, arrayLen, haveArray>>

\* The length of a string, or -1 for nil
EnhLength ==
    LET from == IF Byte = "$" THEN pos + 1 ELSE pos
        len  == atoi(Line(from, CRLF(from)))
    IN  /\ Parsing /\ parseState = "LENGTH" /\ ~(haveArray /\ Byte \in {"-", "+", ":"})
        /\ IF CRLF(from) = 0
           THEN UNCHANGED <<parseState, arrayNum, doneNum, arrayLen, curArray, info, valid>> /\ Leave(from)
           ELSE /\ arrayLen' = len /\ GoOn(CRLF(from) + 2)
                /\ IF len # -1
                   THEN parseState' = "STRING" /\ UNCHANGED <<arrayNum, doneNum, curArray, info, valid>>
                   ELSE EnhDone(NilElem)
        /\ UNCHANGED <<reply, haveArray>>

\* The bytes of a string; before the next array also its * is skipped
EnhString ==
    /\ Parsing /\ parseState = "STRING"
    /\ IF Len(buf) - pos + 1 < arrayLen + 2
       THEN UNCHANGED <<parseState, arrayNum, doneNum, curArray, info, valid>> /\ Leave(pos)
       ELSE /\ EnhDone(Elem(SubSeq(buf, pos, pos + arrayLen - 1)))
            /\ GoOn(pos + arrayLen + (IF LastOfArray /\ ~LastArray THEN 3 ELSE 2))
    /\ UNCHANGED <<reply, arrayLen, haveArray>>

EnhEnd ==
    /\ pc = "parse" /\ pos > Len(buf)
    /\ UNCHANGED <<reply, enhVars, valid>> /\ Leave(pos)

EnhGiveUp == ReadTimeout /\ UNCHANGED <<reply, enhVars>>

EnhNext == \/ EnhRead \/ EnhType \/ EnhCheckArrays \/ EnhInteger \/ EnhResult \/ EnhArrayLength
           \/ EnhLineElement \/ EnhLength \/ EnhString \/ EnhEnd \/ EnhGiveUp

EnhRight == info = reply
-----------------------------------------------------------------------------
(***************************************************************************)
(* The replies with which the parsers of ReplyRecv are checked.            *)
(***************************************************************************)

Arrays(n, elems) == UNION {[1 .. k -> elems] : k \in 1 .. n}

\* Replies of parse
R(type, text, num, elems) == [type |-> type, text |-> text, num |-> num, elems |-> elems]

\* Bulk strings: nil, empty, plain, and one whose bytes look like the protocol
Bulks == {NilElem, Elem(<<>>), Elem(<<"x">>), Elem(<<"CR", "LF", "$">>)}
Lines == {Elem(<<"+", "x">>), Elem(<<":", "1">>), Elem(<<"-", "x">>), NilElem}

ArrayReplies(elems) == {R("array", <<>>, 0, <<>>), R("array", <<>>, -1, <<>>)}
    \cup {R("array", <<>>, Len(s), s) : s \in Arrays(2, elems)}

\* What the data commands are answered with
DataReplies == {R("status", <<"x">>, 0, <<>>), R("error", <<"x", "x">>, 0, <<>>)}
    \cup {R("integer", <<>>, n, <<>>) : n \in {-1, 0, 2}}
    \cup {R("string", <<>>, 0, <<b>>) : b \in Bulks} \cup ArrayReplies(Bulks)

\* Replies of parseScanReply
Keys == {<<"x">>, <<"x", "$">>}
ScanReplies == {[error |-> <<"x">>, cursor |-> 0, keys |-> <<>>]}
    \cup {[error |-> <<>>, cursor |-> c, keys |-> ks] : c \in {0, 2}, ks \in {<<>>} \cup Arrays(3, Keys)}

\* Replies of parseEnhance
E(type, text, num, arrays) == [type |-> type, text |-> text, num |-> num, arrays |-> arrays]
EBulks == {NilElem, Elem(<<>>), Elem(<<"x">>), Elem(<<"CR", "LF", "*">>)}
Strings == EBulks \ {NilElem}

SingleReplies == {E("error", <<"x">>, 0, <<>>), E("integer", <<>>, 0, <<>>)}
    \cup {E("string", <<>>, 0, <<<<b>>>>) : b \in EBulks}
    \cup {E("array", <<>>, 0, <<a>>) : a \in Arrays(2, EBulks)}

\* Arrays of arrays: none of them empty, a nil or a line only at the very end
MultiReplies == {E("multi", <<>>, 0, <<a>>) : a \in Arrays(2, Strings)}
    \cup {E("multi", <<>>, 0, <<a, b>>) : a \in Arrays(2, Strings), b \in Arrays(2, {Elem(<<"x">>)})}
    \cup {E("multi", <<>>, 0, <<a, <<e>>>>) : a \in Arrays(2, Strings), e \in {Elem(<<":", "1">>), NilElem}}

Case(parsers, replies, size, whole) == [parser : parsers, reply : replies, size : {size}, whole : {whole}]

\* Cut anywhere, and more than a buffer long: what the data commands are answered with, and
\* single replies of parseEnhance.  In one read: EXEC's arrays of lines, SCAN's replies, and
\* arrays of arrays.
GoodCases == Case({"common"}, DataReplies, 6, FALSE) \cup Case({"enhance"}, SingleReplies, 8, FALSE)
    \cup Case({"common"}, ArrayReplies(Lines), 64, TRUE) \cup Case({"scan"}, ScanReplies, 64, TRUE)
    \cup Case({"enhance"}, MultiReplies, 64, TRUE)

\* A few of them, one for every kind of reply
SomeCases ==
    Case({"common"}, {R("integer", <<>>, 2, <<>>), R("status", <<"x">>, 0, <<>>), R("error", <<"x", "x">>, 0, <<>>),
                      R("array", <<>>, 2, <<NilElem, Elem(<<"x">>)>>)}, 6, FALSE)
    \cup Case({"common"}, {R("array", <<>>, 2, <<Elem(<<"+", "x">>), Elem(<<":", "1">>)>>)}, 64, TRUE)
    \cup Case({"scan"}, {[error |-> <<"x">>, cursor |-> 0, keys |-> <<>>],
                         [error |-> <<>>, cursor |-> 2, keys |-> <<<<"x">>, <<"x", "$">>>>]}, 64, TRUE)
    \cup Case({"enhance"}, {E("error", <<"x">>, 0, <<>>), E("integer", <<>>, 0, <<>>),
                            E("array", <<>>, 0, <<<<NilElem, Elem(<<"x">>)>>>>)}, 8, FALSE)
    \cup Case({"enhance"}, {E("multi", <<>>, 0, <<<<Elem(<<"x">>)>>, <<Elem(<<":", "1">>)>>>>),
                            E("multi", <<>>, 0, <<<<Elem(<<"x">>), Elem(<<>>)>>, <<Elem(<<"x">>)>>>>)}, 64, TRUE)
-----------------------------------------------------------------------------
(***************************************************************************)
(* The reading half of RedisConnection::doRedisCommand and                 *)
(* testDoCommandWithParseEnhance: recv with parse or, for SCAN,            *)
(* parseScanReply, and recvWithParseEnhance with parseEnhance.  A case is  *)
(* a parser, a reply, the size of the read buffer and whether a read       *)
(* returns all that fits.                                                  *)
(***************************************************************************)

CONSTANT Few          \* some of the replies are enough

VARIABLE parser

\* [parser, reply, size, whole]
Cases == IF Few THEN SomeCases ELSE GoodCases

CasesAssumption ==
    \A c \in Cases : /\ c.parser \in {"common", "scan", "enhance"}
                     /\ c.size \in Nat \ {0, 1} /\ c.whole \in BOOLEAN

vars == <<recvVars, parser, reply, parseState, arrayNum, doneNum, arrayLen, haveArray, curArray, info>>

Init ==
    \E c \in Cases :
        /\ parser = c.parser
        /\ \/ /\ parser = "common" /\ ParseInit(c.reply, c.size, c.whole) /\ curArray = 0
           \/ /\ parser = "scan" /\ ScanInit(c.reply, c.size, c.whole)
              /\ arrayLen = 0 /\ haveArray = FALSE /\ curArray = 0
           \/ /\ parser = "enhance" /\ EnhInit(c.reply, c.size, c.whole)

CommonStep  == parser = "common"  /\ ParseNext  /\ UNCHANGED <<parser, curArray>>
ScanStep    == parser = "scan"    /\ ScanNext    /\ UNCHANGED <<parser, arrayLen, haveArray, curArray>>
EnhanceStep == parser = "enhance" /\ EnhNext /\ UNCHANGED parser

Next == CommonStep \/ ScanStep \/ EnhanceStep

\* recv loops until the parser is done or the read times out
Spec == Init /\ [][Next]_vars /\ WF_vars(Next)

-----------------------------------------------------------------------------
TypeOK ==
    /\ pc \in {"read", "parse", "done", "failed"} /\ valid \in BOOLEAN /\ haveArray \in BOOLEAN
    /\ arrayNum >= -1 /\ arrayLen >= -1 /\ doneNum >= 0
    /\ pos \in 1 .. Len(buf) + (IF parser = "enhance" THEN 2 ELSE 1)
    /\ pc = "read" => Len(unparse) <= Len(buf)

\* A command that returns true returns the reply the server sent: its type, text, number
\* and elements, or the cursor and all the keys of a SCAN, however recv's reads cut it.
Decodes ==
    pc = "done" => \/ parser = "common"  /\ ParseRight
                   \/ parser = "scan"    /\ ScanRight
                   \/ parser = "enhance" /\ EnhRight

\* recv returns, whatever part of the reply arrives and however often the parser asks for more.
Returns == <>(pc \in {"done", "failed"})
=============================================================================
