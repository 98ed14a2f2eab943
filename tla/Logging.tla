------------------------------ MODULE Logging -------------------------------
(***************************************************************************)
(* The logging library logging.muduo: the asynchronous logger, the rolling *)
(* log file, and the composition of one line.                              *)
(***************************************************************************)
EXTENDS Integers, Sequences, SequencesExt, FiniteSets

-----------------------------------------------------------------------------
(***************************************************************************)
(* The asynchronous logger of logging.muduo/AsyncLogging.cpp (and its copy *)
(* in ComponentsW): threads append messages to the current buffer under    *)
(* mutex_, a background thread swaps the buffers out and writes them.      *)
(* Messages are numbers in the order of their append, of one unit each; a  *)
(* buffer is the sequence of its messages and holds Size units.  next is   *)
(* whether nextBuffer_ is there, new1 and new2 whether newBuffer1 and      *)
(* newBuffer2 are.  bpc is where the background thread is, opc its owner.  *)
(***************************************************************************)

CONSTANTS Size,        \* the capacity of a buffer
          Limit,       \* more buffers than this are dropped (25 in the code)
          MaxMessages  \* bound

VARIABLES running, current, next, buffers, toWrite, new1, new2, asyncFile, logged, dropped, bpc, opc, asyncMet

asyncVars == <<running, current, next, buffers, toWrite, new1, new2, asyncFile, logged, dropped, bpc, opc, asyncMet>>

AsyncInit ==
    /\ running = FALSE /\ current = <<>> /\ next = TRUE /\ buffers = <<>> /\ toWrite = <<>>
    /\ new1 = TRUE /\ new2 = TRUE /\ asyncFile = <<>> /\ logged = 0 /\ dropped = {}
    /\ bpc = "none" /\ opc = "new" /\ asyncMet = {}

start ==
    /\ opc = "new" /\ opc' = "started" /\ running' = TRUE /\ bpc' = "begin"
    /\ UNCHANGED <<current, next, buffers, toWrite, new1, new2, asyncFile, logged, dropped, asyncMet>>

\* stop clears running_ and signals, without the mutex, then joins
stop ==
    /\ opc = "started" /\ opc' = "join" /\ running' = FALSE
    /\ bpc' = IF bpc = "wait" THEN "swap" ELSE bpc
    /\ UNCHANGED <<current, next, buffers, toWrite, new1, new2, asyncFile, logged, dropped, asyncMet>>

stopReturns ==
    /\ opc = "join" /\ bpc = "ended" /\ opc' = "stopped"
    /\ UNCHANGED <<running, current, next, buffers, toWrite, new1, new2, asyncFile, logged, dropped, bpc, asyncMet>>

\* append moves to the next buffer when the message does not leave room behind it
asyncAppend ==
    /\ logged < MaxMessages /\ logged' = logged + 1
    /\ IF Size - Len(current) > 1
       THEN current' = Append(current, logged') /\ UNCHANGED <<next, buffers, bpc>>
       ELSE /\ buffers' = Append(buffers, current) /\ current' = <<logged'>> /\ next' = FALSE
            /\ bpc' = IF bpc = "wait" THEN "swap" ELSE bpc
    /\ UNCHANGED <<running, toWrite, new1, new2, asyncFile, dropped, opc, asyncMet>>

\* assert(running_ = true), in a build with assertions, sets what it means to test
threadBegins ==
    /\ bpc = "begin" /\ bpc' = "loop" /\ running' = TRUE
    /\ asyncMet' = asyncMet \cup (IF running THEN {} ELSE {"stoppedBeforeBegin"})
    /\ UNCHANGED <<current, next, buffers, toWrite, new1, new2, asyncFile, logged, dropped, opc>>

\* The test of the loop, and the wait when there is no full buffer
threadLoops ==
    /\ bpc = "loop"
    /\ bpc' = IF ~running THEN "ended" ELSE IF buffers = <<>> THEN "wait" ELSE "swap"
    /\ UNCHANGED <<running, current, next, buffers, toWrite, new1, new2, asyncFile, logged, dropped, opc, asyncMet>>

\* Wrong on purpose: wait instead of waitForSeconds, while nobody signals
waitForever ==
    /\ bpc = "wait" /\ ~running /\ bpc' = "swap"
    /\ UNCHANGED <<running, current, next, buffers, toWrite, new1, new2, asyncFile, logged, dropped, opc, asyncMet>>

\* waitForSeconds ends after flushInterval_ seconds
waitTimesOut ==
    /\ bpc = "wait" /\ bpc' = "swap"
    /\ UNCHANGED <<running, current, next, buffers, toWrite, new1, new2, asyncFile, logged, dropped, opc, asyncMet>>

\* Under the mutex: the current buffer joins the full ones, and new ones take their places
threadSwaps ==
    /\ bpc = "swap" /\ bpc' = "write"
    /\ toWrite' = Append(buffers, current) /\ buffers' = <<>> /\ current' = <<>> /\ new1' = FALSE
    /\ next' = TRUE /\ new2' = (next /\ new2)
    /\ UNCHANGED <<running, asyncFile, logged, dropped, opc, asyncMet>>

\* Of too many buffers the first two are kept
Kept(bs) == IF Len(bs) > Limit THEN SubSeq(bs, 1, 2) ELSE bs

threadWrites ==
    /\ bpc = "write" /\ bpc' = "refill"
    /\ toWrite' = Kept(toWrite) /\ asyncFile' = asyncFile \o FlattenSeq(Kept(toWrite))
    /\ dropped' = dropped \cup {m \in 1 .. logged : \E i \in 3 .. Len(toWrite) : Len(toWrite) > Limit /\ Contains(toWrite[i], m)}
    /\ UNCHANGED <<running, current, next, buffers, new1, new2, logged, opc, asyncMet>>

\* newBuffer1 and newBuffer2 are taken from the buffers that were written, each after an assertion
\* that there is one left
threadRefills ==
    /\ bpc = "refill" /\ bpc' = "loop"
    /\ asyncMet' = asyncMet \cup (IF Len(toWrite) < (IF new1 THEN 0 ELSE 1) + (IF new2 THEN 0 ELSE 1) THEN {"assertFails"} ELSE {})
    /\ new1' = TRUE /\ new2' = TRUE /\ toWrite' = <<>>
    /\ UNCHANGED <<running, current, next, buffers, asyncFile, logged, dropped, opc>>

Thread == threadBegins \/ threadLoops \/ waitTimesOut \/ threadSwaps \/ threadWrites \/ threadRefills
AsyncNext == start \/ stop \/ stopReturns \/ asyncAppend \/ Thread

\* Both threads run, and a wait with a timeout ends
AsyncSpec == AsyncInit /\ [][AsyncNext]_asyncVars /\ WF_asyncVars(Thread) /\ WF_asyncVars(stopReturns)

-----------------------------------------------------------------------------
\* What was appended and not dropped is in the file or in some buffer, once, and in order: with no
\* drop the file, the buffers that are written, the full ones and the current one are the log
InOrder ==
    LET rest == (IF bpc = "refill" THEN <<>> ELSE FlattenSeq(toWrite)) \o FlattenSeq(buffers) \o current
    IN asyncFile \o rest = SelectSeq([m \in 1 .. logged |-> m], LAMBDA m : m \notin dropped)

\* The assertions of threadFunc hold: whenever newBuffer2 was given away at least two buffers were
\* written, so that both can be replaced
AssertionsHold == "assertFails" \notin asyncMet

\* While the logger runs every message reaches the file or is dropped by the limit, in time that does
\* not depend on further messages
EachWritten ==
    \A m \in 1 .. MaxMessages :
        logged >= m /\ opc = "started" ~> Contains(asyncFile, m) \/ m \in dropped \/ opc # "started"

\* stop returns, unless it came before the thread's first line, whose assertion sets running_ again
StopEnds == opc = "join" /\ bpc # "begin" ~> opc = "stopped" \/ "stoppedBeforeBegin" \in asyncMet
-----------------------------------------------------------------------------
(***************************************************************************)
(* The rolling log file of logging.muduo/LogFile.cpp (and its copy in      *)
(* ComponentsW) on top of common/AppendFile.cpp.  A file is known by the   *)
(* second in which it was opened, which is all its name says, and holds    *)
(* the entries written to it; opening a name again goes on at its end.     *)
(* Time is now, in seconds, a day has Day of them.  An entry is its length *)
(* and the day on which it was written.  append_unlocked runs under        *)
(* mutex_, so that each call is one step.                                  *)
(***************************************************************************)

CONSTANTS Day, RollSize, FlushInterval, FileLengths,
          CheckValues,         \* what checkEveryN_ may hold
          MaxNow, MaxAppends   \* bounds

VARIABLES now, files, name, writtenBytes, count, startOfPeriod, lastFlush,
          flushed,        \* entries of the open file that were flushed for certain
          checkEveryN, appends, fileMet

fileVars == <<now, files, name, writtenBytes, count, startOfPeriod, lastFlush, flushed, checkEveryN, appends, fileMet>>

Bytes(f) == FoldSeq(LAMBDA e, n : e.len + n, 0, f)
PeriodOf(t) == (t \div Day) * Day

\* The constructor's parameter checkEveryN_ hides the member, which is never set
FileInit ==
    /\ now \in 0 .. 1 /\ files = [t \in 0 .. MaxNow |-> <<>>] /\ name = now /\ writtenBytes = 0
    /\ count = 0 /\ startOfPeriod = PeriodOf(now) /\ lastFlush = 0 /\ flushed = 0
    /\ checkEveryN \in CheckValues /\ appends = 0 /\ fileMet = {}

Tick == now < MaxNow /\ now' = now + 1 /\ UNCHANGED <<files, name, writtenBytes, count, startOfPeriod, lastFlush, flushed, checkEveryN, appends, fileMet>>

\* AppendFile::append: got bytes of len are written, fewer after an error
Write(got) == files' = [files EXCEPT ![name] = Append(@, [len |-> got, period |-> PeriodOf(now)])]

\* AppendFile's constructor asks for the size of the file.  It runs before the old AppendFile is closed,
\* so that what that one still holds in its buffer is not counted when both have the same name.
Reopened(file) == {Bytes(SubSeq(file, 1, k)) : k \in (IF name = now THEN flushed ELSE Len(file)) .. Len(file)}

\* rollFile opens the file of this second, then closes the old one, which flushes it
rollFile ==
    /\ name' = now /\ writtenBytes' \in Reopened(files'[now]) /\ startOfPeriod' = PeriodOf(now)
    /\ flushed' = Len(files'[now])
    /\ fileMet' = fileMet \cup (IF name = now THEN {"rolledInOneSecond"} ELSE {})

TooLarge(got) == writtenBytes + got > RollSize

Unchecked == count + 1 < checkEveryN

append_unlocked(got) ==
    /\ appends < MaxAppends /\ appends' = appends + 1
    /\ Write(got)
    /\ IF TooLarge(got) THEN rollFile /\ UNCHANGED <<count, lastFlush>>
       ELSE IF Unchecked
       THEN count' = count + 1 /\ writtenBytes' = writtenBytes + got /\ UNCHANGED <<name, startOfPeriod, lastFlush, flushed, fileMet>>
       ELSE /\ count' = 0
            /\ IF PeriodOf(now) # startOfPeriod THEN rollFile /\ UNCHANGED lastFlush
               ELSE /\ writtenBytes' = writtenBytes + got /\ UNCHANGED <<name, startOfPeriod, fileMet>>
                    /\ IF now - lastFlush > FlushInterval THEN flushed' = Len(files'[name]) /\ lastFlush' = now
                       ELSE UNCHANGED <<lastFlush, flushed>>
    /\ UNCHANGED <<now, checkEveryN>>

flush ==
    /\ flushed' = Len(files[name])
    /\ UNCHANGED <<now, files, name, writtenBytes, count, startOfPeriod, lastFlush, checkEveryN, appends, fileMet>>

FileNext == Tick \/ flush \/ \E got \in FileLengths : append_unlocked(got)

-----------------------------------------------------------------------------
Largest == CHOOSE n \in FileLengths : \A k \in FileLengths : k <= n

\* No file grows past rollSize_ by more than one entry, except when files are rolled within one
\* second and the same one is opened again (the FIXME of rollFile)
SizeBounded ==
    "rolledInOneSecond" \notin fileMet => \A t \in DOMAIN files : Bytes(files[t]) <= RollSize + Largest

\* A file holds the entries of one day, but for those that come before the next check: at most
\* checkEveryN_ of a later day, the last of which rolls the file
OneDayPerFile ==
    \A t \in DOMAIN files :
        LET late == Len(SelectSeq(files[t], LAMBDA e : e.period # PeriodOf(t))) IN late <= 1 \/ late <= checkEveryN
-----------------------------------------------------------------------------
(***************************************************************************)
(* One line of the log: Logger writes a header, the caller's values and a  *)
(* tail into the LogStream (logging.muduo/Logging.cpp, LogStream.cpp) on a *)
(* FixedBuffer (common/FixedBuffer.h), and its destructor hands the buffer *)
(* to the output function.  Numbers have Width bits and are printed in     *)
(* base 10 and 16 as in the code; text is a sequence of letters that tell  *)
(* header, message and tail apart.                                         *)
(***************************************************************************)

CONSTANTS Capacity,           \* kSmallBuffer
          NumericSize,        \* kMaxNumericSize
          Width, Numbers,     \* of integers, in bits; those that are printed
          LineLengths,        \* of texts
          MaxValues           \* streamed into one line

VARIABLES g_loglevel,
          phase,              \* "idle", "open" (a Logger exists), "aborted"
          level_, buffer, high, values,   \* of the Logger; high: the end of the memory written
          number,             \* the last number that was printed, and its text: [v, text]
          line                \* the last line that was output

\* The log levels used: INFO and FATAL
INFO == 1
FATAL == 2
Levels == {INFO, FATAL}

lineVars == <<g_loglevel, phase, level_, buffer, high, values, number, line>>

NoNumber == [v |-> 0, text |-> <<>>]

LineInit ==
    /\ g_loglevel \in Levels
    /\ phase = "idle" /\ level_ = INFO /\ buffer = <<>> /\ high = 0 /\ values = 0 /\ number = NoNumber /\ line = <<>>

-----------------------------------------------------------------------------
(* Numbers *)

digits == <<"9", "8", "7", "6", "5", "4", "3", "2", "1", "0", "1", "2", "3", "4", "5", "6", "7", "8", "9">>
digitsHex == <<"0", "1", "2", "3", "4", "5", "6", "7", "8", "9", "A", "B", "C", "D", "E", "F">>

\* Division and remainder of C: towards zero
Quotient(i, n) == IF i < 0 THEN -((-i) \div n) ELSE i \div n
Remainder(i, n) == IF i < 0 THEN -((-i) % n) ELSE i % n

zero(lsd) == digits[lsd + 10]

LastFirst[i \in -(2^Width) .. 2^Width] ==
    <<zero(Remainder(i, 10))>> \o (IF Quotient(i, 10) = 0 THEN <<>> ELSE LastFirst[Quotient(i, 10)])

convert(v) == Reverse(LastFirst[v] \o (IF v < 0 THEN <<"-">> ELSE <<>>))

HexLastFirst[i \in 0 .. 2^Width] == <<digitsHex[(i % 16) + 1]>> \o (IF i \div 16 = 0 THEN <<>> ELSE HexLastFirst[i \div 16])

convertHex(v) == Reverse(HexLastFirst[v])

-----------------------------------------------------------------------------
(* FixedBuffer and LogStream: what one operator<< appends to the buffer b *)

available(b) == Capacity - Len(b)

lineAppend(b, text) == IF Len(text) < available(b) THEN b \o text ELSE b
appendString(b, text) == b \o SubSeq(text, 1, IF Len(text) > available(b) THEN available(b) ELSE Len(text))

NumberFits(b) == available(b) >= NumericSize

formatInteger(b, v) == IF NumberFits(b) THEN b \o convert(v) ELSE b
formatPointer(b, v) == IF NumberFits(b) THEN b \o <<"0", "x">> \o convertHex(v) ELSE b

Letters(c, n) == [k \in 1 .. n |-> c]

\* The header of a line, and its tail
Header == formatInteger(appendString(<<>>, Letters("h", 2)), 7)
TailOf(b) == lineAppend(formatInteger(lineAppend(b, Letters("t", 2)), 7), <<"nl">>)

-----------------------------------------------------------------------------
(* Logger *)

setLogLevel(l) == phase = "idle" /\ g_loglevel' = l /\ UNCHANGED <<phase, level_, buffer, high, values, number, line>>

\* The macros LOG_INFO and so on
Logger(l) ==
    /\ phase = "idle" /\ g_loglevel <= l
    /\ phase' = "open" /\ level_' = l /\ buffer' = Header /\ high' = Len(Header) /\ values' = 0 /\ number' = NoNumber
    /\ line' = <<>> /\ UNCHANGED g_loglevel

Streamed(b, n, end) ==
    /\ phase = "open" /\ values < MaxValues
    /\ buffer' = b /\ number' = n /\ high' = (IF end > high THEN end ELSE high) /\ values' = values + 1
    /\ UNCHANGED <<g_loglevel, phase, level_, line>>

\* operator<< for characters and C strings, for std::string, for integers, and for pointers.  convert ends its text with
\* a zero behind what it counts
StreamText(n) == LET b == lineAppend(buffer, Letters("m", n)) IN Streamed(b, NoNumber, Len(b))
StreamString(n) == LET b == appendString(buffer, Letters("m", n)) IN Streamed(b, NoNumber, Len(b))
StreamInteger(v) ==
    LET b == formatInteger(buffer, v)
    IN  Streamed(b, IF b = buffer THEN NoNumber ELSE [v |-> v, text |-> SubSeq(b, Len(buffer) + 1, Len(b))], IF b = buffer THEN 0 ELSE Len(b) + 1)
StreamPointer(v) == LET b == formatPointer(buffer, v) IN Streamed(b, NoNumber, Len(b))

\* ~Logger: the line goes to the output function, and a fatal one ends the program
Destroyed ==
    /\ phase = "open"
    /\ line' = TailOf(buffer) /\ phase' = (IF level_ >= FATAL THEN "aborted" ELSE "idle")
    /\ buffer' = <<>> /\ high' = 0 /\ values' = 0 /\ number' = NoNumber
    /\ UNCHANGED <<g_loglevel, level_>>

LineNext ==
    \/ \E l \in Levels : setLogLevel(l) \/ Logger(l)
    \/ \E n \in LineLengths : StreamText(n) \/ StreamString(n)
    \/ \E v \in Numbers : StreamInteger(v) \/ (v >= 0 /\ StreamPointer(v))
    \/ Destroyed

LineSpec == LineInit /\ [][LineNext]_lineVars

-----------------------------------------------------------------------------

\* However many values are streamed, in whatever order, no operator writes behind the end of the buffer, the zero that
\* convert puts behind a number included.
InBounds == high <= Capacity /\ Len(line) <= Capacity

\* A line ends with a newline unless its values have filled the buffer: then the tail, of which each part is left out
\* on its own, may have lost it and the next line continues this one.
LineEnds == line # <<>> => line[Len(line)] = "nl" \/ Len(line) >= Capacity - 1

\* The value that a text of digits stands for
ValueOf[t \in Seq({"0", "1", "2", "3", "4", "5", "6", "7", "8", "9"})] ==
    IF t = <<>> THEN 0 ELSE 10 * ValueOf[Front(t)] + ((CHOOSE k \in 1 .. 10 : digitsHex[k] = Last(t)) - 1)

\* A printed number is read back as itself, the most negative one included, whose sign cannot be turned, and without
\* leading zeros.
NumberReadsBack ==
    number.text # <<>> =>
        /\ number.v = IF number.text[1] = "-" THEN -ValueOf[Tail(number.text)] ELSE ValueOf[number.text]
        /\ (number.text[1] = "0" => number.text = <<"0">>)
-----------------------------------------------------------------------------
(***************************************************************************)
(* The copy of logging.muduo in ComponentsW: the asynchronous logger,      *)
(* which has a name for its thread, the rolling log file, and the log      *)
(* line.  Where nothing is said the code is that of the original, and      *)
(* every step is the one above.                                            *)
(***************************************************************************)

-----------------------------------------------------------------------------
(***************************************************************************)
(* ComponentsW/logging.muduo/AsyncLogging.cpp                              *)
(***************************************************************************)

PortAsyncInit == AsyncInit
PortStart == start
PortStop == stop
PortStopReturns == stopReturns
PortAsyncAppend == asyncAppend
PortThreadBegins == threadBegins
PortThreadLoops == threadLoops
PortWaitTimesOut == waitTimesOut
PortThreadSwaps == threadSwaps
PortThreadWrites == threadWrites
PortThreadRefills == threadRefills

PortAsyncNext ==
    \/ PortStart \/ PortStop \/ PortStopReturns \/ PortAsyncAppend
    \/ PortThreadBegins \/ PortThreadLoops \/ PortWaitTimesOut \/ PortThreadSwaps \/ PortThreadWrites \/ PortThreadRefills

-----------------------------------------------------------------------------
\* What was appended and not dropped is in the file or in some buffer, once and in order (AsyncLogging.cpp:74, 128)
PortInOrder == InOrder
-----------------------------------------------------------------------------
(***************************************************************************)
(* ComponentsW/logging.muduo/LogFile.cpp                                   *)
(***************************************************************************)

PortFileInit == FileInit
PortRollFile == rollFile
PortFlush == flush
PortAppend_unlocked(got) == append_unlocked(got)

PortFileNext == Tick \/ PortFlush \/ \E got \in FileLengths : PortAppend_unlocked(got)

-----------------------------------------------------------------------------
\* No file grows past rollSize_ by more than one entry, unless two are rolled within one second (LogFile.cpp:40, 76)
PortSizeBounded == SizeBounded
-----------------------------------------------------------------------------
(***************************************************************************)
(* The log line of ComponentsW (logging.muduo/Logging.cpp, LogStream.cpp,  *)
(* common/FixedBuffer.h): file and line number are part of the header, and *)
(* a text that does not fit is cut instead of left out.                    *)
(***************************************************************************)

PortLineInit == LineInit

PortConvert(v) == convert(v)
PortConvertHex(v) == convertHex(v)
PortFormatInteger(b, v) == formatInteger(b, v)
PortFormatPointer(b, v) == formatPointer(b, v)
PortAppendString(b, text) == appendString(b, text)

PortLineAppend(b, text) == b \o SubSeq(text, 1, IF Len(text) > available(b) THEN available(b) ELSE Len(text))

PortHeader == PortFormatInteger(PortLineAppend(PortFormatInteger(PortAppendString(<<>>, <<"h">>), 7), <<"h">>), 7)

PortSetLogLevel(l) == setLogLevel(l)

PortLogger(l) ==
    /\ phase = "idle" /\ g_loglevel <= l
    /\ phase' = "open" /\ level_' = l /\ buffer' = PortHeader /\ high' = Len(PortHeader) /\ values' = 0 /\ number' = NoNumber
    /\ line' = <<>> /\ UNCHANGED g_loglevel

PortStreamText(n) == LET b == PortLineAppend(buffer, Letters("m", n)) IN Streamed(b, NoNumber, Len(b))
PortStreamString(n) == StreamString(n)
PortStreamInteger(v) == StreamInteger(v)
PortStreamPointer(v) == StreamPointer(v)

PortDestroyed ==
    /\ phase = "open"
    /\ line' = PortLineAppend(buffer, <<"nl">>) /\ phase' = (IF level_ >= FATAL THEN "aborted" ELSE "idle")
    /\ buffer' = <<>> /\ high' = 0 /\ values' = 0 /\ number' = NoNumber
    /\ UNCHANGED <<g_loglevel, level_>>

PortLineNext ==
    \/ \E l \in Levels : PortSetLogLevel(l) \/ PortLogger(l)
    \/ \E n \in LineLengths : PortStreamText(n) \/ PortStreamString(n)
    \/ \E v \in Numbers : PortStreamInteger(v) \/ (v >= 0 /\ PortStreamPointer(v))
    \/ PortDestroyed

-----------------------------------------------------------------------------
\* A line ends with a newline unless its values filled the buffer to the last byte (ComponentsW/common/FixedBuffer.h:52)
PortLineEnds == line # <<>> => line[Len(line)] = "nl" \/ Len(line) = Capacity
=============================================================================
