------------------------------ MODULE MCLibrary ------------------------------
(***************************************************************************)
(* The locks that the restorers stand on, and one instance of each part    *)
(* beside them: sockets, names of keys, streams of fields, the earlier     *)
(* client library, what was taken from LevelDB, logs, the nginx modules,   *)
(* the SQLite studies and the libevent examples.  part picks the one that  *)
(* runs; the locks have their own variables, the others share x1 .. x20.  *)
(***************************************************************************)
EXTENDS Locks

Numbers == {0, -1, 100, 127, -128, 9}
HashOf(k) == k

VARIABLES part, x1, x2, x3, x4, x5, x6, x7, x8, x9, x10, x11, x12, x13, x14, x15, x16, x17, x18, x19, x20

sockets == INSTANCE Socket
    WITH Objs <- {"a", "b"}, MaxFd <- 3, ClosingEvents <- {"hup", "inhup", "other"}, MaxIncidents <- 1,
         open <- x1, fd <- x2, handler <- x3, met <- x4

lsockets == INSTANCE LinkerTransport
    WITH Objs <- {"a", "b"}, MaxFd <- 2, ClosingEvents <- {"hup", "other"}, MaxIncidents <- 1, Few <- TRUE,
         Addrs <- {1}, MaxSlaves <- 1, Inputs <- {}, Servers <- 1, MaxSlot <- 1,
         wire <- x1, setup <- x2, unparse <- x3, buf <- x4, pos <- x5, mallocLen <- x6, valid <- x7, pc <- x8,
         parser <- x9, reply <- x10, parseState <- x11, arrayNum <- x12, doneNum <- x13, arrayLen <- x14,
         haveArray <- x15, curArray <- x16, info <- x17, kind <- x1, truth <- x2, type <- x3, answer <- x4,
         nread <- x5, count <- x6, found <- x7, result <- x8, task <- x1, answers <- x2, lines <- x3,
         iter <- x4, filled <- x5, done <- x6, clusterMap <- x7, open <- x1, fd <- x2, handler <- x3, met <- x4

forms == INSTANCE StoredForm
    WITH Ids <- {<<0>>, <<7>>, <<7, 1>>}, Base <- 2, MaxWorkers <- 3, MaxFails <- 1, Block <- 4, MaxWidth <- 2,
         MaxString <- 2, MaxList <- 4, MaxItems <- 2, MaxExtra <- 2,
         num <- x1, strings <- x2, sets <- x3, kept <- x4, fails <- x5, inviteMet <- x6, items <- x1,
         data <- x2, capacity <- x3, extra <- x4, got <- x5, pos <- x6, loadError <- x7, phase <- x8,
         streamMet <- x9

bak == INSTANCE Bak
    WITH Num <- 2, MaxGuards <- 2, Batch <- {1, 2}, RepeatTime <- 2, Nodes <- {1, 2, 3}, Slots <- {1, 2},
         MaxChanges <- 3, MaxThreads <- 4,
         use <- x1, refCount <- x2, numWaitingWriters <- x3, numWaitingReads <- x4, rwLock <- x5, pc <- x6,
         guard <- x7, made <- x8, ids <- x1, thdCount <- x2, thread <- x3, cancelled <- x4, fault <- x5,
         met <- x6, isStarted <- x7, repeatCount <- x8, owner <- x9, step <- x10, ran <- x11, cluster <- x1,
         clusterMap <- x2, changes <- x3, done <- x4

bakTimer == INSTANCE Bak
    WITH Num <- 2, MaxGuards <- 2, Batch <- {1, 2}, RepeatTime <- 2, Nodes <- {1, 2, 3}, Slots <- {1, 2},
         MaxChanges <- 3, MaxThreads <- 2,
         use <- x1, refCount <- x2, numWaitingWriters <- x3, numWaitingReads <- x4, rwLock <- x5, pc <- x6,
         guard <- x7, made <- x8, ids <- x1, thdCount <- x2, thread <- x3, cancelled <- x4, fault <- x5,
         met <- x6, isStarted <- x7, repeatCount <- x8, owner <- x9, step <- x10, ran <- x11, cluster <- x1,
         clusterMap <- x2, changes <- x3, done <- x4

leveldb == INSTANCE LevelDb
    WITH Keys <- {1, 2}, MaxHeight <- 2, MaxNodes <- 3, Charges <- {1, 2}, Capacities <- {0, 2},
         CacheKeys <- {"k1", "k2", "k3"}, CacheMaxInserts <- 3, MaxHeld <- 2, TableKeys <- {0, 1, 4, 5, 8},
         Hash <- HashOf, Start <- 4, TableMaxInserts <- 6, BlockSize <- 16, Align <- 4,
         Requests <- {1, 3, 4, 5}, MaxAllocs <- 4,
         key <- x1, height <- x2, next <- x3, nodes <- x4, present <- x5, wpc <- x6, wnode <- x7, pre <- x8,
         wlevel <- x9, rpc <- x10, node_ <- x11, level <- x12, target <- x13, seen <- x14, kept <- x15,
         met <- x16, alive <- x5, pc <- x6, e <- x1, lru_ <- x2, in_use_ <- x3, table_ <- x4, usage_ <- x5,
         capacity_ <- x6, held <- x7, list_ <- x1, elems_ <- x2, map <- x3, serial <- x4, blocks_ <- x1,
         block <- x2, alloc_ptr_ <- x3, remaining <- x4, memory_usage_ <- x5, given <- x6

lists == INSTANCE LevelDb
    WITH Keys <- {1, 2, 3}, MaxHeight <- 2, MaxNodes <- 4, Charges <- {1, 2}, Capacities <- {0, 2},
         CacheKeys <- {"k1", "k2", "k3"}, CacheMaxInserts <- 3, MaxHeld <- 2, TableKeys <- {0, 1, 4, 5, 8},
         Hash <- HashOf, Start <- 4, TableMaxInserts <- 6, BlockSize <- 16, Align <- 4,
         Requests <- {1, 3, 4, 5}, MaxAllocs <- 4,
         key <- x1, height <- x2, next <- x3, nodes <- x4, present <- x5, wpc <- x6, wnode <- x7, pre <- x8,
         wlevel <- x9, rpc <- x10, node_ <- x11, level <- x12, target <- x13, seen <- x14, kept <- x15,
         met <- x16, alive <- x5, pc <- x6, e <- x1, lru_ <- x2, in_use_ <- x3, table_ <- x4, usage_ <- x5,
         capacity_ <- x6, held <- x7, list_ <- x1, elems_ <- x2, map <- x3, serial <- x4, blocks_ <- x1,
         block <- x2, alloc_ptr_ <- x3, remaining <- x4, memory_usage_ <- x5, given <- x6

log == INSTANCE Logging
    WITH Day <- 2, RollSize <- 3, FlushInterval <- 1, FileLengths <- {1, 2}, NumericSize <- 5, Width <- 7,
         LineLengths <- {0, 1, 3, 6}, Size <- 3, Limit <- 3, CheckValues <- {0, 2, 1000}, MaxNow <- 3,
         MaxAppends <- 5, Capacity <- 16, Numbers <- Numbers, MaxValues <- 3, MaxMessages <- 6,
         running <- x1, current <- x2, next <- x3, buffers <- x4, toWrite <- x5, new1 <- x6, new2 <- x7,
         asyncFile <- x8, logged <- x9, dropped <- x10, bpc <- x11, opc <- x12, asyncMet <- x13, now <- x1,
         files <- x2, name <- x3, writtenBytes <- x4, count <- x5, startOfPeriod <- x6, lastFlush <- x7,
         flushed <- x8, checkEveryN <- x9, appends <- x10, fileMet <- x11, g_loglevel <- x1, phase <- x2,
         level_ <- x3, buffer <- x4, high <- x5, values <- x6, number <- x7, line <- x8

port == INSTANCE Logging
    WITH Day <- 2, RollSize <- 3, FlushInterval <- 1, FileLengths <- {1, 2}, NumericSize <- 5, Width <- 7,
         LineLengths <- {0, 1, 3, 6}, Size <- 3, Limit <- 3, CheckValues <- {0, 2}, MaxNow <- 2,
         MaxAppends <- 4, Capacity <- 14, Numbers <- Numbers, MaxValues <- 2, MaxMessages <- 6,
         running <- x1, current <- x2, next <- x3, buffers <- x4, toWrite <- x5, new1 <- x6, new2 <- x7,
         asyncFile <- x8, logged <- x9, dropped <- x10, bpc <- x11, opc <- x12, asyncMet <- x13, now <- x1,
         files <- x2, name <- x3, writtenBytes <- x4, count <- x5, startOfPeriod <- x6, lastFlush <- x7,
         flushed <- x8, checkEveryN <- x9, appends <- x10, fileMet <- x11, g_loglevel <- x1, phase <- x2,
         level_ <- x3, buffer <- x4, high <- x5, values <- x6, number <- x7, line <- x8

nginx == INSTANCE NginxModules
    WITH PrefixLen <- 2, Lens <- {0, 1, 2}, MaxPieces <- 4, MaxHeaders <- 3, MaxChars <- 8, PoolSizes <- {26},
         Requests <- {3, 8, 9}, FailLimit <- 0, MaxAllocs <- 5, MaxFd <- 2, MaxFails <- 1,
         contentHandler <- x1, method <- x2, enable <- x3, allow <- x4, allownew <- x5, addr <- x6,
         chrome <- x7, pc <- x8, returned <- x9, count <- x10, contentStatus <- x11, length <- x12,
         header <- x13, only <- x14, ctx <- x15, body <- x16, file <- x17, contentCleanup <- x18,
         complete <- x19, contentMet <- x20, upstreamAnswer <- x1, arrived <- x2, process_header <- x3,
         zeroed <- x4, pos <- x5, headers <- x6, rc <- x7, upstreamMet <- x8, subStatus <- x1, reply <- x2,
         subAt <- x3, flag <- x4, subData <- x5, len <- x6, printed <- x7, subMet <- x8, pool <- x1,
         ngxCleanup <- x2, owner <- x3, phase <- x4, ngxFails <- x5, hurt <- x6

sqlite == INSTANCE SqliteStudy
    WITH Order <- 3, Keys <- 1 .. 6, Sizes <- {60, 124, 642}, MaxLarge <- 2, MxPages <- 2, Pages <- {1, 2, 3},
         Values <- {1}, Users <- {"u", "v"}, MaxFails <- 1, Handles <- {"g", "h"}, Names <- {"m", "n"},
         MaxFd <- 3, MaxFiles <- 2,
         pagerKey <- x1, content <- x2, nref <- x3, dirty <- x4, allocated <- x5, hashed <- x6, npage <- x7,
         lru <- x8, dirtyList <- x9, pagerFile <- x10, pagerSize <- x11, holds <- x12, db <- x13, fails <- x14,
         pagerPc <- x15, pagerMet <- x16, list <- x1, fd <- x2, filename <- x3, opened <- x4, disk <- x5,
         files <- x6, mine <- x7, wrong <- x8, vfsMet <- x9, root <- x1, treePc <- x2, stored <- x3,
         treeMet <- x4

echo == INSTANCE EventEcho
    WITH ClientSize <- 3, ServerSize <- 5, PrefixLen <- 2, ReadMax <- 5, Room <- 6, MaxTyped <- 6,
         cv <- x1, sv <- x2, client <- x3, cmd <- x4, server <- x5, peer <- x6, typed <- x7, queued <- x8,
         up <- x9, sin <- x10, taken <- x11, squeued <- x12, down <- x13, cin <- x14, shown <- x15,
         cfin <- x16, sfin <- x17, met <- x18

-----------------------------------------------------------------------------
(* RestN: what a part of N variables leaves alone; ZeroN: the value it has *)

Zero20 == TRUE
Rest20 == <<part, guardVars, latchVars>>
Zero18 == x19 = 0 /\ x20 = 0 /\ Zero20
Rest18 == <<x19, x20, Rest20>>
Zero16 == x17 = 0 /\ x18 = 0 /\ Zero18
Rest16 == <<x17, x18, Rest18>>
Zero13 == x14 = 0 /\ x15 = 0 /\ x16 = 0 /\ Zero16
Rest13 == <<x14, x15, x16, Rest16>>
Zero11 == x12 = 0 /\ x13 = 0 /\ Zero13
Rest11 == <<x12, x13, Rest13>>
Zero9 == x10 = 0 /\ x11 = 0 /\ Zero11
Rest9 == <<x10, x11, Rest11>>
Zero8 == x9 = 0 /\ Zero9
Rest8 == <<x9, Rest9>>
Zero7 == x8 = 0 /\ Zero8
Rest7 == <<x8, Rest8>>
Zero6 == x7 = 0 /\ Zero7
Rest6 == <<x7, Rest7>>
Zero4 == x5 = 0 /\ x6 = 0 /\ Zero6
Rest4 == <<x5, x6, Rest6>>
Zero0 == x1 = 0 /\ x2 = 0 /\ x3 = 0 /\ x4 = 0 /\ Zero4
Rest0 == <<x1, x2, x3, x4, Rest4>>
others == <<x1, x2, x3, x4, x5, x6, x7, x8, x9, x10, x11, x12, x13, x14, x15, x16, x17, x18, x19, x20>>
libraryVars == <<part, guardVars, latchVars, others>>

LibraryInit ==
    /\ GuardInit /\ LatchInit
    /\ \/ part \in {"guards", "latch"} /\ Zero0
       \/ part = "invites" /\ forms!InviteInit /\ Zero6
       \/ part = "socket" /\ sockets!Init /\ Zero4
       \/ part = "lsocket" /\ lsockets!SocketInit /\ Zero4
       \/ part = "stream" /\ forms!StreamInit /\ Zero9
       \/ part = "rwmutex" /\ bak!RwInit /\ Zero8
       \/ part = "threads" /\ bak!PoolInit /\ Zero6
       \/ part = "timer" /\ bakTimer!TimerInit /\ Zero11
       \/ part = "monitor" /\ bak!MonitorInit /\ Zero4
       \/ part = "skiplist" /\ leveldb!ListInit /\ Zero16
       \/ part = "arenaList" /\ lists!ArenaInit /\ Zero16
       \/ part = "lite" /\ lists!LiteInit /\ Zero6
       \/ part = "cache" /\ leveldb!CacheInit /\ Zero7
       \/ part = "table" /\ leveldb!TableInit /\ Zero4
       \/ part = "arena" /\ leveldb!MemInit /\ Zero6
       \/ part = "logFile" /\ log!FileInit /\ Zero11
       \/ part = "logLine" /\ log!LineInit /\ Zero8
       \/ part = "async" /\ port!PortAsyncInit /\ Zero13
       \/ part = "portFile" /\ port!PortFileInit /\ Zero11
       \/ part = "portLine" /\ port!PortLineInit /\ Zero8
       \/ part = "content" /\ nginx!ContentInit /\ Zero20
       \/ part = "upstream" /\ nginx!UpstreamInit /\ Zero8
       \/ part = "subrequest" /\ nginx!SubInit /\ Zero8
       \/ part = "ngxpool" /\ nginx!NgxInit /\ Zero6
       \/ part = "tree" /\ sqlite!TreeInit /\ Zero4
       \/ part = "pager" /\ sqlite!PagerInit /\ Zero16
       \/ part = "vfs" /\ sqlite!VfsInit /\ Zero9
       \/ part = "echo" /\ echo!Init /\ Zero18

LibraryNext ==
    \/ part = "guards" /\ GuardNext /\ UNCHANGED <<part, latchVars, others>>
    \/ part = "latch" /\ LatchNext /\ UNCHANGED <<part, guardVars, others>>
    \/ part = "invites" /\ forms!InviteNext /\ UNCHANGED Rest6
    \/ part = "socket" /\ sockets!Next /\ UNCHANGED Rest4
    \/ part = "lsocket" /\ lsockets!SocketNext /\ UNCHANGED Rest4
    \/ part = "stream" /\ forms!StreamNext /\ UNCHANGED Rest9
    \/ part = "rwmutex" /\ bak!RwNext /\ UNCHANGED Rest8
    \/ part = "threads" /\ bak!PoolNext /\ UNCHANGED Rest6
    \/ part = "timer" /\ bakTimer!TimerNext /\ UNCHANGED Rest11
    \/ part = "monitor" /\ bak!MonitorNext /\ UNCHANGED Rest4
    \/ part = "skiplist" /\ leveldb!ListNext /\ UNCHANGED Rest16
    \/ part = "arenaList" /\ lists!ArenaNext /\ UNCHANGED Rest16
    \/ part = "lite" /\ lists!LiteNext /\ UNCHANGED Rest6
    \/ part = "cache" /\ leveldb!CacheNext /\ UNCHANGED Rest7
    \/ part = "table" /\ leveldb!TableNext /\ UNCHANGED Rest4
    \/ part = "arena" /\ leveldb!MemNext /\ UNCHANGED Rest6
    \/ part = "logFile" /\ log!FileNext /\ UNCHANGED Rest11
    \/ part = "logLine" /\ log!LineNext /\ UNCHANGED Rest8
    \/ part = "async" /\ port!PortAsyncNext /\ UNCHANGED Rest13
    \/ part = "portFile" /\ port!PortFileNext /\ UNCHANGED Rest11
    \/ part = "portLine" /\ port!PortLineNext /\ UNCHANGED Rest8
    \/ part = "content" /\ nginx!ContentNext /\ UNCHANGED Rest20
    \/ part = "upstream" /\ nginx!UpstreamNext /\ UNCHANGED Rest8
    \/ part = "subrequest" /\ nginx!SubNext /\ UNCHANGED Rest8
    \/ part = "ngxpool" /\ nginx!NgxNext /\ UNCHANGED Rest6
    \/ part = "tree" /\ sqlite!TreeNext /\ UNCHANGED Rest4
    \/ part = "pager" /\ sqlite!PagerNext /\ UNCHANGED Rest16
    \/ part = "vfs" /\ sqlite!VfsNext /\ UNCHANGED Rest9
    \/ part = "echo" /\ echo!Next /\ UNCHANGED Rest18

LibrarySpec == LibraryInit /\ [][LibraryNext]_libraryVars

-----------------------------------------------------------------------------
\* The threads of gb/bak: its guards exclude each other as their names say and no wake-up is lost; a pool finds every
\* thread that runs, and who has joined may rely on it; a timer that is started runs, as often as it was asked to, and
\* in one thread at a time (Bak).
ThreadsTogether ==
    /\ part = "rwmutex" => bak!Exclusion /\ bak!NobodyForgotten
    /\ part = "threads" => bak!JoinMeansEnded /\ bak!ThreadsInArray
    /\ part = "timer" => bakTimer!StartedMeansRunning /\ bakTimer!RunsAsOften /\ bakTimer!OneTimerThread

\* What is written is read: the fields of a stream and none that is missing and the commands of a worker, by that
\* worker (StoredForm), the nodes of the cluster (Bak), the numbers and the ends of log lines, and log files of one day
\* and of their size (Logging).
ValuesKept ==
    /\ part = "stream" => forms!RoundTrip /\ forms!MissingIsEmpty
    /\ part = "invites" => forms!WorkersApart
    /\ part = "monitor" => bak!MapFollows
    /\ part = "logLine" => log!InBounds /\ log!LineEnds /\ log!NumberReadsBack
    /\ part = "portLine" => port!PortLineEnds
    /\ part = "logFile" => log!SizeBounded /\ log!OneDayPerFile
    /\ part = "portFile" => port!PortSizeBounded

\* The data structures hold what was put into them: skip lists, for readers at any time of a writer, the hash table,
\* the lists of the cache (LevelDb), the pages of the pager and the keys of the B+ tree (SqliteStudy).
StructuresKept ==
    /\ part = "skiplist" => leveldb!ScanMeetsAll /\ leveldb!SeekRight /\ leveldb!LevelsAgree
    /\ part = "arenaList" => lists!FoundExactly
    /\ part = "lite" => lists!LevelsSorted
    /\ part = "table" => leveldb!TableIsMap
    /\ part = "cache" => leveldb!ListsMatchTable
    /\ part = "pager" => sqlite!HoldsCommitted /\ sqlite!OneFramePerPage /\ sqlite!ListsExact
    /\ part = "tree" => sqlite!SearchFinds /\ sqlite!Balanced /\ sqlite!GivesUpWhenFull

\* Bytes arrive in order, without a gap and once: what is typed and its echo (EventEcho), the messages of the copied
\* logger (Logging), the length and the prefix of an nginx response, the headers of an upstream's answer however it
\* is cut, and the fields of a subrequest's (NginxModules).
MessagesKept ==
    /\ part = "echo" => echo!NothingTypedIsLost /\ echo!EchoIsWhatWasRead /\ echo!BuffersHold
    /\ part = "async" => port!PortInOrder
    /\ part = "content" => nginx!LengthMatches /\ nginx!PrefixFirst
    /\ part = "upstream" => nginx!HeadersOnce
    /\ part = "subrequest" => nginx!FieldsSplit

\* What is taken is given back once, and used in between only: descriptors (Socket, LinkerTransport), references and
\* files of a request, regions, heap blocks and files of a pool (NginxModules), files of handles (SqliteStudy), nodes,
\* cache entries and regions (LevelDb), and bufferevents (EventEcho).
ResourcesBalance ==
    /\ part = "socket" => sockets!OwnsItsDescriptor /\ sockets!NothingLeaked /\ sockets!ConnectedBlocks
    /\ part = "lsocket" => lsockets!OwnsItsDescriptor
    /\ part = "content" => nginx!ReferencesBalance /\ nginx!FilesClosed
    /\ part = "ngxpool" => nginx!RegionsApart /\ nginx!PassesOnlyFailed /\ nginx!HeapExact /\ nginx!ClosedOnce
    /\ part = "vfs" => sqlite!OpenOnce /\ sqlite!WritesItsFile
    /\ part = "lite" => lists!AllDeleted
    /\ part = "cache" => leveldb!ReferencesExact
    /\ part = "arena" => leveldb!RegionsApart /\ leveldb!ResultsAligned
    /\ part = "echo" => echo!FreedIsNotUsed
=============================================================================
