------------------------------- MODULE ScanKeys -----------------------------
(***************************************************************************)
(* RedisClient::scanKeys and getKeys (gb/downdatarestorer_norah/           *)
(* redisclient.cpp).  scanKeys walks the masters page by page with SCAN    *)
(* until it has enough keys; the cursor of a cluster is kept in            *)
(* m_clusterMap, where all callers share it.  getKeys asks every master    *)
(* once.  The cursor of a page is its number; a page of the keyspace may   *)
(* hold no key that matches.                                               *)
(***************************************************************************)
EXTENDS Integers, FiniteSets, SequencesExt

CONSTANTS Callers,
          Layouts,      \* keyspaces: per cluster the sequence of pages, each a set of keys
          Counts,       \* values of the parameter count
          MaxFaults     \* commands that fail, and errors that are answered

VARIABLES layout, count,
          mode,         \* "loop" or "noloop"
          cursor,       \* m_clusterMap[...].scanCursor; -1 when the cluster left the map
          pc,           \* per caller: "idle", "visit", "answer", "backup", "keys" or "done"
          at,           \* per caller: clusterIter
          info,         \* per caller: the cursor in its copy of the cluster's record
          keys,         \* per caller: the keys found
          faults,
          met           \* "shared", "gone", "backup", "failed"

vars == <<layout, count, mode, cursor, pc, at, info, keys, faults, met>>

Clusters == 1 .. Len(layout)
Gone == -1
KeysOf(c) == UNION Range(layout[c])

Init == /\ layout \in Layouts /\ count \in Counts /\ mode \in {"loop", "noloop"}
        /\ cursor = [c \in Clusters |-> 0]
        /\ pc = [t \in Callers |-> "idle"] /\ at = [t \in Callers |-> 1]
        /\ info = [t \in Callers |-> 0] /\ keys = [t \in Callers |-> <<>>]
        /\ faults = 0 /\ met = {}

-----------------------------------------------------------------------------
(* scanKeys                                                                *)

BeginScan(t) ==
    /\ pc[t] = "idle" /\ pc' = [pc EXCEPT ![t] = "visit"]
    /\ met' = IF \E u \in Callers \ {t} : pc[u] # "idle" THEN met \union {"shared"} ELSE met
    /\ UNCHANGED <<layout, count, mode, cursor, at, info, keys, faults>>

\* Wrong on purpose: goes on to the next cluster after every page
NextPageNever(t, new, ret) ==
    IF Len(new) >= count THEN pc' = [pc EXCEPT ![t] = "done"] /\ UNCHANGED at
    ELSE pc' = [pc EXCEPT ![t] = "visit"] /\ at' = [at EXCEPT ![t] = @ + 1]

\* What scanKeys does with the keys it has now and the cursor that was answered
NextPage(t, new, ret) ==
    IF Len(new) >= count THEN pc' = [pc EXCEPT ![t] = "done"] /\ UNCHANGED at
    ELSE /\ pc' = [pc EXCEPT ![t] = "visit"]
         /\ at' = IF ret # 0 THEN at ELSE [at EXCEPT ![t] = @ + 1]

ScanEnd(t) ==
    /\ pc[t] = "visit" /\ at[t] > Len(layout) /\ pc' = [pc EXCEPT ![t] = "done"]
    /\ UNCHANGED <<layout, count, mode, cursor, at, info, keys, faults, met>>

\* getRedisClusterInfo: a cluster that left the map is asked for again and again
Visit(t) ==
    /\ pc[t] = "visit" /\ at[t] <= Len(layout)
    /\ IF cursor[at[t]] = Gone THEN UNCHANGED <<pc, info>>
       ELSE pc' = [pc EXCEPT ![t] = "answer"] /\ info' = [info EXCEPT ![t] = cursor[at[t]]]
    /\ UNCHANGED <<layout, count, mode, cursor, at, keys, faults, met>>

\* fillScanCommandPara
fillScanCommandPara(c) == IF mode = "noloop" THEN 0 ELSE c

\* The page that the server answers, and its cursor; a cursor that is too large starts again
Page(c, cur) == layout[c][IF cur < Len(layout[c]) THEN cur + 1 ELSE 1]
Following(c, cur) == IF cur + 1 < Len(layout[c]) THEN cur + 1 ELSE 0

\* parseScanKeysReply and updateClusterCursor, which writes under a read lock
updateClusterCursor(c, new) == cursor' = IF cursor[c] = Gone THEN cursor ELSE [cursor EXCEPT ![c] = new]

Answer(t) ==
    /\ pc[t] = "answer"
    /\ LET c == at[t]
           sent == fillScanCommandPara(info[t])
           new == keys[t] \o SetToSeq(Page(c, sent))
       IN  /\ keys' = [keys EXCEPT ![t] = new]
           /\ updateClusterCursor(c, Following(c, sent))
           /\ NextPage(t, new, Following(c, sent))
    /\ UNCHANGED <<layout, count, mode, info, faults, met>>

\* An error instead of a page: retCursor is -1, the same page is asked for again
AnswerError(t) ==
    /\ pc[t] = "answer" /\ faults < MaxFaults /\ faults' = faults + 1
    /\ NextPage(t, keys[t], -1)
    /\ UNCHANGED <<layout, count, mode, cursor, info, keys, met>>

\* The command fails: the backup is asked, or the next cluster when it has none
AnswerFails(t) ==
    /\ pc[t] = "answer" /\ faults < MaxFaults /\ faults' = faults + 1
    /\ \/ pc' = [pc EXCEPT ![t] = "backup"] /\ UNCHANGED <<at, met>>
       \/ pc' = [pc EXCEPT ![t] = "visit"] /\ at' = [at EXCEPT ![t] = @ + 1] /\ met' = met \union {"failed"}
    /\ UNCHANGED <<layout, count, mode, cursor, info, keys>>

\* The backup has a cursor of its own, which nobody moves: its first page comes again and
\* again until there are enough keys; the iterator moves only when a command fails
Backup(t) ==
    /\ pc[t] = "backup"
    /\ LET c == at[t]
           new == keys[t] \o SetToSeq(Page(c, 0))
       IN  /\ keys' = [keys EXCEPT ![t] = new]
           /\ updateClusterCursor(c, Following(c, 0))
           /\ pc' = IF Len(new) >= count THEN [pc EXCEPT ![t] = "done"] ELSE pc
    /\ met' = met \union {"backup"}
    /\ UNCHANGED <<layout, count, mode, at, info, faults>>

BackupFails(t) ==
    /\ pc[t] = "backup" /\ faults < MaxFaults /\ faults' = faults + 1
    /\ pc' = [pc EXCEPT ![t] = "visit"] /\ at' = [at EXCEPT ![t] = @ + 1]
    /\ met' = met \union {"failed"}
    /\ UNCHANGED <<layout, count, mode, cursor, info, keys>>

-----------------------------------------------------------------------------
(* getKeys                                                                 *)

BeginKeys(t) ==
    /\ pc[t] = "idle" /\ pc' = [pc EXCEPT ![t] = "keys"]
    /\ UNCHANGED <<layout, count, mode, cursor, at, info, keys, faults, met>>

\* A cluster that left the map is skipped
KeysOfCluster(t) ==
    /\ pc[t] = "keys"
    /\ IF at[t] > Len(layout)
       THEN pc' = [pc EXCEPT ![t] = "done"] /\ UNCHANGED <<at, keys>>
       ELSE /\ keys' = IF cursor[at[t]] = Gone THEN keys
                       ELSE [keys EXCEPT ![t] = @ \o SetToSeq(KeysOf(at[t]))]
            /\ at' = [at EXCEPT ![t] = @ + 1] /\ UNCHANGED pc
    /\ UNCHANGED <<layout, count, mode, cursor, info, faults, met>>

\* The command fails: all backups are asked, and the answers of all are appended to the same
\* reply; a cluster whose backups fail too, or that has none, is left out
KeysFromBackups(t) ==
    /\ pc[t] = "keys" /\ at[t] <= Len(layout) /\ cursor[at[t]] # Gone
    /\ faults < MaxFaults /\ faults' = faults + 1
    /\ \E n \in 0 .. 2 :
        /\ keys' = [keys EXCEPT ![t] = @ \o FlattenSeq([i \in 1 .. n |-> SetToSeq(KeysOf(at[t]))])]
        /\ met' = met \union (IF n = 0 THEN {"failed"} ELSE {}) \union (IF n = 2 THEN {"backup"} ELSE {})
    /\ at' = [at EXCEPT ![t] = @ + 1]
    /\ UNCHANGED <<layout, count, mode, cursor, pc, info>>

\* A refresh of the nodes drops a cluster from the map
Leave(c) ==
    /\ cursor[c] # Gone /\ cursor' = [cursor EXCEPT ![c] = Gone] /\ met' = met \union {"gone"}
    /\ UNCHANGED <<layout, count, mode, pc, at, info, keys, faults>>

Caller(t) ==
    \/ BeginScan(t) \/ Visit(t) \/ Answer(t) \/ AnswerError(t) \/ AnswerFails(t) \/ Backup(t) \/ BackupFails(t) \/ ScanEnd(t)
    \/ BeginKeys(t) \/ KeysOfCluster(t) \/ KeysFromBackups(t)
Proceed(t) == Visit(t) \/ Answer(t) \/ Backup(t) \/ ScanEnd(t) \/ KeysOfCluster(t)

Next == (\E t \in Callers : Caller(t)) \/ (\E c \in Clusters : Leave(c))

Spec == Init /\ [][Next]_vars /\ WF_vars(\E t \in Callers : Proceed(t))

-----------------------------------------------------------------------------
AllKeys == UNION {KeysOf(c) : c \in Clusters}
Finished(t) == pc[t] = "done"

\* In loop mode a scan that ends before it has enough keys has found every key of every
\* master exactly once, if nobody scanned at the same time and no cluster failed for good,
\* was asked through its backup, or left the map; so has getKeys.
ScanComplete ==
    \A t \in Callers :
        Finished(t) /\ Len(keys[t]) < count /\ mode = "loop" /\ met = {} =>
            Range(keys[t]) = AllKeys /\ IsInjective(keys[t])

\* Two scans that share the cursors find every key between them.
ScansCoverTogether ==
    (\A t \in Callers : Finished(t) /\ Len(keys[t]) < count) /\ mode = "loop" /\ met \subseteq {"shared"} =>
        UNION {Range(keys[t]) : t \in Callers} = AllKeys

FirstPagesHit == \A c \in Clusters : Len(layout[c]) = 1 \/ layout[c][1] # {}

\* A scan ends, also when another one moves the same cursors; but it repeats for ever if a
\* cluster leaves the map, if a backup's first page has no match, or, in the other mode, if
\* the first of several pages has none.
ScanEnds ==
    (\E t \in Callers : pc[t] \notin {"idle", "done"}) ~>
        ((\A t \in Callers : pc[t] \in {"idle", "done"}) \/ met \intersect {"gone", "backup"} # {}
            \/ (mode = "noloop" /\ ~FirstPagesHit))
=============================================================================
