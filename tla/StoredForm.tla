----------------------------- MODULE StoredForm -----------------------------
(***************************************************************************)
(* How gb/downdatarestorer_norah lays out what it stores in Redis: the     *)
(* names of the keys of a worker's invites (executinginvitecmdmgr.cpp),    *)
(* and the fields inside a value (dbstream). The two parts are             *)
(* independent.                                                            *)
(***************************************************************************)
EXTENDS Integers, Sequences, SequencesExt, FiniteSets

-----------------------------------------------------------------------------
(***************************************************************************)
(* The keys of the executing invites of several workers in Redis           *)
(* (gb/downdatarestorer_norah, executinginvitecmdmgr.cpp).  The set of     *)
(* worker w is at prefix w, the record of its command id at prefix w id:   *)
(* the same prefix, and nothing between the number and the id.  What       *)
(* InsertInCluster and DeleteInCluster undo is at prefix id, without the   *)
(* worker.  A string is a sequence of numbers; workers are written in base *)
(* Base, so Digit(c) says that c is a digit.  Every operation holds its    *)
(* worker's lock and is one step here: EntityStore looks at the steps of   *)
(* an operation, and at its failures in transactions.                      *)
(***************************************************************************)

CONSTANTS Ids,                \* non-empty strings
          Base, MaxWorkers,   \* MaxWorkers <= Base * Base
          MaxFails

VARIABLES num,        \* worker_thread_num_; does not change
          strings,    \* what is at a key: the <<worker, id>> of the record, NoRecord, or
          sets,       \* the members of the set at a key
          kept,       \* of each worker: the ids that its operations promised
          fails, inviteMet  \* met: an id that begins with a digit was used by more than Base workers or in an undo

inviteVars == <<num, strings, sets, kept, fails, inviteMet>>

Digit(c) == c < Base
ToText(w) == IF w < Base THEN <<w>> ELSE <<w \div Base, w % Base>>
Workers == 0..num - 1
AllWorkers == 0..MaxWorkers - 1

SetKey(w) == ToText(w)
Key(w, id) == ToText(w) \o id
UndoKey(id) == id

Keys == {SetKey(w) : w \in AllWorkers} \cup {Key(w, id) : w \in AllWorkers, id \in Ids} \cup Ids
NoRecord == <<>>

InviteInit ==
    /\ num \in 1..MaxWorkers
    /\ strings = [k \in Keys |-> NoRecord] /\ sets = [k \in Keys |-> {}]
    /\ kept = [w \in AllWorkers |-> {}] /\ fails = 0 /\ inviteMet = FALSE

-----------------------------------------------------------------------------
(* Redis: each takes and returns a store [strings, sets] *)

Store == [strings |-> strings, sets |-> sets]
set(s, k, record) == [strings |-> [s.strings EXCEPT ![k] = record], sets |-> [s.sets EXCEPT ![k] = {}]]
del(s, k) == set(s, k, NoRecord)
sadd(s, k, id) == IF s.strings[k] # NoRecord THEN s ELSE [s EXCEPT !.sets[k] = @ \cup {id}]  \* WRONGTYPE
srem(s, k, id) == [s EXCEPT !.sets[k] = @ \ {id}]
IsSet(s, k) == s.strings[k] = NoRecord
Applied(s) == strings' = s.strings /\ sets' = s.sets

Risky(id, undo) == Digit(id[1]) /\ (undo \/ num > Base)

-----------------------------------------------------------------------------
(* fails: SADD or SREM is not carried out *)

InsertInCluster(w, id, fail) ==
    LET s1 == set(Store, Key(w, id), <<w, id>>)
        ok == ~fail /\ IsSet(s1, SetKey(w))
    IN
    /\ Applied(IF ok THEN sadd(s1, SetKey(w), id) ELSE del(s1, UndoKey(id)))
    /\ kept' = IF ok THEN [kept EXCEPT ![w] = @ \cup {id}] ELSE kept
    /\ inviteMet' = (inviteMet \/ Risky(id, ~ok))
    /\ fails' = IF fail THEN fails + 1 ELSE fails
    /\ UNCHANGED num

\* After a failure the record is gone from its key
DeleteInCluster(w, id, fail) ==
    LET s1 == del(Store, Key(w, id))
        ok == ~fail /\ IsSet(s1, SetKey(w))
    IN
    /\ Applied(IF ok THEN srem(s1, SetKey(w), id) ELSE set(s1, UndoKey(id), <<w, id>>))
    /\ kept' = [kept EXCEPT ![w] = @ \ {id}]
    /\ inviteMet' = (inviteMet \/ Risky(id, ~ok))
    /\ fails' = IF fail THEN fails + 1 ELSE fails
    /\ UNCHANGED num

Cleared(w) ==
    [strings |-> [k \in Keys |-> IF k = SetKey(w) \/ \E id \in sets[SetKey(w)] : k = Key(w, id) THEN NoRecord ELSE strings[k]],
     sets |-> [k \in Keys |-> IF k = SetKey(w) \/ \E id \in sets[SetKey(w)] : k = Key(w, id) THEN {} ELSE sets[k]]]

Clear(w) ==
    /\ Applied(Cleared(w))
    /\ kept' = [kept EXCEPT ![w] = {}]
    /\ UNCHANGED <<num, fails, inviteMet>>

\* ClearWithLockHeld, then SADD and SET; the list has one command
Update(w, id) ==
    /\ Applied(set(sadd(Cleared(w), SetKey(w), id), Key(w, id), <<w, id>>))
    /\ kept' = [kept EXCEPT ![w] = {id}]
    /\ inviteMet' = (inviteMet \/ Risky(id, FALSE))
    /\ UNCHANGED <<num, fails>>

\* What follows a risky step is not looked at
InviteNext ==
    \/ \E w \in Workers, id \in Ids, fail \in BOOLEAN :
          ~inviteMet /\ (fail => fails < MaxFails) /\ (InsertInCluster(w, id, fail) \/ DeleteInCluster(w, id, fail))
    \/ \E w \in Workers : ~inviteMet /\ Clear(w)
    \/ \E w \in Workers, id \in Ids : ~inviteMet /\ Update(w, id)

InviteSpec == InviteInit /\ [][InviteNext]_inviteVars

-----------------------------------------------------------------------------
(* What the manager answers *)

\* The record found under the id, if any
Search(id, w) == IF id \in sets[SetKey(w)] THEN strings[Key(w, id)] ELSE NoRecord
Load(w) == {Search(id, w) : id \in sets[SetKey(w)]} \ {NoRecord}

(* Every worker loads exactly the commands that its own operations         *)
(* promised, whatever the other workers insert, delete, clear and replace  *)
(* and whichever of their commands fail, as long as ids begin with a       *)
(* letter or there are at most Base workers and no undo: only then does no *)
(* record's key fall on another worker's record or set.                    *)
WorkersApart == ~inviteMet => \A w \in Workers : Load(w) = {<<w, id>> : id \in kept[w]}
-----------------------------------------------------------------------------
(***************************************************************************)
(* DBOutStream and DBInStream (gb/downdatarestorer_norah/dbstream.cpp):    *)
(* numbers of several widths, strings that end with a zero byte and lists  *)
(* of strings behind a two-byte count, one after the other without any     *)
(* mark.  The reader is given the value that Redis returned, to which the  *)
(* reply parser has added one zero byte, and reads the fields it knows:    *)
(* those that were written and perhaps more, when the value was written by *)
(* an older program.  A byte has the values 0 and 1.                       *)
(***************************************************************************)

CONSTANTS Block,              \* MAX_BLOCK_SIZE
          MaxWidth,           \* of numbers, in bytes
          MaxString, MaxList,  \* bytes of a string, strings of a list
          MaxItems, MaxExtra  \* fields that are written; fields that only the reader knows

VARIABLES items,              \* the fields in the order they were written: <<type, value>>
          data, capacity,     \* m_data to m_cursor, m_capacity
          extra,              \* types of the fields that only the reader knows
          got, pos, loadError, phase, streamMet

Byte == {0, 1}
Strings == UNION {[1 .. n -> Byte] : n \in 0 .. MaxString}
Default == <<2>>              \* of a number that nobody has set
Numbers == 1 .. MaxWidth      \* the type of a number is its width
String == 0
List == -1

streamVars == <<items, data, capacity, extra, got, pos, loadError, phase, streamMet>>

StreamInit ==
    /\ items = <<>> /\ data = <<>> /\ capacity = Block /\ extra = <<>> /\ got = <<>> /\ pos = 0 /\ loadError = FALSE
    /\ phase = "writing" /\ streamMet = {}

-----------------------------------------------------------------------------
(* DBOutStream *)

\* The buffer is doubled until what is saved fits
save(bytes) ==
    /\ data' = data \o bytes
    /\ capacity' = CHOOSE c \in {capacity * 2^k : k \in 0 .. 10} :
        Len(data) + Len(bytes) <= c /\ \A k \in 0 .. 10 : Len(data) + Len(bytes) <= capacity * 2^k => c <= capacity * 2^k

\* What c_str() and strlen leave of a string
Cut(s) == IF \E i \in DOMAIN s : s[i] = 0 THEN SubSeq(s, 1, (CHOOSE i \in DOMAIN s : s[i] = 0 /\ \A j \in 1 .. i - 1 : s[j] # 0) - 1) ELSE s

StringBytesBare(s) == Cut(s)      \* wrong on purpose: without the zero that ends it
StringBytes(s) == Cut(s) \o <<0>>

\* unsigned short, with the lower byte first
CountBytes(n) == <<n % 2, (n \div 2) % 2>>
ListBytes(l) == CountBytes(Len(l)) \o FlattenSeq([i \in DOMAIN l |-> StringBytes(l[i])])

Written(type, v, bytes) == phase = "writing" /\ Len(items) < MaxItems /\ items' = Append(items, <<type, v>>) /\ save(bytes) /\ UNCHANGED <<extra, got, pos, loadError, phase>>

writeNumber(v) == Written(Len(v), v, v) /\ UNCHANGED streamMet
writeString(s) == Written(String, s, StringBytes(s)) /\ UNCHANGED streamMet
writeList(l) == Written(List, l, ListBytes(l)) /\ streamMet' = IF Len(l) > 3 THEN streamMet \cup {"longList"} ELSE streamMet

\* The value is stored and read by a program that knows the fields and some more
Turn(types) ==
    /\ phase = "writing" /\ items # <<>> /\ phase' = "reading" /\ extra' = types
    /\ UNCHANGED <<items, data, capacity, got, pos, loadError, streamMet>>

-----------------------------------------------------------------------------
(* DBInStream *)

TypeAt(n) == IF n <= Len(items) THEN items[n][1] ELSE extra[n - Len(items)]
More == Len(got) < Len(items) + Len(extra)

Fits(p, n) == p + n <= Len(data)

Memory == Append(data, 0)
Part(p, n) == SubSeq(Memory, p + 1, p + n)

load ==
    /\ phase = "reading" /\ More
    /\ LET n == TypeAt(Len(got) + 1)
       IN  /\ n \in Numbers
           /\ IF Fits(pos, n) THEN got' = Append(got, Part(pos, n)) /\ pos' = pos + n /\ UNCHANGED loadError
              ELSE got' = Append(got, Default) /\ loadError' = TRUE /\ UNCHANGED pos
    /\ UNCHANGED <<items, data, capacity, extra, phase, streamMet>>

\* Where the string at p ends, of those that end in the memory
EndOf(p) == CHOOSE e \in p + 1 .. Len(Memory) : Memory[e] = 0 /\ \A i \in p + 1 .. e - 1 : Memory[i] # 0
StringAt(p) == Part(p, EndOf(p) - 1 - p)

\* str = m_cursor: nothing is compared with the length.  Behind the zero of the parser anything may be
readString ==
    /\ phase = "reading" /\ More /\ TypeAt(Len(got) + 1) = String
    /\ IF pos < Len(Memory) THEN got' = Append(got, StringAt(pos)) /\ pos' = EndOf(pos) /\ UNCHANGED <<phase, streamMet>>
       ELSE phase' = "undefined" /\ streamMet' = streamMet \cup {"pastMemory"} /\ UNCHANGED <<got, pos>>
    /\ UNCHANGED <<items, data, capacity, extra, loadError>>

\* n strings from p on: <<the strings, the position>>, or nothing when they leave the memory
StringsFrom[n \in 0 .. 4, p \in 0 .. Len(Memory)] ==
    IF n = 0 THEN <<<<>>, p>>
    ELSE IF p >= Len(Memory) THEN <<>>
    ELSE LET rest == StringsFrom[n - 1, EndOf(p)] IN IF rest = <<>> THEN <<>> ELSE <<<<StringAt(p)>> \o rest[1], rest[2]>>

\* A count that could not be loaded was never set
readList ==
    /\ phase = "reading" /\ More /\ TypeAt(Len(got) + 1) = List
    /\ IF ~Fits(pos, 2) THEN loadError' = TRUE /\ phase' = "undefined" /\ streamMet' = streamMet \cup {"countUnset"} /\ UNCHANGED <<got, pos>>
       ELSE LET r == StringsFrom[Memory[pos + 1] + 2 * Memory[pos + 2], pos + 2]
            IN  IF r = <<>> THEN phase' = "undefined" /\ streamMet' = streamMet \cup {"pastMemory"} /\ UNCHANGED <<got, pos, loadError>>
                ELSE got' = Append(got, r[1]) /\ pos' = r[2] /\ UNCHANGED <<loadError, phase, streamMet>>
    /\ UNCHANGED <<items, data, capacity, extra>>

Types == Numbers \cup {String, List}

StreamNext ==
    \/ \E w \in Numbers : \E v \in [1 .. w -> Byte] : writeNumber(v)
    \/ \E s \in Strings : writeString(s)
    \/ \E n \in 0 .. MaxList : writeList([i \in 1 .. n |-> <<1>>])
    \/ \E n \in 0 .. MaxExtra : \E types \in [1 .. n -> Types] : Turn(types)
    \/ load
    \/ readString
    \/ readList

-----------------------------------------------------------------------------
Stored(type, v) == IF type = String THEN Cut(v) ELSE IF type = List THEN [i \in DOMAIN v |-> Cut(v[i])] ELSE v

\* Every field that was written is read with its value, strings up to their first zero byte; unless a
\* list was too long for its count, which shifts all that follow
RoundTrip ==
    "longList" \notin streamMet => /\ \A n \in DOMAIN got : n <= Len(items) => got[n] = Stored(items[n][1], items[n][2])
                                   /\ (phase = "undefined" => Len(got) >= Len(items))

\* A field that the value does not have is not made of bytes of others: a number stays as it was and
\* m_loadError tells it, a string is empty
MissingIsEmpty ==
    "longList" \notin streamMet => \A n \in DOMAIN got : n > Len(items) =>
        IF TypeAt(n) = String THEN got[n] = <<>> ELSE got[n] = Default /\ loadError
=============================================================================
