---------------------------- MODULE SqliteStudy -----------------------------
(***************************************************************************)
(* The parts of sqlite_demo: the pager over its page cache, the files      *)
(* behind it, and the B+ tree. The three parts are independent.            *)
(***************************************************************************)
EXTENDS Integers, Sequences, SequencesExt, FiniteSets

-----------------------------------------------------------------------------
(***************************************************************************)
(* sqlite_demo/pager: the pager of a database file over the page cache     *)
(* PCache, which counts references and lists dirty pages, over the plugin  *)
(* PCache1, which has a hash table of the pages in use and a list of those *)
(* that are not.  A frame is the memory of one page with its PgHdr and     *)
(* PgHdr1; the hash table is the set of its frames (it has one size from   *)
(* its creation on).  The file holds the first size pages.                 *)
(***************************************************************************)

CONSTANTS MxPages,       \* frames of the cache
          Pages, Values,  \* page numbers from 1, and contents; a page of zeroes is 0
          Users, MaxFails

VARIABLES pagerKey, content, nref, dirty,  \* of each frame
          allocated, hashed, npage, lru, dirtyList,
          pagerFile, pagerSize,      \* the database file
          holds,                     \* <<user, frame>>: the references that users have
          db,                        \* what was committed last
          fails, pagerPc, pagerMet

Frames == 1 .. MxPages

pagerVars == <<pagerKey, content, nref, dirty, allocated, hashed, npage, lru, dirtyList, pagerFile, pagerSize, holds, db, fails, pagerPc, pagerMet>>

\* pagerOpen of a file with some pages.  The hash table of _pcache1ResizeHash is not cleared: the model has
\* memory that happens to be zero
PagerInit ==
    /\ pagerKey = [f \in Frames |-> 0] /\ content = [f \in Frames |-> 0] /\ nref = [f \in Frames |-> 0] /\ dirty = [f \in Frames |-> FALSE]
    /\ allocated = {} /\ hashed = {} /\ npage = 0 /\ lru = <<>> /\ dirtyList = <<>>
    /\ pagerSize = 1 /\ pagerFile = [p \in Pages |-> 0] /\ holds = {} /\ db = [p \in Pages |-> 0] /\ fails = 0 /\ pagerPc = "up" /\ pagerMet = {}

-----------------------------------------------------------------------------
(* PCache1 *)

\* _pcache1Get
Found(p) == {f \in hashed : pagerKey[f] = p}

\* What _pcache1Fetch gives a page that is not there: the frame that was released last, or a new one
Available == IF lru # <<>> THEN {Head(lru)} ELSE IF npage >= MxPages THEN {} ELSE {CHOOSE f \in Frames \ allocated : TRUE}

pcache1Fetch(f, p) ==
    /\ lru' = (IF lru # <<>> THEN Tail(lru) ELSE lru) /\ allocated' = allocated \cup {f}
    /\ pagerKey' = [pagerKey EXCEPT ![f] = p] /\ hashed' = hashed \cup {f} /\ npage' = npage + 1

pcache1Unpin(f) == hashed' = hashed \ {f} /\ npage' = npage - 1 /\ lru' = <<f>> \o lru

-----------------------------------------------------------------------------
(* PCache and the pager *)

\* A page of the cache gets one more reference
pagerGetCached(u, p) ==
    /\ pagerPc = "up" /\ Found(p) # {}
    /\ LET f == CHOOSE f \in Found(p) : TRUE
       IN  <<u, f>> \notin holds /\ nref' = [nref EXCEPT ![f] = @ + 1] /\ holds' = holds \cup {<<u, f>>}
    /\ UNCHANGED <<pagerKey, content, dirty, allocated, hashed, npage, lru, dirtyList, pagerFile, pagerSize, db, fails, pagerPc, pagerMet>>

\* Any other is read into a frame; the result of the read is not looked at, nor is the frame cleared.  (It
\* returns SQL_ERROR with the page.)
pagerGetRead(u, p, ok) ==
    /\ pagerPc = "up" /\ Found(p) = {} /\ Available # {} /\ (~ok => fails < MaxFails) /\ fails' = (IF ok THEN fails ELSE fails + 1)
    /\ LET f == CHOOSE f \in Available : TRUE
       IN  /\ pcache1Fetch(f, p) /\ nref' = [nref EXCEPT ![f] = @ + 1] /\ dirty' = [dirty EXCEPT ![f] = FALSE]
           /\ content' = [content EXCEPT ![f] = IF ok /\ p <= pagerSize THEN pagerFile[p] ELSE @]
           /\ pagerMet' = pagerMet \cup (IF p > pagerSize /\ lru # <<>> THEN {"pastEnd"} ELSE {}) \cup (IF ok THEN {} ELSE {"unread"})
           /\ holds' = holds \cup {<<u, f>>}
    /\ UNCHANGED <<dirtyList, pagerFile, pagerSize, db, pagerPc>>

\* No frame is left: SQL_NOMEM
pagerGetNoMem(u, p) == pagerPc = "up" /\ Found(p) = {} /\ Available = {} /\ UNCHANGED pagerVars

\* pcacheRelease asserts that the last reference is not the one of a dirty page
pagerUnref(u, f) ==
    /\ pagerPc = "up" /\ <<u, f>> \in holds /\ holds' = holds \ {<<u, f>>} /\ nref' = [nref EXCEPT ![f] = @ - 1]
    /\ IF nref[f] > 1 THEN UNCHANGED <<hashed, npage, lru, pagerPc, pagerMet>>
       ELSE IF dirty[f] THEN pagerPc' = "aborted" /\ pagerMet' = pagerMet \cup {"releasedDirty"} /\ UNCHANGED <<hashed, npage, lru>>
       ELSE pcache1Unpin(f) /\ UNCHANGED <<pagerPc, pagerMet>>
    /\ UNCHANGED <<pagerKey, content, dirty, allocated, dirtyList, pagerFile, pagerSize, db, fails>>

\* pcacheMakeDirty
pagerWrite(u, f) ==
    /\ pagerPc = "up" /\ <<u, f>> \in holds /\ ~dirty[f] /\ dirty' = [dirty EXCEPT ![f] = TRUE] /\ dirtyList' = <<f>> \o dirtyList
    /\ UNCHANGED <<pagerKey, content, nref, allocated, hashed, npage, lru, pagerFile, pagerSize, holds, db, fails, pagerPc, pagerMet>>

\* The caller of pagerWrite changes the page
Modify(u, f, v) ==
    /\ pagerPc = "up" /\ <<u, f>> \in holds /\ dirty[f] /\ content[f] # v /\ content' = [content EXCEPT ![f] = v]
    /\ UNCHANGED <<pagerKey, nref, dirty, allocated, hashed, npage, lru, dirtyList, pagerFile, pagerSize, holds, db, fails, pagerPc, pagerMet>>

Largest(S) == CHOOSE n \in S : \A m \in S : m <= n

\* Every page of the list is written and made clean, also one whose write has failed
pagerCommit(failed) ==
    LET fs == ToSet(dirtyList)
        written == fs \ failed
    IN  /\ pagerPc = "up" /\ fs # {} /\ failed \subseteq fs /\ fails' = fails + Cardinality(failed) /\ fails' <= MaxFails
        /\ pagerFile' = [p \in Pages |-> IF \E f \in written : pagerKey[f] = p THEN content[CHOOSE f \in written : pagerKey[f] = p] ELSE pagerFile[p]]
        /\ pagerSize' = Largest({pagerSize} \cup {pagerKey[f] : f \in written})
        /\ db' = [p \in Pages |-> IF \E f \in fs : pagerKey[f] = p THEN content[CHOOSE f \in fs : pagerKey[f] = p] ELSE db[p]]
        /\ dirtyList' = <<>> /\ dirty' = [f \in Frames |-> IF f \in fs THEN FALSE ELSE dirty[f]]
        /\ pagerMet' = IF failed # {} THEN pagerMet \cup {"unwritten"} ELSE pagerMet
        /\ UNCHANGED <<pagerKey, content, nref, allocated, hashed, npage, lru, holds, pagerPc>>

PagerNext ==
    \/ \E u \in Users, p \in Pages : pagerGetCached(u, p) \/ pagerGetNoMem(u, p) \/ \E ok \in BOOLEAN : pagerGetRead(u, p, ok)
    \/ \E u \in Users, f \in Frames : pagerUnref(u, f) \/ pagerWrite(u, f) \/ \E v \in Values : Modify(u, f, v)
    \/ \E failed \in SUBSET Frames : pagerCommit(failed)

-----------------------------------------------------------------------------
\* A page that is in use and not dirty has what was committed last, whatever frame it is in and whoever
\* wrote it: unless a read or a write failed unseen, or a page behind the end of the file was read into a
\* frame that had another page
HoldsCommitted ==
    pagerMet \cap {"unread", "unwritten", "pastEnd"} = {} => \A f \in hashed : ~dirty[f] => content[f] = db[pagerKey[f]]

\* Two frames never have the same page: the changes of one would be lost
OneFramePerPage == \A f, g \in hashed : pagerKey[f] = pagerKey[g] => f = g

\* A frame is in the hash table while it has references, else in the list of free ones, and a dirty one
\* is in the dirty list once
ListsExact ==
    pagerPc = "up" =>
        /\ allocated = hashed \cup ToSet(lru) /\ hashed \cap ToSet(lru) = {} /\ IsInjective(lru) /\ npage = Cardinality(hashed)
        /\ hashed = {f \in Frames : nref[f] > 0}
        /\ ToSet(dirtyList) = {f \in Frames : dirty[f]} /\ IsInjective(dirtyList) /\ ToSet(dirtyList) \subseteq hashed
        /\ \A f \in Frames : nref[f] = Cardinality({h \in holds : h[2] = f})
-----------------------------------------------------------------------------
(***************************************************************************)
(* sqlite_demo/os: files behind the operations of SqlVFS and SqlFile, and  *)
(* the list of the open ones that lets a file be opened once.  A handle is *)
(* the memory of osGetFileHandle; a file of the disk is a number that its  *)
(* name leads to until it is unlinked.                                     *)
(***************************************************************************)

CONSTANTS Handles, Names, MaxFd, MaxFiles

VARIABLES list,                \* head: the open files
          fd, filename,        \* of each handle
          opened,              \* open(): descriptor -> the file
          disk, files,         \* name -> the file; the files there were
          mine,                \* the file that a handle was opened for
          wrong, vfsMet

Fds == 1 .. MaxFd
NoFile == 0

vfsVars == <<list, fd, filename, opened, disk, files, mine, wrong, vfsMet>>

VfsInit ==
    /\ list = <<>> /\ fd = [h \in Handles |-> 0] /\ filename = [h \in Handles |-> "none"] /\ opened = [d \in Fds |-> NoFile]
    /\ disk = [n \in Names |-> NoFile] /\ files = 0 /\ mine = [h \in Handles |-> NoFile] /\ wrong = FALSE /\ vfsMet = {}

unixAlreadyOpened(n) == {h \in ToSet(list) : filename[h] = n}

Lowest == CHOOSE d \in Fds : opened[d] = NoFile /\ \A e \in Fds : opened[e] = NoFile => d <= e

\* unixOpenFile
openFile(h, n) ==
    LET file == IF disk[n] = NoFile THEN files + 1 ELSE disk[n]
    IN  /\ file <= MaxFiles /\ files' = (IF disk[n] = NoFile THEN file ELSE files) /\ disk' = [disk EXCEPT ![n] = file]
        /\ fd' = [fd EXCEPT ![h] = Lowest] /\ opened' = [opened EXCEPT ![Lowest] = file]
        /\ filename' = [filename EXCEPT ![h] = n] /\ mine' = [mine EXCEPT ![h] = file]

\* A handle that osGetFileHandle returned and nobody opened
unixOpen(h, n) ==
    /\ filename[h] = "none" /\ unixAlreadyOpened(n) = {} /\ \E d \in Fds : opened[d] = NoFile
    /\ openFile(h, n) /\ list' = <<h>> \o list /\ UNCHANGED <<wrong, vfsMet>>

unixOpenRefused(h, n) ==
    /\ filename[h] = "none" /\ (unixAlreadyOpened(n) # {} \/ \A d \in Fds : opened[d] # NoFile) = TRUE /\ UNCHANGED vfsVars

Without(h) == SelectSeq(list, LAMBDA g : g # h)

\* unixClose: the handle is freed or opened again by its owner
closed(h) == list' = Without(h) /\ opened' = [opened EXCEPT ![fd[h]] = NoFile]

\* Wrong on purpose: the descriptor is not looked for in the list first
unixCloseAlways(h) ==
    /\ filename[h] # "none" /\ filename' = [filename EXCEPT ![h] = "none"] /\ mine' = [mine EXCEPT ![h] = NoFile]
    /\ closed(h) /\ UNCHANGED <<fd, disk, files, wrong, vfsMet>>

unixClose(h) ==
    /\ filename[h] # "none" /\ filename' = [filename EXCEPT ![h] = "none"] /\ mine' = [mine EXCEPT ![h] = NoFile]
    /\ IF h \in ToSet(list) THEN closed(h) ELSE UNCHANGED <<list, opened>>
    /\ UNCHANGED <<fd, disk, files, wrong, vfsMet>>

\* The handle of a deleted file stays with its owner and is not told
unixDelete(n) ==
    /\ disk[n] # NoFile /\ disk' = [disk EXCEPT ![n] = NoFile]
    /\ IF unixAlreadyOpened(n) = {} THEN UNCHANGED <<list, opened, vfsMet>>
       ELSE closed(CHOOSE h \in unixAlreadyOpened(n) : TRUE) /\ vfsMet' = vfsMet \cup {"deletedUnder"}
    /\ UNCHANGED <<fd, filename, files, mine, wrong>>

\* unixWrite, unixTruncate: of whatever file the descriptor is now
unixWrite(h) ==
    /\ filename[h] # "none" /\ wrong' = (wrong \/ opened[fd[h]] \notin {mine[h], NoFile})
    /\ UNCHANGED <<list, fd, filename, opened, disk, files, mine, vfsMet>>

\* Anyone else of the process opens or closes a file
OtherFile == MaxFiles + 1
OtherOpens == (\E d \in Fds : opened[d] = NoFile) /\ opened' = [opened EXCEPT ![Lowest] = OtherFile] /\ UNCHANGED <<list, fd, filename, disk, files, mine, wrong, vfsMet>>
OtherCloses(d) == opened[d] = OtherFile /\ opened' = [opened EXCEPT ![d] = NoFile] /\ UNCHANGED <<list, fd, filename, disk, files, mine, wrong, vfsMet>>

VfsNext ==
    \/ \E h \in Handles : unixClose(h) \/ unixWrite(h) \/ \E n \in Names : unixOpen(h, n) \/ unixOpenRefused(h, n)
    \/ \E n \in Names : unixDelete(n)
    \/ OtherOpens
    \/ \E d \in Fds : OtherCloses(d)

-----------------------------------------------------------------------------
\* A file is open at most once, and every file of the list has the descriptor it was opened with: also
\* when files were deleted that were open, and their owners closed them later
OpenOnce ==
    /\ \A g, h \in ToSet(list) : g # h => filename[g] # filename[h] /\ fd[g] # fd[h]
    /\ \A h \in ToSet(list) : opened[fd[h]] = mine[h]

\* What is written through a handle reaches no other file, unless its file was deleted while it was open
WritesItsFile == "deletedUnder" \notin vfsMet => ~wrong
-----------------------------------------------------------------------------
(***************************************************************************)
(* The B+ tree of sqlite_demo/tree/BPlusTree.c: pages with an array of     *)
(* cell pointers that grows up and cells that grow down from first, the    *)
(* bytes of removed cells counted in one byte, frag, and collected when    *)
(* they are many.  A node is a record, its cells a sequence in the order   *)
(* of the pointers; a cell of a leaf has a key and the size of its data,   *)
(* one of an inner node a key and a child.  Sizes are the code's, for a    *)
(* build where a pointer has four bytes.                                   *)
(***************************************************************************)

CONSTANTS Order,      \* THE_ORDER
          Keys, Sizes,  \* keys, and the sizes of their data
          MaxLarge    \* bound: data that is not of the least size

VARIABLES root, treePc, stored, treeMet

PAGE_SIZE == 1448
HEADER_SIZE == 12
Threshold == 64       \* 1 << 6

treeVars == <<root, treePc, stored, treeMet>>

Node(leaf) == [leaf |-> leaf, cells |-> <<>>, first |-> PAGE_SIZE, frag |-> 0, right |-> <<>>]

TreeInit == root = Node(TRUE) /\ treePc = "up" /\ stored = {} /\ treeMet = {}

-----------------------------------------------------------------------------
(* Pages *)

Bytes(cell, leaf) == IF leaf THEN 8 + cell.size ELSE 8

RECURSIVE Total(_, _)
Total(cells, leaf) == IF cells = <<>> THEN 0 ELSE Bytes(Head(cells), leaf) + Total(Tail(cells), leaf)

\* The cells are inserted into an empty page, which takes the place of the old one
spaceCleanUp(n) == [n EXCEPT !.first = PAGE_SIZE - Total(n.cells, n.leaf), !.frag = 0]

Cleaned(n) == IF n.frag > Threshold THEN spaceCleanUp(n) ELSE n
Free(n) == n.first - HEADER_SIZE - 2 * Len(n.cells)

InsertedAt(cells, k, cell) == SubSeq(cells, 1, k) \o <<cell>> \o SubSeq(cells, k + 1, Len(cells))

\* Of insertLeafCell and insertIntCell, after spaceCheck: before the first cell with a larger key
Placed(n, cell) ==
    [n EXCEPT !.cells = InsertedAt(@, Cardinality({i \in DOMAIN n.cells : n.cells[i].key <= cell.key}), cell),
              !.first = @ - Bytes(cell, n.leaf)]

insertIntCell(n, cell) == Placed(Cleaned(n), cell)

\* removeKthLeafCell and removeKthIntCell, which count what they free in a byte; an IntCell is counted
\* as the structure it is read into
removeKthCell(n, k) ==
    [n EXCEPT !.cells = SubSeq(@, 1, k - 1) \o SubSeq(@, k + 1, Len(@)),
              !.frag = (@ + Bytes(n.cells[k], n.leaf)) % 256]

-----------------------------------------------------------------------------
(* Splits.  Each gives the node that stays, the new node and the key between them *)

RECURSIVE MoveFrom(_, _, _)
MoveFrom(n, m, k) ==
    IF Len(n.cells) < k THEN <<n, m>> ELSE MoveFrom(removeKthCell(n, k), Placed(m, n.cells[k]), k)

splitLeafNode(n) ==
    LET moved == MoveFrom(n, Node(TRUE), Order \div 2 + 1)
    IN  [left |-> moved[1], right |-> moved[2], key |-> moved[1].cells[Order \div 2].key]

\* The last cell that stays becomes the last child, without a key
splitIntNode(n) ==
    LET moved == MoveFrom(n, Node(FALSE), Order \div 2 + 2)
        k == Order \div 2 + 1
        cell == moved[1].cells[k]
    IN  [left |-> [removeKthCell(moved[1], k) EXCEPT !.right = cell.child], right |-> [moved[2] EXCEPT !.right = n.right], key |-> cell.key]

\* What the father is given, whose kth child was split; the last child has no cell
FatherOf(father, k, s) ==
    IF k > Len(father.cells)
    THEN [insertIntCell(father, [key |-> s.key, child |-> s.left]) EXCEPT !.right = s.right]
    ELSE insertIntCell(insertIntCell(removeKthCell(father, k), [key |-> father.cells[k].key, child |-> s.right]), [key |-> s.key, child |-> s.left])

-----------------------------------------------------------------------------
Least(S) == CHOOSE i \in S : \A j \in S : i <= j

\* The child for a key: of the first cell whose key is not smaller, or the last child
ChildFor(n, k) == Least({i \in DOMAIN n.cells : k <= n.cells[i].key} \cup {Len(n.cells) + 1})
getKthChild(n, i) == IF i > Len(n.cells) THEN n.right ELSE n.cells[i].child
SetChild(n, i, c) == IF i > Len(n.cells) THEN [n EXCEPT !.right = c] ELSE [n EXCEPT !.cells[i].child = c]

Done(result, n, tight) == [result |-> result, node |-> n, split |-> FALSE, tight |-> tight]

\* insertLeafCell: spaceCheck first, then the search for the key.  It is tight when the pointers reach the cell
insertLeafCell(n, k, size) ==
    LET m == Cleaned(n)
    IN  IF Free(m) < size + 8 THEN Done("exit", m, FALSE)
        ELSE IF \E i \in DOMAIN m.cells : m.cells[i].key = k THEN Done("no", m, FALSE)
        ELSE Done("yes", Placed(m, [key |-> k, size |-> size]), Free(m) < size + 10)

\* A node with Order cells is split after the insertion
SplitIfFull(r) ==
    IF r.result # "yes" \/ Len(r.node.cells) < Order THEN r
    ELSE [result |-> "yes", node |-> r.node, split |-> TRUE, tight |-> r.tight, into |-> IF r.node.leaf THEN splitLeafNode(r.node) ELSE splitIntNode(r.node)]

RECURSIVE insert2(_, _, _)
insert2(n, k, size) ==
    IF n.leaf THEN SplitIfFull(insertLeafCell(n, k, size))
    ELSE LET i == ChildFor(n, k)
             r == insert2(getKthChild(n, i), k, size)
         IN  SplitIfFull(Done(r.result, IF r.split THEN FatherOf(n, i, r.into) ELSE SetChild(n, i, r.node), r.tight))

RECURSIVE Nodes(_)
Nodes(n) == {n} \cup (IF n.leaf THEN {} ELSE UNION {Nodes(getKthChild(n, i)) : i \in 1 .. Len(n.cells) + 1})

\* More bytes are free in some page than frag can count
Wraps == \E n \in Nodes(root) : PAGE_SIZE - n.first - Total(n.cells, n.leaf) > 255

\* A split root gets a father
insert(k, size) ==
    LET r == insert2(root, k, size)
    IN  /\ treePc = "up" /\ (size > Least(Sizes) => Cardinality({e \in stored : e[2] > Least(Sizes)}) < MaxLarge)
        /\ root' = IF r.split THEN [insertIntCell(Node(FALSE), [key |-> r.into.key, child |-> r.into.left]) EXCEPT !.right = r.into.right] ELSE r.node
        /\ treePc' = IF r.result = "exit" THEN "exited" ELSE "up"
        /\ stored' = IF r.result = "yes" THEN stored \cup {<<k, size>>} ELSE stored
        /\ treeMet' = treeMet \cup (IF r.tight THEN {"overlap"} ELSE {}) \cup (IF Wraps' THEN {"wrapped"} ELSE {})

RECURSIVE search(_, _)
search(n, k) == IF n.leaf THEN {<<n.cells[i].key, n.cells[i].size>> : i \in {j \in DOMAIN n.cells : n.cells[j].key = k}}
                ELSE search(getKthChild(n, ChildFor(n, k)), k)

TreeNext == \E k \in Keys, size \in Sizes : insert(k, size)

-----------------------------------------------------------------------------
\* What was inserted is found with its data, and nothing else is, through every split
SearchFinds == "overlap" \notin treeMet => \A k \in Keys : search(root, k) = {e \in stored : e[1] = k}

RECURSIVE Depth(_)
Depth(n) == IF n.leaf THEN 0 ELSE 1 + Depth(n.right)

\* All leaves are at the same depth, and no node but the root has less than Order / 2 children or cells
Balanced ==
    \A n \in Nodes(root) :
        /\ ~n.leaf => \A i \in 1 .. Len(n.cells) + 1 : Depth(getKthChild(n, i)) = Depth(n) - 1
        /\ Len(n.cells) < Order
        /\ n # root => Len(n.cells) + (IF n.leaf THEN 0 ELSE 1) >= Order \div 2

\* The tree gives up only on a page that, but for at most 64 bytes of fragments, has no room for the
\* largest data: unless the byte that counts the fragments has wrapped
GivesUpWhenFull ==
    treePc = "exited" /\ "wrapped" \notin treeMet =>
        \E n \in Nodes(root), size \in Sizes : n.leaf /\ PAGE_SIZE - HEADER_SIZE - Total(n.cells, TRUE) - 2 * Len(n.cells) - Threshold < size + 8
=============================================================================
