-------------------------------- MODULE BTree --------------------------------
(***************************************************************************)
(* The single-column B+ tree (src/access/btree_*.cpp) with its page        *)
(* latches.  One writer and one reader run at the same time: Table holds   *)
(* an exclusive lock on the index relation while it inserts or deletes, so *)
(* writers follow one another, while searches and iterators only latch     *)
(* pages.  A step runs from one latch to the next; what a thread does to   *)
(* pages it has latched happens with the step that releases them.          *)
(***************************************************************************)
EXTENDS Integers, Sequences, FiniteSets

CONSTANTS
    Key,                \* positive integers
    Rid,
    NodeCapacity, LeafEntryBytes, InternalEntryBytes,
    InitialTree,        \* the trees a behaviour may start from
    MaxOps              \* bound: calls of the writer

\* IndexKeyUtil::CompareEncoded on integer keys.
CompareEncoded(a, b) == IF a < b THEN -1 ELSE IF a > b THEN 1 ELSE 0

INSTANCE BTreeNode WITH Compare <- CompareEncoded

Pair == Key \X Rid

VARIABLES
    tree,       \* the pages; the metapage's root and height
    w,          \* the writer: its call, the latches it holds and those it is about to take
    r,          \* the reader: the page it has latched, the one it wants, its call
    call,       \* the writer's latest call and what it returned, "pending" before it took effect
    ops         \* the writer's calls so far

vars == <<tree, w, r, call, ops>>

WriterIdle == [pc |-> "idle", op |-> "none", key |-> 0, rid |-> 0, root |-> NoPage, cur |-> NoPage,
               path |-> <<>>, held |-> {}, todo |-> <<>>, pending |-> <<>>]
ReaderIdle == [pc |-> "idle", key |-> 0, at |-> NoPage, want |-> NoPage,
               page |-> NoPage, idx |-> 0, last |-> 0, sorted |-> TRUE]

\* InitializeIfNeeded: page 1 is an empty leaf and the root.
EmptyTree == [pages |-> <<EmptyLeaf>>, root |-> 1, height |-> 1]

Init ==
    /\ tree \in InitialTree
    /\ w = WriterIdle
    /\ r = ReaderIdle
    /\ call = [op |-> "none", pair |-> <<0, 0>>, answer |-> "done"]
    /\ ops = 0

Put(t, page, node) == [t EXCEPT !.pages[page] = node]
NewPage(t, node) == [t EXCEPT !.pages = Append(@, node)]
NewPageNo(t) == Len(t.pages) + 1

-----------------------------------------------------------------------------
(* The writer's descent.  It latches the child before it decides whether   *)
(* the latches above may go.                                               *)

BeginWrite(op, key, rid) ==
    /\ w.pc = "idle" /\ ops < MaxOps
    /\ w' = [WriterIdle EXCEPT !.pc = "descend", !.op = op, !.key = key, !.rid = rid,
                               !.root = tree.root, !.cur = tree.root, !.todo = <<tree.root>>]
    /\ call' = [op |-> op, pair |-> <<key, rid>>, answer |-> "pending"]
    /\ ops' = ops + 1
    /\ UNCHANGED <<tree, r>>

BeginInsert(key, rid) == <<key, rid>> \notin Contents(tree) /\ BeginWrite("insert", key, rid)
BeginDelete(key, rid) == BeginWrite("delete", key, rid)

\* WLatch waits for the reader's latch.
WriterLatch ==
    /\ w.todo # <<>> /\ r.at # Head(w.todo)
    /\ w' = [w EXCEPT !.held = @ \cup {Head(w.todo)}, !.todo = Tail(@)]
    /\ UNCHANGED <<tree, r, call, ops>>

\* The writer is at a point of its code and waits for no latch.
WriterAt(pc) == w.pc = pc /\ w.todo = <<>>

Node == tree.pages[w.cur]

DescendToChild ==
    /\ WriterAt("descend") /\ ~Node.leaf
    /\ w' = [w EXCEPT !.pc = "child", !.todo = <<FindChildForKey(Node, w.key)>>]
    /\ UNCHANGED <<tree, r, call, ops>>

SafeForInsert(node) ==
    (Len(node.entries) + 1) * (IF node.leaf THEN LeafEntryBytes ELSE InternalEntryBytes) <= NodeCapacity

SafeForDelete(node) ==
    /\ node.entries # <<>>
    /\ (Len(node.entries) - 1) * (IF node.leaf THEN LeafEntryBytes ELSE InternalEntryBytes)
       >= NodeCapacity \div 2

AcceptChild ==
    LET child == FindChildForKey(Node, w.key)
        safe == IF w.op = "insert" THEN SafeForInsert(tree.pages[child])
                ELSE SafeForDelete(tree.pages[child])
    IN /\ WriterAt("child")
       /\ w' = [w EXCEPT !.pc = "descend", !.cur = child,
                         !.path = IF safe THEN <<>> ELSE Append(@, w.cur),
                         !.held = IF safe THEN {child} ELSE @]
       /\ UNCHANGED <<tree, r, call, ops>>

-----------------------------------------------------------------------------
(* Insert.  After a split both halves are released while the ancestors in  *)
(* the path stay latched; "pending" is what the parent must be told.       *)

Answer(answer) == call' = [call EXCEPT !.answer = answer]

Finish(t) == tree' = t /\ w' = WriterIdle /\ UNCHANGED <<r, ops>>

SplitOff(t, page, split, path) ==
    /\ tree' = NewPage(Put(t, page, split.left), split.right)
    /\ w' = [w EXCEPT !.pc = "parent", !.cur = page, !.path = path, !.held = Range(path),
                      !.pending = <<Entry(split.sep, NewPageNo(t))>>]
    /\ UNCHANGED <<r, ops>>

InsertIntoLeaf ==
    LET entries == InsertLeafEntry(Node.entries, Entry(w.key, w.rid))
    IN /\ WriterAt("descend") /\ Node.leaf /\ w.op = "insert"
       /\ Answer("done")
       /\ IF CanFitLeafEntries(entries)
          THEN Finish(Put(tree, w.cur, RewriteLeaf(entries, Node.right, Node.high)))
          ELSE SplitOff(tree, w.cur, SplitLeaf(Node, entries, NewPageNo(tree)), w.path)

InsertIntoParent ==
    LET parent == Last(w.path)
        node == tree.pages[parent]
        entries == InsertInternalEntry(node.entries, w.pending[1])
    IN /\ WriterAt("parent") /\ w.path # <<>>
       /\ UNCHANGED call
       /\ IF CanFitInternalEntries(entries)
          THEN Finish(Put(tree, parent, RewriteInternal(node.leftmost, entries, node.right, node.high)))
          ELSE SplitOff(tree, parent, SplitInternal(node, entries, NewPageNo(tree)), Front(w.path))

\* The new root is written first, the metapage after it.
GrowRoot ==
    /\ WriterAt("parent") /\ w.path = <<>>
    /\ tree' = NewPage(tree, RewriteInternal(w.cur, w.pending, NoPage, NoKey))
    /\ w' = [w EXCEPT !.pc = "meta", !.cur = NewPageNo(tree)]
    /\ UNCHANGED <<r, call, ops>>

WriteMetaPage ==
    /\ WriterAt("meta")
    /\ UNCHANGED call
    /\ Finish([tree EXCEPT !.root = w.cur, !.height = @ + 1])

-----------------------------------------------------------------------------
(* Delete.  An underfull node borrows from its left or right sibling, or   *)
(* merges with one, in that order.  To reach the left sibling the node's   *)
(* own latch is given up and both are taken in the order of page numbers.  *)

Parent(v) == Last(v.path)
Pos(t, v) == FindChildPosition(t.pages[Parent(v)], v.cur)
Sibling(t, v, d) == ChildAt(t.pages[Parent(v)], Pos(t, v) + d)
HasLeft(t, v) == Pos(t, v) > 0
HasRight(t, v) == Pos(t, v) < Len(t.pages[Parent(v)].entries)

KeepLatchAndTakeLeft(t, v, pc) == [v EXCEPT !.pc = pc, !.todo = <<Sibling(t, v, -1)>>]

RelatchPair(t, v, pc) ==
    LET l == Sibling(t, v, -1)
    IN [v EXCEPT !.pc = pc, !.held = @ \ {v.cur},
                 !.todo = IF l < v.cur THEN <<l, v.cur>> ELSE <<v.cur, l>>]
LatchRight(t, v, pc) == [v EXCEPT !.pc = pc, !.todo = <<Sibling(t, v, 1)>>]

TryMerge(t, v) ==
    IF HasLeft(t, v) THEN RelatchPair(t, v, "mergeLeft") ELSE LatchRight(t, v, "mergeRight")
TryRight(t, v) == IF HasRight(t, v) THEN LatchRight(t, v, "borrowRight") ELSE TryMerge(t, v)
TryLeft(t, v) == IF HasLeft(t, v) THEN RelatchPair(t, v, "borrowLeft") ELSE TryRight(t, v)

DeleteFromLeaf ==
    LET entries == SelectSeq(Node.entries, LAMBDA e : ~(e.key = w.key /\ e.ref = w.rid))
        t == Put(tree, w.cur, RewriteLeaf(entries, Node.right, Node.high))
    IN /\ WriterAt("descend") /\ Node.leaf /\ w.op = "delete"
       /\ Answer(IF entries = Node.entries THEN "absent" ELSE "deleted")
       /\ IF entries = Node.entries THEN Finish(tree)
          ELSE IF w.cur = w.root \/ ~IsLeafUnderfull(entries) THEN Finish(t)
          ELSE tree' = t /\ w' = TryLeft(t, w) /\ UNCHANGED <<r, ops>>

\* The siblings are repaired in t; the parent gets its new entries and may underflow in turn.
FinishFix(t, entries) ==
    LET parent == Parent(w)
        node == t.pages[parent]
        t2 == Put(t, parent, RewriteInternal(node.leftmost, entries, node.right, node.high))
    IN /\ UNCHANGED call
       /\ IF parent = w.root /\ entries = <<>>
          THEN Finish([Put(t, parent, RetireInternal(node.leftmost, NoPage, NoKey))
                       EXCEPT !.root = node.leftmost, !.height = @ - 1])
          ELSE IF parent = w.root \/ ~IsInternalUnderfull(entries) THEN Finish(t2)
          ELSE /\ tree' = t2
               /\ w' = TryLeft(t2, [w EXCEPT !.cur = parent, !.path = Front(@), !.held = Range(w.path)])
               /\ UNCHANGED <<r, ops>>

\* The merged node does not fit in one page: every latch is released and an exception leaves
\* the tree as it is, with the entry removed and a node underfull.
Throw == Answer("thrown") /\ Finish(tree)

ParentEntries == tree.pages[Parent(w)].entries
Separator(d) == ParentEntries[Pos(tree, w) + d].key
Rewritten(l, rgt, both) == Put(Put(tree, l, both.left), rgt, both.right)

BorrowLeft ==
    LET l == Sibling(tree, w, -1)
        left == tree.pages[l]
        lends == /\ left.entries # <<>>
                 /\ ~(IF Node.leaf THEN IsLeafUnderfull(Front(left.entries))
                                   ELSE IsInternalUnderfull(Front(left.entries)))
        both == IF Node.leaf THEN LeafBorrowLeft(left, Node, w.cur)
                ELSE InternalBorrowLeft(left, Node, w.cur, Separator(0))
    IN /\ WriterAt("borrowLeft")
       /\ IF lends
          THEN FinishFix(Rewritten(l, w.cur, both), WithSeparator(ParentEntries, Pos(tree, w), both.sep))
          ELSE w' = TryRight(tree, [w EXCEPT !.held = @ \ {l}]) /\ UNCHANGED <<tree, r, call, ops>>

BorrowRight ==
    LET p == Sibling(tree, w, 1)
        right == tree.pages[p]
        lends == /\ right.entries # <<>>
                 /\ IF Node.leaf THEN LeafCanLend(Tail(right.entries))
                                 ELSE InternalCanLend(Tail(right.entries))
        both == IF Node.leaf THEN LeafBorrowRight(Node, right)
                ELSE InternalBorrowRight(Node, right, Separator(1))
    IN /\ WriterAt("borrowRight")
       /\ IF lends
          THEN FinishFix(Rewritten(w.cur, p, both), WithSeparator(ParentEntries, Pos(tree, w) + 1, both.sep))
          ELSE w' = TryMerge(tree, [w EXCEPT !.held = @ \ {p}]) /\ UNCHANGED <<tree, r, call, ops>>

\* The right one of the pair is emptied, retired and redirects to the left one.
Merge(pc, l, p, at) ==
    LET left == tree.pages[l]
        right == tree.pages[p]
        fits == IF Node.leaf THEN CanFitLeafEntries(left.entries \o right.entries)
                ELSE CanFitInternalEntries(MergedInternal(left, right, ParentEntries[at].key))
        both == IF Node.leaf THEN LeafMerge(left, right, l)
                ELSE InternalMerge(left, right, ParentEntries[at].key, l)
    IN /\ WriterAt(pc)
       /\ IF fits THEN FinishFix(Rewritten(l, p, both), WithoutChild(ParentEntries, at)) ELSE Throw

MergeLeft == w.pc = "mergeLeft" /\ Merge("mergeLeft", Sibling(tree, w, -1), w.cur, Pos(tree, w))
MergeRight == w.pc = "mergeRight" /\ Merge("mergeRight", w.cur, Sibling(tree, w, 1), Pos(tree, w) + 1)

-----------------------------------------------------------------------------
(* The reader: a search for a key, or an iterator from a lower bound (0:   *)
(* from the leftmost leaf).  It holds one page while it waits for the next.*)

BeginRead(pc, key) ==
    /\ r.pc = "idle"
    /\ r' = [ReaderIdle EXCEPT !.pc = pc, !.key = key, !.want = tree.root]
    /\ UNCHANGED <<tree, w, call, ops>>

Search(key) == BeginRead("search", key)
Iterate(lower) == BeginRead("seek", lower)

\* RLatch of the wanted page, which releases the one before.
ReaderGets == r.want # NoPage /\ r.want \notin w.held

Restart(page) == [r EXCEPT !.at = NoPage, !.want = page]

\* FindLeafPageNoEncoded, GetLeftmostLeafPageNo: redirects, high keys and separators.
DescendStep ==
    LET node == tree.pages[r.want]
        go(page) == [r EXCEPT !.at = r.want, !.want = page]
    IN /\ r.pc \in {"search", "seek"} /\ ReaderGets
       /\ r' = IF node.retired THEN go(Redirect(node))
               ELSE IF BeyondHighKey(node, r.key) THEN go(node.right)
               ELSE IF ~node.leaf THEN go(FindChildForKey(node, r.key))
               ELSE [r EXCEPT !.at = r.want, !.want = NoPage,
                              !.pc = IF @ = "search" THEN "found" ELSE "sought"]
       /\ UNCHANGED <<tree, w, call, ops>>

\* The descent returns the page number of the leaf and gives up its latch.
ReturnLeaf ==
    /\ r.pc \in {"found", "sought"}
    /\ r' = [Restart(r.at) EXCEPT !.pc = IF @ = "found" THEN "read" ELSE "advance", !.page = r.at]
    /\ UNCHANGED <<tree, w, call, ops>>

\* Search latches the leaf again and reads on while the last entry has the key.
ReadStep ==
    LET node == tree.pages[r.want]
        go(page) == [r EXCEPT !.at = r.want, !.want = page]
    IN /\ r.pc = "read" /\ ReaderGets
       /\ r' = IF node.retired THEN go(Redirect(node))
               ELSE IF ~node.leaf THEN [Restart(tree.root) EXCEPT !.pc = "search"]
               ELSE IF node.right # NoPage /\ node.entries # <<>> /\ Last(node.entries).key = r.key
               THEN go(node.right)
               ELSE ReaderIdle
       /\ UNCHANGED <<tree, w, call, ops>>

\* AdvanceToNextValid.  From a retired leaf it goes to the right; on the way back from that call
\* it releases the latch of the retired leaf a second time, which the latch does not define.
AdvanceStep ==
    LET node == tree.pages[r.want]
        valid == {i \in (r.idx + 1)..Len(node.entries) : node.entries[i].key >= r.key}
        go(page) == [r EXCEPT !.at = r.want, !.want = page, !.page = page, !.idx = 0]
    IN /\ r.pc = "advance" /\ ReaderGets
       /\ r' = IF node.retired /\ node.right # NoPage THEN [ReaderIdle EXCEPT !.pc = "undefined"]
               ELSE IF ~node.leaf THEN [Restart(node.leftmost) EXCEPT !.page = node.leftmost, !.idx = 0]
               ELSE IF valid # {}
               THEN [Restart(NoPage) EXCEPT !.pc = "ready", !.idx = Min(valid) - 1, !.key = 0]
               ELSE IF node.right = NoPage THEN ReaderIdle
               ELSE go(node.right)
       /\ UNCHANGED <<tree, w, call, ops>>

\* Next: the entry at the position remembered, if the leaf still has one there.
IteratorNext ==
    LET node == tree.pages[r.page]
        advance(page, idx) == [r EXCEPT !.pc = "advance", !.want = page, !.page = page, !.idx = idx]
        e == node.entries[r.idx + 1]
    IN /\ r.pc = "ready" /\ r.page \notin w.held
       /\ r' = IF node.retired /\ node.right # NoPage THEN advance(node.right, 0)
               ELSE IF ~node.leaf THEN advance(r.page, 0)
               ELSE IF r.idx >= Len(node.entries) THEN advance(r.page, r.idx)
               ELSE [advance(r.page, r.idx + 1) EXCEPT !.last = e.key, !.sorted = @ /\ r.last <= e.key]
       /\ UNCHANGED <<tree, w, call, ops>>

-----------------------------------------------------------------------------

WriterStep ==
    \/ WriterLatch \/ DescendToChild \/ AcceptChild
    \/ InsertIntoLeaf \/ InsertIntoParent \/ GrowRoot \/ WriteMetaPage
    \/ DeleteFromLeaf \/ BorrowLeft \/ BorrowRight \/ MergeLeft \/ MergeRight

ReaderStep == DescendStep \/ ReturnLeaf \/ ReadStep \/ AdvanceStep \/ IteratorNext

Next ==
    \/ \E key \in Key, rid \in Rid : BeginInsert(key, rid) \/ BeginDelete(key, rid)
    \/ WriterStep
    \/ \E key \in Key : Search(key)
    \/ \E lower \in Key \cup {0} : Iterate(lower)
    \/ ReaderStep

Spec == Init /\ [][Next]_vars

-----------------------------------------------------------------------------
(* Properties.                                                             *)

VerifyScalarTreeShape(t) ==
    /\ WalkOk(t, t.root, NoKey, NoKey)
    /\ LiveChain(t) = DfsLeaves(t, t.root)
    /\ Cardinality(Contents(t)) = Len(FullScanEntries(t))

\* Between two calls of the writer the tree passes the consistency checker.
Shape == w.pc = "idle" => VerifyScalarTreeShape(tree)

\* A descent that runs beside splits, borrows, merges and root changes returns the leaf that has
\* the key if any page has it: the reader's, and the writer's without ever moving right.
DescentReachesLeaf ==
    LET elsewhere(page, key) ==
            \E p \in DOMAIN tree.pages \ {page} :
                tree.pages[p].leaf /\ \E i \in DOMAIN tree.pages[p].entries : tree.pages[p].entries[i].key = key
    IN /\ r.pc = "found" => ~elsewhere(r.at, r.key)
       /\ WriterAt("descend") => ~BeyondHighKey(Node, w.key) /\ (Node.leaf => ~elsewhere(w.cur, w.key))

\* The reader and the writer wait for each other's latch only where the writer gave up a node's
\* latch to take its left sibling's too, and the left sibling has the higher page number.
LatchCycle == w.todo # <<>> /\ r.at = Head(w.todo) /\ r.want \in w.held
CyclesOnlyInRelatch ==
    LatchCycle => w.pc \in {"borrowLeft", "mergeLeft"} /\ Sibling(tree, w, -1) > w.cur

\* The entries in the leaves are the abstract index: a call changes them once, by the pair it was
\* given, whatever page changes surround it, and a delete answers whether that pair was there.
Index == INSTANCE OrderedIndex WITH index <- Contents(tree), unsure <- {}
ImplementsIndex == Index!Spec

\* An iterator returns keys in nondecreasing order.
IteratorOrder == r.sorted
=============================================================================
