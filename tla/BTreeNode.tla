------------------------------ MODULE BTreeNode ------------------------------
(***************************************************************************)
(* The node format both B+ trees share (src/access/btree_page.cpp and      *)
(* generic_btree_page.cpp), and what a split, a borrow and a merge make of *)
(* the two nodes involved.  A page is the record its special area and its  *)
(* slots decode to; the slots are read sorted, so the entries are a sorted *)
(* sequence.  Entries have a fixed size, which is what integer keys give.  *)
(***************************************************************************)
EXTENDS Integers, Sequences, SequencesExt

CONSTANTS
    Compare(_, _),      \* CompareEncoded / CompareKeys: negative, zero or positive
    NodeCapacity,       \* NodeCapacityBytes: page size less header and special area
    LeafEntryBytes,     \* a leaf entry and its slot
    InternalEntryBytes  \* an internal entry and its slot

\* INVALID_PAGE_NO; page 0 is the metapage, so no link ever names it.
NoPage == 0

\* A key, or its absence (an empty std::optional, has_high_key = 0).
NoKey == <<>>
Some(key) == <<key>>

\* An entry of a leaf refers to a record, one of an internal node to a child.
Entry(key, ref) == [key |-> key, ref |-> ref]

\* LeafEntryLess: by key, then by record id.
LeafEntryLess(a, b) ==
    LET cmp == Compare(a.key, b.key) IN cmp < 0 \/ (cmp = 0 /\ a.ref < b.ref)

\* InternalEntryLess: by key only.
InternalEntryLess(a, b) == Compare(a.key, b.key) < 0

\* push_back followed by std::sort, on entries that are already sorted.
InsertLeafEntry(entries, e) ==
    SelectSeq(entries, LAMBDA x : ~LeafEntryLess(e, x)) \o <<e>>
        \o SelectSeq(entries, LAMBDA x : LeafEntryLess(e, x))

InsertInternalEntry(entries, e) ==
    SelectSeq(entries, LAMBDA x : ~InternalEntryLess(e, x)) \o <<e>>
        \o SelectSeq(entries, LAMBDA x : InternalEntryLess(e, x))

RewriteLeaf(entries, right, high) ==
    [leaf |-> TRUE, entries |-> entries, leftmost |-> NoPage,
     right |-> right, high |-> high, retired |-> FALSE]

\* The slots are sorted when they are read, in the order written where keys are equal.
RewriteInternal(leftmost, entries, right, high) ==
    [leaf |-> FALSE, entries |-> SortSeq(entries, InternalEntryLess), leftmost |-> leftmost,
     right |-> right, high |-> high, retired |-> FALSE]

EmptyLeaf == RewriteLeaf(<<>>, NoPage, NoKey)

CanFitLeafEntries(entries) == Len(entries) * LeafEntryBytes <= NodeCapacity
CanFitInternalEntries(entries) == Len(entries) * InternalEntryBytes <= NodeCapacity
IsLeafUnderfull(entries) == Len(entries) * LeafEntryBytes < NodeCapacity \div 2
IsInternalUnderfull(entries) == Len(entries) * InternalEntryBytes < NodeCapacity \div 2

\* The last child whose separator is not above the key.
FindChildForKey(node, key) ==
    LET below == {i \in DOMAIN node.entries : Compare(key, node.entries[i].key) >= 0}
    IN IF below = {} THEN node.leftmost ELSE node.entries[Max(below)].ref

\* Children are numbered from 0, the leftmost.
ChildAt(node, index) == IF index = 0 THEN node.leftmost ELSE node.entries[index].ref

\* -1 when the node has no such child.
FindChildPosition(node, child) ==
    LET at == {i \in 0..Len(node.entries) : ChildAt(node, i) = child}
    IN IF at = {} THEN -1 ELSE Min(at)

BeyondHighKeyStrict(node, key) ==
    node.high # NoKey /\ node.right # NoPage /\ Compare(key, node.high[1]) > 0

\* Must a descent for the key leave this node to its right?
BeyondHighKey(node, key) ==
    node.high # NoKey /\ node.right # NoPage /\ Compare(key, node.high[1]) >= 0

\* Where a reader is sent from a retired page.
Redirect(node) ==
    IF node.leaf /\ node.leftmost = NoPage THEN node.right ELSE node.leftmost

-----------------------------------------------------------------------------
(* Splits: the left half keeps the page, the right half gets page "new".   *)

SplitLeafLikeInternal(node, entries, new) ==
    LET mid == Len(entries) \div 2
        sep == entries[mid + 1].key
    IN [left |-> RewriteLeaf(SubSeq(entries, 1, mid), new, Some(sep)),
        right |-> RewriteLeaf(SubSeq(entries, mid + 2, Len(entries)), node.right, node.high),
        sep |-> sep]

SplitLeaf(node, entries, new) ==
    LET mid == Len(entries) \div 2
        sep == entries[mid + 1].key
    IN [left |-> RewriteLeaf(SubSeq(entries, 1, mid), new, Some(sep)),
        right |-> RewriteLeaf(SubSeq(entries, mid + 1, Len(entries)), node.right, node.high),
        sep |-> sep]

\* The middle entry moves up; its child becomes the right half's leftmost.
SplitInternal(node, entries, new) ==
    LET mid == Len(entries) \div 2
        up == entries[mid + 1]
    IN [left |-> RewriteInternal(node.leftmost, SubSeq(entries, 1, mid), new, Some(up.key)),
        right |-> RewriteInternal(up.ref, SubSeq(entries, mid + 2, Len(entries)),
                                  node.right, node.high),
        sep |-> up.key]

-----------------------------------------------------------------------------
(* Borrows and merges between an underfull node and a sibling.  "sep" is   *)
(* the parent's separator between the two, in the result the new one.      *)

LeafCanLend(entries) == entries # <<>> /\ ~IsLeafUnderfull(entries)
InternalCanLend(entries) == entries # <<>> /\ ~IsInternalUnderfull(entries)

LeafBorrowLeft(left, child, link) ==
    LET moved == Last(left.entries)
    IN [left |-> RewriteLeaf(Front(left.entries), link, Some(moved.key)),
        right |-> RewriteLeaf(<<moved>> \o child.entries, child.right, child.high),
        sep |-> moved.key]

LeafBorrowRightOldSeparator(child, right) ==
    LET rest == Tail(right.entries)
    IN [left |-> RewriteLeaf(Append(child.entries, Head(right.entries)), child.right,
                             Some(rest[1].key)),
        right |-> RewriteLeaf(rest, right.right, right.high),
        sep |-> right.entries[1].key]

LeafBorrowRight(child, right) ==
    LET rest == Tail(right.entries)
    IN [left |-> RewriteLeaf(Append(child.entries, Head(right.entries)), child.right,
                             Some(rest[1].key)),
        right |-> RewriteLeaf(rest, right.right, right.high),
        sep |-> rest[1].key]

\* The right page is emptied, keeps its link and high key, and names the page to go on from.
LeafMerge(left, right, redirect) ==
    [left |-> RewriteLeaf(left.entries \o right.entries, right.right, right.high),
     right |-> [RewriteLeaf(<<>>, right.right, right.high)
                EXCEPT !.leftmost = redirect, !.retired = TRUE]]

InternalBorrowLeft(left, child, link, sep) ==
    LET moved == Last(left.entries)
    IN [left |-> RewriteInternal(left.leftmost, Front(left.entries), link, Some(moved.key)),
        right |-> RewriteInternal(moved.ref, <<Entry(sep, child.leftmost)>> \o child.entries,
                                  child.right, child.high),
        sep |-> moved.key]

InternalBorrowRight(child, right, sep) ==
    LET moved == Head(right.entries)
    IN [left |-> RewriteInternal(child.leftmost, Append(child.entries, Entry(sep, right.leftmost)),
                                 child.right, Some(moved.key)),
        right |-> RewriteInternal(moved.ref, Tail(right.entries), right.right, right.high),
        sep |-> moved.key]

MergedWithoutSeparator(left, right, sep) == left.entries \o right.entries

MergedInternal(left, right, sep) ==
    left.entries \o <<Entry(sep, right.leftmost)>> \o right.entries

RetireInternal(redirect, right, high) ==
    [RewriteInternal(redirect, <<>>, right, high) EXCEPT !.retired = TRUE]

InternalMerge(left, right, sep, redirect) ==
    [left |-> RewriteInternal(left.leftmost, MergedInternal(left, right, sep), right.right, right.high),
     right |-> RetireInternal(redirect, right.right, right.high)]

\* The parent after the child at a position lost it to its left neighbour.
WithoutChild(entries, position) == RemoveAt(entries, position)
WithSeparator(entries, position, sep) == [entries EXCEPT ![position].key = sep]

-----------------------------------------------------------------------------
(* Reading a tree: a record of its pages, and of the root and the height   *)
(* that the metapage names.                                                *)

RECURSIVE Live(_, _)
\* NormalizeReadCursor: follow the redirects of retired pages.
Live(t, page) == IF t.pages[page].retired THEN Live(t, Redirect(t.pages[page])) ELSE page

RECURSIVE Descend(_, _, _)
Descend(t, page, key) ==
    LET p == Live(t, page) node == t.pages[p]
    IN IF BeyondHighKey(node, key) THEN Descend(t, node.right, key)
       ELSE IF node.leaf THEN p
       ELSE Descend(t, FindChildForKey(node, key), key)

FindLeafPageNoEncoded(t, key) == Descend(t, t.root, key)

RECURSIVE LeftmostLeaf(_, _)
LeftmostLeaf(t, page) ==
    LET p == Live(t, page) IN IF t.pages[p].leaf THEN p ELSE LeftmostLeaf(t, t.pages[p].leftmost)

RECURSIVE LeafChain(_, _)
\* The leaves from one to the end of the chain, the retired ones included.
LeafChain(t, page) == IF page = NoPage THEN <<>> ELSE <<page>> \o LeafChain(t, t.pages[page].right)

FullScanEntries(t) ==
    LET chain == LeafChain(t, LeftmostLeaf(t, t.root))
    IN FlattenSeq([i \in DOMAIN chain |-> t.pages[chain[i]].entries])

Contents(t) == {<<e.key, e.ref>> : e \in UNION {Range(t.pages[p].entries) :
                    p \in {q \in DOMAIN t.pages : t.pages[q].leaf}}}

-----------------------------------------------------------------------------
(* What the consistency checker walks.                                     *)

RECURSIVE WalkOk(_, _, _, _)
\* The subtree of a page lies between its fences and meets no retired page.
WalkOk(t, page, low, high) ==
    LET node == t.pages[page]
        within(k) == (low = NoKey \/ Compare(k, low[1]) >= 0)
                     /\ (high = NoKey \/ Compare(k, high[1]) < 0)
        keyAt(i) == Some(node.entries[i].key)
        n == Len(node.entries)
    IN /\ ~node.retired
       /\ IF node.leaf
          THEN /\ \A i \in 1..n : within(node.entries[i].key)
               /\ \A i \in 1..(n - 1) : Compare(node.entries[i].key, node.entries[i + 1].key) <= 0
          ELSE /\ \A i \in 1..(n - 1) : Compare(node.entries[i].key, node.entries[i + 1].key) < 0
               /\ \A i \in 0..n : WalkOk(t, ChildAt(node, i),
                                        IF i = 0 THEN low ELSE keyAt(i),
                                        IF i = n THEN high ELSE keyAt(i + 1))

RECURSIVE DfsLeaves(_, _)
DfsLeaves(t, page) ==
    LET node == t.pages[page]
    IN IF node.leaf THEN <<page>>
       ELSE FlattenSeq([i \in 1..(Len(node.entries) + 1) |-> DfsLeaves(t, ChildAt(node, i - 1))])

LiveChain(t) == SelectSeq(LeafChain(t, LeftmostLeaf(t, t.root)), LAMBDA p : ~t.pages[p].retired)
=============================================================================
