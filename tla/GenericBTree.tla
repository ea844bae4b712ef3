---------------------------- MODULE GenericBTree ----------------------------
(***************************************************************************)
(* The composite-key B+ tree (src/access/generic_btree_*.cpp), the index   *)
(* every SQL table uses.  Table::InsertTuple, DeleteTuple and UpdateTuple  *)
(* hold an exclusive lock on the index relation, so one InsertEntry or     *)
(* DeleteEntry is one step here; the recursion of the code is the          *)
(* recursion of the operators, and a parent works, as in the code, with    *)
(* the entries it read before it went down (insert) or after it came back  *)
(* (delete).  A key is the sequence of the values of its columns; Table    *)
(* refuses NULL components before it reaches an index.                     *)
(*                                                                         *)
(* A call that throws ends the behaviour: it leaves pages latched and      *)
(* pinned that the next call would wait for.                               *)
(***************************************************************************)
EXTENDS Integers, Sequences, FiniteSets

CONSTANTS
    ColumnValue,        \* the column values that queries name
    Pair,               \* <<key, rid>>: the tuples' keys in the two index columns
    MinValue,           \* numeric_limits<>::min() of the column type
    NodeCapacity, LeafEntryBytes, InternalEntryBytes,
    InitialTree,        \* the trees a behaviour may start from
    MaxRetired,         \* bound: no insert once this many pages are retired
    MaxStrays           \* bound: no call after this many inserts into gaps (below)

Key == {p[1] : p \in Pair}

\* CompareValues on two values of one type.
CompareValues(a, b) == IF a < b THEN -1 ELSE IF a > b THEN 1 ELSE 0

\* CompareEncoded: column by column, in index order.
CompareEncoded(a, b) ==
    IF a[1] # b[1] THEN CompareValues(a[1], b[1]) ELSE CompareValues(a[2], b[2])

INSTANCE BTreeNode WITH Compare <- CompareEncoded

VARIABLES
    tree,       \* pages, and the root page number and height of the metapage
    call,       \* the latest call: its operation, its pair, what it returned
    repeated,   \* history: the keys that were ever stored for two records at once
    strays      \* history: how many inserts went into a gap

vars == <<tree, call, repeated, strays>>

\* InitializeIfNeeded: page 1 is an empty leaf and the root.
EmptyTree == [pages |-> <<EmptyLeaf>>, root |-> 1, height |-> 1]

Init ==
    /\ tree \in InitialTree
    /\ call = [op |-> "none", pair |-> <<0, 0>>, answer |-> "done"]
    /\ repeated = {}
    /\ strays = 0

Put(t, page, node) == [t EXCEPT !.pages[page] = node]
NewPage(t, node) == [t EXCEPT !.pages = Append(@, node)]
Next1(t) == Len(t.pages) + 1

RECURSIVE MoveRight(_, _, _)
MoveRight(t, page, key) ==
    IF BeyondHighKey(t.pages[page], key) THEN MoveRight(t, t.pages[page].right, key) ELSE page

-----------------------------------------------------------------------------
(* Insert.  The result is the tree and the split to be made known above.   *)

NoSplit == <<>>

InsertIntoLeaf(t, page, key, rid) ==
    LET node == t.pages[page]
        entries == InsertLeafEntry(node.entries, Entry(key, rid))
        new == Next1(t)
        split == SplitLeaf(node, entries, new)
    IN IF CanFitLeafEntries(entries)
       THEN [tree |-> Put(t, page, RewriteLeaf(entries, node.right, node.high)), split |-> NoSplit]
       ELSE [tree |-> NewPage(Put(t, page, split.left), split.right),
             split |-> <<Entry(split.sep, new)>>]

\* node is the parent as it was read before the descent.
InsertSeparator(t, page, node, separator) ==
    LET entries == InsertInternalEntry(node.entries, separator)
        new == Next1(t)
        split == SplitInternal(node, entries, new)
    IN IF CanFitInternalEntries(entries)
       THEN [tree |-> Put(t, page, RewriteInternal(node.leftmost, entries, node.right, node.high)),
             split |-> NoSplit]
       ELSE [tree |-> NewPage(Put(t, page, split.left), split.right),
             split |-> <<Entry(split.sep, new)>>]

RECURSIVE InsertRecursive(_, _, _, _)
InsertRecursive(t, page_no, key, rid) ==
    LET page == MoveRight(t, page_no, key)
        node == t.pages[page]
        below == InsertRecursive(t, FindChildForKey(node, key), key, rid)
    IN IF node.leaf THEN InsertIntoLeaf(t, page, key, rid)
       ELSE IF below.split = NoSplit THEN below
       ELSE InsertSeparator(below.tree, page, node, below.split[1])

\* The root's split makes a new root above both halves.
Inserted(t, key, rid) ==
    LET r == InsertRecursive(t, t.root, key, rid)
    IN IF r.split = NoSplit THEN r.tree
       ELSE [NewPage(r.tree, RewriteInternal(t.root, r.split, NoPage, NoKey))
             EXCEPT !.root = Next1(r.tree), !.height = @ + 1]

-----------------------------------------------------------------------------
(* Delete.  The result tells the parent whether the child underflows and   *)
(* what its subtree's first key became, if that changed.                   *)

NotDeleted(t) == [tree |-> t, deleted |-> FALSE, underflow |-> FALSE, first |-> NoKey, thrown |-> FALSE]
Thrown(t) == [NotDeleted(t) EXCEPT !.thrown = TRUE]

DeleteFromLeaf(t, page, key, rid, is_root) ==
    LET node == t.pages[page]
        entries == SelectSeq(node.entries, LAMBDA e : ~(e.key = key /\ e.ref = rid))
    IN IF entries = node.entries THEN NotDeleted(t)
       ELSE [tree |-> Put(t, page, RewriteLeaf(entries, node.right, node.high)),
             deleted |-> TRUE,
             underflow |-> ~is_root /\ IsLeafUnderfull(entries),
             first |-> IF entries # <<>> /\ entries[1].key # node.entries[1].key
                       THEN Some(entries[1].key) ELSE NoKey,
             thrown |-> FALSE]

\* Both siblings rewritten, and the parent's entries.
Pairwise(t, l, r, both, entries) ==
    [tree |-> Put(Put(t, l, both.left), r, both.right), entries |-> entries, thrown |-> FALSE]

\* An underflowed leaf borrows from the left, from the right, or merges, in that order.
RebalanceLeaf(t, parent_page, parent, pos) ==
    LET c == ChildAt(parent, pos)        child == t.pages[c]
        l == ChildAt(parent, pos - 1)    left == t.pages[l]
        r == ChildAt(parent, pos + 1)    right == t.pages[r]
        hasLeft == pos > 0
        hasRight == pos < Len(parent.entries)
        fromLeft == LeafBorrowLeft(left, child, left.right)
        fromRight == LeafBorrowRight(child, right)
        stuck == [tree |-> t, entries |-> parent.entries, thrown |-> TRUE]
    IN IF hasLeft /\ left.entries # <<>> /\ ~IsLeafUnderfull(Front(left.entries))
       THEN IF CanFitLeafEntries(fromLeft.right.entries)
            THEN Pairwise(t, l, c, fromLeft, WithSeparator(parent.entries, pos, fromLeft.sep))
            ELSE stuck
       ELSE IF hasRight /\ right.entries # <<>> /\ LeafCanLend(Tail(right.entries))
       THEN IF CanFitLeafEntries(fromRight.left.entries)
            THEN Pairwise(t, c, r, fromRight, WithSeparator(parent.entries, pos + 1, fromRight.sep))
            ELSE stuck
       ELSE IF hasLeft
       THEN IF CanFitLeafEntries(left.entries \o child.entries)
            THEN Pairwise(t, l, c, LeafMerge(left, child, l), WithoutChild(parent.entries, pos))
            ELSE stuck
       ELSE IF hasRight
       THEN IF CanFitLeafEntries(child.entries \o right.entries)
            THEN Pairwise(t, c, r, LeafMerge(child, right, parent_page),
                          WithoutChild(parent.entries, pos + 1))
            ELSE stuck
       ELSE stuck

\* The root's part once the child has been dealt with: without entries it gives way to its child.
FinishRoot(t, page, node, entries) ==
    LET deleted(tt) == [NotDeleted(tt) EXCEPT !.deleted = TRUE]
    IN IF entries = <<>>
       THEN deleted([Put(t, page, RetireInternal(node.leftmost, NoPage, NoKey))
                     EXCEPT !.root = node.leftmost, !.height = @ - 1])
       ELSE deleted(Put(t, page, RewriteInternal(node.leftmost, entries, node.right, node.high)))

\* child_page is the child the parent chose; the recursion may have moved right of it.
DeleteBelow(below, page, child_page) ==
    LET node == below.tree.pages[page]
        pos == FindChildPosition(node, child_page)
        entries == IF below.first # NoKey /\ pos > 0
                   THEN WithSeparator(node.entries, pos, below.first[1]) ELSE node.entries
        parent == [node EXCEPT !.entries = entries]
        fixed == IF ~below.underflow
                 THEN [tree |-> below.tree, entries |-> entries, thrown |-> FALSE]
                 ELSE RebalanceLeaf(below.tree, page, parent, pos)
    IN IF below.thrown \/ ~below.deleted THEN below
       ELSE IF fixed.thrown THEN Thrown(fixed.tree)
       ELSE FinishRoot(fixed.tree, page, node, fixed.entries)

\* An internal node below the root first asks for its subtree's first key.  GetSubtreeFirstKey
\* takes the read latch of the page whose write latch the caller holds: the latch reports
\* the deadlock as an exception, and the page stays latched.
RECURSIVE DeleteRecursive(_, _, _, _, _)
DeleteRecursive(t, page_no, key, rid, is_root) ==
    LET page == MoveRight(t, page_no, key)
        node == t.pages[page]
        child == FindChildForKey(node, key)
    IN IF node.leaf THEN DeleteFromLeaf(t, page, key, rid, is_root)
       ELSE IF ~is_root THEN Thrown(t)
       ELSE DeleteBelow(DeleteRecursive(t, child, key, rid, FALSE), page, child)

-----------------------------------------------------------------------------
(* Reads: the leaf of a key, the chain of leaves, and the scans over it.   *)

RECURSIVE SearchFrom(_, _, _)
SearchFrom(t, page, key) ==
    LET node == t.pages[Live(t, page)]
        hits == SelectSeq(node.entries, LAMBDA e : e.key = key)
    IN IF node.right # NoPage /\ hits # <<>> /\ Last(node.entries).key = key
       THEN hits \o SearchFrom(t, node.right, key) ELSE hits

SearchExactEntries(t, key) == SearchFrom(t, FindLeafPageNoEncoded(t, key), key)

\* A scan: values for the first columns, then bounds on the column after them.
Bound == [value : ColumnValue, inclusive : BOOLEAN]
PrefixScanSpec ==
    {spec \in [prefix : UNION {[1..n -> ColumnValue] : n \in 0..2},
               lower : {<<>>} \cup {<<b>> : b \in Bound},
               upper : {<<>>} \cup {<<b>> : b \in Bound}] :
        Len(spec.prefix) = 2 => spec.lower = <<>> /\ spec.upper = <<>>}

\* The start key: the prefix, the lower bound, and the least value of the other columns.
StartKey(spec) ==
    LET given == spec.prefix \o [i \in DOMAIN spec.lower |-> spec.lower[i].value]
    IN [i \in 1..2 |-> IF i \in DOMAIN given THEN given[i] ELSE MinValue]

PrefixBelow(key, prefix) ==
    \E i \in DOMAIN prefix : key[i] < prefix[i] /\ \A j \in 1..(i - 1) : key[j] = prefix[j]
PrefixAbove(key, prefix) ==
    \E i \in DOMAIN prefix : key[i] > prefix[i] /\ \A j \in 1..(i - 1) : key[j] = prefix[j]

BelowLower(value, lower) ==
    lower # <<>> /\ (value < lower[1].value \/ (value = lower[1].value /\ ~lower[1].inclusive))
AboveUpper(value, upper) ==
    upper # <<>> /\ (value > upper[1].value \/ (value = upper[1].value /\ ~upper[1].inclusive))

Skipped(e, spec) ==
    \/ PrefixBelow(e.key, spec.prefix)
    \/ /\ Len(spec.prefix) < 2 /\ ~PrefixAbove(e.key, spec.prefix)
       /\ BelowLower(e.key[Len(spec.prefix) + 1], spec.lower)
StoppingAtUpper(e, spec) ==
    \/ PrefixAbove(e.key, spec.prefix)
    \/ /\ Len(spec.prefix) < 2 /\ spec.upper # <<>>
       /\ e.key[Len(spec.prefix) + 1] >= spec.upper[1].value
Stopping(e, spec) ==
    \/ PrefixAbove(e.key, spec.prefix)
    \/ Len(spec.prefix) < 2 /\ AboveUpper(e.key[Len(spec.prefix) + 1], spec.upper)

RECURSIVE ScanFrom(_, _, _)
ScanFrom(t, page, spec) ==
    LET node == t.pages[Live(t, page)]
        stops == {i \in DOMAIN node.entries :
                    ~Skipped(node.entries[i], spec) /\ Stopping(node.entries[i], spec)}
        seen == IF stops = {} THEN node.entries ELSE SubSeq(node.entries, 1, Min(stops) - 1)
        kept == SelectSeq(seen, LAMBDA e : ~Skipped(e, spec))
    IN IF stops # {} \/ node.right = NoPage THEN kept ELSE kept \o ScanFrom(t, node.right, spec)

ScanPrefixRangeEntries(t, spec) ==
    IF spec.prefix = <<>> /\ spec.lower = <<>> THEN ScanFrom(t, LeftmostLeaf(t, t.root), spec)
    ELSE ScanFrom(t, FindLeafPageNoEncoded(t, StartKey(spec)), spec)

-----------------------------------------------------------------------------
(* A delete of a leaf's first key raises the parent's separator but not    *)
(* the high key of the leaf to the left.  A key between the two is sent to *)
(* the left leaf and from there, by its high key, to the right one, below  *)
(* that leaf's fence.  Deleting that key again raises the separator of the *)
(* left leaf, as if it were the first key of that one: the order of the    *)
(* separators and the order of the leaf chain part.                        *)

RECURSIVE FencedLeaf(_, _, _)
\* The leaf the separators lead to.
FencedLeaf(t, page, key) ==
    IF t.pages[page].leaf THEN page
    ELSE FencedLeaf(t, FindChildForKey(t.pages[page], key), key)

InGap(t, key) == FencedLeaf(t, t.root, key) # FindLeafPageNoEncoded(t, key)

-----------------------------------------------------------------------------

\* Table never inserts a pair twice.  A unique index too holds a key for two records while
\* Table::UpdateTuple replaces the entry of a tuple that moved.
InsertEntry(key, rid) ==
    /\ call.answer # "thrown" /\ strays < MaxStrays
    /\ Cardinality({i \in DOMAIN tree.pages : tree.pages[i].retired}) < MaxRetired
    /\ <<key, rid>> \notin Contents(tree)
    /\ tree' = Inserted(tree, key, rid)
    /\ call' = [op |-> "insert", pair |-> <<key, rid>>, answer |-> "done"]
    /\ repeated' = repeated \cup (IF \E p \in Contents(tree) : p[1] = key THEN {key} ELSE {})
    /\ strays' = strays + (IF InGap(tree, key) THEN 1 ELSE 0)

DeleteEntry(key, rid) ==
    /\ call.answer # "thrown" /\ strays < MaxStrays
    /\ LET r == DeleteRecursive(tree, tree.root, key, rid, TRUE)
       IN /\ tree' = r.tree
          /\ call' = [op |-> "delete", pair |-> <<key, rid>>,
                      answer |-> IF r.thrown THEN "thrown" ELSE IF r.deleted THEN "deleted" ELSE "absent"]
    /\ UNCHANGED <<repeated, strays>>

Next == \E p \in Pair : InsertEntry(p[1], p[2]) \/ DeleteEntry(p[1], p[2])

Spec == Init /\ [][Next]_vars

-----------------------------------------------------------------------------
(* The consistency checker (src/tools/consistency_checker.cpp).            *)

VerifyGenericTreeShape(t) ==
    /\ WalkOk(t, t.root, NoKey, NoKey)
    /\ LiveChain(t) = DfsLeaves(t, t.root)
    /\ Cardinality(Contents(t)) = Len(FullScanEntries(t))

-----------------------------------------------------------------------------
(* Properties.                                                             *)

\* Until a key falls into a gap or is stored for two records, every call leaves a tree that
\* passes the consistency checker: each key lies between the separators above it, separators
\* increase, the leaf chain is the leaves in key order, no retired page is reachable from the
\* root and no entry is stored twice.  After either the checker may object
\* (consistency_checker.cpp:351).
Shape == strays = 0 /\ repeated = {} => VerifyGenericTreeShape(tree)

Matches(key, spec) ==
    LET n == Len(spec.prefix)
    IN /\ \A i \in 1..n : key[i] = spec.prefix[i]
       /\ n < 2 => ~BelowLower(key[n + 1], spec.lower) /\ ~AboveUpper(key[n + 1], spec.upper)

Pairs(entries) == {<<e.key, e.ref>> : e \in Range(entries)}

\* got is in key order, holds entries of "matching" only, and all those whose key was never
\* stored for two records.
Returns(got, matching) ==
    /\ Pairs(got) \subseteq matching
    /\ {p \in matching : p[1] \notin repeated} \subseteq Pairs(got)
    /\ \A i \in 1..(Len(got) - 1) : CompareEncoded(got[i].key, got[i + 1].key) <= 0

\* Whatever splits, borrows and merges came before, and right after the first insert into a
\* gap, a scan returns in key order the stored entries that its prefix and bounds select, and
\* an exact search those of its key.  They may miss entries of a key that was stored for two
\* records (generic_btree_scan.cpp:155), and of no other key.
ScansMatch ==
    LET stored == Contents(tree)
    IN /\ \A spec \in PrefixScanSpec :
            Returns(ScanPrefixRangeEntries(tree, spec), {p \in stored : Matches(p[1], spec)})
       /\ \A key \in Key :
            Returns(SearchExactEntries(tree, key), {p \in stored : p[1] = key})

\* What a full scan returns is the abstract index: a call changes it by its own pair only, a
\* delete that finds its pair removes it and says so, and it reports a stored pair as absent
\* only where the key was stored for two records.
Scanned == UNION {Pairs(tree.pages[p].entries) :
                    p \in Range(LeafChain(tree, LeftmostLeaf(tree, tree.root)))}
Index == INSTANCE OrderedIndex
            WITH index <- Scanned, unsure <- {p \in Pair : p[1] \in repeated}
ImplementsIndex == Index!Spec
=============================================================================
