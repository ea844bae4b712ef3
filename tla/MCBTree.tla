------------------------------- MODULE MCBTree -------------------------------
(* Leaves and internal nodes of at most four entries, sized like the       *)
(* code's: two nodes, one of them underfull and the other unable to lend,  *)
(* may be too large to merge.  The initial trees are what inserting the    *)
(* keys in the order given builds.                                         *)
EXTENDS BTree

Leaf(keys, right, high) == RewriteLeaf([i \in DOMAIN keys |-> Entry(keys[i], 1)], right, high)

\* 4, 9, 6, 7, 8, 1, 2, 3: two neighbours too full to merge once one of them is underfull
TwoLevels ==
    [pages |-> <<Leaf(<<1, 2>>, 4, Some(3)),
                 Leaf(<<7, 8, 9>>, NoPage, NoKey),
                 RewriteInternal(1, <<Entry(3, 4), Entry(7, 2)>>, NoPage, NoKey),
                 Leaf(<<3, 4, 6>>, 2, Some(7))>>,
     root |-> 3, height |-> 2]

\* 3, 1, 6, 2, 9, 11, 4, 7, 8, 10, 13, 12: the last leaf and the root are full
RootFull ==
    [pages |-> <<Leaf(<<1, 2>>, 2, Some(3)),
                 Leaf(<<3, 4>>, 4, Some(6)),
                 RewriteInternal(1, <<Entry(3, 2), Entry(6, 4), Entry(8, 5), Entry(10, 6)>>, NoPage, NoKey),
                 Leaf(<<6, 7>>, 5, Some(8)),
                 Leaf(<<8, 9>>, 6, Some(10)),
                 Leaf(<<10, 11, 12, 13>>, NoPage, NoKey)>>,
     root |-> 3, height |-> 2]

\* 3, 1, 6, 2, 9, 11, 4, 7, 8, 10, 14, 13, 12: internal nodes that merge; the tree loses a level
InnerMerge ==
    [pages |-> <<Leaf(<<1, 2>>, 2, Some(3)),
                 Leaf(<<3, 4>>, 4, Some(6)),
                 RewriteInternal(1, <<Entry(3, 2), Entry(6, 4)>>, 8, Some(8)),
                 Leaf(<<6, 7>>, 5, Some(8)),
                 Leaf(<<8, 9>>, 6, Some(10)),
                 Leaf(<<10, 11>>, 7, Some(12)),
                 Leaf(<<12, 13, 14>>, NoPage, NoKey),
                 RewriteInternal(5, <<Entry(10, 6), Entry(12, 7)>>, NoPage, NoKey),
                 RewriteInternal(3, <<Entry(8, 8)>>, NoPage, NoKey)>>,
     root |-> 9, height |-> 3]

\* 7, 11, 3, 2, 1, 6, 4, 8, 13, 10, 9, 15, 12, 16, 14: internal nodes that cannot merge
InnerStuck ==
    [pages |-> <<Leaf(<<1, 2>>, 2, Some(3)),
                 Leaf(<<3, 4>>, 4, Some(6)),
                 RewriteInternal(1, <<Entry(3, 2), Entry(6, 4)>>, 8, Some(8)),
                 Leaf(<<6, 7>>, 5, Some(8)),
                 Leaf(<<8, 9>>, 6, Some(10)),
                 Leaf(<<10, 11>>, 7, Some(12)),
                 Leaf(<<12, 13>>, 10, Some(14)),
                 RewriteInternal(5, <<Entry(10, 6), Entry(12, 7), Entry(14, 10)>>, NoPage, NoKey),
                 RewriteInternal(3, <<Entry(8, 8)>>, NoPage, NoKey),
                 Leaf(<<14, 15, 16>>, NoPage, NoKey)>>,
     root |-> 9, height |-> 3]

\* 19, 13, 11, 1, 3, 12, 17, 15, 6, 2, 8, 10, 4, 9, 7, 14, 18, 16: the right internal node lends
RightLends ==
    [pages |-> <<Leaf(<<1, 2>>, 5, Some(3)),
                 Leaf(<<11, 12>>, 4, Some(13)),
                 RewriteInternal(1, <<Entry(3, 5), Entry(6, 6)>>, 8, Some(8)),
                 Leaf(<<13, 14>>, 10, Some(15)),
                 Leaf(<<3, 4>>, 6, Some(6)),
                 Leaf(<<6, 7>>, 7, Some(8)),
                 Leaf(<<8, 9, 10>>, 2, Some(11)),
                 RewriteInternal(7, <<Entry(11, 2), Entry(13, 4), Entry(15, 10), Entry(17, 11)>>, NoPage, NoKey),
                 RewriteInternal(3, <<Entry(8, 8)>>, NoPage, NoKey),
                 Leaf(<<15, 16>>, 11, Some(17)),
                 Leaf(<<17, 18, 19>>, NoPage, NoKey)>>,
     root |-> 9, height |-> 3]

\* 10, 9, 19, 2, 6, 11, 13, 3, 17, 12, 15, 14, 8, 16, 18, 1, 7, 4: the left internal node lends
LeftLends ==
    [pages |-> <<Leaf(<<1, 2>>, 10, Some(3)),
                 Leaf(<<9, 10>>, 4, Some(11)),
                 RewriteInternal(1, <<Entry(3, 10), Entry(6, 11), Entry(9, 2), Entry(11, 4)>>, 8, Some(13)),
                 Leaf(<<11, 12>>, 5, Some(13)),
                 Leaf(<<13, 14>>, 6, Some(15)),
                 Leaf(<<15, 16>>, 7, Some(17)),
                 Leaf(<<17, 18, 19>>, NoPage, NoKey),
                 RewriteInternal(5, <<Entry(15, 6), Entry(17, 7)>>, NoPage, NoKey),
                 RewriteInternal(3, <<Entry(13, 8)>>, NoPage, NoKey),
                 Leaf(<<3, 4>>, 11, Some(6)),
                 Leaf(<<6, 7, 8>>, 2, Some(9))>>,
     root |-> 9, height |-> 3]

\* 2, 3, 4, 5 in one leaf
OneLeaf == [pages |-> <<Leaf(<<2, 3, 4, 5>>, NoPage, NoKey)>>, root |-> 1, height |-> 1]
MCOneLeaf == {OneLeaf}

MCInitialTree == {EmptyTree, TwoLevels, RootFull, InnerMerge, InnerStuck, RightLends, LeftLends}
=============================================================================
