--------------------------- MODULE MCGenericBTree ---------------------------
(* Two key columns; leaves of at most four entries, internal nodes of two. *)
(* Two leaves, one underfull and the other unable to lend, may be too      *)
(* large to merge.  One key may be stored for two records.                 *)
EXTENDS GenericBTree

\* What inserting the keys in this order builds.
Built(keys) == FoldLeft(LAMBDA t, key : Inserted(t, key, 1), EmptyTree, keys)

\* Three leaves, the last of them full; three levels.
TwoLevels == Built(<<<<1, 1>>, <<1, 2>>, <<1, 3>>, <<2, 1>>, <<2, 2>>, <<2, 3>>, <<3, 1>>, <<3, 2>>>>)
ThreeLevels == Built(<<<<1, 1>>, <<1, 2>>, <<1, 3>>, <<2, 1>>, <<2, 2>>, <<2, 3>>, <<3, 1>>, <<3, 2>>, <<3, 3>>>>)

\* What ScansMatch allows to fail: an exact search finds every entry of its key.
SearchesComplete ==
    \A p \in Contents(tree) : p \in Pairs(SearchExactEntries(tree, p[1]))

MCInitialTree == {EmptyTree, TwoLevels, ThreeLevels}
MCPair == ({<<1, 1>>, <<1, 2>>, <<2, 2>>, <<2, 3>>, <<3, 1>>} \X {1}) \cup ({<<2, 1>>} \X {1, 2})
=============================================================================
