--------------------------- MODULE MCLockManager ---------------------------
(* Small instances of LockManager for TLC.                                 *)
EXTENDS LockManager

MCTxn2 == 1..2
MCTxn3 == 1..3

OneRelation == {"A"}
TwoRelations == {"A", "B"}
TwoRecords == {"a1", "a2"}
OneRecord == {"a1"}
RecordsOfA == [rid \in Record |-> "A"]
OneIndex == {"I"}

\* [1,2) ends where [2,2] starts; [2,3] overlaps the second only.
MCKeyRanges == {
    [lower |-> 1, upper |-> 2, lower_inclusive |-> TRUE, upper_inclusive |-> FALSE],
    [lower |-> 2, upper |-> 2, lower_inclusive |-> TRUE, upper_inclusive |-> TRUE],
    [lower |-> 2, upper |-> Unbounded, lower_inclusive |-> TRUE, upper_inclusive |-> TRUE]}

\* The two that overlap, for the instance that has all kinds of locks.
OverlappingRanges == {r \in MCKeyRanges : r.lower = 2}

MCKeys == 1..3
=============================================================================
