---------------------------- MODULE OrderedIndex ----------------------------
(***************************************************************************)
(* What AbstractIndex (src/access/index.h) promises its callers: the index *)
(* is a set of pairs of a key and a record; an insert adds the pair it was *)
(* given, a delete removes the pair it was given and reports whether it    *)
(* was there.  A call may begin in one step and take effect in a later     *)
(* one, or do both at once.  Calls follow one another.                     *)
(***************************************************************************)
CONSTANTS Pair          \* the <<key, rid>> pairs callers use

VARIABLES
    index,      \* the pairs in the index
    call,       \* the latest call: its operation, its pair, what it returned
    unsure      \* pairs that a delete may fail to find

\* An index may be opened with what it already holds.
Init == call.answer = "done"

\* The call under way is this one; when none is, this one begins.
Under(op, pair) == call.answer = "pending" => call.op = op /\ call.pair = pair

Answers(op, pair, answer) == call' = [op |-> op, pair |-> pair, answer |-> answer]

Begin(op, pair) ==
    /\ call.answer # "pending" /\ Answers(op, pair, "pending")
    /\ UNCHANGED index

InsertEntry(pair) ==
    /\ Under("insert", pair) /\ Answers("insert", pair, "done")
    /\ index' = index \cup {pair}

\* An exception may leave the pair removed.
DeleteEntry(pair) ==
    /\ Under("delete", pair)
    /\ \/ Answers("delete", pair, "thrown")
       \/ Answers("delete", pair, "deleted") /\ pair \in index
       \/ Answers("delete", pair, "absent") /\ pair \notin index
    /\ index' = index \ {pair}

MissEntry(pair) ==
    /\ Under("delete", pair) /\ pair \in unsure /\ Answers("delete", pair, "absent")
    /\ UNCHANGED index

\* An exception before the pair is removed, or after.
Raise(pair) ==
    /\ Under("delete", pair) \/ (call.op = "delete" /\ call.pair = pair /\ call.answer = "deleted")
    /\ Answers("delete", pair, "thrown")
    /\ UNCHANGED index

Next ==
    \E pair \in Pair :
        \/ Begin("insert", pair) \/ Begin("delete", pair)
        \/ InsertEntry(pair) \/ DeleteEntry(pair) \/ MissEntry(pair) \/ Raise(pair)

Spec == Init /\ [][Next]_<<index, call>>
=============================================================================
