------------------------------ MODULE TableRows ------------------------------
(***************************************************************************)
(* What a table (src/storage/table.h) promises: a set of rows under the    *)
(* unique constraints of its indexes.  A statement changes it as a whole   *)
(* or not at all, with two exceptions: a statement that fails may cost a   *)
(* constraint, and may leave its new row behind.  An abort takes back      *)
(* everything since Begin.                                                 *)
(***************************************************************************)
CONSTANTS
    Tuple, UniqueIndex,
    KeyOf(_, _)     \* the key a tuple has in an index

VARIABLES
    rows,       \* the rows, each with its rid
    enforced,   \* the unique indexes that are kept
    saved       \* the rows and the constraints of the last commit

Current == [rows |-> rows, enforced |-> enforced]

\* No two of the rows have one key in one of the indexes.
Respects(r, indexes) ==
    \A i \in indexes, x, y \in r : KeyOf(i, x.tuple) = KeyOf(i, y.tuple) => x = y

Init == rows = {} /\ enforced \subseteq UniqueIndex /\ saved = Current

Free(rid) == \A row \in rows : row.rid # rid

Insert(new) == Free(new.rid) /\ rows' = rows \cup {new}

Delete(row) == rows' = rows \ {row}

\* An update may move the row.
Update(row, new) ==
    /\ new.rid = row.rid \/ Free(new.rid)
    /\ rows' = (rows \ {row}) \cup {new}

Statement ==
    /\ \/ \E new \in rows' : new.tuple \in Tuple /\ Insert(new)
       \/ \E row \in rows : Delete(row)
       \/ \E row \in rows, new \in rows' : new.tuple \in Tuple /\ Update(row, new)
    /\ Respects(rows', enforced)
    /\ UNCHANGED <<enforced, saved>>

\* A statement fails half-way: constraints are lost, the rows stay.
LoseConstraints ==
    /\ enforced' \subseteq enforced
    /\ UNCHANGED <<rows, saved>>

\* A statement fails and its new row stays, unknown to the indexes.
LeaveBehind ==
    /\ \E new \in rows' : new.tuple \in Tuple /\ Insert(new)
    /\ enforced' = {}
    /\ UNCHANGED saved

Commit == saved' = Current /\ UNCHANGED <<rows, enforced>>

Abort ==
    /\ rows' = saved.rows /\ enforced' = saved.enforced
    /\ UNCHANGED saved

\* CREATE INDEX, between transactions.
AddUniqueIndex(i) ==
    /\ saved = Current /\ Respects(rows, {i})
    /\ enforced' = enforced \cup {i}
    /\ saved' = [saved EXCEPT !.enforced = enforced']
    /\ UNCHANGED rows

Next ==
    \/ Statement \/ LoseConstraints \/ LeaveBehind \/ Commit \/ Abort
    \/ \E i \in UniqueIndex : AddUniqueIndex(i)

tableVars == <<rows, enforced, saved>>

Spec == Init /\ [][Next]_tableVars
=============================================================================
