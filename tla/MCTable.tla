------------------------------- MODULE MCTable -------------------------------
(* A small instance of Table for TLC.                                      *)
EXTENDS Table

\* Index 1 is on id and unique, index 2 is on dept.
MCKeyOf(index, t) == IF index = 1 THEN t.id ELSE t.dept
MCSizeOf(t) == t.size

\* Two tuples with one id, of different sizes; one has a NULL dept.
MCTuple == {[id |-> 1, dept |-> 1, size |-> 2], [id |-> 2, dept |-> 1, size |-> 3],
            [id |-> 2, dept |-> Null, size |-> 2]}
=============================================================================
