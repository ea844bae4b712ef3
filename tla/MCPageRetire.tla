---------------------------- MODULE MCPageRetire ----------------------------
(* A small instance of PageRetire for TLC.                                 *)
EXTENDS PageRetire

CONSTANTS o1, o2, o3, p1, p2

ThreeOps == {o1, o2, o3}
TwoPages == {p1, p2}
=============================================================================
