---------------------------- MODULE MCBufferPool ----------------------------
(* A small instance of BufferPool for TLC.                                 *)
EXTENDS BufferPool, TLC

CONSTANTS c1, c2, c3

ThreeClients == {c1, c2, c3}

Threads == Permutations(ThreeClients)
=============================================================================
