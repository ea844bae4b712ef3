------------------------------ MODULE MCExecutors ------------------------------
(* A small instance of Executors for TLC.                                  *)
EXTENDS Executors

\* Keys 1 and 3 share a batch of two, as do NULL and 2.
MCHashKey(s) == s[2]
\* The type and the digits.
MCSerialize(v) == <<"INT", v>>
=============================================================================
