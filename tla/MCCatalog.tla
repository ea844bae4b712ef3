----------------------------- MODULE MCCatalog -----------------------------
(* Small instances of Catalog for TLC.                                     *)
EXTENDS Catalog, TLC

MCRows == 1..2

\* Two rows with one key, so that a unique index may fail to build.
MCKeyOf == [r \in MCRows |-> 1]

\* Tables and indexes are alike.
Names == Permutations(TableName) \cup Permutations(IndexName)
=============================================================================
