--------------------------- MODULE MCWalRecovery ---------------------------
(* Small instances of WalRecovery for TLC.                                 *)
EXTENDS WalRecovery

OneTxn == {1}
TwoTxns == 1..2
ThreeTxns == 1..3

OnePage == {"p"}
TwoPages == {"p", "q"}
=============================================================================
