---------------------------- MODULE MCTransactions ----------------------------
(* Three calls on a pool of two connections, for TLC.  One call waits while   *)
(* two hold connections, and gets one that another has left.                 *)
EXTENDS Transactions
=============================================================================
