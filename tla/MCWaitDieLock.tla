--------------------------- MODULE MCWaitDieLock ----------------------------
(***************************************************************************)
(* Three transactions on two records: enough for a waiter in front of      *)
(* another, an upgrade with an older and a younger transaction around it,  *)
(* and a cycle of waits over two records.                                  *)
(***************************************************************************)
EXTENDS WaitDieLock

MCTS == 1..3
=============================================================================
