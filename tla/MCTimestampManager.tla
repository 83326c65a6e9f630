------------------------- MODULE MCTimestampManager --------------------------
(***************************************************************************)
(* Two workers, with the synchronize_cnt of the executables.  Six counts   *)
(* let a transaction abort and the other worker catch up with it.          *)
(***************************************************************************)
EXTENDS TimestampManager
=============================================================================
