-------------------------------- MODULE MCTPCC -------------------------------
(***************************************************************************)
(* Two threads and three transactions: an order is placed and delivered,   *)
(* behind one the loader has left undelivered, or delivered together with  *)
(* one of the other district.  A stock of 12 is used up by the first line  *)
(* and filled up to 101, and three orders wrap its counters around.  The   *)
(* caches hold what one Delivery leaves in them and no more.  One abort    *)
(* meets every step of a transaction.                                      *)
(***************************************************************************)
EXTENDS TPCC

CONSTANTS t1, t2

Symmetry == Permutations(Thread)
=============================================================================
