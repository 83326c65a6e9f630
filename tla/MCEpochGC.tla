------------------------------ MODULE MCEpochGC ------------------------------
(***************************************************************************)
(* Two workers and a record or a Value; the other one has been freed       *)
(* before.  (The steps on one object do not depend on another.)  With      *)
(* three epochs an object tagged with the first is freed by a transaction  *)
(* that began in the third.  Of the garbage a worker's epoch may start     *)
(* with, 1 lets the manager advance once and then holds it back, and       *)
(* Infinity never holds it back.                                           *)
(***************************************************************************)
EXTENDS EpochGC

MCInit ==
    /\ Init
    /\ epoch[1] = 1 /\ epoch[2] \in {1, Infinity}
    /\ \E o \in Obj : \A p \in Obj : status[p] = "freed" <=> p # o

MCSpec == MCInit /\ [][Next]_vars

MCFairSpec == MCSpec /\ Fairness
=============================================================================
