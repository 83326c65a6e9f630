---------------------------- MODULE Serializability ----------------------------
(***************************************************************************)
(* When transactions could have run one at a time.  A transaction is known *)
(* by what it saw and what it wrote: for a key, the transaction whose      *)
(* version it saw (0: the one the initializer loaded), or Absent.  A log   *)
(* has a record for each transaction that has committed; an order is a set *)
(* of pairs, the first of which comes before the second.                   *)
(***************************************************************************)
EXTENDS Integers

CONSTANTS Tx,       \* transactions, positive numbers
          Key,
          Loaded    \* the keys the initializer inserts

ASSUME TxAssumption == Tx \subseteq Nat \ {0} /\ Loaded \subseteq Key

Absent == -1

\* Run in this order, the transactions T leave version x of k behind.
Leaves(log, order, T, k, x) ==
    LET W == {t \in T : k \in DOMAIN log[t].writes}
    IN  IF W = {} THEN x = IF k \in Loaded THEN 0 ELSE Absent
        ELSE \E t \in W : log[t].writes[k] = x /\ \A u \in W \ {t} : <<u, t>> \in order

\* The order decides between any two of the transactions T, and has no cycle.
Orders(order, T) ==
    /\ \A t \in T : <<t, t>> \notin order
    /\ \A t, u \in T : t = u \/ <<t, u>> \in order \/ <<u, t>> \in order
    /\ \A t, u, w \in T : <<t, u>> \in order /\ <<u, w>> \in order => <<t, w>> \in order

\* Run in this order, one at a time, all of them see what they saw.
Explains(log, order) ==
    /\ Orders(order, DOMAIN log)
    /\ \A t \in DOMAIN log : \A r \in log[t].reads :
          Leaves(log, order, {u \in DOMAIN log : <<u, t>> \in order}, r[1], r[2])
=============================================================================
