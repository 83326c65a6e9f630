------------------------------- MODULE SerialDB -------------------------------
(***************************************************************************)
(* What Silo, NoWait, WaitDie and MVTO promise to the benchmarks: when a   *)
(* transaction commits it gets its place in the serial order, and it and   *)
(* all those that committed before it could have run one at a time in that *)
(* order.  The place need not be the last one, but it is for good.         *)
(***************************************************************************)
EXTENDS Serializability

VARIABLES log,      \* the committed transactions: a function to records
          order     \* the serial order, a set of pairs

Init == log = << >> /\ order = {}

Commit(t) ==
    /\ t \notin DOMAIN log
    /\ DOMAIN log' = DOMAIN log \cup {t}
    /\ \A u \in DOMAIN log : log'[u] = log[u]
    /\ order \subseteq order'
    /\ Explains(log', order')

Next == \E t \in Tx : Commit(t)

Spec == Init /\ [][Next]_<<log, order>>
=============================================================================
