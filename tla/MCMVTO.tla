--------------------------------- MODULE MCMVTO ---------------------------------
(***************************************************************************)
(* Two workers with two transactions each: 2 and 4, 3 and 5.               *)
(***************************************************************************)
EXTENDS MVTO

MCOps == [t \in Tx |-> CASE t = 2 -> {"remove", "read_scan"} [] t = 3 -> {"insert", "update"}
                         [] t = 4 -> {"insert", "update_scan"} [] t = 5 -> {"read", "upsert"}]
MCArgs == [o \in Op |-> IF o \in {"insert", "upsert"} THEN {1, 2} ELSE {1}]
MCRanges == {[lkey |-> 1, rkey |-> 3, count |-> -1, rev |-> FALSE],
             [lkey |-> 0, rkey |-> 2, count |-> 1, rev |-> TRUE]}
MCLeaf == [k \in Key |-> k]
MCMaxOps == [t \in Tx |-> IF t = 3 THEN 2 ELSE 1]

\* The other instance: 2 reads what 3 updates and 5 prunes, each with the
\* bounds that are published when it begins.
MCBoundOps == [t \in Tx |-> IF t = 2 THEN {"read"} ELSE {"update"}]
=============================================================================
