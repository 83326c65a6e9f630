-------------------------------- MODULE MCSilo --------------------------------
(***************************************************************************)
(* Two transactions of two operations each on two loaded keys and a        *)
(* missing one, in one leaf: lost updates, write skew, phantoms, inserts   *)
(* and deletes of a key, and aborts of all of these.  The scans are the    *)
(* two kinds TPC-C uses: a whole range, and the last key of a range.  Two  *)
(* epochs: the transactions commit in the same or in different ones.       *)
(***************************************************************************)
EXTENDS Silo

MCOps == <<{"read", "update", "write", "remove", "read_scan"},
           {"read", "insert", "upsert", "update_scan"}>>

MCArgs == [o \in Op |-> CASE o = "read" -> {1, 3} [] o = "update" -> {1, 2} [] o = "write" -> {3}
                         [] o = "upsert" -> {3} [] o = "insert" -> {3} [] o = "remove" -> {2}
                         [] OTHER -> {}]

MCMaxOps == <<2, 2>>

MCRanges == {[lkey |-> 1, rkey |-> 4, count |-> -1, reverse |-> FALSE],
             [lkey |-> 0, rkey |-> 2, count |-> 1, reverse |-> TRUE]}
=============================================================================
