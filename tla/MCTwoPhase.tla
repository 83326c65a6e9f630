------------------------------- MODULE MCTwoPhase -------------------------------
(***************************************************************************)
(* NoWait and WaitDie on the same instance: two transactions, two loaded   *)
(* keys, a missing one and the sentinel.  The first, which is the older,   *)
(* scans and updates the loaded keys; the second updates and removes them. *)
(* Both insert the missing key.  Nobody inserts into a range that          *)
(* the other one scans, and a transaction does not touch the key behind    *)
(* one that it inserts: the README says what goes wrong then.              *)
(***************************************************************************)
EXTENDS TwoPhase

MCOps == <<{"read", "upsert", "read_scan", "update_scan"},
           {"read", "update", "insert", "remove"}>>
MCArgs == [o \in Op |-> CASE o \in {"insert", "upsert"} -> {3} [] o = "remove" -> {1, 2, 3} [] OTHER -> {1, 2}]
MCMaxOps == <<2, 2>>
MCRanges == {[lkey |-> 1, rkey |-> 3, count |-> -1], [lkey |-> 1, rkey |-> 3, count |-> 1]}

\* the other instance: the scan covers the key that is inserted
MCPhantomOps == <<{"read_scan"}, {"insert"}>>
MCPhantomRanges == {[lkey |-> 1, rkey |-> 4, count |-> -1]}

VARIABLE protocol
allVars == <<vars, protocol>>

NW == INSTANCE NoWait
WD == INSTANCE WaitDie

MCInit == \/ protocol = "nowait" /\ NW!Init
          \/ protocol = "waitdie" /\ WD!Init

MCNext == /\ \/ protocol = "nowait" /\ NW!Next
             \/ protocol = "waitdie" /\ WD!Next
          /\ UNCHANGED protocol

MCSpec == MCInit /\ [][MCNext]_allVars

\* The counts of NoWait's locks and the owner lists of WaitDie's are what the
\* transactions believe (NoWait!CountsMatchSets, WaitDie!OwnersMatchSets).
LocksMatchSets == IF protocol = "nowait" THEN NW!CountsMatchSets ELSE WD!OwnersMatchSets

\* WaitDie never waits in a cycle (WaitDie!NoWaitCycle).
WaitDieNoWaitCycle == protocol = "waitdie" => WD!NoWaitCycle

\* docs/PROTOCOLS.md:38, of the next-key lock: "This prevent inserts into the
\* range of concurrent range queries."
NoInsertIntoScannedRange ==
    \A t \in Tx : At(t, "run") =>
        \A k \in Key : <<k, Absent>> \in seen[t] => index[k] \in {NoValue, <<t, k>>}
=============================================================================
