------------------------------- MODULE MCServal -------------------------------
(***************************************************************************)
(* The rendezvous barrier and, on the phases it separates, the Serval      *)
(* engine.  The engine uses the abstract barrier that the code of the      *)
(* barrier implements, so that the two are checked apart: component says   *)
(* which of them takes the steps of a behaviour, and the other rests.      *)
(*                                                                         *)
(* Barrier: three children and two epochs of the schedule of run_tx: Exp,  *)
(* then ExecPhase and NewEpoc in each epoch.                               *)
(*                                                                         *)
(* Serval: two cores with two transactions each meet at a row in every     *)
(* way, because one can hold the lock as initializer, appender or          *)
(* installer while the other tries.  Three epochs let an array of the      *)
(* region be skipped for an epoch before its core clears it.               *)
(***************************************************************************)
EXTENDS RendezvousBarrier

CONSTANTS NumCore, Key, MaxEpoch, NumRegions, Free
VARIABLES component,
          phase, arrived, row, allocated, written, stable, used, core_pc, i, key, done,
          writes, final

servalVars == <<phase, arrived, row, allocated, written, stable, used, core_pc, i, key,
                done, writes, final>>
allVars == <<component, vars, servalVars>>

S == INSTANCE Serval WITH pc <- core_pc

ASSUME S!ServalAssumption

MCType == {"BeforeExp", "Exp", "InitPhase", "ExecPhase", "NewEpoc"}

MCTypeAt ==
    [r \in 1..Rounds |-> CASE r = 1 -> "Exp"
                           [] r > 1 /\ r % 2 = 0 -> "ExecPhase"
                           [] r > 1 /\ r % 2 = 1 -> "NewEpoc"]

MCInit == component \in {"barrier", "serval"} /\ Init /\ S!Init

Of(c) == component = c /\ UNCHANGED component

MCNext == \/ Of("barrier") /\ Next /\ UNCHANGED servalVars
          \/ Of("serval") /\ S!Next /\ UNCHANGED vars

MCSpec == MCInit /\ [][MCNext]_allVars

\* Of the component that takes the steps, every thread keeps running.
MCFairSpec ==
    /\ MCSpec
    /\ \A c \in Children : WF_allVars(Of("barrier") /\ ChildStep(c) /\ UNCHANGED servalVars)
    /\ WF_allVars(Of("barrier") /\ ParentStep /\ UNCHANGED servalVars)
    /\ \A w \in S!Cores : WF_allVars(Of("serval") /\ S!Step(w) /\ UNCHANGED vars)

-----------------------------------------------------------------------------
\* Every worker goes through all the barriers of the experiment: no arrival is
\* lost, and no child misses the opening of a barrier (RendezvousBarrier!AllFinish).
BarrierFinishes == component = "barrier" => AllFinish

\* Every core of Serval gets through every phase of every epoch: no read and no
\* lock is waited for for ever (Serval!AllFinish).
ServalFinishes == component = "serval" => S!AllFinish

\* A transaction that reads a row which some transaction of the epoch writes gets
\* the version of the last transaction before it (Serval!ReadsInSerialOrder).
ReadsInSerialOrder == S!ReadsInSerialOrder

\* A row holds exactly the versions appended to it in the epoch, whoever installs
\* its region and moves them there (Serval!NoVersionLost).
NoVersionLost == S!NoVersionLost

\* What a read may return is allocated, and its record is there as soon as its
\* status is STABLE (Serval!ReadsAllocated).
ReadsAllocated == S!ReadsAllocated
===============================================================================
