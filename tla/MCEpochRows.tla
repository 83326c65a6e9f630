------------------------------ MODULE MCEpochRows ------------------------------
(***************************************************************************)
(* Caracal and Serval with reference counts on the same instance: two      *)
(* cores with two transactions each and two epochs.  In the first epoch    *)
(* all transactions may use the first row, so that a slice of its buffer   *)
(* gets full, two cores race to install one, and all placements of reads   *)
(* and writes occur.  In the second epoch one pair of transactions may use *)
(* the second row, for which a core may have a spare buffer, and the other *)
(* pair the first row with whatever the first epoch has left behind.       *)
(***************************************************************************)
EXTENDS EpochRows

CONSTANTS NumBuffers, MaxSlots, Free
VARIABLES pending, carried,                       \* of ServalRC
          used, slices, spare, hand, appended     \* of Caracal

caracalVars == <<used, slices, spare, hand, appended>>
allVars == <<rowVars, pending, carried, caracalVars>>

C == INSTANCE Caracal
R == INSTANCE ServalRC

MCRows == <<[s \in Serials |-> {1}], [s \in Serials |-> IF s < 2 THEN {2} ELSE {1}]>>

ASSUME C!CaracalAssumption

NoReads == [s \in Serials |-> [k \in Key |-> -1]]
NoWrites == [k \in Key |-> {}]

MCInit == \/ C!Init /\ pending = NoReads /\ carried = NoWrites
          \/ R!Init /\ C!BufferInit

MCStep(w) == \/ engine = "caracal" /\ C!Step(w) /\ UNCHANGED <<pending, carried>>
             \/ engine = "serval_rc" /\ R!Step(w) /\ UNCHANGED caracalVars

MCNext == (\E w \in Cores : MCStep(w)) \/ (Joined /\ UNCHANGED allVars)

MCSpec == MCInit /\ [][MCNext]_allVars

\* As long as some core can take a step, one of them takes one.  Nothing more is
\* asked of the threads: a core that spins takes none.
MCFairSpec == MCSpec /\ WF_allVars(MCNext)

\* Both engines let a transaction read what the serial order asks for
\* (Caracal!ReadsInSerialOrder, ServalRC!ReadsInSerialOrder).
ReadsInSerialOrder ==
    IF engine = "caracal" THEN C!ReadsInSerialOrder ELSE R!ReadsInSerialOrder

\* Neither a version nor a buffer gets lost (Caracal!NothingLost).
CaracalNothingLost == engine = "caracal" => C!NothingLost

\* The reference counts are those of the reads to come (ServalRC!ReadersCounted).
ServalRCReadersCounted == engine = "serval_rc" => R!ReadersCounted

\* rw_bitmaps.hpp:73, "if my_txid is final state, update master": the last write
\* of an epoch is what a later epoch reads (ServalRC!FinalWriteIsMaster).
ServalRCFinalWriteIsMaster == engine = "serval_rc" => R!FinalWriteIsMaster
=============================================================================
