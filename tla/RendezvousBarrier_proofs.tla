---------------------- MODULE RendezvousBarrier_proofs ----------------------
(***************************************************************************)
(* The barrier is correct for every finite set of children, every number   *)
(* of rounds and every schedule of types without two equal neighbours.     *)
(***************************************************************************)
EXTENDS RendezvousBarrier, FiniteSetTheorems, TLAPS

\* Where a child can be relative to the parent: at the same barrier, or still
\* spinning on the one the parent has just opened.
ChildNearParent ==
    \A c \in Children :
        /\ \/ round[c] = round[Parent]
           \/ round[c] = round[Parent] - 1 /\ pc[c] = "spin"
        /\ pc[c] = "spin" => round[c] < Rounds

\* start_ shows the last barrier the parent has opened.
StartIsLastOpened ==
    start_ = IF round[Parent] = 0 THEN BeforeExp ELSE TypeAt[round[Parent]]

\* The parent only gets past its spin inside the schedule, with the counter
\* at 0 before initialize() and at its full value after it.
ParentInSchedule ==
    /\ pc[Parent] # "work" => round[Parent] < Rounds
    /\ pc[Parent] = "reset" => ready_ = 0
    /\ pc[Parent] = "send" => ready_ = num_children_

(***************************************************************************)
(* The inductive invariant.  PhaseSeparation alone is not inductive: it    *)
(* needs to know that ready_ counts the children still to come, and that   *)
(* start_ never shows the type a waiting child is waiting for too early.   *)
(***************************************************************************)
IInv ==
    /\ TypeOK
    /\ ChildNearParent
    /\ StartIsLastOpened
    /\ ParentInSchedule
    /\ ReadyCountsArrivals

-----------------------------------------------------------------------------
\* Finite-set facts about the children, once and for all.
LEMMA ChildrenCardinality ==
    /\ num_children_ \in Nat
    /\ \A S \in SUBSET Children :
         /\ IsFiniteSet(S)
         /\ Cardinality(S) \in 0..num_children_
         /\ Cardinality(S) = num_children_ => S = Children
  <1>1. num_children_ \in Nat
    BY FS_CardinalityType, BarrierAssumption DEF num_children_
  <1>2. ASSUME NEW S \in SUBSET Children
        PROVE  /\ IsFiniteSet(S)
               /\ Cardinality(S) \in 0..num_children_
               /\ Cardinality(S) = num_children_ => S = Children
    <2>1. /\ IsFiniteSet(S)
          /\ Cardinality(S) <= Cardinality(Children)
          /\ Cardinality(Children) = Cardinality(S) => Children = S
      BY FS_Subset, BarrierAssumption
    <2>2. Cardinality(S) \in Nat
      BY <2>1, FS_CardinalityType
    <2>3. QED
      BY <1>1, <2>1, <2>2 DEF num_children_
  <1>3. QED
    BY <1>1, <1>2

LEMMA InitIInv == Init => IInv
  <1> SUFFICES ASSUME Init PROVE IInv
    OBVIOUS
  <1>1. Waiting = {}
    BY DEF Init, Waiting, Workers
  <1>2. Cardinality(Waiting) = 0
    BY <1>1, FS_EmptySet
  <1>3. TypeOK
    BY ChildrenCardinality, BarrierAssumption
       DEF Init, TypeOK, Workers, Pcs, ChildPcs, ParentPcs, num_children_
  <1>4. ChildNearParent /\ StartIsLastOpened /\ ParentInSchedule
    BY DEF Init, ChildNearParent, StartIsLastOpened, ParentInSchedule, Workers
  <1>5. ReadyCountsArrivals
    BY <1>2, ChildrenCardinality DEF Init, ReadyCountsArrivals, Workers
  <1>6. QED
    BY <1>3, <1>4, <1>5 DEF IInv

LEMMA NextIInv == IInv /\ [Next]_vars => IInv'
  <1> SUFFICES ASSUME IInv, [Next]_vars PROVE IInv'
    OBVIOUS
  <1> USE BarrierAssumption, ChildrenCardinality DEF IInv
  <1>w. Parent \in Workers /\ Children \subseteq Workers /\ Parent \notin Children
    BY DEF Workers
  <1>1. ASSUME NEW c \in Children, send_ready_to_parent(c)
        PROVE  IInv'
    <2>0. c # Parent /\ pc'[c] = "spin" /\ round' = round /\ start_' = start_
          /\ ready_' = ready_ - 1 /\ pc[c] = "work"
          /\ \A w \in Workers : w # c => pc'[w] = pc[w]
      BY <1>1, <1>w DEF send_ready_to_parent, TypeOK
    <2>1. round[c] = round[Parent]
      BY <2>0 DEF ChildNearParent
    <2>2. Waiting' = Waiting \cup {c} /\ c \notin Waiting
      BY <2>0, <2>1, <1>w DEF Waiting
    <2>3. Cardinality(Waiting') = Cardinality(Waiting) + 1
      BY <2>2, FS_AddElement, Zenon DEF Waiting
    <2>4. pc[Parent] = "work"
      BY <2>2, <1>w DEF ReadyCountsArrivals, TypeOK, ParentPcs
    <2>5. Cardinality(Waiting) \in Nat /\ Cardinality(Waiting') \in 0..num_children_
      BY DEF Waiting
    <2>6. TypeOK'
      BY <2>0, <2>3, <2>4, <2>5, <1>w, <1>1, SMTT(40)
         DEF TypeOK, ReadyCountsArrivals, ChildPcs, ParentPcs, Pcs, num_children_,
             send_ready_to_parent
    <2>7. ReadyCountsArrivals'
      BY <2>0, <2>3, <2>4, <2>5, <1>w DEF ReadyCountsArrivals, num_children_
    <2>8. ChildNearParent' /\ StartIsLastOpened' /\ ParentInSchedule'
      BY <2>0, <2>4, <1>w, <1>1
         DEF ChildNearParent, StartIsLastOpened, ParentInSchedule, send_ready_to_parent
    <2>9. QED
      BY <2>6, <2>7, <2>8
  <1>2. ASSUME NEW c \in Children, wait_start(c)
        PROVE  IInv'
    <2>0. c # Parent /\ pc'[c] = "work" /\ pc[c] = "spin" /\ start_' = start_
          /\ ready_' = ready_ /\ round'[c] = round[c] + 1
          /\ start_ = TypeAt[round[c] + 1]
          /\ \A w \in Workers : w # c => pc'[w] = pc[w] /\ round'[w] = round[w]
      BY <1>2, <1>w DEF wait_start, TypeOK
    <2>1. round[c] \in Nat /\ round[Parent] \in Nat /\ round[c] < Rounds
      BY <2>0, <1>w DEF TypeOK, ChildNearParent
    <2>2. round[c] = round[Parent] - 1
      <3>1. CASE round[c] = round[Parent] /\ round[Parent] = 0
        BY <3>1, <2>0, <2>1 DEF StartIsLastOpened
      <3>2. CASE round[c] = round[Parent] /\ round[Parent] # 0
        BY <3>2, <2>0, <2>1, SMTT(40) DEF StartIsLastOpened
      <3>3. QED
        BY <3>1, <3>2 DEF ChildNearParent
    <2>3. Waiting' = Waiting /\ c \notin Waiting
      BY <2>0, <2>1, <2>2, <1>w, SMTT(40) DEF Waiting
    <2>4. pc[Parent] = "work"
      BY <2>3, <1>w DEF ReadyCountsArrivals, TypeOK, ParentPcs
    <2>5. TypeOK'
      BY <2>0, <2>1, <1>w, <1>2
         DEF TypeOK, ChildPcs, ParentPcs, Pcs, wait_start
    <2>6. ReadyCountsArrivals'
      BY <2>0, <2>3, <2>4, <1>w DEF ReadyCountsArrivals, num_children_
    <2>7. ChildNearParent' /\ StartIsLastOpened' /\ ParentInSchedule'
      BY <2>0, <2>1, <2>2, <2>4, <1>w, SMTT(40)
         DEF ChildNearParent, StartIsLastOpened, ParentInSchedule
    <2>8. QED
      BY <2>5, <2>6, <2>7
  <1>3. CASE wait_all_children_ready
    <2>0. pc'[Parent] = "reset" /\ pc[Parent] = "work" /\ round' = round
          /\ start_' = start_ /\ ready_' = ready_ /\ round[Parent] < Rounds
          /\ ~(0 < ready_)
          /\ \A c \in Children : pc'[c] = pc[c]
      BY <1>3, <1>w DEF wait_all_children_ready, TypeOK
    <2>1. ready_ = 0 /\ Cardinality(Waiting) = num_children_
      <3>1. ready_ \in Nat /\ Cardinality(Waiting) \in Nat
        BY DEF TypeOK, Waiting, num_children_
      <3>2. QED
        BY <3>1, <2>0 DEF ReadyCountsArrivals
    <2>2. Waiting = Children /\ Waiting' = Waiting
      BY <2>0, <2>1 DEF Waiting
    <2>3. TypeOK'
      BY <2>0, <1>3, <1>w
         DEF TypeOK, ChildPcs, ParentPcs, Pcs, wait_all_children_ready
    <2>4. ReadyCountsArrivals' /\ ParentInSchedule'
      BY <2>0, <2>1, <2>2 DEF ReadyCountsArrivals, ParentInSchedule
    <2>5. ChildNearParent' /\ StartIsLastOpened'
      BY <2>0 DEF ChildNearParent, StartIsLastOpened
    <2>6. QED
      BY <2>3, <2>4, <2>5
  <1>4. CASE initialize
    <2>0. pc'[Parent] = "send" /\ pc[Parent] = "reset" /\ round' = round
          /\ start_' = start_ /\ ready_' = num_children_
          /\ \A c \in Children : pc'[c] = pc[c]
      BY <1>4, <1>w DEF initialize, TypeOK
    <2>1. Waiting' = Children
      BY <2>0 DEF Waiting, ReadyCountsArrivals
    <2>2. TypeOK'
      BY <2>0, <1>4, <1>w
         DEF TypeOK, ChildPcs, ParentPcs, Pcs, initialize, num_children_
    <2>3. ReadyCountsArrivals' /\ ParentInSchedule'
      BY <2>0, <2>1 DEF ReadyCountsArrivals, ParentInSchedule, num_children_
    <2>4. ChildNearParent' /\ StartIsLastOpened'
      BY <2>0 DEF ChildNearParent, StartIsLastOpened
    <2>5. QED
      BY <2>2, <2>3, <2>4
  <1>5. CASE send_start_to_all_children
    <2>0. pc'[Parent] = "work" /\ pc[Parent] = "send" /\ ready_' = ready_
          /\ round'[Parent] = round[Parent] + 1 /\ round[Parent] < Rounds
          /\ start_' = TypeAt[round[Parent] + 1]
          /\ round[Parent] \in Nat
          /\ \A c \in Children : pc'[c] = pc[c] /\ round'[c] = round[c]
      BY <1>5, <1>w DEF send_start_to_all_children, TypeOK, ParentInSchedule
    <2>1. \A c \in Children : pc[c] = "spin" /\ round[c] = round[Parent]
      BY <2>0 DEF ReadyCountsArrivals, Waiting
    <2>2. Waiting' = {}
      BY <2>0, <2>1 DEF Waiting
    <2>3. Cardinality(Waiting') = 0
      BY <2>2, FS_EmptySet
    <2>4. TypeOK'
      BY <2>0, <1>5, <1>w
         DEF TypeOK, ChildPcs, ParentPcs, Pcs, send_start_to_all_children
    <2>5. ReadyCountsArrivals' /\ ParentInSchedule'
      BY <2>0, <2>3 DEF ReadyCountsArrivals, ParentInSchedule, num_children_
    <2>6. ChildNearParent'
      BY <2>0, <2>1 DEF ChildNearParent
    <2>7. StartIsLastOpened'
      BY <2>0 DEF StartIsLastOpened
    <2>8. QED
      BY <2>4, <2>5, <2>6, <2>7
  <1>6. CASE UNCHANGED vars
    BY <1>6 DEF vars, TypeOK, ChildNearParent, StartIsLastOpened, ParentInSchedule,
                ReadyCountsArrivals, Waiting, num_children_
  <1>7. QED
    BY <1>1, <1>2, <1>3, <1>4, <1>5, <1>6 DEF Next, ChildStep, ParentStep, Joined

LEMMA InvariantHolds == Spec => []IInv
  BY InitIInv, NextIInv, PTL DEF Spec

-----------------------------------------------------------------------------
\* The variables keep their types; in particular ready_ never leaves
\* 0..num_children_, so wait_all_children_ready sees every arrival.
THEOREM TypeCorrect == Spec => []TypeOK
  <1>1. IInv => TypeOK
    BY DEF IInv
  <1>2. QED
    BY <1>1, InvariantHolds, PTL

\* No worker enters a phase before every child has finished the previous one.
THEOREM PhasesSeparated == Spec => []PhaseSeparation
  <1>1. IInv => PhaseSeparation
    BY DEF IInv, PhaseSeparation, ChildNearParent, Arrived, TypeOK, Workers
  <1>2. QED
    BY <1>1, InvariantHolds, PTL

\* The spin of the parent ends only when all the children have arrived, and no
\* arrival is lost by the reset of the counter.
THEOREM NoArrivalLost == Spec => []ReadyCountsArrivals
  <1>1. IInv => ReadyCountsArrivals
    BY DEF IInv
  <1>2. QED
    BY <1>1, InvariantHolds, PTL

-----------------------------------------------------------------------------
(***************************************************************************)
(* Refinement: send_ready_to_parent and wait_all_children_ready are the    *)
(* abstract arrivals, wait_start and send_start_to_all_children the        *)
(* abstract passages, initialize and the join change nothing abstract.     *)
(***************************************************************************)
LEMMA InitRefines == Init => PB!Init
  <1> SUFFICES ASSUME Init PROVE PB!Init
    OBVIOUS
  <1>1. \A w \in Workers : (pc[w] \in {"spin", "reset", "send"}) = FALSE
    BY DEF Init
  <1>2. ArrivedMap = [w \in Workers |-> FALSE]
    BY <1>1, Zenon DEF ArrivedMap
  <1>3. QED
    BY <1>2 DEF Init, PB!Init

LEMMA NextRefines == IInv /\ IInv' /\ [Next]_vars => [PB!Next]_PB!pbVars
  <1> SUFFICES ASSUME IInv, IInv', [Next]_vars PROVE [PB!Next]_PB!pbVars
    OBVIOUS
  <1>w. Parent \in Workers /\ Children \subseteq Workers /\ Parent \notin Children
    BY BarrierAssumption DEF Workers
  <1>t. TypeOK /\ TypeOK' /\ ChildNearParent /\ Rounds \in Nat
    BY BarrierAssumption DEF IInv
  <1>1. ASSUME NEW c \in Children, send_ready_to_parent(c)
        PROVE  PB!Arrive(c)
    <2>1. /\ round' = round /\ round[c] < Rounds
          /\ pc[c] = "work" /\ pc' = [pc EXCEPT ![c] = "spin"]
      BY <1>1 DEF send_ready_to_parent
    <2>2. ArrivedMap' = [ArrivedMap EXCEPT ![c] = TRUE]
      BY <2>1, <1>w, <1>t, Zenon DEF ArrivedMap, TypeOK
    <2>3. ~ArrivedMap[c]
      BY <2>1, <1>w, Zenon DEF ArrivedMap
    <2>4. QED
      BY <2>1, <2>2, <2>3 DEF PB!Arrive
  <1>2. ASSUME NEW c \in Children, wait_start(c)
        PROVE  PB!Pass(c)
    <2>1. /\ pc[c] = "spin" /\ pc' = [pc EXCEPT ![c] = "work"]
          /\ round' = [round EXCEPT ![c] = @ + 1]
      BY <1>2 DEF wait_start
    <2>2. ArrivedMap' = [ArrivedMap EXCEPT ![c] = FALSE]
      <3>1. \A w \in Workers : w # c => pc'[w] = pc[w]
        BY <2>1, <1>t DEF TypeOK
      <3>2. pc'[c] = "work"
        BY <2>1, <1>w, <1>t DEF TypeOK
      <3>3. (pc'[c] \in {"spin", "reset", "send"}) = FALSE
        BY <3>2
      <3>4. QED
        BY <3>1, <3>3, <1>w, Zenon DEF ArrivedMap
    <2>3. ArrivedMap[c]
      BY <2>1, <1>w, Zenon DEF ArrivedMap
    <2>4. round[c] + 1 <= round[Parent]
      <3>1. round'[c] = round[c] + 1 /\ round'[Parent] = round[Parent]
        BY <2>1, <1>w, <1>t DEF TypeOK
      <3>2. round'[c] <= round'[Parent]
        BY <1>w DEF IInv, ChildNearParent, TypeOK
      <3>3. QED
        BY <3>1, <3>2
    <2>5. ASSUME NEW v \in Workers
          PROVE  PB!HasArrived(v, round[c] + 1)
      <3>1. CASE v = Parent
        BY <3>1, <2>4 DEF PB!HasArrived
      <3>2. CASE v # Parent
        <4>1. v \in Children
          BY <3>2 DEF Workers
        <4>2. round[c] \in Nat /\ round[v] \in Nat /\ round[Parent] \in Nat
          BY <1>w, <1>t, <4>1 DEF TypeOK
        <4>3. round[c] = round[Parent] - 1
          BY <2>4, <4>2, <1>t DEF ChildNearParent
        <4>4. CASE round[v] = round[Parent]
          BY <4>2, <4>3, <4>4 DEF PB!HasArrived
        <4>5. CASE round[v] = round[Parent] - 1 /\ pc[v] = "spin"
          <5>1. ArrivedMap[v]
            BY <4>5, Zenon DEF ArrivedMap
          <5>2. round[v] = (round[c] + 1) - 1
            BY <4>2, <4>3, <4>5
          <5>3. QED
            BY <5>1, <5>2 DEF PB!HasArrived
        <4>6. QED
          BY <4>1, <4>4, <4>5, <1>t DEF ChildNearParent
      <3>3. QED
        BY <3>1, <3>2
    <2>6. QED
      BY <2>1, <2>2, <2>3, <2>5 DEF PB!Pass
  <1>3. ASSUME wait_all_children_ready
        PROVE  PB!Arrive(Parent)
    <2>1. /\ round' = round /\ round[Parent] < Rounds
          /\ pc[Parent] = "work" /\ pc' = [pc EXCEPT ![Parent] = "reset"]
      BY <1>3 DEF wait_all_children_ready
    <2>2. ArrivedMap' = [ArrivedMap EXCEPT ![Parent] = TRUE]
      BY <2>1, <1>w, <1>t, Zenon DEF ArrivedMap, TypeOK
    <2>3. ~ArrivedMap[Parent]
      BY <2>1, <1>w, Zenon DEF ArrivedMap
    <2>4. QED
      BY <2>1, <2>2, <2>3 DEF PB!Arrive
  <1>4. ASSUME initialize
        PROVE  UNCHANGED PB!pbVars
    <2>1. /\ round' = round
          /\ pc[Parent] = "reset" /\ pc' = [pc EXCEPT ![Parent] = "send"]
      BY <1>4 DEF initialize
    <2>2. ArrivedMap' = ArrivedMap
      BY <2>1, <1>w, <1>t DEF ArrivedMap, TypeOK
    <2>3. QED
      BY <2>1, <2>2 DEF PB!pbVars
  <1>5. ASSUME send_start_to_all_children
        PROVE  PB!Pass(Parent)
    <2>1. /\ pc[Parent] = "send" /\ pc' = [pc EXCEPT ![Parent] = "work"]
          /\ round' = [round EXCEPT ![Parent] = @ + 1]
      BY <1>5 DEF send_start_to_all_children
    <2>2. ArrivedMap' = [ArrivedMap EXCEPT ![Parent] = FALSE]
      <3>1. \A w \in Workers : w # Parent => pc'[w] = pc[w]
        BY <2>1, <1>t DEF TypeOK
      <3>2. pc'[Parent] = "work"
        BY <2>1, <1>w, <1>t DEF TypeOK
      <3>3. (pc'[Parent] \in {"spin", "reset", "send"}) = FALSE
        BY <3>2
      <3>4. QED
        BY <3>1, <3>3, <1>w, Zenon DEF ArrivedMap
    <2>3. ArrivedMap[Parent]
      BY <2>1, <1>w, Zenon DEF ArrivedMap
    <2>4. \A c \in Children : pc[c] = "spin" /\ round[c] = round[Parent]
      BY <2>1 DEF IInv, ReadyCountsArrivals, Waiting
    <2>5. ASSUME NEW v \in Workers
          PROVE  PB!HasArrived(v, round[Parent] + 1)
      <3>1. round[v] = round[Parent] /\ ArrivedMap[v]
        BY <2>3, <2>4, Zenon DEF Workers, ArrivedMap
      <3>2. round[Parent] \in Nat
        BY <1>w, <1>t DEF TypeOK
      <3>3. QED
        BY <3>1, <3>2 DEF PB!HasArrived
    <2>6. QED
      BY <2>1, <2>2, <2>3, <2>5 DEF PB!Pass
  <1>6. ASSUME UNCHANGED vars
        PROVE  UNCHANGED PB!pbVars
    BY <1>6 DEF vars, PB!pbVars, ArrivedMap
  <1>7. QED
    BY <1>1, <1>2, <1>3, <1>4, <1>5, <1>6, <1>w
       DEF Next, ChildStep, ParentStep, Joined, PB!Next

\* The code of the barrier implements the abstract phase barrier the epoch
\* engines rely on.
THEOREM BarrierRefinement == Spec => ImplementsPhaseBarrier
  <1>1. Init => PB!Init
    BY InitRefines
  <1>2. IInv /\ IInv' /\ [Next]_vars => [PB!Next]_PB!pbVars
    BY NextRefines
  <1>3. QED
    BY <1>1, <1>2, InvariantHolds, PTL DEF Spec, PB!Spec, ImplementsPhaseBarrier
=============================================================================
