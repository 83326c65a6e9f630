------------------------- MODULE RendezvousBarrier --------------------------
(***************************************************************************)
(* protocols/ycsb_common/rendezvous_barrier.hpp and its caller             *)
(* rendezvous_barrier_to_start (executables/ycsb_serval.cpp,               *)
(* ycsb_caracal.cpp, ycsb_serval_rc.cpp).                                  *)
(*                                                                         *)
(* One worker (number 63 in the code) is the parent, the others are the    *)
(* children.  A child decrements ready_ and spins until start_ shows the   *)
(* type of the barrier it is at; the parent spins until ready_ is 0, sets  *)
(* ready_ back to the number of children and then publishes the type in    *)
(* start_.  Every load and store is a step of its own.                     *)
(***************************************************************************)
EXTENDS Integers, FiniteSets

CONSTANTS Children,    \* workers 0..62 of the code
          Parent,      \* worker 63
          Type,        \* enum BarrierType
          BeforeExp,   \* the value start_ is constructed with
          Rounds,      \* barriers run_tx goes through: 1 + 2 * NUM_EPOCH
          TypeAt       \* TypeAt[r]: the type run_tx passes at its r-th barrier

(***************************************************************************)
(* run_tx passes Exp first and then, in every epoch, two (three, in        *)
(* Serval_RC) different types, so that no two consecutive barriers have    *)
(* the same type and the first one differs from the initial value.         *)
(***************************************************************************)
ASSUME BarrierAssumption ==
    /\ IsFiniteSet(Children)
    /\ Parent \notin Children
    /\ Rounds \in Nat
    /\ BeforeExp \in Type
    /\ TypeAt \in [1..Rounds -> Type]
    /\ \A r \in 1..Rounds : r = 1 => TypeAt[r] # BeforeExp
    /\ \A r \in 1..Rounds : r > 1 => TypeAt[r] # TypeAt[r - 1]

VARIABLES start_,   \* parent to children: the last barrier opened
          ready_,   \* children to parent: how many have not arrived yet
          round,    \* round[w]: how many barriers w has passed
          pc        \* where w is: see Pcs below

vars == <<start_, ready_, round, pc>>

Workers == Children \cup {Parent}

\* "work": between two barriers (the parent also while it spins on ready_);
\* "spin": a child in wait_start;
\* "reset", "send": the parent before initialize() and before the store to start_.
ChildPcs == {"work", "spin"}
ParentPcs == {"work", "reset", "send"}
Pcs == ChildPcs \cup ParentPcs

TypeOK ==
    /\ start_ \in Type
    /\ ready_ \in 0..Cardinality(Children)
    /\ round \in [Workers -> 0..Rounds]
    /\ pc \in [Workers -> Pcs]
    /\ \A c \in Children : pc[c] \in ChildPcs
    /\ pc[Parent] \in ParentPcs

\* Deliberately wrong variants of the definitions below; the runs must tell
\* each of them from the code.
M_num_children_ == Cardinality(Children) + 1   \* constructed with num_threads

M_wait_start(c) ==                             \* opens on any barrier type
    /\ pc[c] = "spin"
    /\ start_ # BeforeExp
    /\ round' = [round EXCEPT ![c] = @ + 1]
    /\ pc' = [pc EXCEPT ![c] = "work"]
    /\ UNCHANGED <<start_, ready_>>

\* main constructs the barrier with num_threads - 1.
num_children_ == Cardinality(Children)

Init ==
    /\ start_ = BeforeExp
    /\ ready_ = num_children_
    /\ round = [w \in Workers |-> 0]
    /\ pc = [w \in Workers |-> "work"]

-----------------------------------------------------------------------------
send_ready_to_parent(c) ==
    /\ pc[c] = "work"
    /\ round[c] < Rounds
    /\ ready_' = ready_ - 1
    /\ pc' = [pc EXCEPT ![c] = "spin"]
    /\ UNCHANGED <<start_, round>>

wait_start(c) ==
    /\ pc[c] = "spin"
    /\ start_ = TypeAt[round[c] + 1]
    /\ round' = [round EXCEPT ![c] = @ + 1]
    /\ pc' = [pc EXCEPT ![c] = "work"]
    /\ UNCHANGED <<start_, ready_>>

wait_all_children_ready ==
    /\ pc[Parent] = "work"
    /\ round[Parent] < Rounds
    /\ ~(0 < ready_)
    /\ pc' = [pc EXCEPT ![Parent] = "reset"]
    /\ UNCHANGED <<start_, ready_, round>>

initialize ==
    /\ pc[Parent] = "reset"
    /\ ready_' = num_children_
    /\ pc' = [pc EXCEPT ![Parent] = "send"]
    /\ UNCHANGED <<start_, round>>

send_start_to_all_children ==
    /\ pc[Parent] = "send"
    /\ start_' = TypeAt[round[Parent] + 1]
    /\ round' = [round EXCEPT ![Parent] = @ + 1]
    /\ pc' = [pc EXCEPT ![Parent] = "work"]
    /\ UNCHANGED ready_

\* Every thread has left run_tx: main joins them.
Joined ==
    /\ \A w \in Workers : round[w] = Rounds
    /\ UNCHANGED vars

ChildStep(c) == send_ready_to_parent(c) \/ wait_start(c)

ParentStep ==
    \/ wait_all_children_ready
    \/ initialize
    \/ send_start_to_all_children

Next ==
    \/ \E c \in Children : ChildStep(c)
    \/ ParentStep
    \/ Joined

\* Threads are pinned to their own core and never block: each keeps running.
Fairness ==
    /\ \A c \in Children : WF_vars(ChildStep(c))
    /\ WF_vars(ParentStep)

Spec == Init /\ [][Next]_vars

FairSpec == Spec /\ Fairness

-----------------------------------------------------------------------------
\* c has sent its ready for barrier r.
Arrived(c, r) == round[c] >= r \/ (round[c] = r - 1 /\ pc[c] = "spin")

(***************************************************************************)
(* Nobody is in phase r before every child has finished phase r - 1, and   *)
(* no child is ahead of the parent: the initialization and the execution   *)
(* phases of two workers never overlap.                                    *)
(***************************************************************************)
PhaseSeparation ==
    /\ \A w \in Workers, c \in Children : Arrived(c, round[w])
    /\ \A c \in Children : round[c] <= round[Parent]

(***************************************************************************)
(* The children that have sent ready for the barrier the parent is at.     *)
(* While the parent spins, ready_ counts exactly the others: no decrement  *)
(* is lost when initialize() overwrites the counter.                       *)
(***************************************************************************)
Waiting == {c \in Children : pc[c] = "spin" /\ round[c] = round[Parent]}

ReadyCountsArrivals ==
    /\ pc[Parent] = "work" => ready_ = num_children_ - Cardinality(Waiting)
    /\ pc[Parent] \in {"reset", "send"} => Waiting = Children

\* Every worker goes through all the barriers of the experiment.
AllFinish == <>(\A w \in Workers : round[w] = Rounds)

(***************************************************************************)
(* The code keeps the abstract promise.                                    *)
(***************************************************************************)
ArrivedMap ==
    [w \in Workers |-> pc[w] \in {"spin", "reset", "send"}]

PB == INSTANCE PhaseBarrier WITH phase <- round, arrived <- ArrivedMap

ImplementsPhaseBarrier == PB!Spec
=============================================================================
