---------------------------- MODULE PhaseBarrier ----------------------------
(***************************************************************************)
(* What the epoch engines (Caracal, Serval, Serval_RC) rely on when they   *)
(* call rendezvous_barrier_to_start: the experiment is a sequence of       *)
(* phases, every worker arrives at the end of its current phase, and no    *)
(* worker enters the next phase before every worker has arrived.           *)
(* This is the abstract promise.  RendezvousBarrier is the code that keeps *)
(* it; Serval uses the promise.                                            *)
(***************************************************************************)
EXTENDS Naturals

CONSTANTS Workers,   \* the threads that meet at the barrier
          Rounds     \* how many barriers run_tx goes through

VARIABLES phase,     \* phase[w]: how many barriers w has passed
          arrived    \* arrived[w]: w has finished phase[w] and waits

pbVars == <<phase, arrived>>

TypeOK ==
    /\ phase \in [Workers -> 0..Rounds]
    /\ arrived \in [Workers -> BOOLEAN]

Init ==
    /\ phase = [w \in Workers |-> 0]
    /\ arrived = [w \in Workers |-> FALSE]

\* w has done all the work it has to do before barrier r opens.
HasArrived(w, r) == phase[w] >= r \/ (phase[w] = r - 1 /\ arrived[w])

Arrive(w) ==
    /\ phase[w] < Rounds
    /\ ~arrived[w]
    /\ arrived' = [arrived EXCEPT ![w] = TRUE]
    /\ UNCHANGED phase

Pass(w) ==
    /\ arrived[w]
    /\ \A v \in Workers : HasArrived(v, phase[w] + 1)
    /\ phase' = [phase EXCEPT ![w] = @ + 1]
    /\ arrived' = [arrived EXCEPT ![w] = FALSE]

Next == \E w \in Workers : Arrive(w) \/ Pass(w)

Spec == Init /\ [][Next]_pbVars
=============================================================================
