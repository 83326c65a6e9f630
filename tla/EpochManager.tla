---------------------------- MODULE EpochManager ----------------------------
(***************************************************************************)
(* protocols/common/epoch_manager.hpp: the global epoch of Silo and        *)
(* NoWait.  A worker copies the global epoch to its own when it begins a   *)
(* transaction; the manager thread adds one to the global epoch when the   *)
(* smallest epoch of the registered workers equals it.                     *)
(*                                                                         *)
(* Each load and store of a shared epoch is a step of its own: begin_tx    *)
(* loads the global epoch and stores it later, and the manager reads the   *)
(* workers one by one.  Worker::worker_epoch has no initial value: until   *)
(* the first begin_tx has stored, the manager may read any number there.   *)
(***************************************************************************)
EXTENDS Integers

CONSTANTS N,          \* number of workers
          MaxEpoch    \* bound: the manager stops here; larger numbers are garbage

ASSUME EpochAssumption ==
    /\ N \in Nat
    /\ MaxEpoch \in Nat /\ MaxEpoch >= 1

Workers == 1..N

\* What uninitialised memory may hold: MaxEpoch + 1 stands for all the larger
\* numbers, 0xFFFFFFFF among them.
Garbage == 0..(MaxEpoch + 1)
Infinity == MaxEpoch + 1

VARIABLES global,     \* get_global_epoch()
          epoch,      \* worker_epoch of each worker
          pc,         \* "new": not registered; "out", "load", "tx": see begin_tx
          loaded,     \* what begin_tx has loaded and not stored yet
          begun,      \* 0, 1 or 2 (two or more): begin_tx calls that have stored
          mpc,        \* the manager: "sleep" or "scan"
          e,          \* what increment_epoch loaded
          next,       \* the next worker get_smallest_worker_epoch looks at
          smallest    \* its running minimum

workerVars == <<epoch, pc, loaded, begun>>
managerVars == <<mpc, e, next, smallest>>
emVars == <<global, epoch, pc, loaded, begun, mpc, e, next, smallest>>

EpochTypeOK ==
    /\ global \in 1..MaxEpoch
    /\ epoch \in [Workers -> Garbage]
    /\ \A w \in Workers : begun[w] > 0 => epoch[w] \in 1..MaxEpoch
    /\ pc \in [Workers -> {"new", "out", "load", "tx"}]
    /\ loaded \in [Workers -> 1..MaxEpoch]
    /\ begun \in [Workers -> 0..2]
    /\ mpc \in {"sleep", "scan"}
    /\ e \in 1..MaxEpoch
    /\ next \in 1..(N + 1)
    /\ smallest \in Garbage

EpochInit ==
    /\ global = 1
    /\ epoch \in [Workers -> Garbage]
    /\ pc = [w \in Workers |-> "new"]
    /\ loaded = [w \in Workers |-> 1]
    /\ begun = [w \in Workers |-> 0]
    /\ mpc = "sleep" /\ e = 1 /\ next = 1 /\ smallest = Infinity

Smaller(a, b) == IF a < b THEN a ELSE b

-----------------------------------------------------------------------------
\* Deliberately wrong variants of the definitions below.
M_scan_worker ==                           \* forgets the running minimum
    /\ mpc = "scan" /\ next \in Workers
    /\ smallest' = IF pc[next] = "new" THEN smallest ELSE epoch[next]
    /\ next' = next + 1
    /\ UNCHANGED <<global, workerVars, mpc, e>>

M_increment_epoch ==                       \* waits for workers that are behind
    /\ mpc = "scan" /\ next = N + 1
    /\ mpc' = "sleep"
    /\ global' = IF e > smallest THEN global + 1 ELSE global
    /\ e' = 1 /\ next' = 1 /\ smallest' = Infinity
    /\ UNCHANGED workerVars

-----------------------------------------------------------------------------
\* run_tx constructs the worker and registers it.
set_worker(w) ==
    /\ pc[w] = "new"
    /\ pc' = [pc EXCEPT ![w] = "out"]
    /\ UNCHANGED <<global, epoch, loaded, begun, managerVars>>

\* begin_tx: the load of the global epoch and the store of the worker's
begin_load(w) ==
    /\ pc[w] = "out"
    /\ loaded' = [loaded EXCEPT ![w] = global]
    /\ pc' = [pc EXCEPT ![w] = "load"]
    /\ UNCHANGED <<global, epoch, begun, managerVars>>

begin_store(w) ==
    /\ pc[w] = "load"
    /\ epoch' = [epoch EXCEPT ![w] = loaded[w]]
    /\ begun' = [begun EXCEPT ![w] = Smaller(@ + 1, 2)]
    /\ pc' = [pc EXCEPT ![w] = "tx"]
    /\ loaded' = [loaded EXCEPT ![w] = 1]
    /\ UNCHANGED <<global, managerVars>>

\* the transaction is destroyed
end_tx(w) ==
    /\ pc[w] = "tx"
    /\ pc' = [pc EXCEPT ![w] = "out"]
    /\ UNCHANGED <<global, epoch, loaded, begun, managerVars>>

\* start() wakes up and increment_epoch loads the global epoch
load_global ==
    /\ mpc = "sleep" /\ global < MaxEpoch
    /\ mpc' = "scan" /\ e' = global /\ next' = 1 /\ smallest' = Infinity
    /\ UNCHANGED <<global, workerVars>>

\* one iteration of get_smallest_worker_epoch; workers[next] may be nullptr
scan_worker ==
    /\ mpc = "scan" /\ next \in Workers
    /\ smallest' = IF pc[next] = "new" THEN smallest ELSE Smaller(epoch[next], smallest)
    /\ next' = next + 1
    /\ UNCHANGED <<global, workerVars, mpc, e>>

\* the comparison and fetch_add; the locals of the scan are gone
increment_epoch ==
    /\ mpc = "scan" /\ next = N + 1
    /\ mpc' = "sleep"
    /\ global' = IF e = smallest THEN global + 1 ELSE global
    /\ e' = 1 /\ next' = 1 /\ smallest' = Infinity
    /\ UNCHANGED workerVars

ManagerStep == load_global \/ scan_worker \/ increment_epoch

BeginStep(w) == set_worker(w) \/ begin_load(w) \/ begin_store(w)

EpochNext == ManagerStep \/ \E w \in Workers : BeginStep(w) \/ end_tx(w)

EpochSpec == EpochInit /\ [][EpochNext]_emVars

-----------------------------------------------------------------------------
(***************************************************************************)
(* From its second transaction on a worker is at most one epoch behind the *)
(* global epoch, in the middle of begin_tx too.  (The first begin_tx may   *)
(* store an epoch that is arbitrarily old: until then nothing of the       *)
(* worker holds the global epoch back.)                                    *)
(***************************************************************************)
EpochLag ==
    \A w \in Workers :
        /\ begun[w] >= 1 => epoch[w] <= global
        /\ begun[w] = 2 => global - 1 <= epoch[w]
        /\ begun[w] >= 1 /\ pc[w] = "load" => global - 1 <= loaded[w] /\ loaded[w] <= global

\* A worker's epoch never goes back once it has been set.
WorkerEpochMonotone ==
    [][\A w \in Workers : begun[w] >= 1 => epoch'[w] >= epoch[w]]_emVars
=============================================================================
