-------------------------- MODULE TimestampManager --------------------------
(***************************************************************************)
(* protocols/common/timestamp_manager.hpp: the timestamps of MVTO and      *)
(* WaitDie.  Every worker counts its transactions; a timestamp is the      *)
(* count with the id of the worker in its low byte.  After drawing one, a  *)
(* worker that is behind another takes over the other's count.  The        *)
(* manager thread collects the smallest and the largest count and gives    *)
(* both to all workers, for garbage collection.                            *)
(*                                                                         *)
(* What a transaction does with its timestamp and with the bounds is not   *)
(* here: a running transaction is one that has drawn a timestamp and has   *)
(* not ended.                                                              *)
(***************************************************************************)
EXTENDS Integers

CONSTANTS N,         \* num_workers
          SyncCnt,   \* synchronize_cnt
          MaxCnt     \* bound: no worker counts further

ASSUME TimestampAssumption ==
    /\ N \in 1..255
    /\ SyncCnt \in Nat \ {0}
    /\ MaxCnt \in Nat \ {0}

Workers == 0..(N - 1)
Infinity == MaxCnt + 1
Counts == 0..MaxCnt

VARIABLES txn_cnt, smallest_txn_cnt, largest_txn_cnt,   \* Worker
          abort_cnt,    \* aborts of its transaction (2: two or more)
          pc,           \* "new": not registered; "out"; "sync", "store": in
                        \* synchronize, after drawing a timestamp; "tx"
          seen,         \* the count of the other worker, loaded by synchronize
          cnt,          \* the count in the last timestamp of the worker
          mpc, next,    \* the manager: "sleep", "scan", "store", and its loop variable
          smallest, largest,
          scanned,      \* history: the workers the current scan has counted
          counted       \* history: those counted in smallest_txn_cnt[w]

boundVars == <<smallest_txn_cnt, largest_txn_cnt, counted>>
workerVars == <<txn_cnt, abort_cnt, pc, seen, cnt>>
managerVars == <<mpc, next, smallest, largest, scanned>>
vars == <<workerVars, boundVars, managerVars>>

TypeOK ==
    /\ txn_cnt \in [Workers -> 1..MaxCnt]
    /\ smallest_txn_cnt \in [Workers -> Counts] /\ largest_txn_cnt \in [Workers -> Counts]
    /\ abort_cnt \in [Workers -> 0..2]
    /\ pc \in [Workers -> {"new", "out", "sync", "store", "tx"}]
    /\ seen \in [Workers -> Counts]
    /\ cnt \in [Workers -> Counts]
    /\ mpc \in {"sleep", "scan", "store"}
    /\ next \in 0..N
    /\ smallest \in 1..Infinity /\ largest \in Counts
    /\ scanned \in SUBSET Workers
    /\ counted \in [Workers -> SUBSET Workers]

Init ==
    /\ txn_cnt = [w \in Workers |-> 1]
    /\ smallest_txn_cnt = [w \in Workers |-> 1] /\ largest_txn_cnt = [w \in Workers |-> 1]
    /\ abort_cnt = [w \in Workers |-> 0]
    /\ pc = [w \in Workers |-> "new"]
    /\ seen = [w \in Workers |-> 0]
    /\ cnt = [w \in Workers |-> 0]
    /\ mpc = "sleep" /\ next = 0 /\ smallest = Infinity /\ largest = 0
    /\ scanned = {}
    /\ counted = [w \in Workers |-> {}]

\* the timestamp with count c of worker w
get_ts(c, w) == c * 256 + w

Smaller(a, b) == IF a < b THEN a ELSE b
Larger(a, b) == IF a < b THEN b ELSE a

-----------------------------------------------------------------------------
\* Deliberately wrong variants of the definitions below.
M_sync_load(w, v) ==                       \* takes over smaller counts too
    /\ pc[w] = "sync" /\ v # w
    /\ IF pc[v] # "new"
       THEN /\ seen' = [seen EXCEPT ![w] = txn_cnt[v]]
            /\ pc' = [pc EXCEPT ![w] = "store"]
       ELSE /\ pc' = [pc EXCEPT ![w] = "tx"]
            /\ UNCHANGED seen
    /\ UNCHANGED <<txn_cnt, abort_cnt, cnt, boundVars, managerVars>>

M_set_gc_ts ==                             \* stores smallest
    /\ mpc = "store" /\ next < N
    /\ IF pc[next] = "new"
       THEN UNCHANGED boundVars
       ELSE /\ smallest_txn_cnt' = [smallest_txn_cnt EXCEPT ![next] = smallest]
            /\ largest_txn_cnt' = [largest_txn_cnt EXCEPT ![next] = largest]
            /\ counted' = [counted EXCEPT ![next] = scanned]
    /\ next' = next + 1
    /\ UNCHANGED <<workerVars, mpc, smallest, largest, scanned>>

-----------------------------------------------------------------------------
\* run_tx constructs the worker and registers it
set_worker(w) ==
    /\ pc[w] = "new"
    /\ pc' = [pc EXCEPT ![w] = "out"]
    /\ UNCHANGED <<txn_cnt, abort_cnt, seen, cnt, boundVars, managerVars>>

\* fetch_add of the count, and the call of synchronize
draw(w, step) ==
    /\ txn_cnt[w] + step <= MaxCnt
    /\ cnt' = [cnt EXCEPT ![w] = txn_cnt[w]]
    /\ txn_cnt' = [txn_cnt EXCEPT ![w] = @ + step]
    /\ pc' = [pc EXCEPT ![w] = IF txn_cnt[w] % SyncCnt = 0 /\ N > 1 THEN "sync" ELSE "tx"]
    /\ UNCHANGED <<seen, boundVars, managerVars>>

\* begin_tx draws a timestamp
get_new_ts(w) ==
    /\ pc[w] = "out"
    /\ abort_cnt' = [abort_cnt EXCEPT ![w] = 0]
    /\ draw(w, 1)

\* the transaction aborts and draws a timestamp for its next attempt; the step
\* is 2 ^ min(abort_cnt, 2)
get_abort_boosted_ts(w) ==
    /\ pc[w] = "tx"
    /\ abort_cnt' = [abort_cnt EXCEPT ![w] = Smaller(@ + 1, 2)]
    /\ draw(w, IF abort_cnt'[w] = 1 THEN 2 ELSE 4)

\* synchronize loads the count of another worker and compares it with its own;
\* next_worker_offset goes through the others, so that it may be any of them
sync_load(w, v) ==
    /\ pc[w] = "sync" /\ v # w
    /\ IF pc[v] # "new" /\ txn_cnt[w] < txn_cnt[v]
       THEN /\ seen' = [seen EXCEPT ![w] = txn_cnt[v]]
            /\ pc' = [pc EXCEPT ![w] = "store"]
       ELSE /\ pc' = [pc EXCEPT ![w] = "tx"]
            /\ UNCHANGED seen
    /\ UNCHANGED <<txn_cnt, abort_cnt, cnt, boundVars, managerVars>>

sync_store(w) ==
    /\ pc[w] = "store"
    /\ txn_cnt' = [txn_cnt EXCEPT ![w] = seen[w]]
    /\ seen' = [seen EXCEPT ![w] = 0]
    /\ pc' = [pc EXCEPT ![w] = "tx"]
    /\ UNCHANGED <<abort_cnt, cnt, boundVars, managerVars>>

\* the transaction is destroyed
end_tx(w) ==
    /\ pc[w] = "tx"
    /\ pc' = [pc EXCEPT ![w] = "out"]
    /\ UNCHANGED <<txn_cnt, abort_cnt, seen, cnt, boundVars, managerVars>>

\* start() wakes up and calls set_gc_ts
wake_up ==
    /\ mpc = "sleep"
    /\ mpc' = "scan" /\ next' = 0
    /\ UNCHANGED <<workerVars, boundVars, smallest, largest, scanned>>

\* one iteration of get_gc_txn_cnt; workers[next] may be nullptr
get_gc_txn_cnt ==
    /\ mpc = "scan" /\ next < N
    /\ IF pc[next] = "new"
       THEN UNCHANGED <<smallest, largest, scanned>>
       ELSE /\ smallest' = Smaller(txn_cnt[next], smallest)
            /\ largest' = Larger(txn_cnt[next], largest)
            /\ scanned' = scanned \cup {next}
    /\ next' = next + 1
    /\ UNCHANGED <<workerVars, boundVars, mpc>>

end_scan ==
    /\ mpc = "scan" /\ next = N
    /\ mpc' = "store" /\ next' = 0
    /\ UNCHANGED <<workerVars, boundVars, smallest, largest, scanned>>

\* one iteration of set_gc_ts; a worker may have registered after the scan (the
\* two stores are one step: nothing here reads between them)
set_gc_ts ==
    /\ mpc = "store" /\ next < N
    /\ IF pc[next] = "new"
       THEN UNCHANGED boundVars
       ELSE /\ smallest_txn_cnt' = [smallest_txn_cnt EXCEPT ![next] = smallest - 1]
            /\ largest_txn_cnt' = [largest_txn_cnt EXCEPT ![next] = largest]
            /\ counted' = [counted EXCEPT ![next] = scanned]
    /\ next' = next + 1
    /\ UNCHANGED <<workerVars, mpc, smallest, largest, scanned>>

sleep ==
    /\ mpc = "store" /\ next = N
    /\ mpc' = "sleep" /\ next' = 0 /\ smallest' = Infinity /\ largest' = 0 /\ scanned' = {}
    /\ UNCHANGED <<workerVars, boundVars>>

Manager == wake_up \/ get_gc_txn_cnt \/ end_scan \/ set_gc_ts \/ sleep

WorkerStep(w) ==
    \/ set_worker(w) \/ get_new_ts(w) \/ get_abort_boosted_ts(w)
    \/ (\E v \in Workers : sync_load(w, v)) \/ sync_store(w) \/ end_tx(w)

Next == Manager \/ \E w \in Workers : WorkerStep(w)

Spec == Init /\ [][Next]_vars

-----------------------------------------------------------------------------
(***************************************************************************)
(* The timestamps of a worker increase, whatever synchronize takes over    *)
(* from the other workers and however far an abort counts.  The low byte   *)
(* tells workers apart, so that no two transactions have the same one.     *)
(***************************************************************************)
TimestampsIncrease ==
    [][\A w \in Workers :
          get_new_ts(w) \/ get_abort_boosted_ts(w) => get_ts(cnt'[w], w) > get_ts(cnt[w], w)]_vars

(***************************************************************************)
(* A worker that the manager has counted draws no timestamp at or below    *)
(* the bound it has published: a version that is garbage for the bound is  *)
(* garbage for all the transactions to come.                               *)
(***************************************************************************)
FutureAboveBound ==
    \A w, v \in Workers : v \in counted[w] =>
        smallest_txn_cnt[w] < txn_cnt[v]
=============================================================================
