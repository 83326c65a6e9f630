----------------------- MODULE TimestampManager_proofs -----------------------
(***************************************************************************)
(* Timestamps of a worker increase and stay above the published bounds,    *)
(* for any number of workers and counts.                                   *)
(*                                                                         *)
(* Both rest on the counts never going back.  What synchronize is about to *)
(* store is above the count of its worker (SeenAbove), the count is above  *)
(* the last timestamp (CountAbove), and the minimum of a scan is no larger *)
(* than the count of any worker it has passed (MinimumBelow).              *)
(***************************************************************************)
EXTENDS TimestampManager, TLAPS

SeenAbove == \A w \in Workers : pc[w] = "store" => txn_cnt[w] < seen[w]

CountAbove == \A w \in Workers : cnt[w] < txn_cnt[w]

MinimumBelow == \A v \in scanned : smallest <= txn_cnt[v]

TSInv == TypeOK /\ SeenAbove /\ CountAbove /\ MinimumBelow /\ FutureAboveBound

-----------------------------------------------------------------------------
\* The invariant holds at the start.
LEMMA TSInit == Init => TSInv
  BY TimestampAssumption DEF Init, TSInv, TypeOK, SeenAbove, CountAbove, MinimumBelow,
     FutureAboveBound, Workers, Counts, Infinity

\* A step of the workers after which no count is smaller keeps the bounds.
LEMMA CountsGrow ==
  ASSUME TSInv, \A v \in Workers : txn_cnt'[v] \in Nat /\ txn_cnt[v] <= txn_cnt'[v],
         UNCHANGED <<boundVars, managerVars>>
  PROVE  MinimumBelow' /\ FutureAboveBound'
  <1>1. \A v \in Workers : txn_cnt[v] \in Nat /\ smallest_txn_cnt[v] \in Nat
    BY TimestampAssumption DEF TSInv, TypeOK, Counts
  <1>2. smallest \in Nat /\ scanned \subseteq Workers
    BY TimestampAssumption DEF TSInv, TypeOK, Infinity
  <1>3. MinimumBelow'
    BY <1>1, <1>2 DEF TSInv, MinimumBelow, managerVars
  <1>4. FutureAboveBound'
    BY <1>1 DEF TSInv, FutureAboveBound, boundVars
  <1> QED BY <1>3, <1>4

\* Drawing a timestamp adds to the count what it skips.
LEMMA DrawInv ==
  ASSUME TSInv, NEW w \in Workers, NEW step \in Nat \ {0}, draw(w, step),
         abort_cnt' \in [Workers -> 0..2], pc[w] # "store"
  PROVE  TSInv'
  <1>1. \A v \in Workers : /\ txn_cnt'[v] = IF v = w THEN txn_cnt[v] + step ELSE txn_cnt[v]
                           /\ cnt'[v] = IF v = w THEN txn_cnt[v] ELSE cnt[v]
                           /\ txn_cnt[v] \in 1..MaxCnt /\ cnt[v] \in Counts
    BY DEF TSInv, TypeOK, draw
  <1>2. \A v \in Workers : v # w => pc'[v] = pc[v]
    BY DEF TSInv, TypeOK, draw
  <1>3. pc'[w] \in {"sync", "tx"}
    BY DEF TSInv, TypeOK, draw
  <1>4. TypeOK'
    <2>1. txn_cnt' \in [Workers -> 1..MaxCnt] /\ cnt' \in [Workers -> Counts]
      BY TimestampAssumption DEF TSInv, TypeOK, draw, Counts
    <2>2. pc' \in [Workers -> {"new", "out", "sync", "store", "tx"}]
      BY DEF TSInv, TypeOK, draw
    <2> QED BY <2>1, <2>2 DEF TSInv, TypeOK, draw, boundVars, managerVars
  <1>5. SeenAbove'
    BY <1>1, <1>2, <1>3 DEF TSInv, SeenAbove, draw
  <1>6. CountAbove'
    BY <1>1, TimestampAssumption DEF TSInv, CountAbove, Counts
  <1>7. MinimumBelow' /\ FutureAboveBound'
    <2>1. \A v \in Workers : txn_cnt'[v] \in Nat /\ txn_cnt[v] <= txn_cnt'[v]
      BY <1>1, TimestampAssumption
    <2> QED BY <2>1, CountsGrow DEF draw
  <1> QED BY <1>4, <1>5, <1>6, <1>7 DEF TSInv

\* What synchronize stores is above the count it replaces.
LEMMA SyncStoreInv == ASSUME TSInv, NEW w \in Workers, sync_store(w) PROVE TSInv'
  <1>1. \A v \in Workers : /\ txn_cnt'[v] = IF v = w THEN seen[v] ELSE txn_cnt[v]
                           /\ txn_cnt[v] \in 1..MaxCnt /\ cnt[v] \in Counts /\ seen[v] \in Counts
                           /\ pc'[v] = IF v = w THEN "tx" ELSE pc[v]
                           /\ seen'[v] = IF v = w THEN 0 ELSE seen[v]
    BY DEF TSInv, TypeOK, sync_store
  <1>2. txn_cnt[w] < seen[w]
    BY DEF TSInv, SeenAbove, sync_store
  <1>3. TypeOK'
    <2>1. txn_cnt' \in [Workers -> 1..MaxCnt]
      BY <1>1, <1>2, TimestampAssumption DEF TSInv, TypeOK, sync_store, Counts
    <2>2. seen' \in [Workers -> Counts]
      BY TimestampAssumption DEF TSInv, TypeOK, sync_store, Counts
    <2>3. pc' \in [Workers -> {"new", "out", "sync", "store", "tx"}]
      BY DEF TSInv, TypeOK, sync_store
    <2> QED BY <2>1, <2>2, <2>3 DEF TSInv, TypeOK, sync_store, boundVars, managerVars
  <1>4. SeenAbove'
    BY <1>1 DEF TSInv, SeenAbove
  <1>5. CountAbove'
    BY <1>1, <1>2, TimestampAssumption DEF TSInv, CountAbove, sync_store, Counts
  <1>6. MinimumBelow' /\ FutureAboveBound'
    <2>1. \A v \in Workers : txn_cnt'[v] \in Nat /\ txn_cnt[v] <= txn_cnt'[v]
      BY <1>1, <1>2, TimestampAssumption DEF Counts
    <2> QED BY <2>1, CountsGrow DEF sync_store
  <1> QED BY <1>3, <1>4, <1>5, <1>6 DEF TSInv

\* The other steps of a worker change no count.
LEMMA OtherInv ==
  ASSUME TSInv, NEW w \in Workers,
         \/ set_worker(w) \/ end_tx(w)
         \/ \E v \in Workers : sync_load(w, v)
  PROVE  TSInv'
  <1>0. UNCHANGED <<txn_cnt, abort_cnt, cnt, boundVars, managerVars>>
    BY DEF set_worker, end_tx, sync_load
  <1>1. TypeOK'
    <2>1. seen' \in [Workers -> Counts]
      BY TimestampAssumption DEF TSInv, TypeOK, set_worker, end_tx, sync_load, Counts
    <2>2. pc' \in [Workers -> {"new", "out", "sync", "store", "tx"}]
      BY DEF TSInv, TypeOK, set_worker, end_tx, sync_load
    <2> QED BY <1>0, <2>1, <2>2 DEF TSInv, TypeOK, boundVars, managerVars
  <1>2. SeenAbove'
    BY TimestampAssumption DEF TSInv, TypeOK, SeenAbove, set_worker, end_tx, sync_load
  <1>3. CountAbove' /\ MinimumBelow' /\ FutureAboveBound'
    BY <1>0 DEF TSInv, CountAbove, MinimumBelow, FutureAboveBound, boundVars, managerVars
  <1> QED BY <1>1, <1>2, <1>3 DEF TSInv

\* The manager counts a worker, or publishes what it has counted.
LEMMA ManagerInv == ASSUME TSInv, Manager PROVE TSInv'
  <1>0. UNCHANGED workerVars
    BY DEF Manager, wake_up, get_gc_txn_cnt, end_scan, set_gc_ts, sleep
  <1>1. SeenAbove' /\ CountAbove'
    BY <1>0 DEF TSInv, SeenAbove, CountAbove, workerVars
  <1>2. \A v \in Workers : txn_cnt'[v] = txn_cnt[v] /\ txn_cnt[v] \in 1..MaxCnt
    BY <1>0 DEF TSInv, TypeOK, workerVars
  <1>3. /\ smallest \in 1..Infinity /\ largest \in Counts /\ next \in 0..N
        /\ scanned \subseteq Workers
    BY DEF TSInv, TypeOK
  <1>4. CASE wake_up \/ end_scan \/ sleep
    <2>1. TypeOK'
      BY <1>0, <1>4, TimestampAssumption DEF TSInv, TypeOK, wake_up, end_scan, sleep,
         workerVars, boundVars, Infinity, Counts
    <2>2. MinimumBelow'
      BY <1>2, <1>3, <1>4 DEF TSInv, MinimumBelow, wake_up, end_scan, sleep
    <2>3. FutureAboveBound'
      BY <1>2, <1>4 DEF TSInv, FutureAboveBound, wake_up, end_scan, sleep, boundVars
    <2> QED BY <1>1, <2>1, <2>2, <2>3 DEF TSInv
  <1>5. CASE get_gc_txn_cnt
    <2>1. next \in Workers
      BY <1>3, <1>5, TimestampAssumption DEF get_gc_txn_cnt, Workers
    <2>2. next' \in 0..N
      BY <1>3, <1>5, TimestampAssumption DEF get_gc_txn_cnt
    <2>3. \/ smallest' = smallest /\ largest' = largest /\ scanned' = scanned
          \/ /\ smallest' = Smaller(txn_cnt[next], smallest)
             /\ largest' = Larger(txn_cnt[next], largest)
             /\ scanned' = scanned \cup {next}
      BY <1>5 DEF get_gc_txn_cnt
    <2>4. /\ smallest' \in 1..Infinity /\ smallest' <= smallest
          /\ next \in scanned' => next \in scanned \/ smallest' <= txn_cnt[next]
      BY <1>2, <1>3, <2>1, <2>3, TimestampAssumption DEF Smaller, Infinity
    <2>5. largest' \in Counts
      BY <1>2, <1>3, <2>1, <2>3, TimestampAssumption DEF Larger, Counts
    <2>6. scanned' \subseteq scanned \cup {next} /\ scanned' \in SUBSET Workers
      BY <1>3, <2>1, <2>3, Zenon
    <2>7. TypeOK'
      BY <1>0, <1>5, <2>2, <2>4, <2>5, <2>6 DEF TSInv, TypeOK, get_gc_txn_cnt, workerVars, boundVars
    <2>8. MinimumBelow'
      <3> SUFFICES ASSUME NEW v \in scanned' PROVE smallest' <= txn_cnt[v]
        BY <1>2, <2>6 DEF MinimumBelow
      <3>1. v \in scanned => smallest <= txn_cnt[v]
        BY DEF TSInv, MinimumBelow
      <3>2. smallest \in Nat /\ smallest' \in Nat /\ txn_cnt[v] \in Nat
        BY <1>2, <1>3, <2>4, <2>6, TimestampAssumption DEF Infinity
      <3> QED BY <2>4, <2>6, <3>1, <3>2
    <2>9. FutureAboveBound'
      BY <1>2, <1>5 DEF TSInv, FutureAboveBound, get_gc_txn_cnt, boundVars
    <2> QED BY <1>1, <2>9, <2>7, <2>8 DEF TSInv
  <1>6. CASE set_gc_ts
    <2>1. next \in Workers
      BY <1>3, <1>6, TimestampAssumption DEF set_gc_ts, Workers
    <2>2. smallest - 1 \in Counts
      BY <1>3, TimestampAssumption DEF Infinity, Counts
    <2>3. TypeOK'
      <3>1. /\ smallest_txn_cnt' \in [Workers -> Counts] /\ largest_txn_cnt' \in [Workers -> Counts]
            /\ counted' \in [Workers -> SUBSET Workers]
        BY <1>3, <1>6, <2>2 DEF TSInv, TypeOK, set_gc_ts, boundVars
      <3>2. next' \in 0..N
        BY <1>3, <1>6, TimestampAssumption DEF set_gc_ts
      <3> QED BY <1>0, <1>6, <3>1, <3>2 DEF TSInv, TypeOK, set_gc_ts, workerVars
    <2>4. MinimumBelow'
      BY <1>2, <1>3, <1>6 DEF TSInv, MinimumBelow, set_gc_ts
    <2>5. FutureAboveBound'
      <3>1. \A v \in scanned : smallest - 1 < txn_cnt[v]
        BY <1>2, <1>3, TimestampAssumption DEF TSInv, MinimumBelow, Infinity
      <3>2. \A u \in Workers :
                \/ counted'[u] = counted[u] /\ smallest_txn_cnt'[u] = smallest_txn_cnt[u]
                \/ counted'[u] = scanned /\ smallest_txn_cnt'[u] = smallest - 1
        BY <1>6 DEF TSInv, TypeOK, set_gc_ts, boundVars
      <3> QED BY <1>2, <3>1, <3>2 DEF TSInv, FutureAboveBound
    <2> QED BY <1>1, <2>3, <2>4, <2>5 DEF TSInv
  <1> QED BY <1>4, <1>5, <1>6 DEF Manager

\* Every step keeps the invariant.
LEMMA TSNext == TSInv /\ [Next]_vars => TSInv'
  <1> SUFFICES ASSUME TSInv, [Next]_vars PROVE TSInv'
    OBVIOUS
  <1>1. CASE Manager
    BY <1>1, ManagerInv
  <1>2. ASSUME NEW w \in Workers, WorkerStep(w) PROVE TSInv'
    <2>1. CASE get_new_ts(w)
      <3>1. abort_cnt' \in [Workers -> 0..2]
        BY <2>1 DEF TSInv, TypeOK, get_new_ts
      <3> QED BY <2>1, <3>1, DrawInv DEF get_new_ts
    <2>2. CASE get_abort_boosted_ts(w)
      <3>1. abort_cnt' \in [Workers -> 0..2]
        BY <2>2 DEF TSInv, TypeOK, get_abort_boosted_ts, Smaller
      <3> DEFINE step == IF abort_cnt'[w] = 1 THEN 2 ELSE 4
      <3>2. step \in Nat \ {0}
        OBVIOUS
      <3>3. draw(w, step) /\ pc[w] # "store"
        BY <2>2 DEF get_abort_boosted_ts
      <3> HIDE DEF step
      <3> QED BY <3>1, <3>2, <3>3, DrawInv
    <2>3. CASE sync_store(w)
      BY <2>3, SyncStoreInv
    <2>4. CASE set_worker(w) \/ end_tx(w) \/ \E v \in Workers : sync_load(w, v)
      BY <2>4, OtherInv
    <2> QED BY <1>2, <2>1, <2>2, <2>3, <2>4 DEF WorkerStep
  <1>3. CASE UNCHANGED vars
    BY <1>3 DEF TSInv, TypeOK, SeenAbove, CountAbove, MinimumBelow, FutureAboveBound,
       vars, workerVars, boundVars, managerVars
  <1> QED BY <1>1, <1>2, <1>3 DEF Next

\* The invariant holds always.
LEMMA TSInvariance == Spec => []TSInv
  BY TSInit, TSNext, PTL DEF Spec

-----------------------------------------------------------------------------
\* Counts, bounds and the manager's locals keep their types.
THEOREM TimestampTypes == Spec => []TypeOK
  <1>1. TSInv => TypeOK
    BY DEF TSInv
  <1> QED BY <1>1, TSInvariance, PTL

\* A worker the manager has counted never draws a timestamp at or below the
\* bound that set_gc_ts has published.
THEOREM FutureIsAbove == Spec => []FutureAboveBound
  <1>1. TSInv => FutureAboveBound
    BY DEF TSInv
  <1> QED BY <1>1, TSInvariance, PTL

\* The timestamps a worker draws increase, through synchronize and aborts.
THEOREM Increasing == Spec => TimestampsIncrease
  <1>1. TSInv /\ [Next]_vars => [\A w \in Workers :
          get_new_ts(w) \/ get_abort_boosted_ts(w) => get_ts(cnt'[w], w) > get_ts(cnt[w], w)]_vars
    <2> SUFFICES ASSUME TSInv, NEW w \in Workers, get_new_ts(w) \/ get_abort_boosted_ts(w)
                 PROVE  get_ts(cnt'[w], w) > get_ts(cnt[w], w)
      OBVIOUS
    <2>1. cnt'[w] = txn_cnt[w] /\ cnt[w] \in Nat /\ txn_cnt[w] \in Nat
      BY TimestampAssumption DEF TSInv, TypeOK, Counts, get_new_ts, get_abort_boosted_ts, draw
    <2>2. cnt[w] < txn_cnt[w]
      BY DEF TSInv, CountAbove
    <2> QED BY <2>1, <2>2, TimestampAssumption DEF get_ts, Workers
  <1> QED BY <1>1, TSInvariance, PTL DEF Spec, TimestampsIncrease
=============================================================================
