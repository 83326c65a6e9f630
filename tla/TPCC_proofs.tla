----------------------------- MODULE TPCC_proofs ------------------------------
(***************************************************************************)
(* The global lock of the naive protocol under TPC-C, for any number of    *)
(* threads and any load; and the range of the stock.                       *)
(***************************************************************************)
EXTENDS TPCC, TLAPS

\* the steps at which a thread need not hold the lock
Outside == {"loop", "done", "run"}

\* The inductive invariant: lock_var says whether some thread is in, and a thread
\* inside of a transaction is.  The second part is what makes release, and only
\* release, an unlock by the owner.
LockInv ==
    /\ tx = [t \in Thread |-> tx[t]]
    /\ cond \in [Thread -> {"out", "waiting", "woken", "in"}]
    /\ lock_var \in {0, 1}
    /\ lock_var = 1 <=> \E t \in Thread : cond[t] = "in"
    /\ OneAtATime
    /\ WaiterIsWoken
    /\ \A t \in Thread : tx[t].at \notin Outside => cond[t] = "in"

-----------------------------------------------------------------------------
LEMMA LockInit == Init => LockInv
  BY DEF Init, NaiveInit, Idle, Outside, LockInv, OneAtATime, WaiterIsWoken

\* A step of t inside of its transaction leaves the lock alone.
LEMMA InsideStep ==
    ASSUME LockInv, NEW t \in Thread, NEW next, tx[t].at \notin Outside,
           tx' = [tx EXCEPT ![t] = next], UNCHANGED <<lock_var, cond>>
    PROVE  LockInv'
  <1>1. \A u \in Thread : u # t => tx'[u] = tx[u]
    BY DEF LockInv
  <1>2. tx' = [u \in Thread |-> tx'[u]]
    BY DEF LockInv
  <1>3. \A u \in Thread : tx'[u].at \notin Outside => cond'[u] = "in"
    BY <1>1 DEF LockInv
  <1> QED
    BY <1>2, <1>3 DEF LockInv, OneAtATime, WaiterIsWoken

\* So does one that only moves between steps where the lock is not needed.
LEMMA OutsideStep ==
    ASSUME LockInv, NEW t \in Thread, NEW next, next.at \in Outside,
           tx' = [tx EXCEPT ![t] = next], UNCHANGED <<lock_var, cond>>
    PROVE  LockInv'
  <1>1. \A u \in Thread : u # t => tx'[u] = tx[u]
    BY DEF LockInv
  <1>2. tx' = [u \in Thread |-> tx'[u]] /\ tx'[t] = next
    BY DEF LockInv
  <1>3. \A u \in Thread : tx'[u].at \notin Outside => cond'[u] = "in"
    BY <1>1, <1>2 DEF LockInv
  <1> QED
    BY <1>2, <1>3 DEF LockInv, OneAtATime, WaiterIsWoken

\* A call ends with the next step or as a bug.
LEMMA CallStep ==
    ASSUME LockInv, NEW t \in Thread, NEW ok, NEW wset, NEW next,
           tx[t].at \notin Outside, Call(t, ok, wset, next), Inside
    PROVE  LockInv'
  <1>1. CASE tx' = [tx EXCEPT ![t] = next]
    BY <1>1, InsideStep, Zenon DEF Inside
  <1>2. CASE tx' = [tx EXCEPT ![t].at = "bug"]
    <2>1. tx' = [tx EXCEPT ![t] = [tx[t] EXCEPT !.at = "bug"]]
      BY <1>2
    <2> QED
      BY <2>1, InsideStep, Zenon DEF Inside
  <1> QED
    BY <1>1, <1>2 DEF Call

\* A search that follows a freed address ends, for the model, right there.
LEMMA SearchStep ==
    ASSUME LockInv, NEW t \in Thread, NEW r, tx[t].at \notin Outside, FollowFreed(t, r), Inside
    PROVE  LockInv'
  <1>1. tx' = [tx EXCEPT ![t] = [tx[t] EXCEPT !.at = "undefined"]]
    BY DEF FollowFreed
  <1> QED
    BY <1>1, InsideStep, Zenon DEF Inside

LEMMA TransactionStep ==
    ASSUME LockInv, NEW t \in Thread,
           \/ new_order_district(t) \/ create_neworder(t) \/ create_order(t)
           \/ create_orderline(t) \/ unused_item(t) \/ new_order_end(t)
           \/ payment_warehouse(t) \/ payment_district(t) \/ payment_customer(t)
           \/ create_history(t)
           \/ delivery_neworder(t) \/ delivery_order(t) \/ delivery_lines(t)
           \/ delivery_customer(t)
           \/ order_status(t) \/ stock_level(t)
    PROVE  LockInv'
  <1>1. CASE new_order_district(t)
    BY <1>1, CallStep, Zenon DEF new_order_district, At, Outside
  <1>2. CASE create_neworder(t)
    BY <1>2, CallStep, SMTT(40) DEF create_neworder, Insert, At, Outside
  <1>3. CASE create_order(t)
    BY <1>3, CallStep, Zenon DEF create_order, Insert, At, Outside
  <1>4. CASE create_orderline(t)
    BY <1>4, CallStep DEF create_orderline, At, Outside
  <1>5. CASE unused_item(t)
    BY <1>5, CallStep, Zenon DEF unused_item, Get, At, Outside
  <1>6. CASE new_order_end(t)
    BY <1>6, CallStep, Zenon DEF new_order_end, Get, At, Outside
  <1>7. CASE payment_warehouse(t)
    BY <1>7, CallStep DEF payment_warehouse, Update, At, Outside
  <1>8. CASE payment_district(t)
    BY <1>8, CallStep, SMTT(40) DEF payment_district, Update, At, Outside
  <1>9. CASE payment_customer(t)
    BY <1>9, CallStep, SearchStep, Zenon DEF payment_customer, Update, At, Outside
  <1>10. CASE create_history(t)
    BY <1>10, CallStep, SMTT(40) DEF create_history, Insert, At, Outside
  <1>11. CASE delivery_neworder(t)
    BY <1>11, CallStep, Zenon DEF delivery_neworder, Get, At, Outside
  <1>12. CASE delivery_order(t)
    BY <1>12, CallStep DEF delivery_order, Update, At, Outside
  <1>13. CASE delivery_lines(t)
    BY <1>13, CallStep, Zenon DEF delivery_lines, At, Outside
  <1>14. CASE delivery_customer(t)
    BY <1>14, CallStep DEF delivery_customer, Update, At, Outside
  <1>15. CASE order_status(t)
    BY <1>15, CallStep, SearchStep, Zenon DEF order_status, Get, At, Outside
  <1>16. CASE stock_level(t)
    BY <1>16, CallStep, Zenon DEF stock_level, Get, At, Outside
  <1> QED
    BY <1>1, <1>2, <1>3, <1>4, <1>5, <1>6, <1>7, <1>8, <1>9, <1>10, <1>11, <1>12,
       <1>13, <1>14, <1>15, <1>16

\* The loop of lock: t gets in only if nobody is.
LEMMA TryLockStep ==
    ASSUME LockInv, NEW t \in Thread, cond[t] \in {"out", "woken"}, TryLock(t),
           tx' = tx \/ tx' = [tx EXCEPT ![t] = [Idle EXCEPT !.at = "run"]]
    PROVE  LockInv'
  <1>1. /\ tx' = [u \in Thread |-> tx'[u]]
        /\ \A u \in Thread : u # t => tx'[u] = tx[u]
        /\ tx'[t] = tx[t] \/ tx'[t].at = "run"
    BY DEF LockInv, Idle
  <1>2. \A u \in Thread : u # t => cond'[u] = cond[u]
    BY DEF LockInv, TryLock
  <1>3. CASE lock_var = 1
    BY <1>1, <1>2, <1>3 DEF LockInv, TryLock, OneAtATime, WaiterIsWoken, Outside
  <1>4. CASE lock_var = 0
    BY <1>1, <1>2, <1>4 DEF LockInv, TryLock, OneAtATime, WaiterIsWoken, Outside
  <1> QED
    BY <1>3, <1>4 DEF LockInv

\* unlock: nobody is in after it, and if a thread waits one is woken.
LEMMA ReleaseStep ==
    ASSUME LockInv, NEW t \in Thread, release(t)
    PROVE  LockInv'
  <1>1. cond[t] = "in" /\ tx' = [tx EXCEPT ![t] = Idle] /\ lock_var' = 0
    BY DEF release, At, LockInv, Outside, unlock
  <1>2. /\ tx' = [u \in Thread |-> tx'[u]]
        /\ \A u \in Thread : u # t => tx'[u] = tx[u]
        /\ tx'[t].at = "loop"
    BY <1>1, Zenon DEF LockInv, Idle
  <1>3. \A u \in Thread : u # t => cond[u] # "in"
    BY <1>1 DEF LockInv, OneAtATime
  <1>4. CASE \E u \in Thread : cond[u] = "waiting"
    <2>1. PICK u \in Thread : /\ cond[u] = "waiting"
                              /\ cond' = [cond EXCEPT ![t] = "out", ![u] = "woken"]
      BY <1>4 DEF release, unlock
    <2>2. cond'[u] = "woken" /\ \A v \in Thread : cond'[v] # "in"
      BY <1>1, <1>3, <2>1 DEF LockInv
    <2> QED
      BY <1>1, <1>2, <1>3, <2>1, <2>2 DEF LockInv, OneAtATime, WaiterIsWoken, Outside
  <1>5. CASE ~\E u \in Thread : cond[u] = "waiting"
    <2>1. cond' = [cond EXCEPT ![t] = "out"]
      BY <1>5 DEF release, unlock
    <2> QED
      BY <1>1, <1>2, <1>3, <1>5, <2>1 DEF LockInv, OneAtATime, WaiterIsWoken, Outside
  <1> QED
    BY <1>4, <1>5

LEMMA LockStep == LockInv /\ [Next]_vars => LockInv'
  <1> SUFFICES ASSUME LockInv, [Next]_vars PROVE LockInv'
    OBVIOUS
  <1>1. CASE UNCHANGED <<tx, lock_var, cond>>
    BY <1>1 DEF LockInv, OneAtATime, WaiterIsWoken
  <1>2. ASSUME NEW t \in Thread, begin(t) PROVE LockInv'
    BY <1>2, TryLockStep, Zenon DEF begin, lock
  <1>3. ASSUME NEW t \in Thread, wait(t) PROVE LockInv'
    BY <1>3, TryLockStep DEF wait, wake_up
  <1>4. ASSUME NEW t \in Thread, run(t) PROVE LockInv'
    <2>1. PICK next : tx' = [tx EXCEPT ![t] = next]
      BY <1>4, Zenon DEF run
    <2>2. \A u \in Thread : (u # t => tx'[u] = tx[u]) /\ cond[t] = "in"
      BY <1>4, <2>1 DEF run, LockInv
    <2>3. tx' = [u \in Thread |-> tx'[u]] /\ UNCHANGED <<lock_var, cond>>
      BY <1>4, <2>1 DEF run, LockInv, naiveVars
    <2> QED
      BY <2>2, <2>3 DEF LockInv, OneAtATime, WaiterIsWoken
  <1>5. ASSUME NEW t \in Thread, commit_tx(t) \/ user_abort(t) \/ system_abort(t) PROVE LockInv'
    <2>1. tx[t].at \notin Outside /\ UNCHANGED <<lock_var, cond>>
      BY <1>5 DEF commit_tx, user_abort, system_abort, At, InTransaction, Outside
    <2>2. PICK next : tx' = [tx EXCEPT ![t] = next]
      BY <1>5 DEF commit_tx, user_abort, system_abort
    <2> QED
      BY <2>1, <2>2, InsideStep, Zenon
  <1>6. ASSUME NEW t \in Thread, leave(t) PROVE LockInv'
    <2>1. [Idle EXCEPT !.at = "done"].at \in Outside
      BY DEF Idle, Outside
    <2> QED
      BY <1>6, <2>1, OutsideStep, Zenon DEF leave
  <1>7. ASSUME NEW t \in Thread, disturb(t) PROVE LockInv'
    <2>1. /\ cond[t] = "waiting" /\ cond' = [cond EXCEPT ![t] = "woken"]
          /\ UNCHANGED <<tx, lock_var>>
      BY <1>7 DEF disturb, spurious_wake_up
    <2>2. \A u \in Thread : cond'[u] = IF u = t THEN "woken" ELSE cond[u]
      BY <2>1 DEF LockInv
    <2> QED
      BY <2>1, <2>2 DEF LockInv, OneAtATime, WaiterIsWoken
  <1>8. CASE stop \/ Joined \/ UNCHANGED vars
    BY <1>1, <1>8 DEF stop, Joined, vars, naiveVars
  <1> QED
    BY <1>2, <1>3, <1>4, <1>5, <1>6, <1>7, <1>8, TransactionStep, ReleaseStep DEF Next, Step

LEMMA LockAlways == Spec => []LockInv
  BY LockInit, LockStep, PTL DEF Spec

-----------------------------------------------------------------------------
\* LockTable keeps the transactions apart, for any number of threads: also a
\* thread that wait lets go late, or for no reason, does not get in beside another.
THEOREM Serial == Spec => []OneAtATime
  <1>1. LockInv => OneAtATime
    BY DEF LockInv
  <1> QED
    BY <1>1, LockAlways, PTL

\* notify_one is enough: while the lock is free no thread is left in wait without
\* another one on its way to the lock, for any number of threads.
THEOREM WakeUps == Spec => []WaiterIsWoken
  <1>1. LockInv => WaiterIsWoken
    BY DEF LockInv
  <1> QED
    BY <1>1, LockAlways, PTL

\* modify_stock keeps the quantity of every stock of 10 to 101 in that range, for
\* every quantity an order line can have; the counters count the line once, and
\* stay below where they wrap around, at any width.
THEOREM StockRange ==
    ASSUME NEW s, NEW q \in 1..10, NEW remote \in BOOLEAN,
           s.quantity \in 10..101, s.order_cnt \in 0..(U16 - 1), s.remote_cnt \in 0..(U16 - 1),
           s.ytd \in 0..(U32 - 1)
    PROVE  LET r == modify_stock(s, q, remote)
           IN  /\ r.quantity \in 10..101
               /\ r.order_cnt \in 0..(U16 - 1) /\ r.remote_cnt \in 0..(U16 - 1)
               /\ r.ytd \in 0..(U32 - 1)
               /\ r.order_cnt = s.order_cnt + 1 \/ (r.order_cnt = 0 /\ s.order_cnt = U16 - 1)
  <1>1. U16 \in Nat \ {0} /\ U32 \in Nat \ {0}
    BY TPCCAssumption
  <1>2. \A n \in Nat, m \in Nat \ {0} : n % m \in 0..(m - 1)
    OBVIOUS
  <1> DEFINE r == modify_stock(s, q, remote)
  <1>3. r.quantity \in 10..101
    BY DEF modify_stock
  <1>4. r.order_cnt = (s.order_cnt + 1) % U16 /\ r.ytd = (s.ytd + q) % U32
    BY DEF modify_stock
  <1>5. r.remote_cnt = (s.remote_cnt + 1) % U16 \/ r.remote_cnt = s.remote_cnt
    BY DEF modify_stock
  <1>6. s.order_cnt + 1 \in Nat /\ s.remote_cnt + 1 \in Nat /\ s.ytd + q \in Nat
    BY <1>1
  <1>7. /\ r.order_cnt \in 0..(U16 - 1) /\ r.remote_cnt \in 0..(U16 - 1)
        /\ r.ytd \in 0..(U32 - 1)
    BY <1>1, <1>2, <1>4, <1>5, <1>6
  <1>8. r.order_cnt = s.order_cnt + 1 \/ (r.order_cnt = 0 /\ s.order_cnt = U16 - 1)
    <2>1. CASE s.order_cnt + 1 < U16
      BY <1>1, <1>4, <1>6, <2>1
    <2>2. CASE s.order_cnt + 1 = U16
      BY <1>1, <1>4, <1>6, <2>2
    <2> QED
      BY <1>1, <2>1, <2>2
  <1> QED
    BY <1>3, <1>7, <1>8
=============================================================================
