------------------------ MODULE EpochManager_proofs -------------------------
(***************************************************************************)
(* For any number of workers and epochs: the types of EpochManager, the    *)
(* bound on how far a worker lags, and the monotonicity of its epoch.      *)
(*                                                                         *)
(* EpochLag is not inductive: that the increment is safe depends on what   *)
(* the scan has seen of each worker it has passed, including one that was  *)
(* between the load and the store of begin_tx.  Scanned records that.      *)
(***************************************************************************)
EXTENDS EpochManager, TLAPS

\* How the program counter of a worker and its count of begin_tx agree.
Registered ==
    \A w \in Workers :
        /\ pc[w] = "new" => begun[w] = 0
        /\ pc[w] = "tx" => begun[w] >= 1

\* What begin_tx has loaded is between the worker's epoch and the global one.
LoadedBetween ==
    \A w \in Workers : pc[w] = "load" =>
        /\ loaded[w] <= global
        /\ begun[w] >= 1 => epoch[w] <= loaded[w]

\* As long as the running minimum has not dropped below e, every worker the
\* scan has passed has stored, or is about to store, an epoch of at least e.
Scanned ==
    mpc = "scan" =>
        /\ e = global /\ global < MaxEpoch
        /\ smallest >= e => \A w \in Workers : w < next =>
               /\ begun[w] = 2 => epoch[w] >= e
               /\ begun[w] >= 1 /\ pc[w] = "load" => loaded[w] >= e

EpochInv == EpochTypeOK /\ EpochLag /\ Registered /\ LoadedBetween /\ Scanned

-----------------------------------------------------------------------------
LEMMA InitInv == EpochInit => EpochInv
  BY EpochAssumption DEF EpochInit, EpochInv, EpochTypeOK, EpochLag, Registered,
     LoadedBetween, Scanned, Garbage, Infinity, Workers

LEMMA SetWorkerInv ==
  ASSUME EpochInv, NEW w \in Workers, set_worker(w)
  PROVE  EpochInv'
  BY EpochAssumption DEF EpochInv, EpochTypeOK, EpochLag, Registered,
     LoadedBetween, Scanned, set_worker, managerVars

LEMMA BeginLoadInv ==
  ASSUME EpochInv, NEW w \in Workers, begin_load(w)
  PROVE  EpochInv'
<1>1. EpochTypeOK'
  BY DEF EpochInv, EpochTypeOK, begin_load, managerVars
<1>2. EpochLag' /\ Registered' /\ LoadedBetween'
  BY EpochAssumption DEF EpochInv, EpochTypeOK, EpochLag, Registered,
     LoadedBetween, begin_load, managerVars
<1>3. Scanned'
  BY EpochAssumption DEF EpochInv, EpochTypeOK, Scanned, begin_load, managerVars
<1> QED BY <1>1, <1>2, <1>3 DEF EpochInv

LEMMA BeginStoreInv ==
  ASSUME EpochInv, NEW w \in Workers, begin_store(w)
  PROVE  EpochInv'
<1>1. /\ begun' \in [Workers -> 0..2] /\ begun'[w] >= 1
      /\ begun'[w] = 2 => begun[w] >= 1
      /\ \A v \in Workers \ {w} : begun'[v] = begun[v]
  BY DEF EpochInv, EpochTypeOK, begin_store, Smaller
<1>2. EpochTypeOK'
  BY <1>1, EpochAssumption DEF EpochInv, EpochTypeOK, Garbage, begin_store, managerVars
<1>3. EpochLag' /\ Registered' /\ LoadedBetween'
  BY <1>1, EpochAssumption DEF EpochInv, EpochTypeOK, EpochLag, Registered,
     LoadedBetween, begin_store, managerVars
<1>4. Scanned'
  BY <1>1, EpochAssumption DEF EpochInv, EpochTypeOK, Scanned, begin_store, managerVars
<1> QED BY <1>2, <1>3, <1>4 DEF EpochInv

LEMMA EndTxInv ==
  ASSUME EpochInv, NEW w \in Workers, end_tx(w)
  PROVE  EpochInv'
  BY EpochAssumption DEF EpochInv, EpochTypeOK, EpochLag, Registered,
     LoadedBetween, Scanned, end_tx, managerVars

LEMMA LoadGlobalInv ==
  ASSUME EpochInv, load_global
  PROVE  EpochInv'
  BY EpochAssumption DEF EpochInv, EpochTypeOK, EpochLag, Registered,
     LoadedBetween, Scanned, load_global, workerVars, Workers, Garbage, Infinity

LEMMA ScanWorkerInv ==
  ASSUME EpochInv, scan_worker
  PROVE  EpochInv'
<1> USE EpochAssumption
<1>1. /\ smallest' \in Garbage /\ smallest' <= smallest
      /\ pc[next] # "new" => smallest' <= epoch[next]
  BY DEF EpochInv, EpochTypeOK, scan_worker, Smaller, Garbage
<1>2. EpochTypeOK' /\ EpochLag' /\ Registered' /\ LoadedBetween'
  BY <1>1 DEF EpochInv, EpochTypeOK, EpochLag, Registered, LoadedBetween,
     scan_worker, workerVars, Workers
<1>3. Scanned'
  <2> SUFFICES ASSUME smallest' >= e, NEW v \in Workers, v < next + 1
               PROVE  /\ begun[v] = 2 => epoch[v] >= e
                      /\ begun[v] >= 1 /\ pc[v] = "load" => loaded[v] >= e
    BY DEF EpochInv, Scanned, scan_worker, workerVars
  <2>1. CASE v < next
    BY <2>1, <1>1 DEF EpochInv, EpochTypeOK, Scanned, scan_worker, Garbage
  <2>2. CASE v = next
    BY <2>2, <1>1 DEF EpochInv, EpochTypeOK, Registered, LoadedBetween, scan_worker, Garbage
  <2> QED BY <2>1, <2>2 DEF EpochInv, EpochTypeOK, Workers
<1> QED BY <1>2, <1>3 DEF EpochInv

LEMMA IncrementInv ==
  ASSUME EpochInv, increment_epoch
  PROVE  EpochInv'
<1> USE EpochAssumption
<1>1. global' \in 1..MaxEpoch /\ global <= global' /\ global' <= global + 1
  BY DEF EpochInv, EpochTypeOK, Scanned, increment_epoch
<1>2. ASSUME NEW w \in Workers, global' # global
      PROVE  /\ begun[w] = 2 => epoch[w] >= global
             /\ begun[w] >= 1 /\ pc[w] = "load" => loaded[w] >= global
  BY <1>2 DEF EpochInv, EpochTypeOK, Scanned, increment_epoch, Workers
<1>3. EpochTypeOK' /\ Registered' /\ Scanned'
  BY <1>1 DEF EpochInv, EpochTypeOK, Registered, Scanned, increment_epoch, workerVars, Infinity, Garbage
<1>4. EpochLag' /\ LoadedBetween'
  BY <1>1, <1>2 DEF EpochInv, EpochTypeOK, EpochLag, LoadedBetween,
     increment_epoch, workerVars
<1> QED BY <1>3, <1>4 DEF EpochInv

LEMMA NextInv == EpochInv /\ [EpochNext]_emVars => EpochInv'
<1> SUFFICES ASSUME EpochInv, [EpochNext]_emVars PROVE EpochInv'
  OBVIOUS
<1>1. ASSUME NEW w \in Workers, BeginStep(w) \/ end_tx(w) PROVE EpochInv'
  BY <1>1, SetWorkerInv, BeginLoadInv, BeginStoreInv, EndTxInv DEF BeginStep
<1>2. CASE ManagerStep
  BY <1>2, LoadGlobalInv, ScanWorkerInv, IncrementInv DEF ManagerStep
<1>3. CASE UNCHANGED emVars
  BY <1>3 DEF emVars, EpochInv, EpochTypeOK, EpochLag, Registered, LoadedBetween, Scanned
<1> QED BY <1>1, <1>2, <1>3 DEF EpochNext

LEMMA Invariance == EpochSpec => []EpochInv
  BY InitInv, NextInv, PTL DEF EpochSpec

-----------------------------------------------------------------------------
\* The epochs keep their types; in particular a worker that has begun a
\* transaction holds an epoch the manager has handed out.
THEOREM EpochTypes == EpochSpec => []EpochTypeOK
<1>1. EpochInv => EpochTypeOK
  BY DEF EpochInv
<1> QED BY <1>1, Invariance, PTL

\* From its second transaction on a worker is at most one epoch behind the
\* global epoch, however begin_tx and the manager's scan interleave.
THEOREM LagBounded == EpochSpec => []EpochLag
<1>1. EpochInv => EpochLag
  BY DEF EpochInv
<1> QED BY <1>1, Invariance, PTL

\* The epoch of a worker never goes back once begin_tx has stored it.
THEOREM EpochsMonotone == EpochSpec => WorkerEpochMonotone
<1>1. EpochInv /\ [EpochNext]_emVars
        => [\A w \in Workers : begun[w] >= 1 => epoch'[w] >= epoch[w]]_emVars
  <2> SUFFICES ASSUME EpochInv, EpochNext, NEW w \in Workers, begun[w] >= 1
               PROVE  epoch'[w] >= epoch[w]
    OBVIOUS
  <2>1. CASE epoch' = epoch
    BY <2>1, EpochAssumption DEF EpochInv, EpochTypeOK, Garbage
  <2>2. ASSUME NEW v \in Workers, begin_store(v) PROVE epoch'[w] >= epoch[w]
    BY <2>2, EpochAssumption DEF EpochInv, EpochTypeOK, LoadedBetween, begin_store, Garbage
  <2> QED BY <2>1, <2>2 DEF EpochNext, ManagerStep, BeginStep, load_global, scan_worker,
             increment_epoch, set_worker, begin_load, end_tx, workerVars
<1> QED BY <1>1, Invariance, PTL DEF EpochSpec, WorkerEpochMonotone
=============================================================================
