--------------------------- MODULE EpochGC_proofs ----------------------------
(***************************************************************************)
(* For any number of workers, epochs and objects: no record is deallocated *)
(* while a running transaction holds a pointer to it.                      *)
(*                                                                         *)
(* The argument has two halves.  EpochHeldBack bounds the global epoch by  *)
(* since + 1 while a transaction runs; it needs ScanSince, what the scan   *)
(* knows of the transactions it has passed.  TagCovers says that a         *)
(* transaction holding a collected record began by the epoch of the tag,   *)
(* since a locked record gains no new reader after the serial point.       *)
(***************************************************************************)
EXTENDS EpochGC, EpochManager_proofs

ScanSince ==
    mpc = "scan" /\ smallest >= e =>
        \A w \in Workers : w < next /\ pc[w] = "tx" => since[w] >= e

Idle == \A w \in Workers : pc[w] # "tx" =>
            refs[w] = {} /\ locks[w] = {} /\ inserted[w] = {} /\ stage[w] = "run"

LocksHeld ==
    \A w \in Workers :
        /\ \A o \in locks[w] : status[o] = "locked"
        /\ \A v \in Workers, o \in locks[w] : o \in locks[v] => v = w
        /\ \A o \in inserted[w] : status[o] = "new"
        /\ \A v \in Workers, o \in inserted[w] : o \in inserted[v] => v = w
        /\ stage[w] \in {"abort", "done"} => locks[w] = {}
        /\ stage[w] = "done" => inserted[w] = {}

\* A transaction that holds a record which another has locked began by the
\* epoch the other has read, and will tag the record with.
SerialCovers ==
    \A w, v \in Workers, o \in Rec :
        stage[w] \in {"validate", "write"} /\ o \in locks[w] /\ o \in refs[v]
            => since[v] <= ctag[w]

\* A transaction that holds a collected record began by the epoch of its tag.
TagCovers ==
    \A v \in Workers, o \in Rec :
        status[o] \in {"dead", "freed"} /\ o \in refs[v] => since[v] <= tag[o]

Heap == Idle /\ LocksHeld /\ SerialCovers /\ TagCovers /\ GracePeriod

GCInv == TypeOK /\ EpochInv /\ EpochHeldBack /\ ScanSince /\ Heap

-----------------------------------------------------------------------------
LEMMA GCInit == Init => GCInv
<1> SUFFICES ASSUME Init PROVE GCInv
  OBVIOUS
<1>1. EpochInv
  BY InitInv DEF Init
<1>2. TypeOK
  BY <1>1, EpochAssumption DEF Init, TypeOK, EpochInv, Workers
<1>3. EpochHeldBack /\ ScanSince /\ Heap
  BY DEF Init, EpochInit, EpochHeldBack, ScanSince, Heap, Idle, LocksHeld,
     SerialCovers, TagCovers, GracePeriod, Obj
<1> QED BY <1>1, <1>2, <1>3 DEF GCInv

\* A step that leaves the epochs alone keeps what is only about them.
LEMMA EpochsUnchanged ==
  ASSUME GCInv, UNCHANGED <<emVars, since>>
  PROVE  EpochInv' /\ EpochTypeOK' /\ EpochHeldBack' /\ ScanSince'
  BY DEF GCInv, TypeOK, emVars, EpochInv, EpochTypeOK, EpochLag, Registered,
     LoadedBetween, Scanned, EpochHeldBack, ScanSince

LEMMA ManagerGC ==
  ASSUME GCInv, Manager
  PROVE  GCInv'
<1> USE EpochAssumption
<1>1. EpochInv'
  BY NextInv DEF GCInv, Manager, EpochNext
<1>2. UNCHANGED <<status, tag, owner, refs, locks, inserted, ctag, stage, since, workerVars>>
  BY DEF Manager, ManagerStep, load_global, scan_worker, increment_epoch, gcVars
<1>3. TypeOK'
  BY <1>1, <1>2 DEF GCInv, TypeOK, EpochInv
<1>4. Heap'
  BY <1>2 DEF GCInv, Heap, Idle, LocksHeld, SerialCovers, TagCovers, GracePeriod, workerVars
<1>5. EpochHeldBack' /\ ScanSince'
  <2>1. CASE load_global
    BY <1>2, <2>1 DEF GCInv, TypeOK, EpochTypeOK, EpochHeldBack, ScanSince, load_global,
       workerVars, Workers
  <2>2. CASE scan_worker
    <3>1. /\ smallest' <= smallest /\ smallest' \in Int /\ smallest \in Int
          /\ pc[next] # "new" => smallest' <= epoch[next]
      BY <2>2 DEF GCInv, TypeOK, EpochTypeOK, scan_worker, Smaller, Garbage
    <3>2. EpochHeldBack'
      BY <1>2, <2>2 DEF GCInv, EpochHeldBack, scan_worker, workerVars
    <3>3. ScanSince'
      <4> SUFFICES ASSUME smallest' >= e, NEW w \in Workers, w < next + 1, pc[w] = "tx"
                   PROVE  since[w] >= e
        BY <1>2, <2>2 DEF ScanSince, scan_worker, workerVars
      <4>1. CASE w < next
        BY <2>2, <3>1, <4>1 DEF GCInv, TypeOK, EpochTypeOK, ScanSince, scan_worker
      <4>2. CASE w = next
        BY <2>2, <3>1, <4>2 DEF GCInv, TypeOK, EpochTypeOK, EpochHeldBack, Garbage
      <4> QED BY <4>1, <4>2 DEF GCInv, TypeOK, EpochTypeOK, Workers
    <3> QED BY <3>2, <3>3
  <2>3. CASE increment_epoch
    <3>1. ASSUME NEW w \in Workers, pc[w] = "tx", global' # global
          PROVE  since[w] >= global
      BY <2>3, <3>1, SMTT(40) DEF GCInv, TypeOK, EpochTypeOK, EpochInv, Scanned, ScanSince,
         increment_epoch, Workers
    <3>2. global' = global \/ global' = global + 1
      BY <2>3 DEF increment_epoch
    <3>3. EpochHeldBack'
      BY <1>2, <3>1, <3>2 DEF GCInv, TypeOK, EpochTypeOK, EpochHeldBack, workerVars
    <3>4. ScanSince'
      BY <2>3 DEF ScanSince, increment_epoch
    <3> QED BY <3>3, <3>4
  <2> QED BY <2>1, <2>2, <2>3 DEF Manager, ManagerStep
<1> QED BY <1>1, <1>3, <1>4, <1>5 DEF GCInv

LEMMA RegisterGC ==
  ASSUME GCInv, NEW w \in Workers, set_worker(w) \/ begin_load(w), UNCHANGED gcVars
  PROVE  GCInv'
<1>1. EpochInv'
  BY NextInv DEF GCInv, EpochNext, BeginStep
<1>2. TypeOK'
  BY <1>1 DEF GCInv, TypeOK, EpochInv, gcVars
<1>3. \A v \in Workers : pc'[v] = "tx" <=> pc[v] = "tx"
  BY DEF GCInv, TypeOK, EpochTypeOK, set_worker, begin_load
<1>4. EpochHeldBack' /\ ScanSince'
  BY <1>3 DEF GCInv, EpochHeldBack, ScanSince, set_worker, begin_load, managerVars, gcVars
<1>5. Heap'
  BY <1>3 DEF GCInv, Heap, Idle, LocksHeld, SerialCovers, TagCovers, GracePeriod, gcVars
<1> QED BY <1>1, <1>2, <1>4, <1>5 DEF GCInv

LEMMA BeginGC ==
  ASSUME GCInv, NEW w \in Workers, Begin(w)
  PROVE  GCInv'
<1> USE EpochAssumption
<1>1. EpochInv'
  BY NextInv DEF GCInv, EpochNext, BeginStep, Begin
<1>2. TypeOK'
  BY <1>1, Zenon DEF GCInv, TypeOK, EpochTypeOK, EpochInv, Begin, objVars, txVars
<1>3. /\ \A v \in Workers \ {w} : /\ pc'[v] = pc[v] /\ since'[v] = since[v]
                                  /\ epoch'[v] = epoch[v]
      /\ since'[w] = global /\ epoch'[w] = loaded[w] /\ loaded[w] <= global
      /\ pc'[w] = "tx" /\ refs[w] = {}
      /\ UNCHANGED <<global, managerVars, objVars, txVars>>
  BY Zenon DEF GCInv, TypeOK, EpochTypeOK, EpochInv, LoadedBetween, Heap, Idle, Begin, begin_store
<1>4. EpochHeldBack'
  BY <1>3 DEF GCInv, TypeOK, EpochTypeOK, EpochHeldBack
<1>5. ScanSince'
  BY <1>3 DEF GCInv, TypeOK, EpochTypeOK, EpochInv, Scanned, ScanSince, managerVars
<1>6. Idle' /\ LocksHeld'
  BY <1>3 DEF GCInv, Heap, Idle, LocksHeld, objVars, txVars
<1>7. SerialCovers' /\ TagCovers' /\ GracePeriod'
  BY <1>3 DEF GCInv, Heap, SerialCovers, TagCovers, GracePeriod, objVars, txVars
<1> QED BY <1>1, <1>2, <1>4, <1>5, <1>6, <1>7 DEF GCInv, Heap

LEMMA ReadGC ==
  ASSUME GCInv, NEW w \in Workers, NEW o \in Obj,
         get_record_pointer(w, o) \/ find(w, o)
  PROVE  GCInv'
<1>1. EpochInv' /\ EpochTypeOK' /\ EpochHeldBack' /\ ScanSince'
  BY EpochsUnchanged, SMTT(40) DEF get_record_pointer, find
<1>2. /\ pc[w] = "tx" /\ stage[w] = "run" /\ locks[w] = {}
      /\ status[o] \notin {"dead", "freed"}
      /\ o \in Rec => status[o] = "live"
      /\ refs' = [refs EXCEPT ![w] = @ \cup {o}]
      /\ UNCHANGED <<status, tag, owner, locks, inserted, ctag, stage, since, pc>>
  BY ObjectAssumption DEF get_record_pointer, find, In, objVars, emVars
<1>3. TypeOK'
  BY <1>1, <1>2 DEF GCInv, TypeOK
<1>4. \A v \in Workers, x \in Obj : x \in refs'[v] <=> x \in refs[v] \/ (v = w /\ x = o)
  BY <1>2 DEF GCInv, TypeOK
<1>5. Idle'
  BY <1>2, Zenon DEF GCInv, TypeOK, Heap, Idle
<1>6. LocksHeld'
  BY <1>2 DEF GCInv, Heap, LocksHeld
<1>7. SerialCovers'
  BY <1>2, <1>4 DEF GCInv, Heap, LocksHeld, SerialCovers, Obj
<1>8. TagCovers' /\ GracePeriod'
  BY <1>2, <1>4 DEF GCInv, Heap, TagCovers, GracePeriod, Obj
<1> QED BY <1>1, <1>3, <1>5, <1>6, <1>7, <1>8 DEF GCInv, Heap

LEMMA InsertGC ==
  ASSUME GCInv, NEW w \in Workers, NEW o \in Obj, insert(w, o)
  PROVE  GCInv'
<1>1. EpochInv' /\ EpochTypeOK' /\ EpochHeldBack' /\ ScanSince'
  BY EpochsUnchanged DEF insert
<1>2. /\ pc[w] = "tx" /\ o \in Val /\ o \notin Rec /\ status[o] = "fresh"
      /\ \A x \in Obj : status'[x] = IF x = o THEN "new" ELSE status[x]
      /\ \A v \in Workers, x \in Obj : x \in refs'[v] <=> x \in refs[v] \/ (v = w /\ x = o)
      /\ \A v \in Workers, x \in Obj : x \in inserted'[v] <=> x \in inserted[v] \/ (v = w /\ x = o)
      /\ UNCHANGED <<tag, owner, locks, ctag, stage, since, pc>>
  BY ObjectAssumption DEF GCInv, TypeOK, insert, In, emVars
<1>3. TypeOK'
  BY <1>1, <1>2 DEF GCInv, TypeOK, insert
<1>4. Idle'
  BY <1>2, SMTT(40) DEF GCInv, TypeOK, Heap, Idle, insert
<1>5. LocksHeld'
  <2>1. \A v \in Workers : o \notin inserted[v] /\ o \notin locks[v]
    BY <1>2 DEF GCInv, Heap, LocksHeld
  <2>2. stage[w] = "run" /\ \A v \in Workers \ {w} : inserted'[v] = inserted[v]
    BY DEF GCInv, TypeOK, insert, In
  <2> QED BY <1>2, <1>3, <2>1, <2>2, SMTT(40) DEF GCInv, TypeOK, Heap, LocksHeld, Obj
<1>6. SerialCovers'
  BY <1>2 DEF GCInv, Heap, SerialCovers, Obj
<1>7. TagCovers' /\ GracePeriod'
  BY <1>2 DEF GCInv, Heap, TagCovers, GracePeriod, Obj
<1> QED BY <1>1, <1>3, <1>4, <1>5, <1>6, <1>7 DEF GCInv, Heap

LEMMA LockGC ==
  ASSUME GCInv, NEW w \in Workers, NEW o \in Obj, lock(w, o)
  PROVE  GCInv'
<1>1. EpochInv' /\ EpochTypeOK' /\ EpochHeldBack' /\ ScanSince'
  BY EpochsUnchanged DEF lock
<1>2. /\ pc[w] = "tx" /\ stage[w] = "run" /\ status[o] = "live"
      /\ \A x \in Obj : status'[x] = IF x = o THEN "locked" ELSE status[x]
      /\ \A v \in Workers, x \in Obj : x \in locks'[v] <=> x \in locks[v] \/ (v = w /\ x = o)
      /\ UNCHANGED <<tag, owner, refs, inserted, ctag, stage, since, pc>>
  BY DEF GCInv, TypeOK, lock, In, emVars
<1>3. TypeOK'
  BY <1>1, <1>2 DEF GCInv, TypeOK, lock
<1>4. Idle'
  BY <1>2, SMTT(40) DEF GCInv, TypeOK, Heap, Idle, lock
<1>5. LocksHeld'
  <2>1. \A v \in Workers : o \notin locks[v] /\ o \notin inserted[v]
    BY <1>2 DEF GCInv, Heap, LocksHeld
  <2>2. \A v \in Workers : stage[v] \in {"abort", "done"} => locks'[v] = locks[v]
    BY <1>2, Zenon DEF GCInv, TypeOK, lock
  <2> QED BY <1>2, <1>3, <2>1, <2>2, SMTT(40) DEF GCInv, TypeOK, Heap, LocksHeld, Obj
<1>6. SerialCovers'
  BY <1>2 DEF GCInv, Heap, SerialCovers, Obj
<1>7. TagCovers' /\ GracePeriod'
  BY <1>2 DEF GCInv, Heap, TagCovers, GracePeriod, Obj
<1> QED BY <1>1, <1>3, <1>4, <1>5, <1>6, <1>7 DEF GCInv, Heap

LEMMA SerialPointGC ==
  ASSUME GCInv, NEW w \in Workers, serial_point(w) \/ validate(w)
  PROVE  GCInv'
<1> USE EpochAssumption
<1>1. EpochInv' /\ EpochTypeOK' /\ EpochHeldBack' /\ ScanSince'
  BY EpochsUnchanged, Zenon DEF serial_point, validate
<1>2. /\ pc[w] = "tx"
      /\ stage' \in [Workers -> {"run", "validate", "write", "abort", "done"}]
      /\ stage'[w] \in {"validate", "write"}
      /\ \A v \in Workers \ {w} : stage'[v] = stage[v] /\ ctag'[v] = ctag[v]
      /\ ctag' \in [Workers -> 0..MaxEpoch]
      /\ ctag'[w] = global \/ (stage[w] = "validate" /\ ctag'[w] = ctag[w])
      /\ UNCHANGED <<status, tag, owner, refs, locks, inserted, since, pc>>
  <2>1. /\ stage \in [Workers -> {"run", "validate", "write", "abort", "done"}]
        /\ ctag \in [Workers -> 0..MaxEpoch] /\ global \in 0..MaxEpoch
    BY DEF GCInv, TypeOK, EpochTypeOK
  <2>2. CASE serial_point(w)
    BY <2>1, <2>2 DEF serial_point, In, objVars, emVars
  <2>3. CASE validate(w)
    BY <2>1, <2>3 DEF validate, In, objVars, emVars
  <2> QED BY <2>2, <2>3
<1>3. TypeOK'
  BY <1>1, <1>2 DEF GCInv, TypeOK
<1>4. Idle' /\ LocksHeld'
  BY <1>2 DEF GCInv, Heap, Idle, LocksHeld
<1>5. SerialCovers'
  <2> SUFFICES ASSUME NEW v \in Workers, NEW u \in Workers, NEW o \in Rec,
                      stage'[v] \in {"validate", "write"}, o \in locks[v], o \in refs[u]
               PROVE  since[u] <= ctag'[v]
    BY <1>2 DEF SerialCovers
  <2>1. pc[u] = "tx" /\ since[u] <= global
    BY Zenon DEF GCInv, Heap, Idle, EpochHeldBack
  <2> QED BY <1>2, <2>1 DEF GCInv, Heap, SerialCovers
<1>6. TagCovers' /\ GracePeriod'
  BY <1>2 DEF GCInv, Heap, TagCovers, GracePeriod
<1> QED BY <1>1, <1>3, <1>4, <1>5, <1>6 DEF GCInv, Heap

\* Locks are given up and insertions settled, and what is still locked or new
\* keeps its status.
LEMMA LocksShrink ==
  ASSUME GCInv,
         \A v \in Workers : locks'[v] \subseteq locks[v] /\ inserted'[v] \subseteq inserted[v],
         \A v \in Workers : \A x \in locks'[v] \cup inserted'[v] : status'[x] = status[x],
         \A v \in Workers : /\ stage'[v] \in {"abort", "done"} => locks'[v] = {}
                            /\ stage'[v] = "done" => inserted'[v] = {}
  PROVE  LocksHeld'
<1>1. LocksHeld
  BY DEF GCInv, Heap
<1>2. \A v \in Workers : \A o \in locks'[v] : o \in locks[v] /\ status'[o] = status[o]
  BY Zenon
<1>3. \A v \in Workers : \A o \in inserted'[v] : o \in inserted[v] /\ status'[o] = status[o]
  BY Zenon
<1> SUFFICES ASSUME NEW w \in Workers
             PROVE  /\ \A o \in locks'[w] : status'[o] = "locked"
                    /\ \A v \in Workers, o \in locks'[w] : o \in locks'[v] => v = w
                    /\ \A o \in inserted'[w] : status'[o] = "new"
                    /\ \A v \in Workers, o \in inserted'[w] : o \in inserted'[v] => v = w
                    /\ stage'[w] \in {"abort", "done"} => locks'[w] = {}
                    /\ stage'[w] = "done" => inserted'[w] = {}
  BY Zenon DEF LocksHeld
<1>4. /\ \A o \in locks[w] : status[o] = "locked"
      /\ \A v \in Workers, o \in locks[w] : o \in locks[v] => v = w
      /\ \A o \in inserted[w] : status[o] = "new"
      /\ \A v \in Workers, o \in inserted[w] : o \in inserted[v] => v = w
  BY <1>1, Zenon DEF LocksHeld
<1>5. /\ \A o \in locks'[w] : status'[o] = "locked"
      /\ \A v \in Workers, o \in locks'[w] : o \in locks'[v] => v = w
  BY <1>2, <1>4, Zenon
<1>6. /\ \A o \in inserted'[w] : status'[o] = "new"
      /\ \A v \in Workers, o \in inserted'[w] : o \in inserted'[v] => v = w
  BY <1>3, <1>4, Zenon
<1>7. /\ stage'[w] \in {"abort", "done"} => locks'[w] = {}
      /\ stage'[w] = "done" => inserted'[w] = {}
  BY Zenon
<1> QED BY <1>5, <1>6, <1>7, Zenon

LEMMA WriteGC ==
  ASSUME GCInv, NEW w \in Workers, NEW o \in Obj, write(w, o)
  PROVE  GCInv'
<1>1. EpochInv' /\ EpochTypeOK' /\ EpochHeldBack' /\ ScanSince'
  BY EpochsUnchanged DEF write
<1>2. /\ pc[w] = "tx" /\ stage[w] = "write" /\ o \in locks[w]
      /\ \A x \in Obj : status'[x] = IF x = o THEN "dead" ELSE status[x]
      /\ \A x \in Obj : tag'[x] = IF x = o THEN ctag[w] ELSE tag[x]
      /\ \A v \in Workers, x \in Obj : x \in locks'[v] <=> x \in locks[v] /\ ~(v = w /\ x = o)
      /\ UNCHANGED <<refs, inserted, ctag, stage, since, pc>>
  BY DEF GCInv, TypeOK, write, collect, In, emVars
<1>3. TypeOK'
  <2>1. /\ status' \in [Obj -> {"fresh", "new", "live", "locked", "dead", "freed"}]
        /\ tag' \in [Obj -> 0..MaxEpoch]
    BY DEF GCInv, TypeOK, write, collect
  <2>2. owner' \in [Obj -> 0..N]
    BY EpochAssumption DEF GCInv, TypeOK, write, collect, Workers
  <2>3. locks' \in [Workers -> SUBSET Obj]
    BY Zenon DEF GCInv, TypeOK, write
  <2> QED BY <1>1, <1>2, <2>1, <2>2, <2>3, Zenon DEF GCInv, TypeOK
<1>4. Idle'
  BY <1>2, SMTT(40) DEF GCInv, TypeOK, Heap, Idle, write
<1>5. LocksHeld'
  <2>1. \A v \in Workers : o \notin inserted[v] /\ (o \in locks[v] => v = w)
    BY <1>2 DEF GCInv, Heap, LocksHeld
  <2>2. \A v \in Workers : locks[v] \subseteq Obj /\ locks'[v] \subseteq Obj /\ inserted[v] \subseteq Obj
    BY <1>3 DEF GCInv, TypeOK, Obj
  <2>3. \A v \in Workers : locks'[v] \subseteq locks[v] /\ o \notin locks'[v]
    BY <1>2, <2>1, <2>2
  <2>4. \A v \in Workers : \A x \in locks'[v] \cup inserted'[v] : status'[x] = status[x]
    <3> SUFFICES ASSUME NEW v \in Workers, NEW x \in locks'[v] \cup inserted'[v]
                 PROVE  status'[x] = status[x]
      BY SMT
    <3>1. x \in locks'[v] \/ x \in inserted[v]
      BY <1>2
    <3>2. x \in Obj /\ x # o
      BY <3>1, <2>1, <2>2, <2>3
    <3> QED BY <3>2, <1>2
  <2>5. \A v \in Workers : /\ stage[v] \in {"abort", "done"} => locks[v] = {}
                           /\ stage[v] = "done" => inserted[v] = {}
    BY DEF GCInv, Heap, LocksHeld
  <2>6. \A v \in Workers : /\ stage'[v] \in {"abort", "done"} => locks'[v] = {}
                           /\ stage'[v] = "done" => inserted'[v] = {}
    <3> SUFFICES ASSUME NEW v \in Workers
                 PROVE  /\ stage[v] \in {"abort", "done"} => locks'[v] = {}
                        /\ stage[v] = "done" => inserted[v] = {}
      BY <1>2
    <3>1. /\ stage[v] \in {"abort", "done"} => locks[v] = {}
          /\ stage[v] = "done" => inserted[v] = {}
      BY <2>5, Zenon
    <3>2. locks[v] = {} => locks'[v] = {}
      BY <2>3
    <3> QED BY <3>1, <3>2, Zenon
  <2>7. \A v \in Workers : locks'[v] \subseteq locks[v] /\ inserted'[v] \subseteq inserted[v]
    BY <1>2, <2>3
  <2> QED BY <2>4, <2>6, <2>7, LocksShrink
<1>6. SerialCovers'
  BY <1>2, Zenon DEF GCInv, Heap, SerialCovers, Obj
<1>7. TagCovers' /\ GracePeriod'
  BY <1>2 DEF GCInv, Heap, SerialCovers, TagCovers, GracePeriod, Obj
<1> QED BY <1>1, <1>3, <1>4, <1>5, <1>6, <1>7 DEF GCInv, Heap

LEMMA PrecommitGC ==
  ASSUME GCInv, NEW w \in Workers, precommit(w)
  PROVE  GCInv'
<1>1. EpochInv' /\ EpochTypeOK' /\ EpochHeldBack' /\ ScanSince'
  BY EpochsUnchanged, Zenon DEF precommit
<1>2. /\ pc[w] = "tx" /\ locks[w] = {} /\ inserted'[w] = {}
      /\ stage'[w] = "done"
      /\ \A v \in Workers \ {w} : inserted'[v] = inserted[v] /\ stage'[v] = stage[v]
      /\ \A x \in Obj : status'[x] = IF x \in inserted[w] THEN "live" ELSE status[x]
      /\ UNCHANGED <<tag, owner, refs, locks, ctag, since, pc>>
  BY Zenon DEF GCInv, TypeOK, precommit, In, emVars
<1>3. TypeOK'
  BY <1>1, <1>2, Zenon DEF GCInv, TypeOK, precommit
<1>4. Idle'
  BY <1>2, Zenon DEF GCInv, Heap, Idle
<1>6. SerialCovers'
  BY <1>2, Zenon DEF GCInv, Heap, SerialCovers
<1>7. TagCovers' /\ GracePeriod'
  BY <1>2, Zenon DEF GCInv, Heap, TagCovers, GracePeriod, Obj
<1>8. LocksHeld'
  <2>1. \A v \in Workers, x \in Obj : x \in locks[v] => x \notin inserted[w]
    BY Zenon DEF GCInv, Heap, LocksHeld
  <2>2. \A v \in Workers : v # w => \A x \in inserted[v] : x \notin inserted[w]
    BY DEF GCInv, Heap, LocksHeld
  <2>3. \A v \in Workers : /\ locks[v] \subseteq Obj /\ inserted[v] \subseteq Obj
                          /\ inserted'[v] \subseteq inserted[v]
    BY <1>2 DEF GCInv, TypeOK, Obj
  <2>4. \A v \in Workers : \A x \in locks[v] : status'[x] = status[x]
    BY <1>2, <2>1, <2>3
  <2>5. \A v \in Workers : \A x \in inserted'[v] : status'[x] = status[x]
    BY <1>2, <2>2, <2>3
  <2>6. \A v \in Workers : /\ stage'[v] \in {"abort", "done"} => locks[v] = {}
                           /\ stage'[v] = "done" => inserted'[v] = {}
    BY <1>2 DEF GCInv, Heap, LocksHeld
  <2> QED BY <1>2, <2>3, <2>4, <2>5, <2>6, LocksShrink
<1> QED BY <1>1, <1>3, <1>4, <1>6, <1>7, <1>8 DEF GCInv, Heap

LEMMA UnlockGC ==
  ASSUME GCInv, NEW w \in Workers, unlock_writeset(w)
  PROVE  GCInv'
<1>1. EpochInv' /\ EpochTypeOK' /\ EpochHeldBack' /\ ScanSince'
  BY EpochsUnchanged DEF unlock_writeset
<1>2. /\ pc[w] = "tx" /\ locks'[w] = {} /\ stage'[w] = "abort"
      /\ \A v \in Workers \ {w} : locks'[v] = locks[v] /\ stage'[v] = stage[v]
      /\ \A x \in Obj : status'[x] = IF x \in locks[w] THEN "live" ELSE status[x]
      /\ UNCHANGED <<tag, owner, refs, inserted, ctag, since, pc>>
  BY Zenon DEF GCInv, TypeOK, unlock_writeset, In, emVars
<1>3. TypeOK'
  BY <1>1, <1>2, Zenon DEF GCInv, TypeOK, unlock_writeset
<1>4. Idle'
  BY <1>2, Zenon DEF GCInv, Heap, Idle
<1>5. LocksHeld'
  <2>1. \A v \in Workers, x \in Obj : x \in inserted[v] => x \notin locks[w]
    BY DEF GCInv, Heap, LocksHeld
  <2>2. \A v \in Workers : v # w => \A x \in locks[v] : x \notin locks[w]
    BY DEF GCInv, Heap, LocksHeld
  <2>3. \A v \in Workers : /\ locks[v] \subseteq Obj /\ inserted[v] \subseteq Obj
                          /\ locks'[v] \subseteq locks[v]
    BY <1>2 DEF GCInv, TypeOK, Obj
  <2>4. \A v \in Workers : \A x \in locks'[v] : status'[x] = status[x]
    BY <1>2, <2>2, <2>3
  <2>5. \A v \in Workers : \A x \in inserted[v] : status'[x] = status[x]
    BY <1>2, <2>1, <2>3
  <2>6. \A v \in Workers : /\ stage'[v] \in {"abort", "done"} => locks'[v] = {}
                           /\ stage'[v] = "done" => inserted[v] = {}
    BY <1>2 DEF GCInv, Heap, LocksHeld
  <2> QED BY <1>2, <2>3, <2>4, <2>5, <2>6, LocksShrink
<1>6. SerialCovers'
  BY <1>2, Zenon DEF GCInv, Heap, SerialCovers
<1>7. TagCovers' /\ GracePeriod'
  BY <1>2 DEF GCInv, Heap, TagCovers, GracePeriod, Obj
<1> QED BY <1>1, <1>3, <1>4, <1>5, <1>6, <1>7 DEF GCInv, Heap

LEMMA AbortGC ==
  ASSUME GCInv, NEW w \in Workers, abort(w) \/ user_abort(w)
  PROVE  GCInv'
<1>0. /\ pc[w] = "tx" /\ locks[w] = {} /\ stage[w] \in {"run", "abort"}
      /\ rollback(w, "run") \/ rollback(w, "done")
  BY DEF GCInv, Heap, LocksHeld, abort, user_abort, In
<1>1. EpochInv' /\ EpochTypeOK' /\ EpochHeldBack' /\ ScanSince'
  BY <1>0, EpochsUnchanged, Zenon DEF rollback
<1>2. /\ pc[w] = "tx" /\ inserted'[w] = {} /\ inserted[w] \subseteq Val
      /\ locks[w] = {} /\ stage'[w] \in {"run", "done"} /\ refs'[w] = {}
      /\ \A v \in Workers \ {w} : /\ inserted'[v] = inserted[v] /\ stage'[v] = stage[v]
                                  /\ refs'[v] = refs[v] /\ ctag'[v] = ctag[v]
      /\ \A x \in Obj : status'[x] = IF x \in inserted[w] THEN "dead" ELSE status[x]
      /\ \A x \in Obj : tag'[x] = IF x \in inserted[w] THEN epoch[w] ELSE tag[x]
      /\ UNCHANGED <<locks, since, pc>>
  <2>1. PICK n \in {"run", "done"} : rollback(w, n)
    BY <1>0
  <2>2. TypeOK
    BY DEF GCInv
  <2>3. /\ inserted'[w] = {} /\ inserted[w] \subseteq Val
        /\ \A v \in Workers \ {w} : inserted'[v] = inserted[v]
    BY <2>1, <2>2, Zenon DEF TypeOK, rollback
  <2>4. stage'[w] \in {"run", "done"} /\ \A v \in Workers \ {w} : stage'[v] = stage[v]
    BY <2>1, <2>2, Zenon DEF TypeOK, rollback
  <2>5. refs'[w] = {} /\ \A v \in Workers \ {w} : refs'[v] = refs[v]
    BY <2>1, <2>2, Zenon DEF TypeOK, rollback
  <2>6. \A v \in Workers \ {w} : ctag'[v] = ctag[v]
    BY <2>1, <2>2, Zenon DEF TypeOK, rollback
  <2>7. /\ \A x \in Obj : status'[x] = IF x \in inserted[w] THEN "dead" ELSE status[x]
        /\ \A x \in Obj : tag'[x] = IF x \in inserted[w] THEN epoch[w] ELSE tag[x]
    BY <2>1, Zenon DEF rollback, collect
  <2>8. UNCHANGED <<locks, since, pc>>
    BY <2>1, Zenon DEF rollback, emVars
  <2> QED BY <1>0, <2>3, <2>4, <2>5, <2>6, <2>7, <2>8, Zenon
<1>3. epoch[w] \in 0..MaxEpoch
  BY <1>2, EpochAssumption, SMTT(40) DEF GCInv, TypeOK, EpochTypeOK, EpochInv, Registered
<1>4. TypeOK'
  <2>1. /\ status' \in [Obj -> {"fresh", "new", "live", "locked", "dead", "freed"}]
        /\ tag' \in [Obj -> 0..MaxEpoch]
    BY <1>0, <1>3 DEF GCInv, TypeOK, rollback, collect
  <2>2. owner' \in [Obj -> 0..N]
    <3>1. w \in 0..N
      BY EpochAssumption DEF Workers
    <3>2. owner' = [o \in Obj |-> IF o \in inserted[w] THEN w ELSE owner[o]]
      BY <1>0, Zenon DEF rollback, collect
    <3> QED BY <3>1, <3>2, Zenon DEF GCInv, TypeOK
  <2>3. /\ refs' \in [Workers -> SUBSET Obj] /\ inserted' \in [Workers -> SUBSET Val]
        /\ ctag' \in [Workers -> 0..MaxEpoch]
    BY <1>0, EpochAssumption DEF GCInv, TypeOK, rollback
  <2>4. stage' \in [Workers -> {"run", "validate", "write", "abort", "done"}]
    BY <1>0, Zenon DEF GCInv, TypeOK, rollback
  <2> QED BY <1>1, <1>2, <2>1, <2>2, <2>3, <2>4, Zenon DEF GCInv, TypeOK
<1>5. Idle'
  <2>1. Idle
    BY DEF GCInv, Heap
  <2>2. \A v \in Workers : pc'[v] # "tx" => v # w
    BY <1>2
  <2> QED BY <1>2, <2>1, <2>2 DEF Idle
<1>6. LocksHeld' /\ SerialCovers'
  <2>1. \A v \in Workers, x \in Obj : x \in locks[v] => x \notin inserted[w]
    BY DEF GCInv, Heap, LocksHeld
  <2>2. \A v \in Workers : v # w => \A x \in inserted[v] : x \notin inserted[w]
    BY DEF GCInv, Heap, LocksHeld
  <2>3. LocksHeld'
    <3>1. \A v \in Workers : /\ locks'[v] = locks[v] /\ locks[v] \subseteq Obj
                            /\ inserted'[v] \subseteq inserted[v] /\ inserted[v] \subseteq Obj
      BY <1>2, Zenon DEF GCInv, TypeOK, Obj
    <3>2. \A v \in Workers : \A x \in locks[v] : status'[x] = status[x]
      BY <1>2, <2>1, <3>1
    <3>3. \A v \in Workers : \A x \in inserted'[v] : status'[x] = status[x]
      BY <1>2, <2>2, <3>1, Zenon
    <3>4. \A v \in Workers : stage'[v] \in {"abort", "done"} => locks[v] = {}
      BY <1>2, Zenon DEF GCInv, Heap, LocksHeld
    <3>5. \A v \in Workers : stage'[v] = "done" => inserted'[v] = {}
      BY <1>2 DEF GCInv, Heap, LocksHeld
    <3> QED BY <1>2, <3>1, <3>2, <3>3, <3>4, <3>5, LocksShrink
  <2> QED BY <1>2, <2>3, Zenon DEF GCInv, Heap, SerialCovers
<1>7. TagCovers' /\ GracePeriod'
  BY <1>2, ObjectAssumption DEF GCInv, Heap, TagCovers, GracePeriod, Obj
<1> QED BY <1>1, <1>4, <1>5, <1>6, <1>7 DEF GCInv, Heap

LEMMA EndGC ==
  ASSUME GCInv, NEW w \in Workers, end(w, Removable(w))
  PROVE  GCInv'
<1> USE EpochAssumption
<1>1. EpochInv'
  BY NextInv, Zenon DEF GCInv, EpochNext, end
<1>2. /\ pc[w] = "tx" /\ stage[w] = "done" /\ pc'[w] = "out"
      /\ stage'[w] = "run" /\ refs'[w] = {}
      /\ \A v \in Workers \ {w} : /\ pc'[v] = pc[v] /\ since'[v] = since[v]
                                  /\ refs'[v] = refs[v] /\ stage'[v] = stage[v]
                                  /\ ctag'[v] = ctag[v]
      /\ \A x \in Obj : status'[x] = IF x \in Removable(w) THEN "freed" ELSE status[x]
      /\ UNCHANGED <<tag, owner, locks, inserted, epoch, global, mpc, smallest, e, next>>
  <2>1. TypeOK /\ EpochTypeOK
    BY DEF GCInv, TypeOK
  <2>2. /\ pc[w] = "tx" /\ stage[w] = "done" /\ pc'[w] = "out"
        /\ \A v \in Workers \ {w} : pc'[v] = pc[v]
    BY <2>1, Zenon DEF EpochTypeOK, end, end_tx
  <2>3. stage'[w] = "run" /\ \A v \in Workers \ {w} : stage'[v] = stage[v]
    BY <2>1, Zenon DEF TypeOK, end
  <2>4. refs'[w] = {} /\ \A v \in Workers \ {w} : refs'[v] = refs[v]
    BY <2>1, Zenon DEF TypeOK, end
  <2>5. \A v \in Workers \ {w} : since'[v] = since[v] /\ ctag'[v] = ctag[v]
    BY <2>1, Zenon DEF TypeOK, end
  <2>6. /\ \A x \in Obj : status'[x] = IF x \in Removable(w) THEN "freed" ELSE status[x]
        /\ UNCHANGED <<tag, owner, locks, inserted, epoch, global, mpc, smallest, e, next>>
    BY Zenon DEF end, end_tx, managerVars
  <2> QED BY <2>2, <2>3, <2>4, <2>5, <2>6, Zenon
<1>3. TypeOK'
  <2>1. TypeOK
    BY DEF GCInv
  <2>2. status' \in [Obj -> {"fresh", "new", "live", "locked", "dead", "freed"}]
    BY <2>1 DEF TypeOK, end
  <2>3. refs' \in [Workers -> SUBSET Obj]
    BY <2>1, Zenon DEF TypeOK, end
  <2>4. ctag' \in [Workers -> 0..MaxEpoch]
    BY <2>1 DEF TypeOK, end
  <2>5. stage' \in [Workers -> {"run", "validate", "write", "abort", "done"}]
    BY <2>1, Zenon DEF TypeOK, end
  <2>6. since' \in [Workers -> 1..MaxEpoch]
    BY <2>1 DEF TypeOK, end
  <2>7. EpochTypeOK'
    BY <1>1 DEF EpochInv
  <2> QED BY <1>2, <2>1, <2>2, <2>3, <2>4, <2>5, <2>6, <2>7, Zenon DEF TypeOK
<1>4. EpochHeldBack' /\ ScanSince'
  BY <1>2, ZenonT(60) DEF GCInv, EpochHeldBack, ScanSince
<1>5. Idle' /\ LocksHeld'
  BY <1>2, <1>3, SMTT(40) DEF GCInv, TypeOK, Heap, Idle, LocksHeld, Removable, Obj
<1>6. SerialCovers'
  BY <1>2, ZenonT(60) DEF GCInv, Heap, SerialCovers
<1>7. ASSUME NEW v \in Workers, NEW o \in Removable(w), o \in refs'[v]
      PROVE  since'[v] > tag[o]
  <2>1. v # w /\ o \in refs[v] /\ since'[v] = since[v] /\ pc[v] = "tx"
    <3>1. Idle
      BY DEF GCInv, Heap
    <3> QED BY <1>2, <1>7, <3>1 DEF Idle
  <2>2. tag[o] <= epoch[w] - 2 /\ tag[o] \in Nat
    <3>1. tag[o] \in 0..MaxEpoch
      BY DEF Removable, GCInv, TypeOK
    <3> QED BY <3>1 DEF Removable
  <2>3. epoch[w] <= global /\ global <= since[v] + 1
    BY <1>2, <2>1, SMTT(40) DEF GCInv, TypeOK, EpochTypeOK, EpochHeldBack, Garbage
  <2> QED BY <2>1, <2>2, <2>3, SMTT(40) DEF GCInv, TypeOK, EpochTypeOK, Garbage
<1>8. GracePeriod'
  BY <1>2, <1>7, Zenon DEF GCInv, Heap, GracePeriod
<1>9. TagCovers'
  BY <1>2, Zenon DEF GCInv, Heap, TagCovers, Removable, Obj
<1> QED BY <1>1, <1>3, <1>4, <1>5, <1>6, <1>8, <1>9, Zenon DEF GCInv, Heap

LEMMA GCNext == GCInv /\ [Next]_vars => GCInv'
<1> SUFFICES ASSUME GCInv, [Next]_vars PROVE GCInv'
  OBVIOUS
<1>1. CASE Manager
  BY <1>1, ManagerGC
<1>2. ASSUME NEW w \in Workers, WorkerStep(w) PROVE GCInv'
  <2>1. CASE (set_worker(w) \/ begin_load(w)) /\ UNCHANGED gcVars
    BY <2>1, RegisterGC
  <2>2. CASE Begin(w)
    BY <2>2, BeginGC, Zenon
  <2>3. CASE TxStep(w)
    BY <2>3, ReadGC, InsertGC, LockGC, SerialPointGC, WriteGC, PrecommitGC, UnlockGC,
       AbortGC, EndGC, Zenon DEF TxStep
  <2> QED BY <1>2, <2>1, <2>2, <2>3 DEF WorkerStep
<1>3. CASE UNCHANGED vars
  <2>1. EpochInv' /\ EpochTypeOK' /\ EpochHeldBack' /\ ScanSince'
    BY <1>3, EpochsUnchanged DEF vars, gcVars
  <2> QED BY <1>3, <2>1 DEF vars, gcVars, emVars, GCInv, TypeOK, Heap, Idle, LocksHeld,
             SerialCovers, TagCovers, GracePeriod
<1> QED BY <1>1, <1>2, <1>3 DEF Next

LEMMA GCInvariance == Spec => []GCInv
  BY GCInit, GCNext, PTL DEF Spec

-----------------------------------------------------------------------------
\* The state of the collector and of the transactions keeps its types.
THEOREM GCTypes == Spec => []TypeOK
<1>1. GCInv => TypeOK
  BY DEF GCInv
<1> QED BY <1>1, GCInvariance, PTL

\* While a transaction runs the global epoch advances at most once, even if
\* begin_tx stored an epoch that was stale.
THEOREM OneEpochPerTransaction == Spec => []EpochHeldBack
<1>1. GCInv => EpochHeldBack
  BY DEF GCInv
<1> QED BY <1>1, GCInvariance, PTL

\* GarbageCollector::remove deallocates no record that a running transaction
\* has a pointer to: reading by pointer is safe.
THEOREM RecordsSafe == Spec => []RecordsNotFreedInUse
<1>1. GCInv => RecordsNotFreedInUse
  <2> SUFFICES ASSUME GCInv, NEW w \in Workers, NEW o \in Rec,
                      o \in refs[w], status[o] = "freed"
               PROVE  FALSE
    BY SMTT(40) DEF RecordsNotFreedInUse
  <2>1. since[w] > tag[o] /\ since[w] <= tag[o]
    BY DEF GCInv, Heap, GracePeriod, TagCovers, Obj
  <2> QED BY <2>1, EpochAssumption, SMTT(40) DEF GCInv, TypeOK, Obj
<1> QED BY <1>1, GCInvariance, PTL

\* Whatever is deallocated, no transaction that began by the epoch of its tag
\* still holds it.
THEOREM GraceHolds == Spec => []GracePeriod
<1>1. GCInv => GracePeriod
  BY DEF GCInv, Heap
<1> QED BY <1>1, GCInvariance, PTL
=============================================================================
