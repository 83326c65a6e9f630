------------------------------- MODULE EpochGC -------------------------------
(***************************************************************************)
(* The GarbageCollector of protocols/common/epoch_manager.hpp as Silo uses *)
(* it, composed with the EpochManager.  Readers keep raw pointers to what  *)
(* they find until their transaction ends, so what a commit unlinks is     *)
(* tagged with an epoch and freed by a later transaction of the same       *)
(* worker that began at least two epochs after the tag.                    *)
(*                                                                         *)
(* The objects are records (what Value::rec points to) and Values (what    *)
(* the index points to).  Each is one allocation: it is unlinked once.     *)
(* Versions that replace an unlinked record are other objects.             *)
(***************************************************************************)
EXTENDS EpochManager, FiniteSets

CONSTANTS Rec,      \* records
          Val       \* Values of the index

ASSUME ObjectAssumption == Rec \cap Val = {}

Obj == Rec \cup Val

VARIABLES status,   \* "fresh": not allocated; "new": inserted, not committed;
                    \* "live"; "locked"; "dead": collected; "freed"
          tag,      \* the epoch it was collected with (0: not collected)
          owner,    \* whose thread_local gc_container holds it (0: nobody's)
          refs,     \* the pointers the running transaction of a worker holds
          locks,    \* what its precommit has locked and not written yet
          inserted, \* the Values it has inserted and not committed
          ctag,     \* its commit epoch (0 before the serial point)
          stage,    \* "run": executing or locking the write set; "validate";
                    \* "write": phase 3; "abort": to be tried again; "done":
                    \* run_with_retry returns
          since     \* history: the global epoch when begin_tx stored

txVars == <<refs, locks, inserted, ctag, stage>>
objVars == <<status, tag, owner>>
gcVars == <<status, tag, owner, refs, locks, inserted, ctag, stage, since>>
vars == <<emVars, gcVars>>

TypeOK ==
    /\ EpochTypeOK
    /\ status \in [Obj -> {"fresh", "new", "live", "locked", "dead", "freed"}]
    /\ tag \in [Obj -> 0..MaxEpoch]
    /\ owner \in [Obj -> 0..N]
    /\ refs \in [Workers -> SUBSET Obj]
    /\ locks \in [Workers -> SUBSET Obj]
    /\ inserted \in [Workers -> SUBSET Val]
    /\ ctag \in [Workers -> 0..MaxEpoch]
    /\ stage \in [Workers -> {"run", "validate", "write", "abort", "done"}]
    /\ since \in [Workers -> 1..MaxEpoch]

Init ==
    /\ EpochInit
    /\ status \in [Obj -> {"fresh", "live", "freed"}]
    /\ \A o \in Rec : status[o] # "fresh"
    /\ tag = [o \in Obj |-> 0]
    /\ owner = [o \in Obj |-> 0]
    /\ refs = [w \in Workers |-> {}]
    /\ locks = [w \in Workers |-> {}]
    /\ inserted = [w \in Workers |-> {}]
    /\ ctag = [w \in Workers |-> 0]
    /\ stage = [w \in Workers |-> "run"]
    /\ since = [w \in Workers |-> 1]

In(w, s) == pc[w] = "tx" /\ stage[w] = s

\* GarbageCollector::collect(t, o) by w, after the objects os were unlinked
collect(w, os, t) ==
    /\ status' = [o \in Obj |-> IF o \in os THEN "dead" ELSE status[o]]
    /\ tag' = [o \in Obj |-> IF o \in os THEN t ELSE tag[o]]
    /\ owner' = [o \in Obj |-> IF o \in os THEN w ELSE owner[o]]

-----------------------------------------------------------------------------
\* Deliberately wrong variants of the definitions below.
M_Removable(w) == {o \in Obj : owner[o] = w /\ status[o] = "dead" /\ tag[o] <= epoch[w] - 1}

M_write(w, o) ==                           \* tags with the starting epoch
    /\ In(w, "write") /\ o \in locks[w]
    /\ collect(w, {o}, epoch[w])
    /\ locks' = [locks EXCEPT ![w] = @ \ {o}]
    /\ UNCHANGED <<emVars, refs, inserted, ctag, stage, since>>

-----------------------------------------------------------------------------
(***************************************************************************)
(* Executing a transaction                                                 *)
(***************************************************************************)
Begin(w) ==
    /\ begin_store(w)
    /\ since' = [since EXCEPT ![w] = global]
    /\ UNCHANGED <<objVars, txVars>>

\* get_record_pointer and copy_record: a reader that has seen the tidword
\* unlocked loads the record pointer, perhaps only after a writer has locked it.
get_record_pointer(w, o) ==
    /\ In(w, "run") /\ locks[w] = {} /\ o \in Rec \ refs[w]
    /\ status[o] = "live"
    /\ refs' = [refs EXCEPT ![w] = @ \cup {o}]
    /\ UNCHANGED <<emVars, objVars, locks, inserted, ctag, stage, since>>

\* idx.find returns a Value as long as it is in the index, locked or not.
find(w, o) ==
    /\ In(w, "run") /\ locks[w] = {} /\ o \in Val \ refs[w]
    /\ status[o] \in {"new", "live", "locked"}
    /\ refs' = [refs EXCEPT ![w] = @ \cup {o}]
    /\ UNCHANGED <<emVars, objVars, locks, inserted, ctag, stage, since>>

insert(w, o) ==
    /\ In(w, "run") /\ locks[w] = {} /\ o \in Val
    /\ status[o] = "fresh"
    /\ status' = [status EXCEPT ![o] = "new"]
    /\ inserted' = [inserted EXCEPT ![w] = @ \cup {o}]
    /\ refs' = [refs EXCEPT ![w] = @ \cup {o}]
    /\ UNCHANGED <<emVars, tag, owner, locks, ctag, stage, since>>

(***************************************************************************)
(* precommit: lock the write set, load the epoch, validate, write          *)
(***************************************************************************)
lock(w, o) ==
    /\ In(w, "run") /\ o \in refs[w]
    /\ status[o] = "live"
    /\ status' = [status EXCEPT ![o] = "locked"]
    /\ locks' = [locks EXCEPT ![w] = @ \cup {o}]
    /\ UNCHANGED <<emVars, tag, owner, refs, inserted, ctag, stage, since>>

serial_point(w) ==
    /\ In(w, "run")
    /\ ctag' = [ctag EXCEPT ![w] = global]
    /\ stage' = [stage EXCEPT ![w] = "validate"]
    /\ UNCHANGED <<emVars, objVars, refs, locks, inserted, since>>

\* Both validations succeed.
validate(w) ==
    /\ In(w, "validate")
    /\ stage' = [stage EXCEPT ![w] = "write"]
    /\ UNCHANGED <<emVars, objVars, refs, locks, inserted, ctag, since>>

\* phase 3 for one entry: the record is exchanged and unlocked, or the Value
\* removed from the index, and collected with the commit epoch
write(w, o) ==
    /\ In(w, "write") /\ o \in locks[w]
    /\ collect(w, {o}, ctag[w])
    /\ locks' = [locks EXCEPT ![w] = @ \ {o}]
    /\ UNCHANGED <<emVars, refs, inserted, ctag, stage, since>>

\* phase 3 has ended: what the transaction inserted is readable
precommit(w) ==
    /\ In(w, "write") /\ locks[w] = {}
    /\ status' = [o \in Obj |-> IF o \in inserted[w] THEN "live" ELSE status[o]]
    /\ inserted' = [inserted EXCEPT ![w] = {}]
    /\ stage' = [stage EXCEPT ![w] = "done"]
    /\ UNCHANGED <<emVars, tag, owner, refs, locks, ctag, since>>

(***************************************************************************)
(* A validation fails, or an operation of the transaction does.  Then      *)
(* run_with_retry tries again with the same Silo object: neither ~Silo nor *)
(* begin_tx runs in between, and the epoch of the worker stays what it is, *)
(* however often the transaction is aborted.                               *)
(***************************************************************************)
unlock_writeset(w) ==
    /\ In(w, "run") \/ In(w, "validate")
    /\ status' = [o \in Obj |-> IF o \in locks[w] THEN "live" ELSE status[o]]
    /\ locks' = [locks EXCEPT ![w] = {}]
    /\ stage' = [stage EXCEPT ![w] = "abort"]
    /\ UNCHANGED <<emVars, tag, owner, refs, inserted, ctag, since>>

\* Silo::abort: failed inserts leave the index, collected with the starting epoch,
\* and the read, write and node sets are cleared.
rollback(w, next_stage) ==
    /\ collect(w, inserted[w], epoch[w])
    /\ inserted' = [inserted EXCEPT ![w] = {}]
    /\ refs' = [refs EXCEPT ![w] = {}]
    /\ ctag' = [ctag EXCEPT ![w] = 0]
    /\ stage' = [stage EXCEPT ![w] = next_stage]
    /\ UNCHANGED <<emVars, locks, since>>

\* SYSTEM_ABORT: the loop of run_with_retry goes on
abort(w) == In(w, "abort") /\ rollback(w, "run")

\* USER_ABORT: run_with_retry aborts and returns
user_abort(w) == In(w, "run") /\ locks[w] = {} /\ rollback(w, "done")

\* what GarbageCollector::remove(epoch[w]) deallocates
Removable(w) == {o \in Obj : owner[o] = w /\ status[o] = "dead" /\ tag[o] <= epoch[w] - 2}

\* run_with_retry has returned; ~Silo: remove(starting_epoch)
end(w, removable) ==
    /\ end_tx(w) /\ stage[w] = "done"
    /\ status' = [o \in Obj |-> IF o \in removable THEN "freed" ELSE status[o]]
    /\ refs' = [refs EXCEPT ![w] = {}]
    /\ ctag' = [ctag EXCEPT ![w] = 0]
    /\ stage' = [stage EXCEPT ![w] = "run"]
    /\ since' = [since EXCEPT ![w] = 1]
    /\ UNCHANGED <<tag, owner, locks, inserted>>

-----------------------------------------------------------------------------
TxStep(w) ==
    \/ \E o \in Obj : \/ get_record_pointer(w, o) \/ find(w, o) \/ insert(w, o)
                      \/ lock(w, o) \/ write(w, o)
    \/ serial_point(w) \/ validate(w) \/ precommit(w)
    \/ unlock_writeset(w) \/ abort(w) \/ user_abort(w)
    \/ end(w, Removable(w))

WorkerStep(w) ==
    \/ (set_worker(w) \/ begin_load(w)) /\ UNCHANGED gcVars
    \/ Begin(w)
    \/ TxStep(w)

Manager == ManagerStep /\ UNCHANGED gcVars

Next == Manager \/ \E w \in Workers : WorkerStep(w)

Spec == Init /\ [][Next]_vars

\* Threads keep running.
Fairness == WF_vars(Manager) /\ \A w \in Workers : WF_vars(WorkerStep(w))

FairSpec == Spec /\ Fairness

-----------------------------------------------------------------------------
\* While a transaction runs the global epoch advances at most once, even if it
\* is the first of its worker and its starting epoch is stale.
EpochHeldBack ==
    \A w \in Workers : pc[w] = "tx" =>
        epoch[w] <= since[w] /\ since[w] <= global /\ global <= since[w] + 1

(***************************************************************************)
(* A record is never deallocated while a running transaction holds a       *)
(* pointer to it: "read by pointer" is safe.                               *)
(***************************************************************************)
RecordsNotFreedInUse ==
    \A w \in Workers, o \in Rec : o \in refs[w] => status[o] # "freed"

(***************************************************************************)
(* An object a transaction still holds is deallocated only if the          *)
(* transaction began after the epoch the object is tagged with.  (A Value  *)
(* stays in the index after its deleter has passed the serial point, so    *)
(* such a transaction exists: see the README.)                             *)
(***************************************************************************)
GracePeriod ==
    \A w \in Workers, o \in Obj :
        o \in refs[w] /\ status[o] = "freed" => since[w] > tag[o]

\* A transaction that is aborted and tried again for ever holds the global epoch
\* back, and with it the reclamation of every worker.  If every worker leaves its
\* transactions again and again, whatever is aborted, retried or collected on the
\* way, then the global epoch advances, and garbage is reclaimed by a later
\* transaction of the worker that collected it: in the end no object that is old
\* enough is left in a container.
Reclaimed ==
    (\A w \in Workers : []<>(pc[w] # "tx")) =>
        <>[](global = MaxEpoch /\ \A o \in Obj : status[o] = "dead" => tag[o] > MaxEpoch - 2)
=============================================================================
