------------------------------- MODULE EpochRows -------------------------------
(***************************************************************************)
(* What the Caracal engine and the Serval engine with reference counts     *)
(* have in common: run_tx of executables/ycsb_caracal.cpp and of           *)
(* ycsb_serval_rc.cpp, the versions, and upsert.                           *)
(*                                                                         *)
(* A core goes through its transactions once in each phase of an epoch;    *)
(* the phases are separated by the abstract barrier.  A transaction has    *)
(* each row at most once in its operation set: it reads it, writes it or   *)
(* leaves it alone.  Which of the three is chosen when the code first      *)
(* looks.  The index is external: it finds the row of a key.               *)
(***************************************************************************)
EXTENDS Integers, FiniteSetsExt, SequencesExt

CONSTANTS NumCore,      \* NUM_CORE, and the transactions of a core in an epoch
          Key,          \* the rows
          MaxEpoch,     \* NUM_EPOCH
          Rows          \* Rows[e][s]: the rows that may be in the operation set of
                        \* transaction s of epoch e

ASSUME EpochRowsAssumption ==
    NumCore \in Nat \ {0} /\ MaxEpoch \in Nat /\ IsFiniteSet(Key)

VARIABLES engine,          \* which of the two; it never changes
          phase, arrived,  \* the barrier
          row,        \* row[k]: the Value of k
          allocated,  \* the versions that are allocated
          written,    \* those whose rec is not nullptr
          stable,     \* those whose status is STABLE
          pc,         \* where a core is in an operation
          i,          \* the loop counter of its phase
          key,        \* the row it is at
          done,       \* the rows its transaction is through with in this phase
          writes,     \* writes[s]: the rows transaction s of this epoch writes
          final       \* history: the id of the last version of k in the earlier epochs

barrierVars == <<phase, arrived>>
heapVars == <<allocated, written, stable>>
rowVars == <<engine, phase, arrived, row, allocated, written, stable, pc, i, key, done,
             writes, final>>

Cores == 0..(NumCore - 1)
Serials == 0..(NumCore * NumCore - 1)

\* ycsb_serval_rc.cpp: write, read and execution phase; ycsb_caracal.cpp:
\* initialization and execution phase
Phases == IF engine = "serval_rc" THEN 3 ELSE 2

Barrier == INSTANCE PhaseBarrier WITH Workers <- Cores, Rounds <- Phases * MaxEpoch

\* convert_to_global_id.  The shift by 32 keeps the ids of an epoch apart from
\* those of the next one; so does the number of serial ids.
convert_to_global_id(e, s) == e * NumCore * NumCore + s
get_epoch(id) == id \div (NumCore * NumCore)

\* Initializer::insert_into_index: one stable version
InitWith(r) ==
    /\ Barrier!Init
    /\ row = [k \in Key |-> r]
    /\ allocated = Key \X {0} /\ written = allocated /\ stable = allocated
    /\ pc = [w \in Cores |-> "next"]
    /\ i = [w \in Cores |-> 0]
    /\ key = [w \in Cores |-> CHOOSE k \in Key : TRUE]
    /\ done = [w \in Cores |-> {}]
    /\ writes = [s \in Serials |-> {}]
    /\ final = [k \in Key |-> 0]

epoch_(w) == (phase[w] \div Phases) + 1
Preparing(w, p) == phase[w] < Phases * MaxEpoch /\ phase[w] % Phases = p /\ ~arrived[w]
Executing(w) == Preparing(w, Phases - 1)

\* the sequential and the round-robin assignment
serial_id_(w) == IF engine = "serval_rc" /\ ~Executing(w) THEN w * NumCore + i[w]
                                                          ELSE i[w] * NumCore + w

\* the pending_ of a write
Pending(w, k) == <<k, convert_to_global_id(epoch_(w), serial_id_(w))>>

Goto(w, from, to) == pc[w] = from /\ pc' = [pc EXCEPT ![w] = to]
At(w, k) == key' = [key EXCEPT ![w] = k]
Done(w, k) == done' = [done EXCEPT ![w] = @ \cup {k}]

\* w has an operation left on row k
Idle(w, k) == pc[w] = "next" /\ i[w] < NumCore /\ k \in Rows[epoch_(w)][serial_id_(w)] \ done[w]

\* a std::vector in ascending order: upper_bound and insert
insert_in_order(ids, id) ==
    SelectSeq(ids, LAMBDA n : n <= id) \o <<id>> \o SelectSeq(ids, LAMBDA n : n > id)

-----------------------------------------------------------------------------
(***************************************************************************)
(* upsert: the record first, the status after it                           *)
(***************************************************************************)
store_rec(w) ==
    /\ Goto(w, "store", "recStored")
    /\ written' = written \cup {Pending(w, key[w])}
    /\ UNCHANGED <<engine, barrierVars, row, allocated, stable, i, key, done, writes, final>>

store_status(w) ==
    /\ Goto(w, "recStored", "next")
    /\ stable' = stable \cup {Pending(w, key[w])}
    /\ Done(w, key[w])
    /\ UNCHANGED <<engine, barrierVars, row, allocated, written, i, key, writes, final>>

(***************************************************************************)
(* The loops of the phases and the barriers of run_tx                      *)
(***************************************************************************)
\* the operations it has to go through in the execution phase are behind it
next_transaction(w, ops) ==
    /\ pc[w] = "next" /\ i[w] < NumCore /\ ~arrived[w]
    /\ phase[w] < Phases * MaxEpoch
    /\ Executing(w) => ops \subseteq done[w]
    /\ i' = [i EXCEPT ![w] = @ + 1]
    /\ done' = [done EXCEPT ![w] = {}]
    /\ UNCHANGED <<engine, barrierVars, row, heapVars, pc, key, writes, final>>

arrive(w) ==
    /\ pc[w] = "next" /\ i[w] = NumCore
    /\ Barrier!Arrive(w)
    /\ i' = [i EXCEPT ![w] = 0]
    /\ UNCHANGED <<engine, row, heapVars, pc, key, done, writes, final>>

\* The first core to enter a new epoch brings the history up to date.
NewEpoch(w) == phase[w] % Phases = Phases - 1 /\ \A v \in Cores : phase[v] <= phase[w]

pass(w) ==
    /\ Barrier!Pass(w)
    /\ IF NewEpoch(w)
       THEN /\ final' = [k \in Key |->
                  LET ws == {s \in Serials : k \in writes[s]}
                  IN  IF ws = {} THEN final[k] ELSE convert_to_global_id(epoch_(w), Max(ws))]
            /\ writes' = [s \in Serials |-> {}]
       ELSE UNCHANGED <<writes, final>>
    /\ UNCHANGED <<engine, row, heapVars, pc, i, key, done>>

\* main has joined the threads
Joined == (\A w \in Cores : phase[w] = Phases * MaxEpoch) /\ UNCHANGED rowVars

-----------------------------------------------------------------------------
\* The execution phase of epoch e is running.
InExecution(e) == \E w \in Cores : phase[w] = Phases * e - 1 /\ ~arrived[w]

\* The last version of row k before transaction s of epoch e.
LastBefore(k, e, s) ==
    LET before == {t \in Serials : t < s /\ k \in writes[t]}
    IN  IF before = {} THEN final[k] ELSE convert_to_global_id(e, Max(before))

(***************************************************************************)
(* Only stable versions are deallocated, and only versions of an earlier   *)
(* epoch: Caracal's minor_gc and gc_master of Serval with reference counts *)
(* never free what a core of the current epoch still has to write or read. *)
(***************************************************************************)
OnlyOldDeallocated ==
    [][\A v \in allocated \ allocated' :
          v \in stable /\ \E w \in Cores : get_epoch(v[2]) < epoch_(w)]_rowVars

\* Every core gets through all its epochs: no read waits for ever for a pending
\* version, no core for a row lock, and no core for another one at a barrier.
AllFinish == <>(\A w \in Cores : phase[w] = Phases * MaxEpoch)
=============================================================================
