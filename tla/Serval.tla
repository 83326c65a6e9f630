------------------------------- MODULE Serval --------------------------------
(***************************************************************************)
(* The Serval engine: protocols/serval/include/serval.hpp and value.hpp,   *)
(* driven by run_tx of executables/ycsb_serval.cpp.                        *)
(*                                                                         *)
(* An epoch has two phases.  In the initialization phase core w goes       *)
(* through the transactions with the serial ids w * 64 + i and appends a   *)
(* pending version to every row they write.  In the execution phase it     *)
(* goes through i * 64 + w: a write stores the record of its version and   *)
(* makes it stable, a read waits for the version before it.  The first     *)
(* core to append to a row in an epoch makes the last version of the       *)
(* earlier epoch the master version; when two cores meet at a row, one     *)
(* moves the versions from the global array to a region with an array per  *)
(* core.                                                                   *)
(*                                                                         *)
(* The barrier between the phases is the abstract one; RendezvousBarrier   *)
(* implements it.  (The barrier before the first epoch only aligns the     *)
(* start.)  Which rows a transaction reads and writes is chosen when it    *)
(* gets there.  The index is external: it finds the row of a key.          *)
(***************************************************************************)
EXTENDS RowRegion

CONSTANTS Key,          \* the rows
          MaxEpoch,     \* NUM_EPOCH
          NumRegions,   \* NUM_REGIONS
          Free          \* the row lock is free

\* what the constants are; the instance evaluates it
ServalAssumption ==
    /\ NumCore \in Nat \ {0}
    /\ IsFiniteSet(Key)
    /\ MaxEpoch \in Nat /\ NumRegions \in Nat
    /\ Free \notin Cores

VARIABLES phase, arrived,   \* the barrier; phase 2e-2 is the initialization of
                            \* epoch e and 2e-1 its execution
          row,        \* row[k]: the Value of k, see Value
          allocated,  \* the versions that are allocated
          written,    \* those whose rec is not nullptr
          stable,     \* those whose status is STABLE
          used,       \* RowRegionController::used_
          pc,         \* where a core is in append_pending_version, read or upsert
          i,          \* the loop counter of its phase
          key,        \* the row it is at
          done,       \* the rows its transaction has read or written
          writes,     \* writes[s]: the rows transaction s of this epoch has appended to
          final       \* history: the last version of k in the earlier epochs

barrierVars == <<phase, arrived>>
heapVars == <<allocated, written, stable>>
txVars == <<i, key, done>>
vars == <<phase, arrived, row, allocated, written, stable, used, pc, i, key, done,
          writes, final>>

Barrier == INSTANCE PhaseBarrier WITH Workers <- Cores, Rounds <- 2 * MaxEpoch

\* A version: the row, the epoch and the serial id.
Versions == Key \X (-1..MaxEpoch) \X (Serials \cup {-1})

Value == [lock : Cores \cup {Free}, epoch : 0..MaxEpoch, master : Versions,
          global_array : SUBSET Versions,
          installed : BOOLEAN,           \* row_region_ is not nullptr
          region : [core_bitmap : SUBSET Cores, bitmap : [Cores -> SUBSET Cores],
                    slots : [Cores -> Seq(Versions)]]]

\* Initializer::insert_into_index: two stable versions
Init ==
    /\ Barrier!Init
    /\ row = [k \in Key |-> [lock |-> Free, epoch |-> 0, master |-> <<k, -1, -1>>,
                             global_array |-> {<<k, 0, -1>>},
                             installed |-> FALSE, region |-> NewRegion]]
    /\ allocated = {<<k, n, -1>> : k \in Key, n \in {-1, 0}}
    /\ written = allocated /\ stable = allocated
    /\ used = 0
    /\ pc = [w \in Cores |-> "next"]
    /\ i = [w \in Cores |-> 0]
    /\ key = [w \in Cores |-> CHOOSE k \in Key : TRUE]
    /\ done = [w \in Cores |-> {}]
    /\ writes = [s \in Serials |-> {}]
    /\ final = [k \in Key |-> <<k, 0, -1>>]

epoch_(w) == (phase[w] \div 2) + 1
Initializing(w) == phase[w] < 2 * MaxEpoch /\ phase[w] % 2 = 0 /\ ~arrived[w]
Executing(w) == phase[w] % 2 = 1 /\ ~arrived[w]

\* the sequential and the round-robin assignment
serial_id_(w) == IF Initializing(w) THEN w * NumCore + i[w] ELSE i[w] * NumCore + w

has_dirty_region(k) == row[k].installed /\ is_dirty(row[k].region)

Goto(w, from, to) == pc[w] = from /\ pc' = [pc EXCEPT ![w] = to]

try_lock(w, k) == row[k].lock = Free /\ row' = [row EXCEPT ![k].lock = w]
unlock(w, k) == row' = [row EXCEPT ![k].lock = Free]

-----------------------------------------------------------------------------
\* Deliberately wrong variants of the definitions below.
M_guard_late(w) ==                         \* returns without unlocking
    /\ row[key[w]].epoch >= epoch_(w)
    /\ Goto(w, "guardLocked", "try")
    /\ UNCHANGED <<barrierVars, row, heapVars, used, txVars, writes, final>>

M_install_region(w) ==                     \* does not look again under the lock
    /\ Goto(w, "install", "publish")
    /\ used' = used + 1
    /\ row' = [row EXCEPT ![key[w]].region = NewRegion]
    /\ UNCHANGED <<barrierVars, heapVars, txVars, writes, final>>

M_store_rec(w, k) ==                       \* makes the version stable first
    /\ Executing(w) /\ i[w] < NumCore /\ k \in writes[serial_id_(w)] \ done[w]
    /\ Goto(w, "next", "recStored")
    /\ key' = [key EXCEPT ![w] = k]
    /\ stable' = stable \cup {<<k, epoch_(w), serial_id_(w)>>}
    /\ UNCHANGED <<barrierVars, row, allocated, written, used, i, done, writes, final>>

-----------------------------------------------------------------------------
(***************************************************************************)
(* epoch_guard                                                             *)
(***************************************************************************)
\* the while condition
epoch_guard(w) ==
    /\ pc[w] = "guard"
    /\ pc' = [pc EXCEPT ![w] = IF row[key[w]].epoch < epoch_(w) THEN "guardTry" ELSE "try"]
    /\ UNCHANGED <<barrierVars, row, heapVars, used, txVars, writes, final>>

guard_try_lock(w) ==
    /\ \/ try_lock(w, key[w]) /\ Goto(w, "guardTry", "guardLocked")
       \/ row[key[w]].lock # Free /\ Goto(w, "guardTry", "guard") /\ UNCHANGED row
    /\ UNCHANGED <<barrierVars, heapVars, used, txVars, writes, final>>

\* another core has initialized the row before this one got the lock
guard_late(w) ==
    /\ row[key[w]].epoch >= epoch_(w)
    /\ Goto(w, "guardLocked", "guardUnlock")
    /\ UNCHANGED <<barrierVars, row, heapVars, used, txVars, writes, final>>

\* the row after its last version has become the master, and what is deallocated
PopGlobalArray(r) ==
    [r EXCEPT !.master = final_state(r.global_array), !.global_array = {}]

PopRegion(r) ==
    [r EXCEPT !.master = final_version(r.region),
              !.region = initialize_core_bitmap(pop_final_state(r.region))]

Garbage(r) == {r.master} \cup (r.global_array \ {final_state(r.global_array)})

initialize_the_row(w) ==
    LET k == key[w]
        dirty == row[k].global_array # {}
        garbage == IF dirty THEN Garbage(row[k]) ELSE {row[k].master}
    IN  /\ row[k].epoch < epoch_(w)
        /\ Goto(w, "guardLocked", "publishEpoch")
        /\ dirty \/ has_dirty_region(k)
        /\ row' = [row EXCEPT ![k] = IF dirty THEN PopGlobalArray(@) ELSE PopRegion(@)]
        /\ allocated' = allocated \ garbage
        /\ written' = written \ garbage
        /\ stable' = stable \ garbage
        /\ UNCHANGED <<barrierVars, used, txVars, writes, final>>

publish_epoch(w) ==
    /\ Goto(w, "publishEpoch", "guardUnlock")
    /\ row' = [row EXCEPT ![key[w]].epoch = epoch_(w)]
    /\ UNCHANGED <<barrierVars, heapVars, used, txVars, writes, final>>

guard_unlock(w) ==
    /\ Goto(w, "guardUnlock", "try")
    /\ unlock(w, key[w])
    /\ UNCHANGED <<barrierVars, heapVars, used, txVars, writes, final>>

(***************************************************************************)
(* do_append_pending_version                                               *)
(***************************************************************************)
\* create_pending_version; the row is w's to append to
NewVersion(w) == <<key[w], epoch_(w), serial_id_(w)>>

Created(w, garbage) ==
    /\ allocated' = (allocated \ garbage) \cup {NewVersion(w)}
    /\ written' = written \ garbage
    /\ stable' = stable \ garbage
    /\ writes' = [writes EXCEPT ![serial_id_(w)] = @ \cup {key[w]}]

append_to_unconted_row(w) ==
    /\ ~row[key[w]].installed
    /\ row' = [row EXCEPT ![key[w]].global_array = @ \cup {NewVersion(w)}]
    /\ Created(w, {})

append_to_contented_row(w) ==
    LET region == row[key[w]].region
    IN  /\ row[key[w]].installed
        /\ row' = [row EXCEPT ![key[w]].region =
                      append(@, w, NewVersion(w), get_tx_serial(serial_id_(w)))]
        /\ Created(w, IF is_first_write(region, w) THEN minor_gc(region, w) ELSE {})

append_try_lock(w) ==
    /\ \/ try_lock(w, key[w]) /\ Goto(w, "try", "locked")
       \/ row[key[w]].lock # Free /\ Goto(w, "try", "wait") /\ UNCHANGED row
    /\ UNCHANGED <<barrierVars, heapVars, used, txVars, writes, final>>

append_locked(w) ==
    /\ Goto(w, "locked", "unlock")
    /\ append_to_unconted_row(w) \/ append_to_contented_row(w)
    /\ UNCHANGED <<barrierVars, used, txVars, final>>

append_unlock(w) ==
    /\ Goto(w, "unlock", "next")
    /\ unlock(w, key[w])
    /\ UNCHANGED <<barrierVars, heapVars, used, txVars, writes, final>>

(***************************************************************************)
(* wait_region_installation                                                *)
(***************************************************************************)
wait_region_installation(w) ==
    /\ pc[w] = "wait"
    /\ pc' = [pc EXCEPT ![w] = IF row[key[w]].installed THEN "contended" ELSE "waitTry"]
    /\ UNCHANGED <<barrierVars, row, heapVars, used, txVars, writes, final>>

wait_try_lock(w) ==
    /\ \/ try_lock(w, key[w]) /\ Goto(w, "waitTry", "install")
       \/ row[key[w]].lock # Free /\ Goto(w, "waitTry", "wait") /\ UNCHANGED row
    /\ UNCHANGED <<barrierVars, heapVars, used, txVars, writes, final>>

\* another core has installed a region before this one got the lock
install_late(w) ==
    /\ row[key[w]].installed
    /\ Goto(w, "install", "installUnlock")
    /\ UNCHANGED <<barrierVars, row, heapVars, used, txVars, writes, final>>

\* region->append for every version of the global array, in the order of the ids
move_global_array_to_row_region(r) ==
    LET move[n \in Serials \cup {-1}] ==
            IF n = -1 THEN NewRegion
            ELSE LET here == {v \in r.global_array : Serial(v) = n}
                 IN  IF here = {} THEN move[n - 1]
                     ELSE append(move[n - 1], get_core_serial(n), CHOOSE v \in here : TRUE,
                                 get_tx_serial(n))
    IN  [r EXCEPT !.region = move[NumCore * NumCore - 1], !.global_array = {}]

\* fetch_new_region throws when there is none left
install_region(w) ==
    /\ ~row[key[w]].installed
    /\ IF used < NumRegions
       THEN /\ Goto(w, "install", "publish")
            /\ used' = used + 1
            /\ row' = [row EXCEPT ![key[w]] = move_global_array_to_row_region(@)]
       ELSE /\ Goto(w, "install", "thrown")
            /\ UNCHANGED <<used, row>>
    /\ UNCHANGED <<barrierVars, heapVars, txVars, writes, final>>

publish_region(w) ==
    /\ Goto(w, "publish", "installUnlock")
    /\ row' = [row EXCEPT ![key[w]].installed = TRUE]
    /\ UNCHANGED <<barrierVars, heapVars, used, txVars, writes, final>>

install_unlock(w) ==
    /\ Goto(w, "installUnlock", "contended")
    /\ unlock(w, key[w])
    /\ UNCHANGED <<barrierVars, heapVars, used, txVars, writes, final>>

append_contended(w) ==
    /\ Goto(w, "contended", "next")
    /\ append_to_contented_row(w)
    /\ UNCHANGED <<barrierVars, used, txVars, final>>

(***************************************************************************)
(* read                                                                    *)
(***************************************************************************)
\* the version transaction s reads
Visible(k, e, s) ==
    LET r == row[k]
        in_array == search_visible_version(r.global_array, s)
        in_region == identify_visible_version(r.region, get_core_serial(s), get_tx_serial(s))
    IN  IF r.epoch # e THEN r.master
        ELSE IF r.global_array # {}
             THEN IF in_array = NotFound THEN r.master ELSE in_array
             ELSE IF in_region = NotFound THEN r.master
                                          ELSE get(r.region, in_region[1], in_region[2])

begin_read(w, k) ==
    /\ Executing(w) /\ i[w] < NumCore /\ k \notin writes[serial_id_(w)] \cup done[w]
    /\ Goto(w, "next", "reading")
    /\ key' = [key EXCEPT ![w] = k]
    /\ UNCHANGED <<barrierVars, row, heapVars, used, i, done, writes, final>>

\* wait_stable_and_execute_read
end_read(w) ==
    /\ Visible(key[w], epoch_(w), serial_id_(w)) \in stable
    /\ Goto(w, "reading", "next")
    /\ done' = [done EXCEPT ![w] = @ \cup {key[w]}]
    /\ UNCHANGED <<barrierVars, row, heapVars, used, i, key, writes, final>>

(***************************************************************************)
(* upsert: the record first, the status after it                           *)
(***************************************************************************)
store_rec(w, k) ==
    /\ Executing(w) /\ i[w] < NumCore /\ k \in writes[serial_id_(w)] \ done[w]
    /\ Goto(w, "next", "recStored")
    /\ key' = [key EXCEPT ![w] = k]
    /\ written' = written \cup {<<k, epoch_(w), serial_id_(w)>>}
    /\ UNCHANGED <<barrierVars, row, allocated, stable, used, i, done, writes, final>>

store_status(w) ==
    /\ Goto(w, "recStored", "next")
    /\ stable' = stable \cup {NewVersion(w)}
    /\ done' = [done EXCEPT ![w] = @ \cup {key[w]}]
    /\ UNCHANGED <<barrierVars, row, allocated, written, used, i, key, writes, final>>

(***************************************************************************)
(* do_initialization_phase and do_execution_phase                          *)
(***************************************************************************)
append_pending_version(w, k) ==
    /\ Initializing(w) /\ i[w] < NumCore /\ k \notin writes[serial_id_(w)]
    /\ Goto(w, "next", "guard")
    /\ key' = [key EXCEPT ![w] = k]
    /\ UNCHANGED <<barrierVars, row, heapVars, used, i, done, writes, final>>

next_transaction(w) ==
    /\ i[w] < NumCore /\ pc[w] = "next"
    /\ Initializing(w) \/ (Executing(w) /\ writes[serial_id_(w)] \subseteq done[w])
    /\ i' = [i EXCEPT ![w] = @ + 1]
    /\ done' = [done EXCEPT ![w] = {}]
    /\ UNCHANGED <<barrierVars, row, heapVars, used, pc, key, writes, final>>

(***************************************************************************)
(* The barriers of run_tx                                                  *)
(***************************************************************************)
arrive(w) ==
    /\ pc[w] = "next" /\ i[w] = NumCore
    /\ Barrier!Arrive(w)
    /\ i' = [i EXCEPT ![w] = 0]
    /\ UNCHANGED <<row, heapVars, used, pc, key, done, writes, final>>

\* The first core to enter a new epoch brings the history up to date.
pass(w) ==
    /\ Barrier!Pass(w)
    /\ IF phase[w] % 2 = 1 /\ \A v \in Cores : phase[v] = phase[w]
       THEN /\ final' = [k \in Key |->
                  LET ws == {s \in Serials : k \in writes[s]}
                  IN  IF ws = {} THEN final[k] ELSE <<k, epoch_(w), Max(ws)>>]
            /\ writes' = [s \in Serials |-> {}]
       ELSE UNCHANGED <<writes, final>>
    /\ UNCHANGED <<row, heapVars, used, pc, txVars>>

\* main has joined the threads
Joined == (\A w \in Cores : phase[w] = 2 * MaxEpoch) /\ UNCHANGED vars

Step(w) ==
    \/ \E k \in Key : append_pending_version(w, k) \/ begin_read(w, k) \/ store_rec(w, k)
    \/ epoch_guard(w) \/ guard_try_lock(w) \/ guard_late(w) \/ initialize_the_row(w)
    \/ publish_epoch(w) \/ guard_unlock(w)
    \/ append_try_lock(w) \/ append_locked(w) \/ append_unlock(w)
    \/ wait_region_installation(w) \/ wait_try_lock(w) \/ install_late(w)
    \/ install_region(w) \/ publish_region(w) \/ install_unlock(w) \/ append_contended(w)
    \/ end_read(w) \/ store_status(w)
    \/ next_transaction(w) \/ arrive(w) \/ pass(w)

Next == (\E w \in Cores : Step(w)) \/ Joined

Spec == Init /\ [][Next]_vars

\* Every core is a thread that keeps running; a transaction has finitely many
\* operations, so that choosing one more is progress too.
FairSpec == Spec /\ \A w \in Cores : WF_vars(Step(w))

-----------------------------------------------------------------------------
\* The rows are being read: some core is in the execution phase of epoch e.
InExecution(e) == \E w \in Cores : phase[w] = 2 * e - 1 /\ ~arrived[w]

\* The version transaction s of this epoch has to read: the last before it.
Expected(k, e, s) ==
    LET before == {t \in Serials : t < s /\ k \in writes[t]}
    IN  IF before = {} THEN final[k] ELSE <<k, e, Max(before)>>

(***************************************************************************)
(* A transaction that reads a row which some transaction of the epoch      *)
(* writes gets the version of the last transaction before it, however the  *)
(* appends to the row interleaved and wherever its versions ended up.      *)
(***************************************************************************)
ReadsInSerialOrder ==
    \A e \in 1..MaxEpoch : InExecution(e) =>
        \A k \in Key : row[k].epoch = e =>
            \A s \in Serials : Visible(k, e, s) = Expected(k, e, s)

\* What the row holds now: its global array and the arrays of its region that
\* are valid in this epoch.
RowVersions(k) ==
    row[k].global_array \cup UNION {minor_gc(row[k].region, c) : c \in row[k].region.core_bitmap}

(***************************************************************************)
(* The row holds exactly the versions appended to it in this epoch: none   *)
(* is lost or doubled by the move from the global array to the region.     *)
(***************************************************************************)
NoVersionLost ==
    \A e \in 1..MaxEpoch, k \in Key :
        row[k].epoch = e /\ (\E w \in Cores : epoch_(w) = e) /\ (\A w \in Cores : epoch_(w) <= e)
            => RowVersions(k) = {<<k, e, s>> : s \in {s \in Serials : k \in writes[s]}}

\* What a read may return is allocated, and its record is there as soon as its
\* status is STABLE.
ReadsAllocated ==
    \A e \in 1..MaxEpoch : InExecution(e) =>
        \A k \in Key, s \in Serials :
            /\ Visible(k, e, s) \in allocated
            /\ Visible(k, e, s) \in stable => Visible(k, e, s) \in written

\* Every core gets through every phase of every epoch: no read waits for ever.
AllFinish == <>(\A w \in Cores : phase[w] = 2 * MaxEpoch)
=============================================================================
