--------------------------------- MODULE Caracal ---------------------------------
(***************************************************************************)
(* The Caracal engine: protocols/caracal/include/caracal.hpp and           *)
(* row_buffer.hpp, driven by executables/ycsb_caracal.cpp.                 *)
(*                                                                         *)
(* In the initialization phase a core appends a pending version to every   *)
(* row its transactions write: to the global array of the row if it gets   *)
(* the lock, else to its own slice of the row's buffer, which the first    *)
(* core to find the row locked installs.  A full slice, and what is left   *)
(* in the slices at the end of the phase, is moved to the global array.    *)
(* Every append also frees the versions that nobody can read any more.  In *)
(* the execution phase nobody appends, so that reads need no lock.         *)
(*                                                                         *)
(* The global array is only used under the lock while cores append, so     *)
(* that its use and the unlock after it are one step.  A slice and         *)
(* appended_core_buffers_ are used by their core only; what a core does    *)
(* with them is part of the step before.                                   *)
(***************************************************************************)
EXTENDS EpochRows

CONSTANTS NumBuffers,   \* NUM_REGIONS
          MaxSlots,     \* MAX_SLOTS_OF_PER_CORE_BUFFER
          Free          \* the row lock is free

\* what the constants are; the instance evaluates it
CaracalAssumption ==
    NumBuffers \in Nat /\ MaxSlots \in Nat \ {0} /\ Free \notin Cores

VARIABLES used,       \* RowBufferController::used_
          slices,     \* slices[b][w]: ids_slots_ of core w's slice of buffer b
          spare,      \* spare_buffer_ of a core
          hand,       \* new_buffer of a core
          appended    \* the keys of appended_core_buffers_ of a core

bufferVars == <<used, slices, spare, hand, appended>>
caracalVars == <<rowVars, bufferVars>>

NoBuffer == 0
Buffers == 1..NumBuffers

Value == [lock : Cores \cup {Free}, row_buffer : Buffers \cup {NoBuffer}, ids_slots : Seq(Nat)]

BufferInit ==
    /\ used = 0
    /\ slices = [b \in Buffers |-> [w \in Cores |-> <<>>]]
    /\ spare = [w \in Cores |-> NoBuffer]
    /\ hand = [w \in Cores |-> NoBuffer]
    /\ appended = [w \in Cores |-> {}]

Init ==
    /\ engine = "caracal"
    /\ InitWith([lock |-> Free, row_buffer |-> NoBuffer, ids_slots |-> <<0>>])
    /\ BufferInit

-----------------------------------------------------------------------------
\* Deliberately wrong variants of the definitions below.
M_try_install_new_buffer(w) ==             \* a store instead of the compare and exchange
    LET k == key[w]
    IN  /\ Goto(w, "install", "next")
        /\ row' = [row EXCEPT ![k].row_buffer = hand[w]]
        /\ slices' = [slices EXCEPT ![hand[w]][w] = Append(@, Pending(w, k)[2])]
        /\ appended' = [appended EXCEPT ![w] = @ \cup {k}]
        /\ allocated' = allocated \cup {Pending(w, k)}
        /\ writes' = [writes EXCEPT ![serial_id_(w)] = @ \cup {k}]
        /\ Done(w, k)
        /\ hand' = [hand EXCEPT ![w] = NoBuffer]
        /\ UNCHANGED <<engine, barrierVars, written, stable, i, key, final, used, spare>>

-----------------------------------------------------------------------------
(***************************************************************************)
(* class GlobalVersionArray                                                *)
(***************************************************************************)
try_lock(w, k) == row[k].lock = Free /\ row' = [row EXCEPT ![k].lock = w]

\* what minor_gc leaves: the versions from the last one before epoch e on
minor_gc(ids, e) ==
    LET old == {n \in DOMAIN ids : ids[n] < convert_to_global_id(e, 0)}
    IN  IF old = {} THEN ids ELSE SubSeq(ids, Max(old), Len(ids))

append_with_gc(ids, id, e) == minor_gc(insert_in_order(ids, id), e)

\* append_with_gc for one version after the other
batch_append(ids, slice, e) ==
    LET after[n \in 0..Len(slice)] ==
            IF n = 0 THEN ids ELSE append_with_gc(after[n - 1], slice[n], e)
    IN  after[Len(slice)]

search_visible_version(ids, id) == Max({n \in ToSet(ids) : n < id})

\* the new content of the global array, and the unlock
Replace(k, ids) ==
    LET garbage == {<<k, id>> : id \in ToSet(row[k].ids_slots) \ ToSet(ids)}
    IN  /\ row' = [row EXCEPT ![k].ids_slots = ids, ![k].lock = Free]
        /\ written' = written \ garbage
        /\ stable' = stable \ garbage
        /\ allocated' = (allocated \ garbage) \cup {<<k, id>> : id \in ToSet(ids)}

(***************************************************************************)
(* append_to_contented_row, up to the batch append of a full slice: slice  *)
(* w of buffer b gets the pending version                                  *)
(***************************************************************************)
appendable(w, b) == Len(slices[b][w]) + 1 < MaxSlots

append_to_contented_row(w, k, b) ==
    /\ slices' = [slices EXCEPT ![b][w] = insert_in_order(@, Pending(w, k)[2])]
    /\ allocated' = allocated \cup {Pending(w, k)}
    /\ writes' = [writes EXCEPT ![serial_id_(w)] = @ \cup {k}]
    /\ Done(w, k)
    /\ At(w, k)
    /\ IF appendable(w, b)
       THEN /\ appended' = [appended EXCEPT ![w] = @ \cup {k}]
            /\ pc' = [pc EXCEPT ![w] = "next"]
       ELSE /\ pc' = [pc EXCEPT ![w] = "full"]
            /\ UNCHANGED appended
    /\ UNCHANGED <<engine, barrierVars, written, stable, i, final, used>>

-----------------------------------------------------------------------------
\* Deliberately wrong variants of the definitions below.
M_finalize_batch_append(w) ==              \* does not erase the entry
    LET k == key[w]
        b == row[k].row_buffer
    IN  /\ Goto(w, "moving", "next")
        /\ Replace(k, batch_append(row[k].ids_slots, slices[b][w], epoch_(w)))
        /\ slices' = [slices EXCEPT ![b][w] = <<>>]
        /\ UNCHANGED <<engine, barrierVars, i, key, done, writes, final, used, spare, hand,
                       appended>>

-----------------------------------------------------------------------------
(***************************************************************************)
(* do_append_pending_version                                               *)
(***************************************************************************)
\* the row has a buffer already, or not
append_pending_version(w, k) ==
    /\ Preparing(w, 0) /\ Idle(w, k)
    /\ IF row[k].row_buffer # NoBuffer
       THEN append_to_contented_row(w, k, row[k].row_buffer) /\ UNCHANGED <<row, spare, hand>>
       ELSE /\ Goto(w, "next", "try")
            /\ At(w, k)
            /\ UNCHANGED <<engine, barrierVars, row, heapVars, i, done, writes, final, bufferVars>>

append_try_lock(w) ==
    /\ \/ try_lock(w, key[w]) /\ Goto(w, "try", "locked")
       \/ row[key[w]].lock # Free /\ Goto(w, "try", "contended") /\ UNCHANGED row
    /\ UNCHANGED <<engine, barrierVars, heapVars, i, key, done, writes, final, bufferVars>>

append_to_uncontended_row(w) ==
    LET k == key[w]
        id == Pending(w, k)[2]
    IN  /\ Goto(w, "locked", "next")
        /\ Replace(k, append_with_gc(row[k].ids_slots, id, epoch_(w)))
        /\ writes' = [writes EXCEPT ![serial_id_(w)] = @ \cup {k}]
        /\ Done(w, k)
        /\ UNCHANGED <<engine, barrierVars, i, key, final, bufferVars>>

\* the spare buffer, or fetch_new_buffer, which throws when there is none left
fetch_buffer(w) ==
    /\ IF spare[w] # NoBuffer
       THEN /\ hand' = [hand EXCEPT ![w] = spare[w]]
            /\ spare' = [spare EXCEPT ![w] = NoBuffer]
            /\ Goto(w, "contended", "install")
            /\ UNCHANGED used
       ELSE IF used < NumBuffers
       THEN /\ used' = used + 1
            /\ hand' = [hand EXCEPT ![w] = used + 1]
            /\ Goto(w, "contended", "install")
            /\ UNCHANGED spare
       ELSE Goto(w, "contended", "thrown") /\ UNCHANGED <<used, spare, hand>>
    /\ UNCHANGED <<engine, barrierVars, row, heapVars, i, key, done, writes, final, slices, appended>>

\* the compare and exchange; a core that comes too late keeps its buffer as the spare one
try_install_new_buffer(w) ==
    LET k == key[w]
    IN  /\ pc[w] = "install"
        /\ hand' = [hand EXCEPT ![w] = NoBuffer]
        /\ IF row[k].row_buffer = NoBuffer
           THEN /\ row' = [row EXCEPT ![k].row_buffer = hand[w]]
                /\ append_to_contented_row(w, k, hand[w])
                /\ UNCHANGED spare
           ELSE /\ spare' = [spare EXCEPT ![w] = hand[w]]
                /\ append_to_contented_row(w, k, row[k].row_buffer)
                /\ UNCHANGED row

\* the slice is full: spin for the lock, move it to the global array
full_try_lock(w) ==
    /\ try_lock(w, key[w]) /\ Goto(w, "full", "fullLocked")
    /\ UNCHANGED <<engine, barrierVars, heapVars, i, key, done, writes, final, bufferVars>>

move_slice(w) ==
    LET k == key[w]
        b == row[k].row_buffer
    IN  /\ Goto(w, "fullLocked", "next")
        /\ Replace(k, batch_append(row[k].ids_slots, slices[b][w], epoch_(w)))
        /\ slices' = [slices EXCEPT ![b][w] = <<>>]
        /\ UNCHANGED <<engine, barrierVars, i, key, done, writes, final, used, spare, hand, appended>>

(***************************************************************************)
(* finalize_batch_append_optimized: go round the rows that are left until  *)
(* each of them has been locked and its slice moved                        *)
(***************************************************************************)
finalize_try_lock(w, k) ==
    /\ Preparing(w, 0) /\ i[w] = NumCore /\ k \in appended[w]
    /\ try_lock(w, k) /\ Goto(w, "next", "moving")
    /\ At(w, k)
    /\ UNCHANGED <<engine, barrierVars, heapVars, i, done, writes, final, bufferVars>>

finalize_batch_append(w) ==
    LET k == key[w]
        b == row[k].row_buffer
    IN  /\ Goto(w, "moving", "next")
        /\ Replace(k, batch_append(row[k].ids_slots, slices[b][w], epoch_(w)))
        /\ slices' = [slices EXCEPT ![b][w] = <<>>]
        /\ appended' = [appended EXCEPT ![w] = @ \ {k}]
        /\ UNCHANGED <<engine, barrierVars, i, key, done, writes, final, used, spare, hand>>

caracal_arrive(w) == appended[w] = {} /\ arrive(w) /\ UNCHANGED bufferVars

(***************************************************************************)
(* The execution phase                                                     *)
(***************************************************************************)
read(w, k) ==
    /\ Executing(w) /\ Idle(w, k) /\ k \notin writes[serial_id_(w)]
    /\ Goto(w, "next", "reading")
    /\ At(w, k)
    /\ UNCHANGED <<engine, barrierVars, row, heapVars, i, done, writes, final, bufferVars>>

wait_stable_and_execute_read(w) ==
    LET k == key[w]
    IN  /\ Goto(w, "reading", "next")
        /\ <<k, search_visible_version(row[k].ids_slots, Pending(w, k)[2])>> \in stable
        /\ Done(w, k)
        /\ UNCHANGED <<engine, barrierVars, row, heapVars, i, key, writes, final, bufferVars>>

write(w, k) ==
    /\ Executing(w) /\ Idle(w, k) /\ k \in writes[serial_id_(w)]
    /\ Goto(w, "next", "store")
    /\ At(w, k)
    /\ UNCHANGED <<engine, barrierVars, row, heapVars, i, done, writes, final, bufferVars>>

Step(w) ==
    \/ \E k \in Key : \/ append_pending_version(w, k) \/ finalize_try_lock(w, k)
                      \/ read(w, k) \/ write(w, k)
    \/ append_try_lock(w) \/ append_to_uncontended_row(w)
    \/ fetch_buffer(w) \/ try_install_new_buffer(w)
    \/ full_try_lock(w) \/ move_slice(w) \/ finalize_batch_append(w)
    \/ wait_stable_and_execute_read(w) \/ caracal_arrive(w)
    \/ (store_rec(w) \/ store_status(w) \/ next_transaction(w, writes[serial_id_(w)]) \/ pass(w))
       /\ UNCHANGED bufferVars

Next == (\E w \in Cores : Step(w)) \/ (Joined /\ UNCHANGED bufferVars)

-----------------------------------------------------------------------------
(***************************************************************************)
(* While transactions execute, the global array of a row holds, in         *)
(* ascending order, the last version of the earlier epochs and every       *)
(* version appended in this epoch: whatever way it took there, none is     *)
(* lost, doubled, out of order or left in a slice, and minor_gc has not    *)
(* freed one too many.                                                     *)
(***************************************************************************)
NoVersionLost ==
    \A e \in 1..MaxEpoch : InExecution(e) =>
        \A k \in Key :
            LET new == {convert_to_global_id(e, s) : s \in {t \in Serials : k \in writes[t]}}
                ids == row[k].ids_slots
            IN  /\ new # {} => ToSet(ids) = new \cup {final[k]} /\ Len(ids) = Cardinality(new) + 1
                /\ \A n \in 1..(Len(ids) - 1) : ids[n] < ids[n + 1]
                /\ {k} \X ToSet(ids) \subseteq allocated

(***************************************************************************)
(* A read gets the version of the last transaction before it, of this      *)
(* epoch or an earlier one.                                                *)
(***************************************************************************)
ReadsInSerialOrder ==
    \A w \in Cores : pc[w] = "reading" =>
        search_visible_version(row[key[w]].ids_slots, Pending(w, key[w])[2])
            = LastBefore(key[w], epoch_(w), serial_id_(w))

\* The rows and cores that hold buffer b.
Holders(b) == {k \in Key : row[k].row_buffer = b}
              \cup {w \in Cores : spare[w] = b} \cup {w \in Cores : hand[w] = b}

(***************************************************************************)
(* A buffer that has been fetched belongs to one row, or to one core that  *)
(* has it in hand or keeps it as its spare one: no two rows share slices,  *)
(* and none is lost, so that the rows and cores together bound what        *)
(* fetch_new_buffer hands out.                                             *)
(***************************************************************************)
BuffersOwned ==
    \A b \in Buffers : Cardinality(Holders(b)) = IF b <= used THEN 1 ELSE 0

(***************************************************************************)
(* What goes through a buffer arrives, and the buffers are neither shared  *)
(* nor lost, whoever wins the races for the row and for its buffer.        *)
(***************************************************************************)
NothingLost == NoVersionLost /\ BuffersOwned
=============================================================================
