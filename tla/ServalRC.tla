-------------------------------- MODULE ServalRC --------------------------------
(***************************************************************************)
(* The Serval engine with reference counts: protocols/serval_rc/include    *)
(* serval_rc.hpp and rw_bitmaps.hpp over utils/bitmap.hpp, driven by       *)
(* executables/ycsb_serval_rc.cpp.                                         *)
(*                                                                         *)
(* In the write phase a core marks its transactions in the bitmaps of the  *)
(* rows they write.  In the read phase it looks up, for every read, the    *)
(* last marked transaction before it and reserves a placeholder for that   *)
(* write, or takes the master version; the row counts the reads.  In the   *)
(* execution phase a write is carried out only if it has a placeholder or  *)
(* is found to be the final one of a row without readers; the last read of *)
(* a row makes the last placeholder the master.                            *)
(*                                                                         *)
(* All accesses to a WriteBitmap are made under its lock_, so that a       *)
(* critical section is one step.                                           *)
(***************************************************************************)
EXTENDS EpochRows

VARIABLES pending,    \* pending[s][k]: pending_ of transaction s's read of k, as an id
          carried     \* history: carried[k]: the ids of the writes of k carried out so far

None == -1

rcVars == <<rowVars, pending, carried>>

\* A bitmap is the set of the positions of its ones; 0 is the leftmost one.
WriteBitmap == [ref_cnt : Nat, core_bitmap : SUBSET Cores, tx_bitmaps : Seq(SUBSET Cores),
                master : Nat, placeholders : Seq(Nat)]

Init ==
    /\ engine = "serval_rc"
    /\ InitWith([ref_cnt |-> 0, core_bitmap |-> {}, tx_bitmaps |-> <<>>, master |-> 0,
                 placeholders |-> <<>>])
    /\ pending = [s \in Serials |-> [k \in Key |-> None]]
    /\ carried = [k \in Key |-> {0}]

-----------------------------------------------------------------------------
(***************************************************************************)
(* utils/bitmap.hpp                                                        *)
(***************************************************************************)
find_the_largest(bitmap) == Max(bitmap)

find_the_largest_among_less_than(bitmap, pos) ==
    LET smallers == {p \in bitmap : p < pos}
    IN  IF smallers = {} THEN None ELSE Max(smallers)

find_the_two_largest_among_or_less_than(bitmap, pos) ==
    LET smallers == {p \in bitmap : p <= pos}
    IN  IF smallers = {} THEN <<None, None>>
        ELSE <<IF Cardinality(smallers) = 1 THEN None ELSE Max(smallers \ {Max(smallers)}),
               Max(smallers)>>

-----------------------------------------------------------------------------
\* Deliberately wrong variants of the definitions below.
M_gc_and_update_master(b) ==                       \* leaves the bitmaps
    IF b.placeholders = <<>> THEN b
    ELSE [b EXCEPT !.master = Last(b.placeholders), !.placeholders = <<>>]

M_identify_visible_version(b, core, tx) ==         \* does not look at the second core
    LET two == find_the_two_largest_among_or_less_than(b.core_bitmap, core)
        bits(c) == b.tx_bitmaps[Cardinality({d \in b.core_bitmap : d < c}) + 1]
    IN  IF two[2] = None THEN <<None, None>>
        ELSE IF two[2] # core THEN <<two[2], find_the_largest(bits(two[2]))>>
        ELSE LET first_tx == find_the_largest_among_less_than(bits(core), tx)
             IN  IF first_tx # None THEN <<core, first_tx>> ELSE <<None, None>>

-----------------------------------------------------------------------------
(***************************************************************************)
(* class WriteBitmap                                                       *)
(***************************************************************************)
\* where the bitmap of a core is in tx_bitmaps_
count_prefix_sum(b, core) == Cardinality({c \in b.core_bitmap : c < core})
tx_bitmap(b, core) == b.tx_bitmaps[count_prefix_sum(b, core) + 1]

update_bitmap(b, core, tx) ==
    LET pos == count_prefix_sum(b, core) + 1
    IN  IF core \in b.core_bitmap
        THEN [b EXCEPT !.tx_bitmaps[pos] = @ \cup {tx}]
        ELSE [b EXCEPT !.tx_bitmaps = InsertAt(@, pos, {tx}), !.core_bitmap = @ \cup {core}]

\* the core and the transaction of the last write before, if there is one
identify_visible_version_in_placeholders(b, core, tx) ==
    LET two == find_the_two_largest_among_or_less_than(b.core_bitmap, core)
        first_tx == find_the_largest_among_less_than(tx_bitmap(b, core), tx)
    IN  CASE two[2] = None -> <<None, None>>
          [] two[2] \notin {None, core} -> <<two[2], find_the_largest(tx_bitmap(b, two[2]))>>
          [] two[2] = core /\ first_tx # None -> <<core, first_tx>>
          [] OTHER -> IF two[1] = None THEN <<None, None>>
                      ELSE <<two[1], find_the_largest(tx_bitmap(b, two[1]))>>

\* the id of the version a read gets; e is the epoch
visible(b, e, core, tx) ==
    LET found == identify_visible_version_in_placeholders(b, core, tx)
    IN  IF b.core_bitmap = {} \/ found[1] = None THEN b.master
        ELSE convert_to_global_id(e, found[1] * NumCore + found[2])

\* A deliberately wrong variant of the next definition.
M_do_append_pending_version(b, e, core, tx) ==     \* counts the placeholders, not the reads
    LET id == visible(b, e, core, tx)
        new == id # b.master /\ id \notin ToSet(b.placeholders)
    IN  [b EXCEPT !.ref_cnt = IF new THEN @ + 1 ELSE @,
                  !.placeholders = IF new THEN insert_in_order(@, id) ELSE @]

\* the placeholder is inserted unless another read has done so
do_append_pending_version(b, e, core, tx) ==
    LET id == visible(b, e, core, tx)
    IN  [b EXCEPT !.ref_cnt = @ + 1,
                  !.placeholders = IF id = b.master \/ id \in ToSet(@) THEN @
                                   ELSE insert_in_order(@, id)]

clear_bitmaps(b) == [b EXCEPT !.core_bitmap = {}, !.tx_bitmaps = <<>>]

gc_and_update_master(b) ==
    clear_bitmaps(IF b.placeholders = <<>> THEN b
                  ELSE [b EXCEPT !.master = Last(b.placeholders), !.placeholders = <<>>])

decrement_ref_cnt(b) ==
    LET c == [b EXCEPT !.ref_cnt = @ - 1]
    IN  IF c.ref_cnt = 0 THEN gc_and_update_master(c) ELSE c

is_final_state(b, core, tx) ==
    /\ b.core_bitmap # {}
    /\ find_the_largest(b.core_bitmap) = core
    /\ find_the_largest(Last(b.tx_bitmaps)) = tx

-----------------------------------------------------------------------------
(***************************************************************************)
(* The operations of serval_rc.hpp                                         *)
(***************************************************************************)
\* a write phase's operation; get_tx_serial(serial_id_) is the loop counter
update_write_bitmaps(w, k) ==
    /\ Preparing(w, 0) /\ Idle(w, k)
    /\ row' = [row EXCEPT ![k] = update_bitmap(@, w, i[w])]
    /\ writes' = [writes EXCEPT ![serial_id_(w)] = @ \cup {k}]
    /\ Done(w, k)
    /\ UNCHANGED <<engine, barrierVars, heapVars, pc, i, key, final, pending, carried>>

\* a read phase's operation
append_pending_version(w, k) ==
    LET id == visible(row[k], epoch_(w), w, i[w])
    IN  /\ Preparing(w, 1) /\ Idle(w, k) /\ k \notin writes[serial_id_(w)]
        /\ row' = [row EXCEPT ![k] = do_append_pending_version(@, epoch_(w), w, i[w])]
        /\ allocated' = allocated \cup {<<k, id>>}
        /\ pending' = [pending EXCEPT ![serial_id_(w)][k] = id]
        /\ Done(w, k)
        /\ UNCHANGED <<engine, barrierVars, written, stable, pc, i, key, writes, final, carried>>

\* delete the master and, for a final write, create its successor
gc_master(k, new) ==
    LET master == {<<k, row[k].master>>}
    IN  /\ allocated' = (allocated \ master) \cup new
        /\ written' = written \ master
        /\ stable' = stable \ master

\* wait_stable_and_execute_read: the version is not PENDING
is_stable(w, k) == <<k, pending[serial_id_(w)][k]>> \in stable

\* The version it has waited for stays what it is until the count is decremented:
\* one step.
read(w, k) ==
    /\ Executing(w) /\ Idle(w, k) /\ pending[serial_id_(w)][k] # None
    /\ is_stable(w, k)
    /\ row' = [row EXCEPT ![k] = decrement_ref_cnt(@)]
    /\ IF row[k].ref_cnt = 1 /\ row[k].placeholders # <<>> THEN gc_master(k, {})
                                                           ELSE UNCHANGED heapVars
    /\ Done(w, k)
    /\ UNCHANGED <<engine, barrierVars, pc, i, key, writes, final, pending, carried>>

\* identify_write_version, when there are readers: only a write with a
\* placeholder is carried out
has_placeholder(b, id) == b.ref_cnt > 0 /\ id \in ToSet(b.placeholders)

write_placeholder(w, k) ==
    /\ Executing(w) /\ Idle(w, k) /\ k \in writes[serial_id_(w)]
    /\ has_placeholder(row[k], Pending(w, k)[2])
    /\ Goto(w, "next", "store")
    /\ At(w, k)
    /\ UNCHANGED <<engine, barrierVars, row, heapVars, i, done, writes, final, pending, carried>>

\* when there are none: only the final write; the bitmaps are cleared whatever
\* the answer is
write_final(w, k) ==
    LET b == row[k]
        v == Pending(w, k)
    IN  /\ Executing(w) /\ Idle(w, k) /\ k \in writes[serial_id_(w)]
        /\ b.ref_cnt = 0 /\ is_final_state(b, i[w], w)
        /\ Goto(w, "next", "store")
        /\ At(w, k)
        /\ row' = [row EXCEPT ![k] = [clear_bitmaps(b) EXCEPT !.master = v[2]]]
        /\ gc_master(k, {v})
        /\ UNCHANGED <<engine, barrierVars, i, done, writes, final, pending, carried>>

write_nothing(w, k) ==
    LET b == row[k]
    IN  /\ Executing(w) /\ Idle(w, k) /\ k \in writes[serial_id_(w)]
        /\ ~has_placeholder(b, Pending(w, k)[2])
        /\ ~(b.ref_cnt = 0 /\ is_final_state(b, i[w], w))
        /\ row' = [row EXCEPT ![k] = IF b.ref_cnt = 0 THEN clear_bitmaps(b) ELSE b]
        /\ Done(w, k)
        /\ UNCHANGED <<engine, barrierVars, heapVars, pc, i, key, writes, final, pending, carried>>

\* The rows a transaction has in its operation set.
Ops(s) == writes[s] \cup {k \in Key : pending[s][k] # None}

Step(w) ==
    \/ \E k \in Key : \/ update_write_bitmaps(w, k) \/ append_pending_version(w, k)
                      \/ read(w, k) \/ write_placeholder(w, k) \/ write_final(w, k)
                      \/ write_nothing(w, k)
    \/ /\ store_rec(w)
       /\ carried' = [carried EXCEPT ![key[w]] = @ \cup {Pending(w, key[w])[2]}]
       /\ UNCHANGED pending
    \/ (store_status(w) \/ next_transaction(w, Ops(serial_id_(w))) \/ arrive(w))
       /\ UNCHANGED <<pending, carried>>
    \/ /\ pass(w)
       /\ pending' = IF NewEpoch(w) THEN [s \in Serials |-> [k \in Key |-> None]] ELSE pending
       /\ UNCHANGED carried

Next == (\E w \in Cores : Step(w)) \/ (Joined /\ UNCHANGED <<pending, carried>>)

-----------------------------------------------------------------------------
\* Transaction s of epoch e has yet to execute its read of k.
Outstanding(s, k) ==
    LET w == s % NumCore  n == s \div NumCore
    IN  /\ pending[s][k] # None
        /\ Executing(w) => i[w] < n \/ (i[w] = n /\ k \notin done[w])
        /\ ~(arrived[w] /\ phase[w] % Phases = Phases - 1)

\* The transactions of the epoch that write k before transaction s.
WritersBefore(s, k) == {t \in Serials : t < s /\ k \in writes[t]}

(***************************************************************************)
(* A read waits for the last write before it in the epoch.  If there is    *)
(* none, it gets the newest of all the versions of the row that were       *)
(* written in the earlier epochs: neither the last placeholder nor a final *)
(* write that has been carried out is lost on its way to master_.  The     *)
(* version is allocated until the read is through.                         *)
(***************************************************************************)
ReadsInSerialOrder ==
    \A s \in Serials, k \in Key : Outstanding(s, k) =>
        LET e == epoch_(s % NumCore)
            before == WritersBefore(s, k)
        IN  /\ <<k, pending[s][k]>> \in allocated
            /\ pending[s][k] = IF before = {} THEN Max({id \in carried[k] : get_epoch(id) < e})
                                              ELSE convert_to_global_id(e, Max(before))

(***************************************************************************)
(* rw_bitmaps.hpp:73: "if my_txid is final state, update master".  The     *)
(* last write of an epoch is what the next epochs find in master_, so that *)
(* a read with no write before it in its epoch gets it.                    *)
(***************************************************************************)
FinalWriteIsMaster ==
    \A s \in Serials, k \in Key :
        Outstanding(s, k) /\ WritersBefore(s, k) = {} => pending[s][k] = final[k]

(***************************************************************************)
(* ref_cnt_ is the number of reads that have yet to be executed, and a     *)
(* placeholder is there only as long as one of them waits for it or may    *)
(* still wait for a later one.                                             *)
(***************************************************************************)
ReadersCounted ==
    \A k \in Key : /\ row[k].ref_cnt = Cardinality({s \in Serials : Outstanding(s, k)})
                   /\ row[k].ref_cnt = 0 => row[k].placeholders = <<>>
=============================================================================
