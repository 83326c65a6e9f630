------------------------------ MODULE RowRegion ------------------------------
(***************************************************************************)
(* protocols/serval/include/row_region.hpp: the containers that hold the   *)
(* versions of a row in the current epoch, as operators on their values.   *)
(*                                                                         *)
(* A version is a tuple whose last component is the serial id of its       *)
(* transaction; -1 is the version the loader puts there.  A bitmap is the  *)
(* set of the positions of its ones.                                       *)
(***************************************************************************)
EXTENDS Integers, FiniteSets, Sequences, FiniteSetsExt

CONSTANT NumCore       \* 64: cores, and transactions of a core in an epoch

Cores == 0..(NumCore - 1)
Serials == 0..(NumCore * NumCore - 1)

get_core_serial(serial) == serial \div NumCore
get_tx_serial(serial) == serial % NumCore

Serial(version) == version[3]

\* the default result of the searches: nothing found
NotFound == <<>>

-----------------------------------------------------------------------------
\* Deliberately wrong variants of the definitions below.
M_identify_visible_version(region, core, tx) ==         \* stops at its own core
    LET smaller == {c \in region.core_bitmap : c <= core}
    IN  IF smaller = {} THEN NotFound
        ELSE LET first == Max(smaller)
                 txs == {t \in region.bitmap[first] : first = core => t < tx}
             IN  IF txs # {} THEN <<first, Max(txs)>> ELSE NotFound

-----------------------------------------------------------------------------
(***************************************************************************)
(* GlobalVersionArray: ids_slots_ is ordered by serial id, so the set of   *)
(* its versions determines it.                                             *)
(***************************************************************************)
search_visible_version(ids_slots, serial) ==
    LET smaller == {v \in ids_slots : Serial(v) < serial}
    IN  IF smaller = {} THEN NotFound
        ELSE CHOOSE v \in smaller : \A u \in smaller : Serial(u) <= Serial(v)

\* back(): what pop_final_state removes
final_state(ids_slots) ==
    CHOOSE v \in ids_slots : \A u \in ids_slots : Serial(u) <= Serial(v)

(***************************************************************************)
(* RowRegion and its PerCoreVersionArrays.  core_bitmap tells which cores  *)
(* have appended in this epoch; the arrays of the others still hold what   *)
(* they appended in an earlier one.                                        *)
(***************************************************************************)
NewRegion == [core_bitmap |-> {},
              bitmap |-> [c \in Cores |-> {}],
              slots |-> [c \in Cores |-> <<>>]]

is_dirty(region) == region.core_bitmap # {}

\* what clear_memory(core) deallocates, and what it leaves
minor_gc(region, core) == {region.slots[core][i] : i \in 1..Len(region.slots[core])}

clear_memory(region, core) ==
    [region EXCEPT !.bitmap[core] = {}, !.slots[core] = <<>>]

is_first_write(region, core) == core \notin region.core_bitmap

append(region, core, version, tx) ==
    LET cleared == IF is_first_write(region, core) THEN clear_memory(region, core)
                                                   ELSE region
    IN  [cleared EXCEPT !.core_bitmap = @ \cup {core},
                        !.slots[core] = Append(@, version),
                        !.bitmap[core] = @ \cup {tx}]

\* the slot of transaction tx: its rank among the ones of the bitmap
get(region, core, tx) ==
    region.slots[core][Cardinality({t \in region.bitmap[core] : t <= tx})]

\* <<core, tx>> of the version before the one of transaction tx of a core
identify_visible_version(region, core, tx) ==
    LET smaller == {c \in region.core_bitmap : c <= core}
    IN  IF smaller = {} THEN NotFound
        ELSE LET first == Max(smaller)
                 second == smaller \ {first}
                 txs == {t \in region.bitmap[first] : t < tx}
             IN  IF first # core THEN <<first, Max(region.bitmap[first])>>
                 ELSE IF txs # {} THEN <<first, Max(txs)>>
                 ELSE IF second # {} THEN <<Max(second), Max(region.bitmap[Max(second)])>>
                 ELSE NotFound

\* pop_final_state: the last slot of the largest core, and the region without
\* it.  The transaction bitmap of that core keeps its bit.
final_version(region) ==
    LET slots == region.slots[Max(region.core_bitmap)] IN slots[Len(slots)]

pop_final_state(region) ==
    [region EXCEPT !.slots[Max(region.core_bitmap)] = SubSeq(@, 1, Len(@) - 1)]

initialize_core_bitmap(region) == [region EXCEPT !.core_bitmap = {}]
=============================================================================
