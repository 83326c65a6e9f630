# Concurrency control of tpcc-runner in TLA+

tpcc-runner benchmarks concurrency control protocols on TPC-C and YCSB. This
directory holds TLA+ models of the protocols, of the locks, barriers, epochs and
timestamps they are built on, and of the TPC-C transactions; the TLC
configurations that check them on small instances; and TLAPS proofs of the
results that hold for any number of workers, transactions, records and epochs.

Check a run with `tlc -workers 2 -config X.cfg MC...`, proofs with
`tlapm M_proofs.tla`. `PROJECT.json` lists the runs, the source lines behind each
definition, the hazards and the properties that cover them, a mutation of the code
that each property detects, and the theorems.

## The system and its parts

| Component | State | Hard part | What makes it correct | Module |
|---|---|---|---|---|
| Rendezvous barrier (`ycsb_common`) | `num_children_`, `ready_`, `start_` | counter reused by the next barrier, `start_` never reset | phases never overlap; every barrier opens | `RendezvousBarrier`, `PhaseBarrier` |
| WaitDie lock (`waitdielock.hpp`) | owner list and mode, waiter list, spin flags | promotion while the waiter spins, upgrades | exclusion; waits go from old to young; no throw; no lost wakeup | `WaitDieLock` |
| Epoch manager | global epoch, an epoch per worker | scan of changing epochs, uninitialised epoch | a worker lags by at most one epoch | `EpochManager` |
| Epoch-based collector | tagged pointers per worker | readers keep raw pointers | nothing in use is freed; all that is collected is freed | `EpochGC` |
| Timestamp manager | counter per worker, bounds | bounds from counters read earlier | timestamps increase, stay above the bound | `TimestampManager` |
| Silo | TID words, index, read, write and node sets | optimistic validation | serializable; nothing left locked | `Silo` |
| NoWait, WaitDie | read/write set, a lock per record | next-key locks, upgrades, deleted rows | serializable in commit order | `TwoPhase`, `NoWait`, `WaitDie` |
| MVTO | version chains, read timestamps | pending versions, reclamation | serializable in timestamp order | `MVTO` |
| Serval | row lock, master, global array, region | the row changes its representation while cores append | reads follow the serial order | `RowRegion`, `Serval` |
| Caracal | row buffers, global array | buffers filled and merged concurrently | the same; nothing lost on the way to the row | `EpochRows`, `Caracal` |
| Serval with reference counts | bitmaps, placeholders, reference count | last reader updates the master | the same; counts are those of the reads to come | `EpochRows`, `ServalRC` |
| Naive | a global lock, write set, tables, caches of memory | condition variable, stale addresses | one transaction at a time | `Naive` |
| TPC-C | nine tables | aborts in the middle, counters | consistency conditions of the benchmark | `TPCC` |
| Reader-writer lock | counter | upgrade | exclusion | in `NoWait`, `Serval`, `Caracal` |
| Bitmap | 64-bit words | positions | same as sets | in `ServalRC` |

*Interactions.* The executables start one thread per worker. Serval, Caracal and
Serval with reference counts are deterministic: a batch of transactions is executed
per epoch in two or three phases that the *rendezvous barrier* separates. Silo and
NoWait free memory through the *epoch manager*, MVTO and WaitDie through the
*timestamp manager*. WaitDie takes one *WaitDie lock* per record, NoWait one
*reader-writer lock*, which Serval and Caracal use for rows. All protocols find rows
through the index, an external library (Masstree), and share its pointers.

```
PhaseBarrier <--implemented by-- RendezvousBarrier <- MCServal, RendezvousBarrier_proofs
   ^ INSTANCE
   |-- Serval (EXTENDS RowRegion) <- MCServal
   `-- EpochRows <- Caracal, ServalRC <- MCEpochRows (both engines)

Serializability <- SerialDB
   ^                  ^ implemented by
   |------------------|-- Silo <- MCSilo, Silo_proofs
   |------------------|-- TwoPhase <- NoWait, WaitDie <- MCTwoPhase (both protocols)
   `------------------`-- MVTO <- MCMVTO

WaitDieLock <- MCWaitDieLock, WaitDieLock_proofs
EpochManager <- EpochManager_proofs
   ^ EXTENDS
EpochGC <- MCEpochGC, EpochGC_proofs
TimestampManager <- MCTimestampManager, TimestampManager_proofs
Naive <- TPCC <- MCTPCC, TPCC_proofs
```

An action is one access to shared memory (a load, a store, a compare-and-swap) with
the thread-local code around it, or one critical section under a latch that all
accesses take. Where two threads meet, the code uses sequentially consistent or
acquire/release operations; the models interleave these accesses and do not consider
weaker memory orders. Actions keep the names of the functions they come from.
Operators named `M_...` are deliberately wrong variants of the definitions after
them; no specification uses them. They document, for each property, a change of the
code it would detect.

## The models

### PhaseBarrier, RendezvousBarrier

`PhaseBarrier` is what the phases rely on: a worker arrives, and passes when all have
arrived. `RendezvousBarrier` has the variables of `RendezvousBarrierVariable` and the
program counters of the parent and the children inside
`wait_all_children_and_send_start` and `send_ready_and_wait_start`. The parent waits
for the counter to reach zero, resets it (`initialize`), and publishes the type of
the barrier it opens; children decrement the counter and spin on the type. `TypeAt`
gives the type of each barrier of `run_tx`: consecutive ones differ, which the
assumption of the module states and on which the barrier depends, since `start_` is
never reset. Its instance is in `MCServal`, beside that of the engine it serves: the
variable `component` says which of the two a behaviour is about, and the other rests.

### WaitDieLock

Transactions are their timestamps. The waiter list is sorted and timestamps are
distinct, so that it is a set with a front, the youngest waiter. An operation is
atomic under the latch, except that `promote_waiters` is one action per iteration
(`PromoteOwner`, `PromoteUpgrade`, `PromoteReturn`) while the latch stays taken, and
that the woken waiter leaves its spin loop on its own (`EndSpin`). A transaction
takes and upgrades locks in any order and releases all of them when it commits or
when a request fails, as `precommit` and `abort` of `waitdie.hpp` do. Each `throw` is
a transition that records the exception.

### EpochManager, EpochGC

`EpochManager` has one action per load and store of `increment_epoch` (with the scan
of `get_smallest_worker_epoch` worker by worker) and of `begin_tx`. The worker epoch
is arbitrary until it is stored, because it has no initialiser.

`EpochGC` adds the objects Silo hands to the collector. Records are what a `Value`
points to and are replaced by every committed write; Values are what the index
points to, collected when a delete commits or an insert aborts. A transaction
gathers pointers, locks what it writes, loads its commit epoch at the serial point,
and in phase 3 replaces and collects; the destructor removes everything tagged two
epochs or more before. Objects may be free already at the start, which saves a
constant for each size of the heap. A failed transaction is tried again by
`run_with_retry` on the same Silo object: it neither runs the destructor nor calls
`begin_tx`, so that its worker keeps its epoch and holds the global one back until an
attempt commits or the user aborts. Hence `Reclaimed` has a condition: if every worker
leaves its transactions again and again, the global epoch advances and garbage is freed.

*Records and Values differ.* A record is replaced under a lock that is taken before
the commit epoch is loaded, and readers wait while it is locked. So whoever holds the
old record began by the epoch of its tag. While a transaction runs the epoch advances
at most once, hence none of them still runs when the epoch is two after the tag and
the record may be freed (`RecordsNotFreedInUse`). The Value of a deleted row is
removed from the index after the commit epoch was loaded, and `find` does not look at
the lock: a transaction that began one epoch after the tag may find it and still run
when the epoch is two after the tag. For Values the collector gives `GracePeriod` and
nothing stronger: an object in use is freed only if its user began after the epoch of
the tag.

### TimestampManager

A worker's count, its last timestamp, and where it is: outside a transaction, in
`synchronize` (which loads the count of another worker and stores it in a later
step), or in a transaction. An abort draws the timestamp of the next attempt and
skips 2 or 4 counts. The manager scans the workers one by one and then stores the
bounds one by one; workers register (`set_worker`) at any time before or between.
`scanned` and `counted` are history variables: the workers a minimum, and a published
bound, take into account.

### Serializability, SerialDB

`Serializability` says when a set of committed transactions, known by the versions
they saw and wrote, could have run one at a time in a given order. `SerialDB` is the
promise of a protocol: each commit adds one transaction and its place in an order that
only grows, and all of them are explained by it. Silo, NoWait, WaitDie and MVTO are
each checked to implement it (`ImplementsSerialDB`), with different orders: serial
points for Silo, commits for NoWait and WaitDie, timestamps for MVTO. Missing keys are
versions too (`Absent`), so phantoms are covered.

### Silo

TID words (`epoch`, `tid`, `lock`, `latest`, `absent`), the index with the version of
its leaf, and per transaction the entries of `rws`, the node set, and a worklist
(`todo`) for the loops over Values. Operations: read, insert, update, write, upsert,
remove, the two scans and a user abort. Precommit is followed access by access: locks
in key order (`lock`, spinning), the epoch load (`serial_point`), validation of each
entry and then of the node set, the stores of record and word, unlinking of deleted
rows, and on failure the unlocks and the removal of inserted Values. A worker's epoch
never goes back; `AdvanceEpoch` is `EpochManager` seen from here. `serial`, `log` and
`seen` are history variables. The sequence number of a TID has 29 bits in the code and
is a natural number here. Inserting and removing a key in one transaction always
aborts in validation, in the code as in the model.

### TwoPhase, NoWait, WaitDie

`TwoPhase` has what the two protocols share: the index, the read/write set, the steps
of an operation, commit and abort; `NoWait` adds the reader-writer lock and `WaitDie`
the WaitDie lock with each lock function as one step. The instance covers inserts with
next-key locks, removes with the deleted Value left locked (NoWait) or detached
(WaitDie), scans, upserts and upgrades. `leaked` records a next-key lock that
`NOT_INSERTED` (nowait.hpp:107, waitdie.hpp:122) returns without releasing.

### MVTO

Version chains with read and write timestamps, leaf timestamps for scans, the pending
versions of precommit, abort with a new timestamp, the pruning of chains by the bounds
a transaction got when it began, and the garbage lists of Values. The bounds are what the
manager publishes: when a transaction begins, its worker has the pair of counts it had
before or the one the manager computes from the counts of that moment. With `Assumed` the
smaller bound is in addition never above a transaction that runs or will run, which the
code intends and `mvto_bounds` shows it does not reach; nothing is assumed of the larger.

Because the larger bound may be old, a Value can be deallocated while a transaction above
it still has a pointer: what holds is `ValueGracePeriod`. To lock such a Value
(`lock_deallocated`) is undefined behaviour, where the model ends. The version of a leaf is
loaded before its keys are visited, which is Masstree's promise.

### RowRegion, Serval

`RowRegion` has the operators of `row_region.hpp`: the sorted per-core arrays, the
core and transaction bitmaps (as sets), `append`, `identify_visible_version`,
`pop_final_state`. `NumCore` stands for both the number of cores and of transactions
per core, which are 64 in the code: the serial id of the execution phase,
`i * 64 + core`, covers every transaction only when they are equal.

`Serval` has the state of a row (`Value`), the heap of versions and, per core, the
program counter in `append_pending_version`, `read` or `upsert`. The initialization
phase is followed step by step: `epoch_guard` with its two checks around `try_lock`,
`initialize_the_row`, then the append to the global array under the lock, or the wait
for a region, its installation and the migration of the global array, or the append to
the core's own array. In the execution phase a write stores the record and then the
status; a read determines the visible version and waits for it. A transaction chooses
its rows when it gets there, which covers every workload. `writes` and `final` are
history variables.

### EpochRows, Caracal, ServalRC

`EpochRows` is what the two other deterministic engines share: the phases, the versions
and `upsert`. `Caracal` has the row buffers (a spare buffer per core, installation by
the first core that finds the row locked, slices, batch append of a full slice and at
the end of the phase) and `minor_gc`; `ServalRC` the write and read bitmaps,
placeholders, reference counts and the choice of the next master version. A critical
section under the row lock is one step. `Bitmap` appears as the set of its ones, with
the operations of `bitmap.hpp` over positions. The history variable `carried` of
`ServalRC` holds the writes that were carried out: a read with no write before it in its
epoch gets the newest of them (`ReadsInSerialOrder`). That this is the last write of the
earlier epochs does not hold, see `serval_rc_final` under Findings.

### Naive, TPCC

`Naive` has the lock table (`wait`, `notify_one`, late and spurious wakeups), the write
set with its states per key, and the tables as one function from keys to records.

The tables of customers and orders have a secondary table that keeps the address a record
had when it was inserted. `update_record` stores the new record elsewhere and the old one
goes to a cache of the thread, which hands its memory out again, drops the oldest entry
above a limit, and is destroyed with the thread. `memory` says for each of the two tables
what such an address may hold: the record itself (`own`), any record of the table (`any`), or
nothing any more (`freed`). `cache` is the number of entries per thread. The history table
belongs to the thread as well and goes with it (`exit`).

`TPCC` has the loader and the five transactions, each a sequence of protocol calls with
the inputs chosen where they are used, the retry loop, and aborts at any call. Money is
counted in units; what is counted (next order id, order lines, year-to-date amounts,
stock, deliveries) is kept, because the consistency conditions are about it, and the 16
and 32-bit counters wrap around (`U16`, `U32`). Every lookup of a transaction may miss,
and a miss is FAIL, which `kill` calls a bug: the warehouse, district, customer, items
and stock of NewOrder, a last name nobody in the district has (`nullptr`), and the rest
(`LookupsSucceed`). Only a district without new orders is skipped. A search by last name
follows the address in the secondary table. If the memory is freed the behaviour is
undefined and the model ends there (`FollowFreed`). The search for the oldest new order
reads the key of `end()` when it runs off the table; in libstdc++'s `std::map` that is
the number of nodes, below the bits of district and warehouse, so that the comparison
with the district fails (`lower_bound`). `system_abort` stands for the abort of any
protocol: Naive itself never enables its `random_abort`. TPC-C is checked over Naive,
where it is serial; for the other protocols serializability carries the conditions over.

## Runs

| Run | Instance | Shows |
|---|---|---|
| `waitdie_lock` | 3 transactions, 2 records, 3 operations each | exclusion, direction of waits, no throw, no waiter left behind, every transaction ends |
| `epoch_gc` | 2 workers, 3 epochs, one record or one Value | lag of at most one epoch, records safe, grace period of Values, garbage is freed if transactions end |
| `timestamps` | 2 workers, counts up to 6, synchronising at every count | timestamps increase; bounds stay below all future ones |
| `silo` | 2 transactions of 2 operations, 2 loaded keys and a missing one, 2 epochs | serializable in the order of the serial points, TIDs above those read, locks have owners, no cycle of waits, nothing left behind |
| `locking` | NoWait and WaitDie, 2 transactions of 2 operations, 3 keys and the sentinel | serializable in commit order, counts and owner lists match the read/write sets, no cycle of waits, nothing left behind |
| `locking_phantom` | a scan and an insert into its range | *violation*, see Findings |
| `mvto` | 2 workers with 2 transactions each, 2 keys in 2 leaves | serializable in timestamp order; no version or record freed from under a running transaction, grace period of Values |
| `mvto_bounds` | 3 transactions, the published bounds | *violation*, see Findings |
| `serval` | barrier: 3 children, 5 barriers; engine: 2 cores, 1 row, 3 epochs | `PhaseBarrier` is implemented and everyone passes; reads in serial order, no version lost or freed early, every core finishes |
| `epoch_rows` | Caracal and Serval with reference counts, 2 cores, 2 rows, 2 epochs | the same, reference counts, only old versions freed |
| `serval_rc_final` | the same | *violation*, see Findings |
| `tpcc` | 2 threads, 1 warehouse, 2 districts, 2 customers, 1 item, 3 transactions, 1 abort | consistency conditions for orders, money and stock, every lookup succeeds and freed memory is followed only after a thread has ended, no lost wakeup |

The sizes are between a few thousand and 640,000 distinct states. Deadlock is checked in
all passing runs; a system that has finished stutters (`Joined`, `Stop` and the like).

*Bounds.* Three transactions are the least with a cycle of waits through two records and
an upgrader among several owners. Three epochs are the least for a collected object to be
freed (two after the tag), and in Serval for an array of a region to be skipped for one
epoch and used in the next. Two cores are enough for every race in Serval, since each is
between a core that holds the row lock, or has just released it, and one that does not.
In Caracal all four transactions of an epoch may use one row, which fills a slice, makes
two cores race for the installation of a buffer and leaves a spare one for another row.
Two transactions are the least for lost updates, write skew, phantoms and for an insert
that meets a delete; which operations each of them draws from is chosen so that all pairs
of conflicting kinds occur. In MVTO a worker needs a second transaction to prune what the
first left behind. In `timestamps` six counts let a worker take a timestamp, abort once
and abort again on top of a count taken over from the other. `epoch_gc` starts the
uninitialised epochs from the two extreme values only; the proofs take all of them. In
`tpcc` one item with a stock just above the refill threshold makes lines of one order meet
the boundary, two districts make Delivery skip one, counters of 2 and 3 bits wrap around
within the transactions of the run, and the caches hold as many records as one Delivery
returns, the least the code needs (30 for 10 districts there). The threads are
interchangeable and declared symmetric. Every bound is a constant or a guard in the module
(`MaxOps`, `MaxEpoch`, `Rounds`, `MaxCnt`, `MaxTx`, `MaxAborts`).

*Fairness.* Liveness assumes that threads are scheduled, as operating system threads
pinned to cores are: weak fairness of every thread in `serval` and `epoch_gc`
(the epoch manager included), and of the system as a whole in `waitdie_lock` and
`epoch_rows`, where spinning takes no step. For the WaitDie lock this includes that a
transaction ends after finitely many operations, and for the collector that workers keep
beginning transactions until the benchmark stops; that their retries come to an end is not
fairness but the condition of `Reclaimed`. A spinning `try_lock` needs no more
than this: a row lock is held for a bounded number of steps per append, and a core
appends finitely often in a phase. Silo, NoWait, MVTO and TPC-C assume no fairness: their
runs state what waits on whom (`NoWaitCycle`, `WaiterIsWoken`) and check for deadlock.

## Findings

*Shown by a run.*

* `locking_phantom`: docs/PROTOCOLS.md:38 says of the next-key lock that it prevents
  "inserts into the range of concurrent range queries", and README.md:7 promises phantom
  protection in all protocols. Scans of NoWait and WaitDie (nowait.hpp:296,
  waitdie.hpp:327) lock the keys they find, after a snapshot of the index, and not the key
  behind the range: an insert behind the last of them succeeds while the scanner runs.
* `mvto_bounds`: `get_smallest_ts` (timestamp_manager.hpp:129) puts the id of the asking
  worker into the published count. Among workers with equal counts this is above the
  timestamp of a running transaction, whose version `gc_version_chain` then frees.
  Aborts, which skip counts, and `synchronize` raise counts above running transactions too.
* `serval_rc_final`: rw_bitmaps.hpp:73 says "if my_txid is final state, update master".
  `is_final_state` clears the bitmaps whatever it returns (112): the first write executed on
  a row without readers makes the later ones unknown, and if it is not the final one the
  final one is dropped. On a row with readers a last write that nobody reads has no
  placeholder and is dropped too. A read of the next epoch gets an older version.

*Met while modelling.* The models contain these behaviours unless it says otherwise.

* Serval, serval.hpp:95: a row that nobody writes in the epoch is read from `master_`, "the
  final state in one previous epoch" (91-92). The master is replaced by the next append
  only: a row written in one epoch and just read in the next is read as it was before.
  `ReadsInSerialOrder` is about rows written in the epoch.
* Serval, row_region.hpp:208: the array of a core accepts a 64th version (check at 199) and
  then asserts that it has fewer than 64. The 64 regions are never returned, and the throw for
  a missing one leaves the row locked (330). The serial ids of the two phases agree only if
  every core runs 64 transactions (ycsb_serval.cpp:56), and the parent of the barrier is worker
  63 (95).
* Serval with reference counts: placeholders other than the last are leaked
  (rw_bitmaps.hpp:218), and `read` returns the record after it has decremented the count
  (serval_rc.hpp:112-113).
* Caracal, row_buffer.hpp:228-232: `fetch_new_buffer` throws with its lock held.
* NoWait and WaitDie: `insert` unlocks the next key unconditionally (nowait.hpp:113, 232;
  waitdie.hpp:128, 255). If the transaction had locked that key itself, its lock is gone.
  The instance of `locking` excludes it: a transaction does not touch the key behind one
  that it inserts. `NOT_INSERTED` keeps the next key locked for ever (nowait.hpp:107,
  waitdie.hpp:122). WaitDie scans throw on a key the transaction has deleted (354, 438),
  and reverse scans throw always.
* MVTO: `remove` of a key the transaction has updated leaves an UPDATE entry without a
  record (mvto.hpp:575-579), of a key it has inserted a dangling iterator (583), and of one it
  has removed throws (586); `insert` and `upsert` over its own removal return null, and
  scans throw there (416, 501). `point` excludes these sequences. Scans do not return own
  inserts. The comparator of the sort uses `<=`. Flags and records of versions are read
  after the Value is unlocked.
* Naive: the secondary tables keep the address a record had at insertion
  (database.hpp:21-82) and `update_record` (324-329) replaces the record, against
  docs/TPC-C.md. The model lets searches by them return any record of the table; the
  consistency conditions hold nevertheless. When a thread ends its cache is destroyed
  (cache.hpp:54) and the addresses dangle, also for the threads that still run; the
  history records it has inserted are gone with its thread-local table
  (database.hpp:160-165), so that `MoneyConsistent` compares them only while all threads
  run. The caches never reach the limit of cache.hpp:26, because a transaction returns at
  most as many records as it took or as a Delivery replaces.
  `get_neworder_with_smallest_key_no_less_than` (transaction.hpp:153-161) dereferences the
  end of the table when there is no such key, and `Stock::deep_copy_from`
  (record_layout.cpp:77) copies 4 bytes of the district informations. In `kill`, FAIL is a
  bug and not an abort.
* TPC-C: with one warehouse a line chosen as remote still counts as remote in
  `s_remote_cnt`.

## Proofs

All theorems are for arbitrary constants under the assumptions of the modules, which TLC
evaluates on the instances: finite sets of children and any schedule of barriers whose
consecutive types differ; any set of natural timestamps and any set of records; any number
of workers and epochs, any disjoint sets of records and Values; any finite sets of
transactions, keys and operations; any number of threads. Each invariant was checked with
TLC on a small instance before its proof.

* `RendezvousBarrier_proofs`. `IInv` adds that a child is at the parent's barrier or one step
  ahead (`ChildNearParent`), that `start_` is the type opened last (`StartIsLastOpened`), and
  where the parent is in the schedule. The counter equals the number of children minus the
  arrivals; the reset is safe since no child can decrement between the counter reaching zero
  and the new `start_`. `BarrierRefinement` maps the program counters to the arrivals of
  `PhaseBarrier` and shows that every step is one of its steps or a stutter.
* `WaitDieLock_proofs`. `IInv` relates the lists to the program counters: who is queued, with
  which mode (`Queued`, `WaitMode`), who has been granted and has not noticed (`GrantMode`),
  and that in shared mode all owners hold shared or wait to upgrade (`SharedMode`).
  `WaitDieOrder` needs it through every iteration of `promote_waiters`: the front is the
  youngest waiter, so that those behind it are older than the new owner. `NoWaiterForgotten`
  says that whenever the latch is free no waiter could be promoted.
* `EpochManager_proofs`. `EpochInv`: an epoch loaded by `begin_tx` is between the worker's and
  the global one (`LoadedBetween`), and the minimum of a scan bounds the epochs of the workers
  it has passed (`Scanned`). The manager increments only if every worker it saw was at the
  global epoch, and epochs of workers never decrease.
* `EpochGC_proofs`. `GCInv` adds that a running transaction saw at most one epoch change
  (`EpochHeldBack`, through the scan: `ScanSince`), who has locked and inserted what
  (`LocksHeld`), that the holders of a locked record began by the commit epoch of its locker
  (`SerialCovers`), and those of a collected record by its tag (`TagCovers`).
* `TimestampManager_proofs`. `TSInv` adds that what `synchronize` is about to store is above
  the worker's count (`SeenAbove`), the count above its last timestamp (`CountAbove`), and the
  minimum of a scan at most the count of every worker it has passed (`MinimumBelow`). Counts
  never decrease, so that a bound once below a worker's count stays below it.
* `Silo_proofs`. `SiloInv` adds the shapes of words, index and entries and, while a
  transaction locks its write set, that it has locked exactly the keys below those it still
  has to lock. `LockBits`: a lock bit is set just when one transaction counts on it.
  `NoDeadlock`: whoever waits for somebody who waits, waits at a smaller key, so the one at
  the largest key waits for nobody in the set (by well-foundedness on finite sets of keys).
* `TPCC_proofs`. `LockInv` relates the lock table to the program counters of the threads.
  `Serial`: one transaction at a time, also when `wait` returns late or without reason.
  `WakeUps`: `notify_one` is enough. `StockRange`: `modify_stock` stays between 10 and 101, and
  its counters below their widths, whatever these are.

*Only model-checked.* Liveness under fairness (`AllFinish`, `Reclaimed`), which is outside
the prover. Serval, Caracal and ServalRC: their operators are folds and recursive functions
over sorted arrays and bitmaps, and what these compute for every input needs induction over
data. NoWait and WaitDie as transactions: their properties do not hold for arbitrary
operations (see Findings), only for those of the instance; the lock under WaitDie is proved.
Serializability of Silo (`ImplementsSerialDB`), `TidsFollowReads` and `NothingLeftBehind`:
of Silo only the locks are proved. MVTO, whose reclamation is safe only under the assumption
on its bounds. The consistency conditions of TPC-C, which are sums over tables.

## Not modelled

The index is external: Masstree is a submodule. The models use that it finds what was
inserted, scans in key order and changes the version of a leaf when a key enters or leaves.
YCSB is covered by letting transactions read and write any rows. Adapters, schema,
allocator, statistics, NUMA placement, argument parsing and scripts have no concurrent
state. `major_gc` and
`finalize_batch_append_non_optimized` of Caracal (no callers), and
`protocols/serval_rc/serval`, a copy nothing includes, are left out. The bit operations of
`Bitmap` are sets of positions. Constants such as 64 cores and slots are scaled down.
