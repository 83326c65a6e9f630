-------------------------------- MODULE Naive --------------------------------
(***************************************************************************)
(* The naive protocol: protocols/naive.  One lock around every transaction *)
(* and a write set that is applied to the tables at commit.                *)
(*                                                                         *)
(* The tables are one function from keys to records; a key is a tuple that *)
(* starts with the name of its table.  History has no key: its records are *)
(* numbered in the deque of their thread.  finish_insert, finish_update    *)
(* and finish_delete do nothing, so an operation is its prepare.           *)
(*                                                                         *)
(* The memory of a record comes from a cache of its thread and goes back   *)
(* to it.  That matters for the two tables with a secondary table, whose   *)
(* entries keep the address a record had when it was loaded or inserted:   *)
(* update_record replaces the record, and from then on the memory behind   *)
(* an entry may hold any record of the table, or be freed.                 *)
(***************************************************************************)
EXTENDS Integers, FiniteSetsExt, TLC

CONSTANTS Thread,
          CacheLimit  \* n of RecordMemoryCache, 30

VARIABLES db,        \* the tables of Database
          ws,        \* ws[t]: the write set of t, key -> [lt, rec]
          lock_var,  \* of LockTable
          cond,      \* cond[t]: "out", "waiting" in cond_var.wait, "woken" from it,
                     \* or "in": t is between lock and unlock
          cache,     \* cache[t][r]: the records in the RecordMemoryCache of t for table r
          memory     \* memory[r]: the entries of the secondary table of r lead to their
                     \* records ("own"), to any ("any"), or perhaps nowhere ("freed")

naiveVars == <<db, ws, lock_var, cond, cache, memory>>

\* the tables with a secondary table
HasSecondary == {"customer", "order"}

EmptySet == [k \in {} |-> {}]

NaiveTypeOK ==
    /\ \A t \in Thread : \A k \in DOMAIN ws[t] : ws[t][k].lt \in {"INSERT", "UPDATE", "DELETE"}
    /\ lock_var \in {0, 1}
    /\ cond \in [Thread -> {"out", "waiting", "woken", "in"}]
    /\ cache \in [Thread -> [HasSecondary -> 0..CacheLimit]]
    /\ memory \in [HasSecondary -> {"own", "any", "freed"}]

NaiveInit(loaded) ==
    /\ db = loaded
    /\ ws = [t \in Thread |-> EmptySet]
    /\ lock_var = 0
    /\ cond = [t \in Thread |-> "out"]
    /\ cache = [t \in Thread |-> [r \in HasSecondary |-> 0]]
    /\ memory = [r \in HasSecondary |-> "own"]

-----------------------------------------------------------------------------
\* Deliberately wrong variants of the definitions below.
M_unlock(t) ==                             \* notifies nobody
    /\ lock_var' = 0
    /\ cond' = [cond EXCEPT ![t] = "out"]

M_allocate(size, n) == size                \* every record is a new one

-----------------------------------------------------------------------------
(***************************************************************************)
(* ConcurrencyManager and LockTable.  A single thread skips the lock,     *)
(* which it would always get.                                              *)
(***************************************************************************)
\* the while loop of lock, from its start or from a return of wait
TryLock(t) ==
    IF lock_var = 1
    THEN /\ cond' = [cond EXCEPT ![t] = "waiting"]
         /\ UNCHANGED lock_var
    ELSE /\ cond' = [cond EXCEPT ![t] = "in"]
         /\ lock_var' = 1

lock(t) == cond[t] = "out" /\ TryLock(t)

wake_up(t) == cond[t] = "woken" /\ TryLock(t)

unlock(t) ==
    /\ lock_var' = 0
    /\ IF \E u \in Thread : cond[u] = "waiting"
       THEN \E u \in Thread : /\ cond[u] = "waiting"
                              /\ cond' = [cond EXCEPT ![t] = "out", ![u] = "woken"]
       ELSE cond' = [cond EXCEPT ![t] = "out"]

\* wait may return without a notification
spurious_wake_up(t) ==
    /\ cond[t] = "waiting"
    /\ cond' = [cond EXCEPT ![t] = "woken"]
    /\ UNCHANGED lock_var

(***************************************************************************)
(* WriteSet: what the operations make of write set s.  Each throws where   *)
(* its Can... is false.                                                    *)
(***************************************************************************)
LogType(s, k) == IF k \in DOMAIN s THEN s[k].lt ELSE "NONE"

CanUpdate(s, k) == IF LogType(s, k) = "NONE" THEN k \in DOMAIN db ELSE LogType(s, k) # "DELETE"
CanInsert(s, k) == LogType(s, k) \in {"NONE", "DELETE"}
CanDelete(s, k) == CanUpdate(s, k)

\* the copy that apply_update_to_writeset returns
Copy(s, k) == IF LogType(s, k) = "NONE" THEN db[k] ELSE s[k].rec

Log(s, k, lt, rec) == (k :> [lt |-> lt, rec |-> rec]) @@ s

apply_update_to_writeset(s, k, rec) ==
    Log(s, k, IF LogType(s, k) = "INSERT" THEN "INSERT" ELSE "UPDATE", rec)

apply_insert_to_writeset(s, k, rec) ==
    Log(s, k, IF LogType(s, k) = "DELETE" THEN "UPDATE" ELSE "INSERT", rec)

apply_delete_to_writeset(s, k) ==
    IF LogType(s, k) = "INSERT" THEN [j \in DOMAIN s \ {k} |-> s[j]] ELSE Log(s, k, "DELETE", {})

\* try_emplace leaves a record alone that is there already
apply_to_database(s) ==
    LET Logged(lt) == {k \in DOMAIN s : s[k].lt = lt}
        new == Logged("INSERT") \ DOMAIN db
    IN  [k \in (DOMAIN db \cup new) \ Logged("DELETE") |->
            IF k \in new \cup Logged("UPDATE") THEN s[k].rec ELSE db[k]]

(***************************************************************************)
(* RecordMemoryCache: its size after n calls.  An empty cache makes a new  *)
(* record, a full one frees its oldest.                                    *)
(***************************************************************************)
allocate(size, n) == IF n <= size THEN size - n ELSE 0

deallocate(size, n) == Min({size + n, CacheLimit})

\* At the end of a transaction of t: every log record had its memory from the
\* cache, and memory for those of the types lts goes back to it.
recycle(t, lts, memoryOf) ==
    LET Logged(r, types) == Cardinality({k \in DOMAIN ws[t] : k[1] = r /\ ws[t][k].lt \in types})
        Rest(r) == allocate(cache[t][r], Logged(r, {"INSERT", "UPDATE", "DELETE"}))
        Full(r) == Rest(r) + Logged(r, lts) > CacheLimit
    IN  /\ cache' = [cache EXCEPT ![t] = [r \in HasSecondary |->
                                             deallocate(Rest(r), Logged(r, lts))]]
        /\ memory' = [r \in HasSecondary |->
                         IF Full(r) /\ memoryOf[r] # "own" THEN "freed" ELSE memoryOf[r]]

(***************************************************************************)
(* Transaction                                                             *)
(***************************************************************************)
\* update_record puts the old record into the cache, and insert_record nothing
commit(t) ==
    LET Updates(r) == \E k \in DOMAIN ws[t] : k[1] = r /\ ws[t][k].lt = "UPDATE"
    IN  /\ db' = apply_to_database(ws[t])
        /\ ws' = [ws EXCEPT ![t] = EmptySet]
        /\ recycle(t, {"UPDATE"}, [r \in HasSecondary |->
                                     IF memory[r] = "own" /\ Updates(r) THEN "any" ELSE memory[r]])

\* clear_all puts the new records into the cache
abort(t) ==
    /\ ws' = [ws EXCEPT ![t] = EmptySet]
    /\ recycle(t, {"INSERT", "UPDATE", "DELETE"}, memory)

\* The end of thread t: its Cache and its deque of History are thread_local.
exit(t) ==
    /\ db' = [k \in {k \in DOMAIN db : ~(k[1] = "history" /\ k[2] = t)} |-> db[k]]
    /\ cache' = [cache EXCEPT ![t] = [r \in HasSecondary |-> 0]]
    /\ memory' = [r \in HasSecondary |->
                     IF cache[t][r] > 0 /\ memory[r] # "own" THEN "freed" ELSE memory[r]]

-----------------------------------------------------------------------------
\* LockTable: at most one thread is between lock and unlock, also when wait
\* returns late or without a notification.
OneAtATime == \A t, u \in Thread : cond[t] = "in" /\ cond[u] = "in" => t = u

\* LockTable: unlock notifies one thread only, and that one may find the lock
\* taken again by a thread that came later.  Still, as long as the lock is free, a
\* thread waits only if another one is on its way out of wait.
WaiterIsWoken ==
    lock_var = 0 /\ (\E t \in Thread : cond[t] = "waiting") => \E u \in Thread : cond[u] = "woken"
=============================================================================
