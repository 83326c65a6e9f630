--------------------------------- MODULE NoWait ---------------------------------
(***************************************************************************)
(* Transactions of NoWait (protocols/nowait) over the reader-writer lock   *)
(* of protocols/common/readwritelock.hpp: a transaction that cannot have a *)
(* lock at once aborts.  The lock of a deleted Value is never released, so *)
(* that nobody who still finds it can use it.                              *)
(***************************************************************************)
EXTENDS TwoPhase

\* RWLock::cnt: the number of readers, or -1
Init == InitWith(0)

-----------------------------------------------------------------------------
\* Deliberately wrong variants of the definitions below.
M_free(v, m) == CASE m = "S" -> lock[v] >= 0 [] m = "E" -> lock[v] = 0 [] m = "U" -> lock[v] >= 1
                  [] m = "N" -> TRUE

M_unlock_shared(v) == lock' = [lock EXCEPT ![v] = @ + 1]

-----------------------------------------------------------------------------
\* when try_lock_shared, try_lock and try_lock_upgrade return true
free(v, m) == CASE m = "S" -> lock[v] >= 0 [] m = "E" -> lock[v] = 0 [] m = "U" -> lock[v] = 1
                [] m = "N" -> TRUE

Take(v, m) == lock' = [lock EXCEPT ![v] = CASE m = "S" -> @ + 1 [] m = "N" -> @ [] OTHER -> -1]
unlock(v) == lock' = [lock EXCEPT ![v] = @ + 1]
unlock_shared(v) == lock' = [lock EXCEPT ![v] = @ - 1]

read(t, k) == point(t, "read", k)
insert(t, k) == point(t, "insert", k)
update(t, k) == point(t, "update", k)
upsert(t, k) == point(t, "upsert", k)
remove(t, k) == point(t, "remove", k)
read_scan(t, r) == range(t, "read_scan", r)
update_scan(t, r) == range(t, "update_scan", r)

\* lock the Value, if the entry does not say that it is locked already
access(t) ==
    /\ At(t, "lock")
    /\ LET k == First(t)
           m == Mode(op[t], Type(t, k))
       IN  IF Result(op[t], Type(t, k)) = "abort" \/ ~free(todo[t][k], m)
           THEN Fail(t) /\ UNCHANGED <<lock, rws, seen>>
           ELSE Take(todo[t][k], m) /\ Access(t, k)
    /\ UNCHANGED <<index, rec, ops, leaked, serial, log>>

lock_next(t) ==
    /\ At(t, "lock_next")
    /\ IF free(next[t], NextMode(t))
       THEN Take(next[t], NextMode(t)) /\ Goto(t, "insert") /\ UNCHANGED <<op, todo, left, next>>
       ELSE Fail(t) /\ UNCHANGED lock
    /\ UNCHANGED <<index, rec, ops, rws, seen, leaked, serial, log>>

\* idx.insert of a locked Value; NOT_INSERTED leaves the next key locked
insert_new(t) ==
    /\ At(t, "insert")
    /\ LET k == First(t)
       IN  \/ /\ index[k] = NoValue
              /\ index' = [index EXCEPT ![k] = <<t, k>>]
              /\ Take(<<t, k>>, "E")
              /\ rws' = [rws EXCEPT ![t] = @ @@ (k :> [val |-> <<t, k>>, rwt |-> "INSERT", new |-> TRUE])]
              /\ seen' = [seen EXCEPT ![t] = IF op[t] = "insert" THEN @ \cup {<<k, Absent>>} ELSE @]
              /\ Goto(t, "unlock_next")
              /\ UNCHANGED <<op, todo, left, next, leaked>>
           \/ /\ index[k] # NoValue
              /\ leaked' = leaked \cup {<<t, next[t]>>}
              /\ Fail(t)
              /\ UNCHANGED <<index, lock, rws, seen>>
    /\ UNCHANGED <<rec, ops, serial, log>>

unlock_next(t) ==
    /\ At(t, "unlock_next")
    /\ unlock(next[t])
    /\ Return(t)
    /\ UNCHANGED <<index, rec, ops, rws, seen, leaked, serial, log>>

release(t, k) ==
    /\ At(t, "release") /\ k \in DOMAIN todo[t]
    /\ unlock_shared(todo[t][k])
    /\ todo' = Rest(t, k)
    /\ UNCHANGED <<index, rec, pc, ops, op, left, next, rws, seen, leaked, serial, log>>

\* exchange the record and unlock, or remove the key
write(t, k) ==
    /\ At(t, "write") /\ k \in DOMAIN todo[t]
    /\ IF rws[t][k].rwt = "DELETE"
       THEN index' = [index EXCEPT ![k] = NoValue] /\ UNCHANGED <<lock, rec>>
       ELSE rec' = [rec EXCEPT ![todo[t][k]] = t] /\ unlock(todo[t][k]) /\ UNCHANGED index
    /\ todo' = Rest(t, k)
    /\ UNCHANGED <<pc, ops, op, left, next, rws, seen, leaked, serial, log>>

\* a new Value leaves the index and stays locked, the others are unlocked
abort_entry(t, k) ==
    /\ At(t, "abort") /\ k \in DOMAIN todo[t]
    /\ CASE rws[t][k].new -> index' = [index EXCEPT ![k] = NoValue] /\ UNCHANGED lock
         [] ~rws[t][k].new /\ rws[t][k].rwt = "READ" -> unlock_shared(todo[t][k]) /\ UNCHANGED index
         [] OTHER -> unlock(todo[t][k]) /\ UNCHANGED index
    /\ todo' = Rest(t, k)
    /\ UNCHANGED <<rec, pc, ops, op, left, next, rws, seen, leaked, serial, log>>

Step(t) ==
    \/ \E k \in Key : read(t, k) \/ insert(t, k) \/ update(t, k) \/ upsert(t, k) \/ remove(t, k)
    \/ \E r \in Ranges : read_scan(t, r) \/ update_scan(t, r)
    \/ access(t) \/ get_next_kv(t) \/ lock_next(t) \/ insert_new(t) \/ unlock_next(t)
    \/ precommit(t) \/ begin_writes(t) \/ user_abort(t) \/ finish(t)
    \/ \E k \in Key : release(t, k) \/ write(t, k) \/ abort_entry(t, k)

Next == (\E t \in Tx : Step(t)) \/ Stop

Spec == Init /\ [][Next]_vars

(***************************************************************************)
(* The count of a lock is what the transactions believe: -1 for one that   *)
(* writes, else the number of readers.  It stays so through upgrades, the  *)
(* unlocking of next keys, commits and aborts; a Value that is no longer   *)
(* in the index stays locked.  The one exception is the next key of an     *)
(* insert that finds the key taken after all: it stays locked for ever.    *)
(***************************************************************************)
CountsMatchSets ==
    \A v \in Value :
        IF v \in Range(index)
        THEN /\ \A t, u \in Tx : v \in Writing(t) => t = u \/ v \notin Writing(u) \cup Reading(u)
             /\ lock[v] = IF \E t \in Tx : v \in Writing(t) \/ <<t, v>> \in leaked THEN -1
                          ELSE Cardinality({t \in Tx : v \in Reading(t)})
        ELSE lock[v] \in {0, -1}
=============================================================================
