--------------------------------- MODULE WaitDie ---------------------------------
(***************************************************************************)
(* Transactions of WaitDie (protocols/waitdie).  A transaction is its      *)
(* timestamp.  The lock is the one of module WaitDieLock, whose functions  *)
(* run under a latch; here each of them is one step: it grants, refuses,   *)
(* throws, or makes the transaction wait until an unlock promotes it.      *)
(*                                                                         *)
(* Deleted Values are unlocked, with rec = nullptr: whoever locks a Value  *)
(* checks that it is not detached.                                         *)
(***************************************************************************)
EXTENDS TwoPhase

\* waiters: from waiting transactions to what they wait for (S, E or U)
Init == InitWith([op |-> "I", owners |-> {}, waiters |-> << >>])

\* the Value that t waits for or has just been given
Wanted(t) == IF pc[t] \in {"lock_next", "wait_next"} THEN next[t] ELSE todo[t][First(t)]

-----------------------------------------------------------------------------
\* Deliberately wrong variants of the definitions below.
M_is_detached(v) == FALSE
M_Unlocked(l, t) ==                        \* forgets to promote
    [l EXCEPT !.owners = @ \ {t}, !.op = IF l.owners = {t} THEN "I" ELSE @]

-----------------------------------------------------------------------------
(***************************************************************************)
(* The lock.                                                               *)
(***************************************************************************)
grants(l, t, m) == CASE m = "S" -> l.op \in {"I", "S"} /\ l.waiters = << >>
                     [] m = "E" -> l.op = "I" /\ l.waiters = << >>
                     [] m = "U" -> l.op = "S" /\ l.owners = {t}
                     [] m = "N" -> TRUE

\* when the request is queued
waits(l, t, m) == CASE m = "U" -> l.op = "S" /\ Min(l.owners) = t /\ l.owners # {t}
                    [] m = "N" -> FALSE
                    [] OTHER -> ~grants(l, t, m) /\ \A o \in l.owners : t < o

Granted(l, t, m) ==
    CASE m = "S" -> [l EXCEPT !.op = "S", !.owners = @ \cup {t}]
      [] m = "N" -> l
      [] OTHER -> [l EXCEPT !.op = "E", !.owners = @ \cup {t}]

\* promote_waiters: the front of the list is the youngest
promote_waiters(l) ==
    LET W == DOMAIN l.waiters
        front == Max(W)
        mode == l.waiters[front]
        readers == {w \in W : \A u \in W : w <= u => l.waiters[u] = "S"}
        Pop(ws) == Restrict(l.waiters, W \ ws)
    IN  CASE W = {} -> l
          [] W # {} /\ mode = "S" /\ l.op \in {"I", "S"} ->
                 [op |-> "S", owners |-> l.owners \cup readers, waiters |-> Pop(readers)]
          [] W # {} /\ mode = "E" /\ l.op = "I" ->
                 [op |-> "E", owners |-> {front}, waiters |-> Pop({front})]
          [] W # {} /\ mode = "U" /\ l.op = "S" /\ Cardinality(l.owners) = 1 ->
                 [op |-> "E", owners |-> l.owners, waiters |-> Pop({front})]
          [] OTHER -> l

\* unlock and unlock_shared, of a lock that t owns
Unlocked(l, t) ==
    promote_waiters([l EXCEPT !.owners = @ \ {t}, !.op = IF l.owners = {t} THEN "I" ELSE @])

Owns(l, t, m) == t \in l.owners /\ l.op = m

-----------------------------------------------------------------------------
\* an exception: nobody catches it
Throw(t) == Goto(t, "thrown") /\ UNCHANGED <<op, todo, left, next>>

is_detached(v) == rec[v] = Absent

read(t, k) == point(t, "read", k)
insert(t, k) == point(t, "insert", k)
update(t, k) == point(t, "update", k)
upsert(t, k) == point(t, "upsert", k)
remove(t, k) == point(t, "remove", k)
read_scan(t, r) == range(t, "read_scan", r)
update_scan(t, r) == range(t, "update_scan", r)

\* k's Value is locked; l is its lock.  A detached one is unlocked again.
Check(t, k, l) ==
    LET v == todo[t][k]
    IN  IF Type(t, k) # "NONE" \/ ~is_detached(v)
        THEN lock' = [lock EXCEPT ![v] = l] /\ Access(t, k)
        ELSE /\ lock' = [lock EXCEPT ![v] = Unlocked(l, t)]
             /\ UNCHANGED rws
             /\ IF op[t] \in {"read_scan", "update_scan"}
                THEN /\ seen' = [seen EXCEPT ![t] = @ \cup {<<k, Absent>>} \cup
                            Passed(t, IF Visits(t) = {k} THEN Sentinel ELSE k)]
                     /\ IF Visits(t) = {k} THEN Return(t)
                        ELSE todo' = Rest(t, k) /\ Goto(t, "lock") /\ UNCHANGED <<op, left, next>>
                ELSE Fail(t) /\ UNCHANGED seen

\* wait in the list of v
Enqueue(t, v, m, p) ==
    /\ lock' = [lock EXCEPT ![v].waiters = @ @@ (t :> m)]
    /\ Goto(t, p)
    /\ UNCHANGED <<op, todo, left, next>>

\* The waiting of t for v is over.
Promoted(t, v) == t \notin DOMAIN lock[v].waiters

access(t) ==
    /\ At(t, "lock")
    /\ LET k == First(t)
           v == todo[t][k]
           m == Mode(op[t], Type(t, k))
           deleted == Result(op[t], Type(t, k)) = "abort"     \* only in a scan
       IN  \/ ~deleted /\ grants(lock[v], t, m) /\ Check(t, k, Granted(lock[v], t, m))
           \/ ~deleted /\ waits(lock[v], t, m) /\ Enqueue(t, v, m, "wait") /\ UNCHANGED <<rws, seen>>
           \/ /\ deleted \/ ~(grants(lock[v], t, m) \/ waits(lock[v], t, m))
              /\ IF deleted \/ (m = "U" /\ lock[v].op # "S") THEN Throw(t) ELSE Fail(t)
              /\ UNCHANGED <<lock, rws, seen>>
    /\ UNCHANGED <<index, rec, ops, leaked, serial, log>>

resume(t) ==
    /\ At(t, "wait") /\ Promoted(t, Wanted(t))
    /\ Check(t, First(t), lock[Wanted(t)])
    /\ UNCHANGED <<index, rec, ops, leaked, serial, log>>

lock_next(t) ==
    /\ At(t, "lock_next")
    /\ LET v == next[t]
           m == NextMode(t)
       IN  \/ /\ grants(lock[v], t, m)
              /\ lock' = [lock EXCEPT ![v] = Granted(@, t, m)]
              /\ Goto(t, "insert")
              /\ UNCHANGED <<op, todo, left, next>>
           \/ waits(lock[v], t, m) /\ Enqueue(t, v, m, "wait_next")
           \/ /\ ~grants(lock[v], t, m) /\ ~waits(lock[v], t, m)
              /\ IF m = "U" /\ lock[v].op # "S" THEN Throw(t) ELSE Fail(t)
              /\ UNCHANGED lock
    /\ UNCHANGED <<index, rec, ops, rws, seen, leaked, serial, log>>

resume_next(t) ==
    /\ At(t, "wait_next") /\ Promoted(t, next[t])
    /\ Goto(t, "insert")
    /\ UNCHANGED <<index, lock, rec, ops, op, todo, left, next, rws, seen, leaked, serial, log>>

\* idx.insert of a locked Value; NOT_INSERTED leaves the next key locked
insert_new(t) ==
    /\ At(t, "insert")
    /\ LET k == First(t)
       IN  \/ /\ index[k] = NoValue
              /\ index' = [index EXCEPT ![k] = <<t, k>>]
              /\ lock' = [lock EXCEPT ![<<t, k>>] = Granted(@, t, "E")]
              /\ rws' = [rws EXCEPT ![t] = @ @@ (k :> [val |-> <<t, k>>, rwt |-> "INSERT", new |-> TRUE])]
              /\ seen' = [seen EXCEPT ![t] = IF op[t] = "insert" THEN @ \cup {<<k, Absent>>} ELSE @]
              /\ Goto(t, "unlock_next")
              /\ UNCHANGED <<op, todo, left, next, leaked>>
           \/ /\ index[k] # NoValue
              /\ leaked' = leaked \cup {<<t, next[t]>>}
              /\ Fail(t)
              /\ UNCHANGED <<index, lock, rws, seen>>
    /\ UNCHANGED <<rec, ops, serial, log>>

unlock_next(t) ==
    /\ At(t, "unlock_next")
    /\ IF Owns(lock[next[t]], t, "E")
       THEN lock' = [lock EXCEPT ![next[t]] = Unlocked(@, t)] /\ Return(t)
       ELSE Throw(t) /\ UNCHANGED lock
    /\ UNCHANGED <<index, rec, ops, rws, seen, leaked, serial, log>>

\* an unlock of precommit or abort, and the next entry
UnlockEntry(t, k) ==
    LET v == todo[t][k]
    IN  IF Owns(lock[v], t, IF rws[t][k].rwt = "READ" THEN "S" ELSE "E")
        THEN /\ lock' = [lock EXCEPT ![v] = Unlocked(@, t)]
             /\ todo' = Rest(t, k)
             /\ UNCHANGED <<pc, op, left, next>>
        ELSE Throw(t) /\ UNCHANGED lock

release(t, k) ==
    /\ At(t, "release") /\ k \in DOMAIN todo[t]
    /\ UnlockEntry(t, k)
    /\ UNCHANGED <<index, rec, ops, rws, seen, leaked, serial, log>>

\* a deleted or a new key is removed from the index before it is unlocked
remove_key(t, k) ==
    /\ At(t, "write") \/ At(t, "abort")
    /\ k \in DOMAIN todo[t] /\ index[k] = todo[t][k]
    /\ IF At(t, "write") THEN rws[t][k].rwt = "DELETE" ELSE rws[t][k].new
    /\ index' = [index EXCEPT ![k] = NoValue]
    /\ UNCHANGED <<lock, rec, pc, ops, op, todo, left, next, rws, seen, leaked, serial, log>>

\* exchange the record and unlock
write(t, k) ==
    /\ At(t, "write") /\ k \in DOMAIN todo[t]
    /\ rws[t][k].rwt = "DELETE" => index[k] # todo[t][k]
    /\ rec' = [rec EXCEPT ![todo[t][k]] = log[t].writes[k]]
    /\ UnlockEntry(t, k)
    /\ UNCHANGED <<index, ops, rws, seen, leaked, serial, log>>

abort_entry(t, k) ==
    /\ At(t, "abort") /\ k \in DOMAIN todo[t]
    /\ rws[t][k].new => index[k] # todo[t][k]
    /\ UnlockEntry(t, k)
    /\ UNCHANGED <<index, rec, ops, rws, seen, leaked, serial, log>>

Step(t) ==
    \/ \E k \in Key : read(t, k) \/ insert(t, k) \/ update(t, k) \/ upsert(t, k) \/ remove(t, k)
    \/ \E r \in Ranges : read_scan(t, r) \/ update_scan(t, r)
    \/ access(t) \/ resume(t)
    \/ get_next_kv(t) \/ lock_next(t) \/ resume_next(t) \/ insert_new(t) \/ unlock_next(t)
    \/ precommit(t) \/ begin_writes(t) \/ user_abort(t) \/ finish(t)
    \/ \E k \in Key : release(t, k) \/ remove_key(t, k) \/ write(t, k) \/ abort_entry(t, k)

Next == (\E t \in Tx : Step(t)) \/ Stop

Spec == Init /\ [][Next]_vars

-----------------------------------------------------------------------------
(***************************************************************************)
(* The owners of a lock are the transactions that count on it, and the one *)
(* that writes is alone, also while transactions that were promoted have   *)
(* not yet noticed.  The one exception is the next key of an insert that   *)
(* finds the key taken after all: it is never unlocked.                    *)
(***************************************************************************)
OwnersMatchSets ==
    \A v \in Value :
        /\ lock[v].owners = {t \in Tx : \/ v \in Writing(t) \cup Reading(t) \/ <<t, v>> \in leaked
                                        \/ pc[t] \in {"wait", "wait_next"} /\ Wanted(t) = v /\ Promoted(t, v)}
        /\ \A t \in Tx : v \in Writing(t) => lock[v].owners = {t} /\ lock[v].op = "E"

WaitsFor(t, u) == /\ pc[t] \in {"wait", "wait_next"} /\ ~Promoted(t, Wanted(t))
                  /\ u \in lock[Wanted(t)].owners \ {t}

\* The transactions that wait, for records or for next keys, never wait for
\* one another, and each waits for somebody.
NoWaitCycle ==
    /\ ~ \E S \in (SUBSET Tx) \ {{}} : \A t \in S : \E u \in S : WaitsFor(t, u)
    /\ \A t \in Tx : pc[t] \in {"wait", "wait_next"} =>
                        Promoted(t, Wanted(t)) \/ \E u \in Tx : WaitsFor(t, u)
=============================================================================
