---------------------------------- MODULE Silo ----------------------------------
(***************************************************************************)
(* Transactions of Silo (protocols/silo): optimistic reads of Values found *)
(* through the index, inserts that enter the index at once but unreadable, *)
(* and a commit that locks the write set, loads the epoch, validates the   *)
(* read set and the node set, and writes.                                  *)
(*                                                                         *)
(* A step is an access to shared memory.  Memory reclamation is in EpochGC *)
(* and the movement of the epoch in EpochManager; here it just grows.      *)
(***************************************************************************)
EXTENDS Serializability, FiniteSetsExt, Functions

CONSTANTS Ops,      \* the operations each transaction may call: [Tx -> SUBSET Op]
          Args,     \* the keys they are called with: [Op -> SUBSET Key]
          Ranges,   \* the arguments of scans
          MaxOps,   \* bound: operations of each transaction: [Tx -> Nat]
          MaxEpoch  \* bound: how far the epoch moves

Op == {"read", "insert", "update", "write", "upsert", "remove", "read_scan", "update_scan"}

ASSUME SiloAssumption ==
    /\ Key \subseteq Nat \ {0} /\ IsFiniteSet(Key)
    /\ Ops \in [Tx -> SUBSET Op] /\ MaxOps \in [Tx -> Nat] /\ Args \in [Op -> SUBSET Key]
    /\ Ranges \subseteq [lkey : Nat, rkey : Nat, count : Nat \cup {-1}, reverse : BOOLEAN]

\* The memory a Value of the index lives in: it was loaded (0) or inserted by
\* a transaction, which inserts a key at most once.
Value == (Tx \cup {0}) \X Key
NoValue == <<0, 0>>

\* tidword of a Value that insert has just placed in the index
Inserted == [epoch |-> 0, tid |-> 0, lock |-> FALSE, latest |-> TRUE, absent |-> TRUE]

is_readable(tw) == ~tw.absent /\ tw.latest

is_valid(current, expect) ==
    current.epoch = expect.epoch /\ current.tid = expect.tid /\ is_readable(current)

VARIABLES epoch,    \* the global epoch
          index,    \* the Value of each key, or NoValue
          version,  \* version of the leaf node that holds the keys
          word,     \* Value::tidword
          rec,      \* Value::rec, as the transaction that wrote it
          pc,       \* where a transaction is
          ops,      \* how many operations it has called
          op,       \* the operation it executes
          todo,     \* the keys and Values the operation, or the phase of
                    \* precommit or abort, has still to visit
          expected, \* the word get_record_pointer has loaded
          rws,      \* the read and write set: from keys to entries
          node,     \* the leaf's version in the node set (0: not there)
          commit,   \* epoch and tid of commit_tw
          seen,     \* history: what the transaction has read
          serial,   \* history: the order of the serial points, as a set of pairs
          log       \* history: committed transactions

shared == <<epoch, index, version, word, rec>>
local == <<pc, ops, op, todo, expected, rws, node, commit>>
vars == <<shared, local, seen, serial, log>>

\* the committed transactions in the order of their serial points
Order == {p \in serial : p[1] \in DOMAIN log /\ p[2] \in DOMAIN log}

DB == INSTANCE SerialDB WITH order <- Order

-----------------------------------------------------------------------------
(***************************************************************************)
(* The read and write set.  For each operation: the type of the entry it   *)
(* leaves, given the type it finds; "abort" when it returns nullptr.       *)
(***************************************************************************)
read(old)   == CASE old = "NONE" -> "READ" [] old = "DELETE" -> "abort" [] OTHER -> old
insert(old) == CASE old = "NONE" -> "INSERT" [] old = "DELETE" -> "UPDATE" [] OTHER -> "abort"
update(old) == CASE old \in {"NONE", "READ"} -> "UPDATE" [] old = "DELETE" -> "abort" [] OTHER -> old
write(old)  == CASE old = "NONE" -> "INSERT" [] old = "INSERT" -> old [] OTHER -> "UPDATE"
upsert(old) == IF old = "INSERT" THEN old ELSE "UPDATE"
remove(old) == IF old = "DELETE" THEN "abort" ELSE "DELETE"

Result(o, old) == CASE o \in {"read", "read_scan"} -> read(old)
                    [] o = "insert" -> insert(old)
                    [] o \in {"update", "update_scan"} -> update(old)
                    [] o = "write" -> write(old)
                    [] o = "upsert" -> upsert(old)
                    [] o = "remove" -> remove(old)

Type(t, k) == IF k \in DOMAIN rws[t] THEN rws[t][k].rwt ELSE "NONE"
Vals(t, K) == [k \in K |-> rws[t][k].val]
WriteSet(t) == {k \in DOMAIN rws[t] : rws[t][k].rwt # "READ"}
NewKeys(t) == {k \in DOMAIN rws[t] : rws[t][k].new}
Put(f, k, x) == [j \in DOMAIN f \cup {k} |-> IF j = k THEN x ELSE f[j]]
Rest(t, k) == [todo EXCEPT ![t] = Restrict(@, DOMAIN @ \ {k})]
First(t) == Min(DOMAIN todo[t])
At(t, p) == pc[t] = p
Goto(t, p) == pc' = [pc EXCEPT ![t] = p]
Bigger(m, n) == IF m < n THEN n ELSE m

Init ==
    /\ epoch = 1
    /\ index = [k \in Key |-> IF k \in Loaded THEN <<0, k>> ELSE NoValue]
    /\ version = 1
    /\ word = [v \in Value |-> IF v[1] = 0 /\ v[2] \in Loaded
                               THEN [Inserted EXCEPT !.absent = FALSE] ELSE Inserted]
    /\ rec = [v \in Value |-> IF v[1] = 0 /\ v[2] \in Loaded THEN 0 ELSE Absent]
    /\ pc = [t \in Tx |-> "run"]
    /\ ops = [t \in Tx |-> 0]
    /\ op = [t \in Tx |-> "none"]
    /\ todo = [t \in Tx |-> << >>]
    /\ expected = [t \in Tx |-> Inserted]
    /\ rws = [t \in Tx |-> << >>]
    /\ node = [t \in Tx |-> 0]
    /\ commit = [t \in Tx |-> [epoch |-> 0, tid |-> 0]]
    /\ seen = [t \in Tx |-> {}]
    /\ serial = {}
    /\ log = << >>

\* an operation returns
Return(t) ==
    /\ op' = [op EXCEPT ![t] = "none"]
    /\ expected' = [expected EXCEPT ![t] = Inserted]

\* return nullptr: the adapters then call abort, which visits the new Values
Fail(t) ==
    /\ Return(t)
    /\ Goto(t, "abort")
    /\ todo' = [todo EXCEPT ![t] = Vals(t, NewKeys(t))]

Call(t, o) ==
    /\ At(t, "run") /\ ops[t] < MaxOps[t] /\ o \in Ops[t]
    /\ ops' = [ops EXCEPT ![t] = @ + 1]
    /\ UNCHANGED <<shared, rws, commit, serial, log>>

Start(t, o, next) ==
    /\ op' = [op EXCEPT ![t] = o]
    /\ Goto(t, next)
    /\ UNCHANGED expected

\* the first access of an operation on one key: the read and write set, then idx.find
find(t, o, k) ==
    /\ Call(t, o) /\ k \in Args[o]
    /\ LET own == k \in DOMAIN rws[t]
           found == index[k] # NoValue
       IN  \/ /\ own \/ (found /\ o # "insert")
              /\ Start(t, o, "load")
              /\ todo' = [todo EXCEPT ![t] = Put(<< >>, k, IF own THEN rws[t][k].val ELSE index[k])]
           \/ /\ ~own /\ ~found /\ o \in {"insert", "write", "upsert"}
              /\ Start(t, o, "insert")
              /\ todo' = [todo EXCEPT ![t] = Put(<< >>, k, <<t, k>>)]
           \/ /\ ~own /\ (found <=> o = "insert") /\ o \notin {"write", "upsert"}
              /\ Fail(t)
    /\ UNCHANGED <<node, seen>>

\* idx.insert of a new Value with the node set: OK, BAD_INSERT or NOT_INSERTED
insert_new(t) ==
    /\ At(t, "insert")
    /\ LET k == First(t)
           bad == node[t] \notin {0, version}
       IN  \/ /\ index[k] # NoValue
              /\ Fail(t)
              /\ UNCHANGED <<index, version, rws, node, seen>>
           \/ /\ index[k] = NoValue
              /\ index' = [index EXCEPT ![k] = <<t, k>>]
              /\ version' = version + 1
              /\ rws' = [rws EXCEPT ![t] = Put(@, k, [val |-> <<t, k>>, tw |-> Inserted,
                                                      rwt |-> "INSERT", new |-> TRUE])]
              /\ node' = [node EXCEPT ![t] = IF @ = version THEN version + 1 ELSE @]
              /\ seen' = [seen EXCEPT ![t] = IF op[t] = "insert" THEN @ \cup {<<k, Absent>>} ELSE @]
              /\ Return(t)
              /\ Goto(t, IF bad THEN "abort" ELSE "run")
              /\ todo' = [todo EXCEPT ![t] = IF bad THEN Put(Vals(t, NewKeys(t)), k, <<t, k>>)
                                                  ELSE << >>]
    /\ UNCHANGED <<epoch, word, rec, ops, commit, serial, log>>

\* the keys a scan visits, and those whose absence it has established on the way
InRange(r) == {k \in Key : IF r.reverse THEN r.lkey < k /\ k <= r.rkey
                                        ELSE r.lkey <= k /\ k < r.rkey}
Before(r, j, k) == IF r.reverse THEN j > k ELSE j < k
Hits(r) == {k \in InRange(r) : /\ index[k] # NoValue
                               /\ r.count = -1 \/ r.count > Cardinality(
                                      {j \in InRange(r) : index[j] # NoValue /\ Before(r, j, k)})}
Misses(r) == {k \in InRange(r) : /\ index[k] = NoValue
                                 /\ \/ r.count = -1 \/ Cardinality(Hits(r)) < r.count
                                    \/ \E j \in Hits(r) : Before(r, k, j)}

\* idx.get_kv_in_range and get_kv_in_rev_range with the node set
scan(t, o, r) ==
    /\ Call(t, o) /\ o \in {"read_scan", "update_scan"}
    /\ IF node[t] \notin {0, version}
       THEN Fail(t) /\ UNCHANGED <<node, seen>>                          \* BAD_SCAN
       ELSE /\ node' = [node EXCEPT ![t] = version]
            /\ IF Hits(r) = {} THEN Return(t) /\ UNCHANGED pc ELSE Start(t, o, "load")
            /\ todo' = [todo EXCEPT ![t] = [k \in Hits(r) |-> index[k]]]
            /\ seen' = [seen EXCEPT ![t] = @ \cup (Misses(r) \X {Absent})]

\* get_record_pointer and copy_record: load the word until it is unlocked
load(t) ==
    /\ At(t, "load")
    /\ LET k == First(t)
           v == IF k \in DOMAIN rws[t] THEN rws[t][k].val ELSE todo[t][k]
       IN  IF Result(op[t], Type(t, k)) = "abort"
           THEN Fail(t)
           ELSE /\ ~word[v].lock
                /\ expected' = [expected EXCEPT ![t] = word[v]]
                /\ Goto(t, "access")
                /\ UNCHANGED <<op, todo>>
    /\ UNCHANGED <<shared, ops, rws, node, commit, seen, serial, log>>

\* load the record and the word again; done when the word is the same
access(t) ==
    /\ At(t, "access")
    /\ LET k == First(t)
           old == Type(t, k)
           v == IF old = "NONE" THEN todo[t][k] ELSE rws[t][k].val
           tw == word[v]
           entry == IF old = "NONE"
                    THEN [val |-> v, tw |-> tw, rwt |-> Result(op[t], old), new |-> FALSE]
                    ELSE [rws[t][k] EXCEPT !.rwt = Result(op[t], old)]
       IN  \/ /\ tw # expected[t]
              /\ Goto(t, IF tw.lock THEN "load" ELSE "access")
              /\ expected' = [expected EXCEPT ![t] = IF tw.lock THEN @ ELSE tw]
              /\ UNCHANGED <<op, todo, rws, seen>>
           \/ /\ tw = expected[t]
              /\ IF old = "NONE" THEN ~is_readable(tw) ELSE tw # rws[t][k].tw
              /\ Fail(t)
              /\ UNCHANGED <<rws, seen>>
           \/ /\ tw = expected[t]
              /\ IF old = "NONE" THEN is_readable(tw) ELSE tw = rws[t][k].tw
              /\ rws' = [rws EXCEPT ![t] = Put(@, k, entry)]
              /\ seen' = [seen EXCEPT ![t] =
                     IF old = "READ" \/ (old = "NONE" /\ op[t] \notin {"write", "upsert"})
                     THEN @ \cup {<<k, rec[v]>>} ELSE @]
              /\ todo' = Rest(t, k)
              /\ IF DOMAIN todo[t] = {k} THEN Return(t) /\ Goto(t, "run")
                 ELSE Goto(t, "load") /\ UNCHANGED <<op, expected>>
    /\ UNCHANGED <<shared, ops, node, commit, serial, log>>

-----------------------------------------------------------------------------
\* Deliberately wrong variants of the definitions below.
M_next_lock(t) ==                          \* not sorted: two orders of the keys
    IF t % 2 = 0 THEN Max(DOMAIN todo[t]) ELSE Min(DOMAIN todo[t])
M_locked_until(t, k) == WriteSet(t) \ DOMAIN todo[t]    \* not the last one
M_max_tid(t, tw) == commit[t].tid          \* ignores the tids of both sets
M_invalid(t, k) == ~is_valid(word[todo[t][k]], rws[t][k].tw)

M_abort_insert(t, k) ==                    \* marks the Value and leaves it in the index
    /\ At(t, "abort") /\ k \in DOMAIN todo[t]
    /\ ~word[todo[t][k]].lock
    /\ word' = [word EXCEPT ![todo[t][k]].absent = TRUE, ![todo[t][k]].latest = FALSE]
    /\ todo' = Rest(t, k)
    /\ UNCHANGED <<epoch, index, version, rec, pc, ops, op, expected, rws, node, commit,
                   seen, serial, log>>

-----------------------------------------------------------------------------
(***************************************************************************)
(* precommit                                                               *)
(***************************************************************************)
precommit(t) ==
    /\ At(t, "run")
    /\ Goto(t, "lock")
    /\ todo' = [todo EXCEPT ![t] = Vals(t, WriteSet(t))]
    /\ UNCHANGED <<shared, ops, op, expected, rws, node, commit, seen, serial, log>>

next_lock(t) == First(t)                   \* the write set is sorted
locked_until(t, k) == (WriteSet(t) \ DOMAIN todo[t]) \cup {k}
max_tid(t, tw) == Bigger(commit[t].tid, tw.tid)

\* phase 1, in the order of the keys
lock(t) ==
    /\ At(t, "lock") /\ todo[t] # << >>
    /\ LET k == next_lock(t)
           v == todo[t][k]
       IN  /\ ~word[v].lock
           /\ word' = [word EXCEPT ![v].lock = TRUE]
           /\ IF ~rws[t][k].new /\ ~is_readable(word[v])
              THEN /\ Goto(t, "unlock")
                   /\ todo' = [todo EXCEPT ![t] = Vals(t, locked_until(t, k))]
                   /\ UNCHANGED commit
              ELSE /\ commit' = [commit EXCEPT ![t].tid = max_tid(t, word[v])]
                   /\ todo' = Rest(t, k)
                   /\ UNCHANGED pc
    /\ UNCHANGED <<epoch, index, version, rec, ops, op, expected, rws, node, seen, serial, log>>

\* those that are past their serial point, except for the ones that fail
Passed == {t \in Tx : pc[t] \in {"validate", "write", "store", "unlink", "committed"}}

serial_point(t) ==
    /\ At(t, "lock") /\ todo[t] = << >>
    /\ commit' = [commit EXCEPT ![t].epoch = epoch]
    /\ serial' = serial \cup (Passed \X {t})
    /\ Goto(t, "validate")
    /\ todo' = [todo EXCEPT ![t] = Vals(t, {k \in DOMAIN rws[t] : rws[t][k].rwt # "INSERT"})]
    /\ UNCHANGED <<shared, ops, op, expected, rws, node, seen, log>>

unlock_writeset(t) ==
    /\ Goto(t, "unlock")
    /\ todo' = [todo EXCEPT ![t] = Vals(t, WriteSet(t))]

\* phase 2.1, in the order of a hash table
invalid(t, k) == \/ ~is_valid(word[todo[t][k]], rws[t][k].tw)
                 \/ word[todo[t][k]].lock /\ rws[t][k].rwt = "READ"

validate(t, k) ==
    /\ At(t, "validate") /\ k \in DOMAIN todo[t]
    /\ IF invalid(t, k)
       THEN unlock_writeset(t) /\ UNCHANGED commit
       ELSE /\ commit' = [commit EXCEPT ![t].tid = max_tid(t, word[todo[t][k]])]
            /\ todo' = Rest(t, k)
            /\ UNCHANGED pc
    /\ UNCHANGED <<shared, ops, op, expected, rws, node, seen, serial, log>>

\* what t makes of its write set
Committed(t) ==
    [reads |-> seen[t],
     writes |-> [k \in WriteSet(t) |-> IF rws[t][k].rwt = "DELETE" THEN Absent ELSE t]]

\* The leaf is as it was when it entered the node set.
node_unchanged(t) == node[t] \in {0, version}

\* the commit tid and phase 2.2; from here on the transaction has committed
validate_nodes(t) ==
    /\ At(t, "validate") /\ todo[t] = << >>
    /\ commit' = [commit EXCEPT ![t].tid = @ + 1]
    /\ IF ~node_unchanged(t)
       THEN unlock_writeset(t) /\ UNCHANGED log
       ELSE /\ log' = Put(log, t, Committed(t))
            /\ Goto(t, "write")
            /\ todo' = [todo EXCEPT ![t] = Vals(t, WriteSet(t))]
    /\ UNCHANGED <<shared, ops, op, expected, rws, node, seen, serial>>

\* phase 3: exchange the record, store the word (which unlocks), and remove a
\* deleted key from the index
exchange_rec(t) ==
    /\ At(t, "write") /\ todo[t] # << >>
    /\ rec' = [rec EXCEPT ![todo[t][First(t)]] = log[t].writes[First(t)]]
    /\ Goto(t, "store")
    /\ UNCHANGED <<epoch, index, version, word, ops, op, todo, expected, rws, node, commit,
                   seen, serial, log>>

store_word(t) ==
    /\ At(t, "store")
    /\ LET k == First(t)
           deleted == rws[t][k].rwt = "DELETE"
       IN  /\ word' = [word EXCEPT ![todo[t][k]] =
                  [epoch |-> commit[t].epoch, tid |-> commit[t].tid, lock |-> FALSE,
                   latest |-> ~deleted, absent |-> deleted]]
           /\ Goto(t, IF deleted THEN "unlink" ELSE "write")
           /\ todo' = IF deleted THEN todo ELSE Rest(t, k)
    /\ UNCHANGED <<epoch, index, version, rec, ops, op, expected, rws, node, commit,
                   seen, serial, log>>

\* idx.remove
remove_key(k) ==
    /\ index' = [index EXCEPT ![k] = NoValue]
    /\ version' = IF index[k] = NoValue THEN version ELSE version + 1

unlink(t) ==
    /\ At(t, "unlink")
    /\ remove_key(First(t))
    /\ todo' = Rest(t, First(t))
    /\ Goto(t, "write")
    /\ UNCHANGED <<epoch, word, rec, ops, op, expected, rws, node, commit, seen, serial, log>>

\* The transaction object is destroyed with its sets.
Forget(t) ==
    /\ ops' = [ops EXCEPT ![t] = MaxOps[t]]
    /\ rws' = [rws EXCEPT ![t] = << >>]
    /\ node' = [node EXCEPT ![t] = 0]
    /\ seen' = [seen EXCEPT ![t] = {}]

committed(t) ==
    /\ At(t, "write") /\ todo[t] = << >>
    /\ Goto(t, "committed")
    /\ Forget(t)
    /\ UNCHANGED <<shared, op, todo, expected, commit, serial, log>>

-----------------------------------------------------------------------------
\* unlock_writeset, one Value after the other
unlock(t) ==
    /\ At(t, "unlock")
    /\ IF todo[t] = << >>
       THEN Fail(t) /\ UNCHANGED word
       ELSE /\ word' = [word EXCEPT ![todo[t][First(t)]].lock = FALSE]
            /\ todo' = Rest(t, First(t))
            /\ UNCHANGED <<pc, op, expected>>
    /\ UNCHANGED <<epoch, index, version, rec, ops, rws, node, commit,
                   seen, serial, log>>

\* the benchmark aborts
user_abort(t) ==
    /\ At(t, "run")
    /\ Fail(t)
    /\ UNCHANGED <<shared, ops, rws, node, commit, seen, serial, log>>

\* abort: a failed insert is marked and leaves the index
abort_insert(t, k) ==
    /\ At(t, "abort") /\ k \in DOMAIN todo[t]
    /\ LET v == todo[t][k]
       IN  \/ /\ ~word[v].lock /\ word[v].latest
              /\ word' = [word EXCEPT ![v].absent = TRUE, ![v].latest = FALSE]
              /\ UNCHANGED <<index, version, todo>>
           \/ /\ ~word[v].latest
              /\ remove_key(k)
              /\ todo' = Rest(t, k)
              /\ UNCHANGED word
    /\ UNCHANGED <<epoch, rec, pc, ops, op, expected, rws, node, commit, seen, serial, log>>

aborted(t) ==
    /\ At(t, "abort") /\ todo[t] = << >>
    /\ Goto(t, "aborted")
    /\ Forget(t)
    /\ commit' = [commit EXCEPT ![t] = [epoch |-> 0, tid |-> 0]]
    /\ UNCHANGED <<shared, op, todo, expected, serial, log>>

AdvanceEpoch ==
    /\ epoch < MaxEpoch
    /\ epoch' = epoch + 1
    /\ UNCHANGED <<index, version, word, rec, local, seen, serial, log>>

Step(t) ==
    \/ \E o \in Op, k \in Key : find(t, o, k)
    \/ \E o \in Op, r \in Ranges : scan(t, o, r)
    \/ insert_new(t) \/ load(t) \/ access(t)
    \/ precommit(t) \/ lock(t) \/ serial_point(t) \/ validate_nodes(t)
    \/ \E k \in Key : validate(t, k) \/ abort_insert(t, k)
    \/ exchange_rec(t) \/ store_word(t) \/ unlink(t) \/ committed(t)
    \/ unlock(t) \/ user_abort(t) \/ aborted(t)

Finished == \A t \in Tx : pc[t] \in {"committed", "aborted"}
Stop == Finished /\ epoch = MaxEpoch /\ UNCHANGED vars

Next == (\E t \in Tx : Step(t)) \/ AdvanceEpoch \/ Stop

Spec == Init /\ [][Next]_vars

-----------------------------------------------------------------------------
(***************************************************************************)
(* Serializable, and in the order in which the transactions load the epoch *)
(* (the serial point of precommit, between locking and validation).        *)
(***************************************************************************)
ImplementsSerialDB == DB!Spec

\* The tid of a transaction is bigger than those of what it read.
TidsFollowReads ==
    \A t \in DOMAIN log : \A r \in log[t].reads :
        r[2] \in DOMAIN log => \/ commit[r[2]].epoch < commit[t].epoch
                               \/ commit[r[2]].epoch = commit[t].epoch /\ commit[r[2]].tid < commit[t].tid

\* When nobody runs, the index has just the keys of the committed state, all
\* readable and unlocked: neither a failed insert nor a lock is left behind.
NothingLeftBehind ==
    Finished => \A k \in Key :
        LET v == index[k]
        IN  IF v = NoValue THEN Leaves(log, Order, DOMAIN log, k, Absent)
            ELSE /\ Leaves(log, Order, DOMAIN log, k, rec[v])
                 /\ is_readable(word[v]) /\ ~word[v].lock

\* the Values t has locked in precommit and not unlocked yet
Locked(t) ==
    CASE pc[t] = "lock" -> Range(Vals(t, WriteSet(t) \ DOMAIN todo[t]))
      [] pc[t] = "validate" -> Range(Vals(t, WriteSet(t)))
      [] pc[t] \in {"write", "store", "unlock"} -> Range(todo[t])
      [] pc[t] = "unlink" -> Range(Restrict(todo[t], DOMAIN todo[t] \ {First(t)}))
      [] OTHER -> {}

\* A lock bit is set exactly as long as one transaction, and only one, counts on it.
LocksAreHeld ==
    \A v \in Value : /\ word[v].lock <=> \E t \in Tx : v \in Locked(t)
                     /\ \A t, u \in Tx : v \in Locked(t) /\ v \in Locked(u) => t = u

WaitsFor(t, u) == At(t, "lock") /\ todo[t] # << >> /\ todo[t][next_lock(t)] \in Locked(u)

\* The transactions that spin for a lock never wait for one another: some
\* transaction can always go on, although the locks have no timeout.
NoWaitCycle == ~ \E S \in (SUBSET Tx) \ {{}} : \A t \in S : \E u \in S : WaitsFor(t, u)
=============================================================================
