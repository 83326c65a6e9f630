---------------------------------- MODULE MVTO ----------------------------------
(***************************************************************************)
(* Multiversion timestamp ordering (protocols/mvto) with the reclamation   *)
(* of versions and Values by the bounds of the timestamp manager.  A       *)
(* transaction is its timestamp: it reads the newest versions not above    *)
(* it, leaves the timestamp on what it has read and on the leaves it has   *)
(* scanned, and commits only when nobody above it has been there.          *)
(*                                                                         *)
(* An aborted transaction goes on as the next one of its worker: set_new_ts*)
(* gives it a new timestamp and new bounds.  (After an abort by the user   *)
(* the next one does nothing but end.)                                     *)
(*                                                                         *)
(* The bounds are stale: the manager collects them now and then.  A Value  *)
(* can be deallocated while a transaction above the largest timestamp that *)
(* was published still points to it.  To lock such a Value is undefined    *)
(* behaviour, and the model ends there.                                    *)
(***************************************************************************)
EXTENDS Serializability, FiniteSetsExt, SequencesExt

CONSTANTS Ops,      \* the operations each transaction may call: [Tx -> SUBSET Op]
          Args,     \* the keys they are called with: [Op -> SUBSET Key]
          Ranges,   \* the arguments of scans
          MaxOps,   \* bound: operations of each transaction: [Tx -> Nat]
          Leaf,     \* the leaf node of each key: [Key -> Nat]
          Ids,      \* how many worker ids there are: a timestamp is cnt * Ids + id
          Assumed   \* TRUE: smallest_ts is never above a transaction that runs or will run

Op == {"read", "insert", "update", "upsert", "remove", "read_scan", "update_scan"}

ASSUME MVTOAssumption ==
    /\ Ops \in [Tx -> SUBSET Op] /\ Args \in [Op -> SUBSET Key] /\ MaxOps \in [Tx -> Nat]
    /\ Key \subseteq Nat /\ Leaf \in [Key -> Nat] /\ \A j, k \in Key : j < k => Leaf[j] <= Leaf[k]
    /\ Ranges \subseteq [lkey : Nat, rkey : Nat, count : Nat \cup {-1}, rev : BOOLEAN]
    /\ Ids \in Nat \ {0} /\ Assumed \in BOOLEAN

\* The Values in memory: loaded (0), or allocated by a transaction.
Value == (Tx \cup {0}) \X Key
NoValue == <<0, 0>>
NoRange == [lkey |-> 0, rkey |-> 0, count |-> 0, rev |-> FALSE]

VARIABLES index,    \* the Value of each key, or NoValue
          chain,    \* Value::version and its predecessors, newest first; << >> is nullptr
          owner,    \* who holds Value::rwl (0: nobody)
          leaf_ts,  \* the timestamp of each leaf node
          pc, ops,  \* where a transaction is, how many operations it has called
          op, range, cursor,     \* the operation it executes; the key it has come to
          val,      \* the Value it has found
          todo,     \* the keys of the write set it has still to visit in precommit
          rws,      \* the read and write set: from keys to entries
          txn_cnts, \* smallest_txn_cnt and largest_txn_cnt of each worker, as loaded last
          temp_gc_map, gc_map,   \* GarbageCollector, for each worker: pairs of timestamp and Value
          freed,    \* the pairs it has deallocated
          seen, log \* history: what a transaction has read; the committed ones

data == <<index, chain, owner, leaf_ts>>
gc == <<temp_gc_map, gc_map, freed>>
vars == <<data, gc, pc, ops, op, range, cursor, val, todo, rws, txn_cnts, seen, log>>

\* the committed transactions in the order of their timestamps
TimestampOrder == {p \in (DOMAIN log) \X (DOMAIN log) : p[1] < p[2]}

DB == INSTANCE SerialDB WITH order <- TimestampOrder

Worker(t) == t % Ids
Goto(t, p) == pc' = [pc EXCEPT ![t] = p]
Ended(t) == pc[t] \in {"committed", "aborted"}
Undefined == \E t \in Tx : pc[t] = "undefined"
At(t, p) == pc[t] = p /\ ~Undefined
Running == {t \in Tx : pc[t] # "new" /\ ~Ended(t)}
Workers == {Worker(t) : t \in Tx}
Type(t, k) == IF k \in DOMAIN rws[t] THEN rws[t][k].rwt ELSE "NONE"
NewEntry(v, type, new, read) == [val |-> v, rwt |-> type, new |-> new, read |-> read]
WriteSet(t) == {k \in DOMAIN rws[t] : rws[t][k].rwt # "READ"}
Set(f, t, x) == [f EXCEPT ![t] = x]

Init ==
    /\ index = [k \in Key |-> IF k \in Loaded THEN <<0, k>> ELSE NoValue]
    /\ chain = [v \in Value |-> IF v[1] = 0 /\ v[2] \in Loaded
                                THEN <<[wts |-> 0, rts |-> 0, deleted |-> FALSE]>> ELSE << >>]
    /\ owner = [v \in Value |-> 0]
    /\ leaf_ts = [l \in {Leaf[k] : k \in Key} |-> 0]
    /\ pc = [t \in Tx |-> "new"] /\ ops = [t \in Tx |-> 0]
    /\ op = [t \in Tx |-> "none"] /\ range = [t \in Tx |-> NoRange] /\ cursor = [t \in Tx |-> 0]
    /\ val = [t \in Tx |-> NoValue]
    /\ todo = [t \in Tx |-> {}]
    /\ rws = [t \in Tx |-> << >>]
    /\ txn_cnts = [w \in Workers |-> [smallest |-> 1, largest |-> 1]]
    /\ temp_gc_map = [w \in Workers |-> {}] /\ gc_map = [w \in Workers |-> {}] /\ freed = {}
    /\ seen = [t \in Tx |-> {}] /\ log = << >>

-----------------------------------------------------------------------------
(***************************************************************************)
(* The bounds.  The manager publishes the smallest of the counts less one, *)
(* and the largest; a count is that of the worker's next timestamp.  A     *)
(* transaction loads what is published now, or what its worker had before. *)
(***************************************************************************)
txn_cnt(w) == 1 + Max({0} \cup {t \div Ids : t \in {u \in Tx : Worker(u) = w /\ pc[u] # "new"}})
get_ts(cnt, w) == cnt * Ids + w

get_gc_txn_cnt ==
    LET cnts == {txn_cnt(w) : w \in Workers} IN [smallest |-> Min(cnts) - 1, largest |-> Max(cnts)]

smallest_ts(t) == get_ts(txn_cnts[Worker(t)].smallest, Worker(t))
largest_ts(t) == get_ts(txn_cnts[Worker(t)].largest, Worker(t))

begin(t) ==
    /\ At(t, "new")
    /\ \A u \in Tx : Worker(u) = Worker(t) /\ u < t => Ended(u)
    /\ \E c \in {txn_cnts[Worker(t)], get_gc_txn_cnt} : txn_cnts' = Set(txn_cnts, Worker(t), c)
    /\ Assumed => \A u \in Tx : ~Ended(u) => smallest_ts(t)' <= u
    /\ Goto(t, "run")
    /\ UNCHANGED <<data, gc, ops, op, range, cursor, val, todo, rws, seen, log>>

-----------------------------------------------------------------------------
(***************************************************************************)
(* The version chain of a Value that is locked.                            *)
(***************************************************************************)
\* Deliberately wrong variants of the definitions below.
M_gc_version_chain(c, b) == IF c # << >> /\ Last(c).wts <= b THEN SelectSeq(c, LAMBDA x : x.wts > b) ELSE c
M2_gc_version_chain(c, b) == SubSeq(c, 1, 1)
M_remove_garbage(w, smallest, largest) ==        \* frees without looking at smallest_ts
    /\ freed' = freed \cup {<<largest, x[2]>> : x \in temp_gc_map[w]} \cup gc_map[w]
    /\ temp_gc_map' = Set(temp_gc_map, w, {}) /\ gc_map' = Set(gc_map, w, {})
M_Valid(t, k, head) ==                     \* forgets the readers
    head.wts <= t /\ head.deleted = (rws[t][k].rwt = "INSERT")

\* the newest version with write_ts <= start_ts, as its place in the chain
get_correct_version(c, t) == {i \in 1..Len(c) : c[i].wts <= t /\ \A j \in 1..(i - 1) : c[j].wts > t}

\* keep the versions above the bound b and the newest one that is not
gc_version_chain(c, b) ==
    LET old == {i \in 1..Len(c) : c[i].wts <= b}
    IN  IF old = {} THEN c ELSE SubSeq(c, 1, Min(old))

is_empty(c) == Len(c) = 1 /\ c[1].deleted
update_readts(c, i, t) == [c EXCEPT ![i].rts = Max({@, t})]

collect(t, V) ==
    /\ temp_gc_map' = [temp_gc_map EXCEPT ![Worker(t)] = @ \cup ({largest_ts(t)} \X V)]
    /\ UNCHANGED <<gc_map, freed>>

\* attach_new_ts, then deallocate what is not above smallest_ts
remove_garbage(w, smallest, largest) ==
    LET attached == {x \in temp_gc_map[w] : x[1] <= largest}
        all == gc_map[w] \cup {<<largest, x[2]>> : x \in attached}
        old == {x \in all : x[1] <= smallest}
    IN  /\ temp_gc_map' = [temp_gc_map EXCEPT ![w] = @ \ attached]
        /\ gc_map' = Set(gc_map, w, all \ old)
        /\ freed' = freed \cup old

-----------------------------------------------------------------------------
(***************************************************************************)
(* The type of the entry an operation leaves.  If there is one already:    *)
(***************************************************************************)
own_type(o, old) ==
    CASE o \in {"read", "read_scan"} -> IF old = "DELETE" THEN "abort" ELSE old
      [] o \in {"update", "update_scan", "upsert"} ->
             CASE old = "READ" -> "UPDATE" [] old = "DELETE" -> "abort" [] OTHER -> old
      [] o = "insert" -> "abort"
      [] o = "remove" -> "DELETE"

\* if there is none, and the version it sees is deleted or not, the newest or not
found_type(o, deleted, newest) ==
    CASE o \in {"read", "read_scan"} /\ ~deleted -> "READ"
      [] o \in {"update", "update_scan", "upsert"} /\ ~deleted -> "UPDATE"
      [] o = "remove" /\ ~deleted -> "DELETE"
      [] o \in {"insert", "upsert"} /\ deleted /\ newest -> "INSERT"
      [] OTHER -> "miss"

Scanning(t) == op[t] \in {"read_scan", "update_scan"}

Idle(t) ==
    /\ op' = Set(op, t, "none") /\ range' = Set(range, t, NoRange) /\ cursor' = Set(cursor, t, 0)
    /\ val' = Set(val, t, NoValue) /\ todo' = Set(todo, t, {})

Return(t) == Idle(t) /\ Goto(t, "run")

End(t, p) ==
    /\ Goto(t, p)
    /\ rws' = Set(rws, t, << >>) /\ seen' = Set(seen, t, {})
    /\ ops' = Set(ops, t, 0) /\ UNCHANGED txn_cnts

\* abort: the local Values are deallocated, c is the chains without them
New(t) == {k \in DOMAIN rws[t] : rws[t][k].new}
Abort(t, c) ==
    /\ chain' = [v \in Value |-> IF v \in {t} \X New(t) THEN << >> ELSE c[v]]
    /\ Idle(t) /\ End(t, "aborted")

\* an operation returns nullptr: the adapters abort; a scan goes on
Miss(t, c) ==
    \/ ~Scanning(t) /\ Abort(t, c)
    \/ /\ Scanning(t) /\ Goto(t, "scan")
       /\ chain' = c
       /\ seen' = [seen EXCEPT ![t] = @ \cup {<<cursor[t], Absent>>}]
       /\ val' = Set(val, t, NoValue)
       /\ UNCHANGED <<ops, txn_cnts, op, range, cursor, todo, rws>>

\* an operation has its record; a scan goes on until it has count of them
Hit(t, k) ==
    LET r == range[t]
    IN  IF Scanning(t) /\ r.count # 1
        THEN /\ Goto(t, "scan")
             /\ range' = Set(range, t, IF r.count = -1 THEN r ELSE [r EXCEPT !.count = @ - 1])
             /\ cursor' = Set(cursor, t, k) /\ val' = Set(val, t, NoValue)
             /\ UNCHANGED <<op, todo>>
        ELSE Return(t)

Call(t, o) ==
    /\ At(t, "run") /\ ops[t] < MaxOps[t] /\ o \in Ops[t]
    /\ UNCHANGED <<index, owner, leaf_ts, gc, log>>

Count(t) == ops' = [ops EXCEPT ![t] = @ + 1] /\ UNCHANGED txn_cnts

\* An operation on one key.  The benchmarks do not remove what they have
\* written: that is not supported (the README says what happens).
point(t, o, k) ==
    /\ Call(t, o) /\ k \in Args[o]
    /\ o = "remove" => Type(t, k) \in {"NONE", "READ"}
    /\ LET own == k \in DOMAIN rws[t]
           type == own_type(o, Type(t, k))
           missing == ~own /\ index[k] = NoValue
           new == <<t, k>>
       IN  \/ own /\ type # "abort" /\ rws' = [rws EXCEPT ![t][k].rwt = type]
              /\ Count(t) /\ UNCHANGED <<chain, pc, op, range, cursor, val, todo, seen>>
           \/ (IF own THEN type = "abort" ELSE missing /\ o \notin {"insert", "upsert"}) /\ Abort(t, chain)
           \/ /\ missing /\ o \in {"insert", "upsert"}
              /\ chain' = Set(chain, new, <<[wts |-> t, rts |-> t, deleted |-> FALSE]>>)
              /\ rws' = [rws EXCEPT ![t] = @ @@ (k :> NewEntry(new, "INSERT", TRUE, Absent))]
              /\ seen' = [seen EXCEPT ![t] = IF o = "insert" THEN @ \cup {<<k, Absent>>} ELSE @]
              /\ Count(t) /\ UNCHANGED <<pc, op, range, cursor, val, todo>>
           \/ /\ ~own /\ ~missing
              /\ Goto(t, "access")
              /\ op' = Set(op, t, o) /\ cursor' = Set(cursor, t, k) /\ val' = Set(val, t, index[k])
              /\ Count(t) /\ UNCHANGED <<chain, range, todo, rws, seen>>

\* A scan.  It throws when it meets a key the transaction has removed.
InRange(r) == {k \in Key : IF r.rev THEN r.lkey < k /\ k <= r.rkey ELSE r.lkey <= k /\ k < r.rkey}

start_scan(t, o, r) ==
    /\ Call(t, o)
    /\ \A k \in InRange(r) : Type(t, k) # "DELETE"
    /\ op' = Set(op, t, o) /\ range' = Set(range, t, r)
    /\ cursor' = Set(cursor, t, IF r.rev THEN r.rkey + 1 ELSE r.lkey - 1)
    /\ Goto(t, "scan")
    /\ Count(t) /\ UNCHANGED <<chain, val, todo, rws, seen>>

\* per_node_func
visit_leaf(t, L) == leaf_ts' = [l \in DOMAIN leaf_ts |-> IF l \in L THEN Max({leaf_ts[l], t}) ELSE leaf_ts[l]]

\* the index finds the next key, and visits the leaves on the way to it
scan_next(t) ==
    /\ At(t, "scan")
    /\ LET r == range[t]
           ahead == {k \in Key : IF r.rev THEN k < cursor[t] ELSE k > cursor[t]}
           present == {k \in ahead : index[k] # NoValue}
           next == IF present = {} THEN -1 ELSE IF r.rev THEN Max(present) ELSE Min(present)
           passed == {k \in ahead : next # -1 => IF r.rev THEN k > next ELSE k < next}
           visited == passed \cup ({next} \cap Key)
           more == next \in InRange(r)
           own == more /\ next \in DOMAIN rws[t]
       IN  /\ visit_leaf(t, {Leaf[k] : k \in visited})
           /\ seen' = [seen EXCEPT ![t] = @ \cup ((passed \cap InRange(r)) \X {Absent})]
           /\ \/ ~more /\ Return(t) /\ UNCHANGED rws
              \/ own /\ rws' = [rws EXCEPT ![t][next].rwt = own_type(op[t], @)] /\ Hit(t, next)
              \/ /\ more /\ ~own
                 /\ Goto(t, "access")
                 /\ cursor' = Set(cursor, t, next) /\ val' = Set(val, t, index[next])
                 /\ UNCHANGED <<op, range, todo, rws>>
    /\ UNCHANGED <<index, chain, owner, gc, ops, txn_cnts, log>>

\* the memory of v has been given back
Deallocated(v) == \E x \in freed : x[2] = v

(***************************************************************************)
(* The Value is locked, its chain read and pruned, and unlocked.  Nobody   *)
(* sees it in between.                                                     *)
(***************************************************************************)
access(t) ==
    /\ At(t, "access") /\ ~Deallocated(val[t]) /\ owner[val[t]] = 0
    /\ LET v == val[t]
           k == cursor[t]
           c == chain[v]
           visible == get_correct_version(c, t)
           i == Min(visible)
           read == IF visible = {} THEN c ELSE update_readts(c, i, t)
           pruned == Set(chain, v, gc_version_chain(read, smallest_ts(t)))
           type == IF visible = {} THEN "miss" ELSE found_type(op[t], c[i].deleted, i = 1)
       IN  \/ c = << >> /\ Miss(t, chain) /\ UNCHANGED <<index, gc>>
           \/ /\ c # << >> /\ is_empty(c)         \* delete_from_tree
              /\ index' = Set(index, k, NoValue)
              /\ collect(t, {v})
              /\ Miss(t, Set(chain, v, << >>))
           \/ /\ c # << >> /\ ~is_empty(c) /\ type = "miss"
              /\ Miss(t, pruned)
              /\ UNCHANGED <<index, gc>>
           \/ /\ c # << >> /\ ~is_empty(c) /\ type # "miss"
              /\ chain' = pruned
              /\ LET version == IF c[i].deleted THEN Absent ELSE c[i].wts
                 IN  /\ rws' = [rws EXCEPT ![t] = @ @@ (k :> NewEntry(v, type, FALSE, version))]
                     /\ seen' = [seen EXCEPT ![t] = @ \cup {<<k, version>>}]
              /\ Hit(t, k)
              /\ UNCHANGED <<index, gc, ops, txn_cnts>>
    /\ UNCHANGED <<owner, leaf_ts, log>>

user_abort(t) ==
    /\ At(t, "run") /\ Abort(t, chain)
    /\ UNCHANGED <<index, owner, leaf_ts, gc, log>>

-----------------------------------------------------------------------------
precommit(t) ==
    /\ At(t, "run")
    /\ Goto(t, "lock") /\ todo' = Set(todo, t, WriteSet(t))
    /\ UNCHANGED <<data, gc, ops, op, range, cursor, val, rws, txn_cnts, seen, log>>

\* nobody above t has read or written the newest version, and it is deleted
\* or not as the operation has found it
Valid(t, k, head) ==
    head.rts <= t /\ head.wts <= t /\ head.deleted = (rws[t][k].rwt = "INSERT")

\* remove_already_inserted and unlock_writeset, then abort
Rollback(t, inserted) ==
    /\ index' = [k \in Key |-> IF k \in inserted THEN NoValue ELSE index[k]]
    /\ collect(t, {rws[t][k].val : k \in inserted})
    /\ owner' = [v \in Value |-> IF owner[v] = t THEN 0 ELSE owner[v]]
    /\ Abort(t, chain)

Inserted(t) == New(t) \ todo[t]

\* lock the next entry of the sorted write set, and check it; a new Value goes
\* into the index
lock_write(t) ==
    /\ At(t, "lock") /\ todo[t] # {}
    /\ LET k == Min(todo[t])
           v == rws[t][k].val
           new == rws[t][k].new
           ok == IF new THEN index[k] = NoValue ELSE chain[v] # << >> /\ Valid(t, k, Head(chain[v]))
       IN  /\ ~Deallocated(v) /\ owner[v] = 0
           /\ \/ /\ ok
                 /\ owner' = Set(owner, v, t)
                 /\ index' = IF new THEN Set(index, k, v) ELSE index
                 /\ IF new THEN Goto(t, "leaf") /\ UNCHANGED todo
                    ELSE todo' = [todo EXCEPT ![t] = @ \ {k}] /\ UNCHANGED pc
                 /\ UNCHANGED <<chain, gc, ops, txn_cnts, op, range, cursor, val, rws, seen>>
              \/ ~ok /\ Rollback(t, Inserted(t))
    /\ UNCHANGED <<leaf_ts, log>>

\* somebody above t has scanned the leaf of a new key
check_leaf(t) ==
    /\ At(t, "leaf")
    /\ LET k == Min(todo[t])
       IN  \/ /\ leaf_ts[Leaf[k]] <= t
              /\ Goto(t, "lock") /\ todo' = [todo EXCEPT ![t] = @ \ {k}]
              /\ UNCHANGED <<index, chain, owner, gc, ops, txn_cnts, op, range, cursor, val, rws, seen>>
           \/ leaf_ts[Leaf[k]] > t /\ Rollback(t, Inserted(t) \cup {k})
    /\ UNCHANGED <<leaf_ts, log>>

\* Everything is locked and checked.
Committed(t) ==
    [reads |-> seen[t],
     writes |-> [k \in WriteSet(t) |-> IF rws[t][k].rwt = "DELETE" THEN Absent ELSE t]]

begin_apply(t) ==
    /\ At(t, "lock") /\ todo[t] = {}
    /\ log' = log @@ (t :> Committed(t))
    /\ Goto(t, "apply") /\ todo' = Set(todo, t, WriteSet(t))
    /\ UNCHANGED <<data, gc, ops, op, range, cursor, val, rws, txn_cnts, seen>>

\* the version is pushed, the chain pruned, the Value unlocked
apply(t) ==
    /\ At(t, "apply") /\ todo[t] # {}
    /\ LET k == Min(todo[t])
           e == rws[t][k]
           version == [wts |-> t, rts |-> t, deleted |-> e.rwt = "DELETE"]
           pushed == IF e.new THEN chain[e.val] ELSE <<version>> \o chain[e.val]
       IN  /\ chain' = Set(chain, e.val, gc_version_chain(pushed, smallest_ts(t)))
           /\ owner' = Set(owner, e.val, 0)
           /\ todo' = [todo EXCEPT ![t] = @ \ {k}]
    /\ UNCHANGED <<index, leaf_ts, gc, pc, ops, op, range, cursor, val, rws, txn_cnts, seen, log>>

\* the destructor
finish(t) ==
    /\ At(t, "apply") /\ todo[t] = {}
    /\ End(t, "committed")
    /\ remove_garbage(Worker(t), smallest_ts(t), largest_ts(t))
    /\ UNCHANGED <<data, op, range, cursor, val, todo, log>>

\* the Value t is going to lock is not there any more: undefined behaviour
lock_deallocated(t) ==
    /\ \/ At(t, "access") /\ Deallocated(val[t])
       \/ At(t, "lock") /\ todo[t] # {} /\ Deallocated(rws[t][Min(todo[t])].val)
    /\ Goto(t, "undefined")
    /\ UNCHANGED <<data, gc, ops, op, range, cursor, val, todo, rws, txn_cnts, seen, log>>

read(t, k) == point(t, "read", k)
insert(t, k) == point(t, "insert", k)
update(t, k) == point(t, "update", k)
upsert(t, k) == point(t, "upsert", k)
remove(t, k) == point(t, "remove", k)
read_scan(t, r) == start_scan(t, "read_scan", r)
update_scan(t, r) == start_scan(t, "update_scan", r)

Step(t) ==
    \/ begin(t)
    \/ \E k \in Key : read(t, k) \/ insert(t, k) \/ update(t, k) \/ upsert(t, k) \/ remove(t, k)
    \/ \E r \in Ranges : read_scan(t, r) \/ update_scan(t, r)
    \/ scan_next(t) \/ access(t) \/ user_abort(t) \/ precommit(t)
    \/ lock_write(t) \/ check_leaf(t) \/ begin_apply(t) \/ apply(t) \/ finish(t)
    \/ lock_deallocated(t)

Stop == (Undefined \/ \A t \in Tx : Ended(t)) /\ UNCHANGED vars

Next == (\E t \in Tx : Step(t)) \/ Stop

Spec == Init /\ [][Next]_vars

-----------------------------------------------------------------------------
(***************************************************************************)
(* The committed transactions saw what they would have seen one at a time, *)
(* in the order of their timestamps: "The schedule of the transactions is  *)
(* determined beforehand based on the timestamp" (docs/PROTOCOLS.md).      *)
(***************************************************************************)
ImplementsSerialDB == DB!Spec

(***************************************************************************)
(* Pruning takes no version from a transaction that may still ask for it:  *)
(* whoever runs finds, for every key nobody is writing, the last version   *)
(* committed before its timestamp.                                         *)
(***************************************************************************)
VersionsKept ==
    \A t \in Running, k \in Key :
        LET v == index[k]
            visible == get_correct_version(chain[v], t)
        IN  v # NoValue /\ owner[v] = 0 /\ pc[t] # "apply" =>
                Leaves(log, TimestampOrder, {u \in DOMAIN log : u < t}, k,
                       IF visible = {} \/ chain[v][Min(visible)].deleted THEN Absent
                       ELSE chain[v][Min(visible)].wts)

(***************************************************************************)
(* "points to shared record when rwt is READ or UPDATE or DELETE"          *)
(* (mvto/include/readwriteset.hpp): what a running transaction has read is *)
(* still in the chain, and its pointers are good, until it overwrites it.  *)
(***************************************************************************)
ReadRecsAreShared ==
    \A t \in Running : pc[t] # "apply" => \A k \in DOMAIN rws[t] :
        LET e == rws[t][k]
        IN  e.read # Absent => \E i \in 1..Len(chain[e.val]) : chain[e.val][i].wts = e.read

(***************************************************************************)
(* The grace period of a Value: it is deallocated only when the running    *)
(* transactions that point to it are above the largest timestamp that was  *)
(* recorded with it.  Those are not protected, because the count they were *)
(* given may not have been published when the Value was unlinked.          *)
(***************************************************************************)
ValueGracePeriod ==
    \A t \in Running, x \in freed :
        x[2] = val[t] \/ (\E k \in DOMAIN rws[t] : x[2] = rws[t][k].val) => x[1] < t
=============================================================================
