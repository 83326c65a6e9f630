-------------------------------- MODULE TwoPhase --------------------------------
(***************************************************************************)
(* What the transactions of NoWait and WaitDie have in common: the index,  *)
(* the read and write set, and the way through an operation.  Both lock a  *)
(* record when they first touch it, hold the lock until they commit or     *)
(* abort, and write when they commit; an insert locks the next key while   *)
(* it enters the new one into the index.  They differ in the locks.        *)
(***************************************************************************)
EXTENDS Serializability, FiniteSetsExt, SequencesExt

CONSTANTS Ops,      \* the operations each transaction may call: [Tx -> SUBSET Op]
          Args,     \* the keys they are called with: [Op -> SUBSET Key]
          Ranges,   \* the arguments of scans
          MaxOps,   \* bound: operations of each transaction: [Tx -> Nat]
          Sentinel  \* the key behind all others that the initializers insert

Op == {"read", "insert", "update", "upsert", "remove", "read_scan", "update_scan"}

ASSUME TwoPhaseAssumption ==
    /\ Key \subseteq Nat /\ Sentinel \in Nat /\ \A k \in Key : k < Sentinel
    /\ Ops \in [Tx -> SUBSET Op] /\ Args \in [Op -> SUBSET Key] /\ MaxOps \in [Tx -> Nat]
    /\ Ranges \subseteq [lkey : Nat, rkey : Nat, count : Nat \cup {-1}]

\* The Values in memory: loaded (0), or inserted by a transaction.
Value == (Tx \cup {0}) \X (Key \cup {Sentinel})
NoValue == <<0, 0>>

VARIABLES index,    \* the Value of each key, or NoValue
          lock,     \* the lock of each Value
          rec,      \* Value::rec, as the transaction that wrote it; Absent is nullptr
          pc,       \* where a transaction is
          ops,      \* how many operations it has called
          op,       \* the operation it executes
          todo,     \* the keys and Values the operation, precommit or abort
                    \* has still to visit
          left,     \* how many more records a scan returns (-1: all)
          next,     \* next_value of insert
          rws,      \* the read and write set: from keys to entries
          seen,     \* history: what the transaction has read
          leaked,   \* history: locks of next keys that an insert has left behind
          serial,   \* history: the order of the commits, as a set of pairs
          log       \* history: committed transactions

vars == <<index, lock, rec, pc, ops, op, todo, left, next, rws, seen, leaked, serial, log>>

DB == INSTANCE SerialDB WITH order <- serial

-----------------------------------------------------------------------------
(***************************************************************************)
(* The type of the entry that an operation leaves, given the type it finds *)
(* ("NONE": no entry, but a Value in the index).                           *)
(***************************************************************************)
read_type(old)   == CASE old = "NONE" -> "READ" [] old = "DELETE" -> "abort" [] OTHER -> old
insert_type(old) == IF old = "DELETE" THEN "UPDATE" ELSE "abort"
update_type(old) == CASE old \in {"NONE", "READ"} -> "UPDATE" [] old = "DELETE" -> "abort" [] OTHER -> old
upsert_type(old) == IF old = "INSERT" THEN old ELSE "UPDATE"
remove_type(old) == IF old = "DELETE" THEN "abort" ELSE "DELETE"

Result(o, old) == CASE o \in {"read", "read_scan"} -> read_type(old)
                    [] o = "insert" -> insert_type(old)
                    [] o \in {"update", "update_scan"} -> update_type(old)
                    [] o = "upsert" -> upsert_type(old)
                    [] o = "remove" -> remove_type(old)

\* the lock it needs: shared, exclusive, an upgrade, or none
Mode(o, old) == CASE old = "NONE" -> IF o \in {"read", "read_scan"} THEN "S" ELSE "E"
                  [] old = "READ" -> IF Result(o, old) = "READ" THEN "N" ELSE "U"
                  [] OTHER -> "N"

Type(t, k) == IF k \in DOMAIN rws[t] THEN rws[t][k].rwt ELSE "NONE"
Vals(t, K) == [k \in K |-> rws[t][k].val]
Entries(t, types) == {k \in DOMAIN rws[t] : rws[t][k].rwt \in types}
At(t, p) == pc[t] = p
Goto(t, p) == pc' = [pc EXCEPT ![t] = p]
Visits(t) == {k \in DOMAIN todo[t] : todo[t][k] # NoValue}
First(t) == Min(Visits(t))
Rest(t, k) == [todo EXCEPT ![t] = Restrict(@, DOMAIN @ \ {k})]

InitWith(unlocked) ==
    /\ index = [k \in Key \cup {Sentinel} |-> IF k \in Loaded \cup {Sentinel} THEN <<0, k>> ELSE NoValue]
    /\ lock = [v \in Value |-> unlocked]
    /\ rec = [v \in Value |-> IF v[1] = 0 /\ v[2] \in Loaded THEN 0 ELSE Absent]
    /\ pc = [t \in Tx |-> "run"]
    /\ ops = [t \in Tx |-> 0]
    /\ op = [t \in Tx |-> "none"]
    /\ todo = [t \in Tx |-> << >>]
    /\ left = [t \in Tx |-> -1]
    /\ next = [t \in Tx |-> NoValue]
    /\ rws = [t \in Tx |-> << >>]
    /\ seen = [t \in Tx |-> {}]
    /\ leaked = {}
    /\ serial = {}
    /\ log = << >>

\* an operation returns
Return(t) ==
    /\ Goto(t, "run")
    /\ op' = [op EXCEPT ![t] = "none"]
    /\ todo' = [todo EXCEPT ![t] = << >>]
    /\ left' = [left EXCEPT ![t] = -1]
    /\ next' = [next EXCEPT ![t] = NoValue]

\* it returns nullptr: the adapters then call abort, which visits every entry
Fail(t) ==
    /\ Goto(t, "abort")
    /\ op' = [op EXCEPT ![t] = "none"]
    /\ todo' = [todo EXCEPT ![t] = Vals(t, DOMAIN rws[t])]
    /\ left' = [left EXCEPT ![t] = -1]
    /\ next' = [next EXCEPT ![t] = NoValue]

Call(t, o) ==
    /\ At(t, "run") /\ ops[t] < MaxOps[t] /\ o \in Ops[t]
    /\ ops' = [ops EXCEPT ![t] = @ + 1]

Start(t, o, p, vals) ==
    /\ Goto(t, p)
    /\ op' = [op EXCEPT ![t] = o]
    /\ todo' = [todo EXCEPT ![t] = vals]

\* A first lookup: in the read and write set, then in the index.
point(t, o, k) ==
    /\ Call(t, o) /\ k \in Args[o]
    /\ LET own == k \in DOMAIN rws[t]
           old == Type(t, k)
           found == index[k] # NoValue
           missing == ~own /\ ~found /\ o \in {"insert", "upsert"}
           abort == IF own \/ found THEN Result(o, old) = "abort" ELSE ~missing
       IN  \/ abort /\ Fail(t)
           \/ missing /\ Start(t, o, "next", k :> <<t, k>>) /\ UNCHANGED <<left, next>>
           \/ ~abort /\ ~missing /\ UNCHANGED <<left, next>>
              /\ Start(t, o, "lock", k :> IF own THEN rws[t][k].val ELSE index[k])
    /\ UNCHANGED <<index, lock, rec, rws, seen, leaked, serial, log>>

\* idx.get_kv_in_range: the keys of [lkey, rkey) with their Values
range(t, o, r) ==
    /\ Call(t, o)
    /\ LET K == {k \in Key : r.lkey <= k /\ k < r.rkey}
           vals == [k \in K |-> index[k]]
       IN  IF \A k \in K : vals[k] = NoValue
           THEN /\ Return(t)
                /\ seen' = [seen EXCEPT ![t] = @ \cup (K \X {Absent})]
           ELSE /\ Start(t, o, "lock", vals)
                /\ left' = [left EXCEPT ![t] = r.count]
                /\ UNCHANGED <<next, seen>>
    /\ UNCHANGED <<index, lock, rec, rws, leaked, serial, log>>

\* idx.get_next_kv
get_next_kv(t) ==
    /\ At(t, "next")
    /\ next' = [next EXCEPT ![t] = index[Min({k \in DOMAIN index : First(t) < k /\ index[k] # NoValue})]]
    /\ Goto(t, "lock_next")
    /\ UNCHANGED <<index, lock, rec, ops, op, todo, left, rws, seen, leaked, serial, log>>

\* the lock insert takes on the next key
NextMode(t) == LET old == Type(t, next[t][2])
               IN  CASE old = "NONE" -> "E" [] old = "READ" -> "U" [] OTHER -> "N"

\* the keys a scan has found missing when it comes to k, or to its end
Passed(t, k) == {j \in DOMAIN todo[t] : todo[t][j] = NoValue /\ j < k} \X {Absent}

\* The visit of k is over; stop when a scan has what it wants.
Continue(t, k) ==
    IF Visits(t) = {k} \/ left[t] = 1
    THEN Return(t)
    ELSE /\ todo' = Rest(t, k)
         /\ left' = [left EXCEPT ![t] = IF @ = -1 THEN @ ELSE @ - 1]
         /\ Goto(t, "lock")
         /\ UNCHANGED <<op, next>>

\* k's lock is held: the entry, and what the operation reads
Access(t, k) ==
    LET old == Type(t, k)
        v == IF old = "NONE" THEN todo[t][k] ELSE rws[t][k].val
        entry == IF old = "NONE" THEN [val |-> v, rwt |-> Result(op[t], old), new |-> FALSE]
                 ELSE [rws[t][k] EXCEPT !.rwt = Result(op[t], old)]
        last == Visits(t) = {k} /\ left[t] # 1
    IN  /\ rws' = [rws EXCEPT ![t] = (k :> entry) @@ @]
        /\ seen' = [seen EXCEPT ![t] = @ \cup Passed(t, IF last THEN Sentinel ELSE k) \cup
               (IF old \in {"NONE", "READ"} THEN {<<k, rec[v]>>} ELSE {})]
        /\ Continue(t, k)

\* Everything is locked that the transaction has read or written: it commits.
Committed(t) ==
    [reads |-> seen[t],
     writes |-> [k \in Entries(t, {"INSERT", "UPDATE", "DELETE"}) |->
                     IF rws[t][k].rwt = "DELETE" THEN Absent ELSE t]]

precommit(t) ==
    /\ At(t, "run")
    /\ log' = log @@ (t :> Committed(t))
    /\ serial' = serial \cup ((DOMAIN log) \X {t})
    /\ Goto(t, "release")
    /\ todo' = [todo EXCEPT ![t] = Vals(t, Entries(t, {"READ"}))]
    /\ UNCHANGED <<index, lock, rec, ops, op, left, next, rws, seen, leaked>>

\* the read locks are released, the writes begin
begin_writes(t) ==
    /\ At(t, "release") /\ todo[t] = << >>
    /\ Goto(t, "write")
    /\ todo' = [todo EXCEPT ![t] = Vals(t, Entries(t, {"INSERT", "UPDATE", "DELETE"}))]
    /\ UNCHANGED <<index, lock, rec, ops, op, left, next, rws, seen, leaked, serial, log>>

\* the benchmark aborts
user_abort(t) ==
    /\ At(t, "run")
    /\ Fail(t)
    /\ UNCHANGED <<index, lock, rec, ops, rws, seen, leaked, serial, log>>

\* The transaction object is gone, with its sets.
finish(t) ==
    /\ pc[t] \in {"write", "abort"} /\ todo[t] = << >>
    /\ Goto(t, IF pc[t] = "write" THEN "committed" ELSE "aborted")
    /\ ops' = [ops EXCEPT ![t] = MaxOps[t]]
    /\ rws' = [rws EXCEPT ![t] = << >>]
    /\ seen' = [seen EXCEPT ![t] = {}]
    /\ UNCHANGED <<index, lock, rec, op, todo, left, next, leaked, serial, log>>

Finished == \A t \in Tx : pc[t] \in {"committed", "aborted"}
Stop == Finished /\ UNCHANGED vars

-----------------------------------------------------------------------------
(***************************************************************************)
(* What a transaction counts on.                                           *)
(***************************************************************************)
\* the entries whose locks it has not released yet
Live(t) == IF pc[t] \in {"release", "write", "abort", "unlock_new"}
           THEN (DOMAIN rws[t]) \cap (DOMAIN todo[t] \cup
                    IF At(t, "release") THEN Entries(t, {"INSERT", "UPDATE", "DELETE"}) ELSE {})
           ELSE DOMAIN rws[t]

\* The Values it holds exclusively, and those it holds shared.  Between its
\* locking and its unlocking the next key of an insert is locked too.
Holds(t, types) == {rws[t][k].val : k \in Live(t) \cap Entries(t, types)}
HoldsNext(t) == IF pc[t] \in {"insert", "unlock_next"} THEN {next[t]} ELSE {}
Writing(t) == Holds(t, {"INSERT", "UPDATE", "DELETE"}) \cup HoldsNext(t)
Reading(t) == Holds(t, {"READ"}) \ HoldsNext(t)

(***************************************************************************)
(* The committed transactions saw what they would have seen one at a time, *)
(* in the order they committed in.                                         *)
(***************************************************************************)
ImplementsSerialDB == DB!Spec

\* When nobody runs, the index holds the committed state and no failed insert.
NothingLeftBehind ==
    Finished => \A k \in Key :
        /\ Leaves(log, serial, DOMAIN log, k, IF index[k] = NoValue THEN Absent ELSE rec[index[k]])
        /\ index[k] # NoValue => rec[index[k]] # Absent
=============================================================================
