---------------------------- MODULE WaitDieLock -----------------------------
(***************************************************************************)
(* protocols/waitdie/include/waitdielock.hpp: the lock of one record, and  *)
(* transactions that lock, upgrade and unlock several records with it.     *)
(*                                                                         *)
(* A transaction is its timestamp.  The owner and waiter lists are kept    *)
(* sorted by timestamp, largest first, and hold no timestamp twice, so a   *)
(* list is the set of its timestamps and its front the largest of them.    *)
(*                                                                         *)
(* The latch protects both lists: a try_lock runs under it in one step.    *)
(* promote_waiters clears the spin variable of a waiter while the latch is *)
(* still held, so that the woken transaction runs on, on other locks,      *)
(* before the loop ends: every iteration of that loop is a step.           *)
(***************************************************************************)
EXTENDS Integers

CONSTANTS TS,        \* the timestamps of the transactions
          Lock,      \* the records
          None,      \* no lock, no transaction
          MaxOps     \* bound: lock requests of one transaction

ASSUME LockAssumption ==
    /\ TS \subseteq Nat
    /\ None \notin TS
    /\ None \notin Lock
    /\ MaxOps \in Nat

VARIABLES op,        \* owner_list.op of each lock: I, S or E
          owners,    \* the timestamps in owner_list
          waiters,   \* the timestamps in waiter_list
          latch,     \* the transaction that promotes waiters of the lock, or None
          wop,       \* WaiterNode::op of a waiting transaction: S, E or U
          waiting,   \* WaiterNode::waiting, the variable it spins on
          spin,      \* the lock whose waiter node it spins on, or None
          held,      \* what the transaction believes to hold: N, S or E
          phase,     \* "grow": acquires; "shrink": releases everything; "done"
          budget,    \* requests it can still make
          raised     \* the transactions that ran into a throw or an assert

lockVars == <<op, owners, waiters, latch>>
txVars == <<wop, waiting, spin, held, phase, budget>>
vars == <<op, owners, waiters, latch, wop, waiting, spin, held, phase, budget, raised>>

TypeOK ==
    /\ op \in [Lock -> {"I", "S", "E"}]
    /\ owners \in [Lock -> SUBSET TS]
    /\ waiters \in [Lock -> SUBSET TS]
    /\ latch \in [Lock -> TS \cup {None}]
    /\ wop \in [TS -> {"S", "E", "U"}]
    /\ waiting \in [TS -> BOOLEAN]
    /\ spin \in [TS -> Lock \cup {None}]
    /\ held \in [TS -> [Lock -> {"N", "S", "E"}]]
    /\ phase \in [TS -> {"grow", "shrink", "done"}]
    /\ budget \in [TS -> 0..MaxOps]
    /\ raised \subseteq TS

Init ==
    /\ op = [l \in Lock |-> "I"]
    /\ owners = [l \in Lock |-> {}]
    /\ waiters = [l \in Lock |-> {}]
    /\ latch = [l \in Lock |-> None]
    /\ wop = [t \in TS |-> "S"]
    /\ waiting = [t \in TS |-> FALSE]
    /\ spin = [t \in TS |-> None]
    /\ held = [t \in TS |-> [l \in Lock |-> "N"]]
    /\ phase = [t \in TS |-> "grow"]
    /\ budget = [t \in TS |-> MaxOps]
    /\ raised = {}

-----------------------------------------------------------------------------
\* waiter_list.front()
IsFront(t, l) == t \in waiters[l] /\ \A u \in waiters[l] : u <= t

\* get_size() > 1
Multiple(l) == \E o, p \in owners[l] : o # p

\* A deliberately wrong variant of the next definition, see below.
M_AllOwnersYounger(t, l) ==                 \* compares with the largest owner
    owners[l] = {} \/ \E o \in owners[l] : o > t

\* get_min_timestamp() > ts; with no owner the code waits as well
AllOwnersYounger(t, l) == \A o \in owners[l] : o > t

\* t is running its own code, not spinning and not promoting
Idle(t) == spin[t] = None /\ t \notin raised /\ \A l \in Lock : latch[l] # t

\* t asks for l: it can take the latch
Request(t, l) ==
    /\ Idle(t)
    /\ phase[t] = "grow"
    /\ budget[t] > 0
    /\ latch[l] = None
    /\ budget' = [budget EXCEPT ![t] = @ - 1]

\* return true without waiting
Grant(t, l, o) ==
    /\ owners' = [owners EXCEPT ![l] = @ \cup {t}]
    /\ op' = [op EXCEPT ![l] = o]
    /\ held' = [held EXCEPT ![t][l] = o]
    /\ UNCHANGED <<waiters, latch, wop, waiting, spin, phase, raised>>

\* insert a waiter node, release the latch and start to spin
Wait(t, l, o) ==
    /\ waiters' = [waiters EXCEPT ![l] = @ \cup {t}]
    /\ wop' = [wop EXCEPT ![t] = o]
    /\ waiting' = [waiting EXCEPT ![t] = TRUE]
    /\ spin' = [spin EXCEPT ![t] = l]
    /\ UNCHANGED <<op, owners, latch, held, phase, raised>>

\* return false: the transaction aborts and releases what it holds
Die(t) ==
    /\ phase' = [phase EXCEPT ![t] = "shrink"]
    /\ UNCHANGED <<lockVars, wop, waiting, spin, held, raised>>

\* a throw: the latch is never released
Raise(t, l) ==
    /\ raised' = raised \cup {t}
    /\ latch' = [latch EXCEPT ![l] = t]
    /\ UNCHANGED <<op, owners, waiters, wop, waiting, spin, held, phase>>

-----------------------------------------------------------------------------
\* Deliberately wrong variants of definitions of this module; the runs must
\* tell each of them from the code.

M_try_lock_upgrade(t, l) ==                \* does not look at the other owners
    /\ Request(t, l)
    /\ held[t][l] = "S"
    /\ \/ (\A o \in owners[l] : t <= o) /\ Grant(t, l, "E")
       \/ (\E o \in owners[l] : o < t) /\ Die(t)

M_unlock_shared(t, l) ==                    \* promotes nobody
    /\ Idle(t)
    /\ phase[t] = "shrink"
    /\ held[t][l] = "S"
    /\ latch[l] = None
    /\ owners' = [owners EXCEPT ![l] = @ \ {t}]
    /\ op' = [op EXCEPT ![l] = IF owners'[l] = {} THEN "I" ELSE @]
    /\ held' = [held EXCEPT ![t][l] = "N"]
    /\ UNCHANGED <<waiters, latch, wop, waiting, spin, phase, budget, raised>>

M_MustFinish(w, l) ==                       \* forgets the upgrade in finish
    \/ wop[w] = "S" /\ op[l] = "E"
    \/ wop[w] = "E" /\ op[l] \in {"S", "E"}

-----------------------------------------------------------------------------
try_lock_shared(t, l) ==
    /\ Request(t, l)
    /\ held[t][l] = "N"
    /\ \/ /\ op[l] \in {"I", "S"} /\ waiters[l] = {}
          /\ Grant(t, l, "S")
       \/ /\ op[l] = "E" \/ waiters[l] # {}
          /\ AllOwnersYounger(t, l)
          /\ Wait(t, l, "S")
       \/ /\ op[l] = "E" \/ waiters[l] # {}
          /\ ~AllOwnersYounger(t, l)
          /\ Die(t)

try_lock(t, l) ==
    /\ Request(t, l)
    /\ held[t][l] = "N"
    /\ \/ /\ op[l] = "I" /\ waiters[l] = {}
          /\ Grant(t, l, "E")
       \/ /\ op[l] # "I" \/ waiters[l] # {}
          /\ AllOwnersYounger(t, l)
          /\ Wait(t, l, "E")
       \/ /\ op[l] # "I" \/ waiters[l] # {}
          /\ ~AllOwnersYounger(t, l)
          /\ Die(t)

\* min_ts == ts
IsOldestOwner(t, l) == t \in owners[l] /\ \A o \in owners[l] : t <= o

try_lock_upgrade(t, l) ==
    /\ Request(t, l)
    /\ held[t][l] = "S"
    /\ IF op[l] # "S" THEN Raise(t, l)
       ELSE \/ IsOldestOwner(t, l) /\ Multiple(l) /\ Wait(t, l, "U")
            \/ IsOldestOwner(t, l) /\ ~Multiple(l) /\ Grant(t, l, "E")
            \/ ~IsOldestOwner(t, l) /\ Die(t)

\* owner_list.remove(ts); the latch is kept for promote_waiters
Remove(t, l) ==
    /\ owners' = [owners EXCEPT ![l] = @ \ {t}]
    /\ op' = [op EXCEPT ![l] = IF owners[l] = {t} THEN "I" ELSE @]
    /\ held' = [held EXCEPT ![t][l] = "N"]
    /\ latch' = [latch EXCEPT ![l] = t]
    /\ UNCHANGED <<waiters, wop, waiting, spin, phase, budget, raised>>

unlock_shared(t, l) ==
    /\ Idle(t)
    /\ phase[t] = "shrink"
    /\ held[t][l] = "S"
    /\ latch[l] = None
    /\ IF op[l] = "S" /\ t \in owners[l]
       THEN Remove(t, l)
       ELSE Raise(t, l) /\ UNCHANGED budget

\* In the growing phase too: insert unlocks the next key before it returns.
unlock(t, l) ==
    /\ Idle(t)
    /\ phase[t] \in {"grow", "shrink"}
    /\ held[t][l] = "E"
    /\ latch[l] = None
    /\ IF op[l] = "E" /\ t \in owners[l]
       THEN Remove(t, l)
       ELSE Raise(t, l) /\ UNCHANGED budget

-----------------------------------------------------------------------------
\* promote_waiters, run by t under the latch of l.

\* finish, for the front waiter w
MustFinish(w, l) ==
    \/ wop[w] = "S" /\ op[l] = "E"
    \/ wop[w] = "E" /\ op[l] \in {"S", "E"}
    \/ wop[w] = "U" /\ op[l] = "S" /\ Multiple(l)

\* return, and latch.unlock() in the caller
PromoteReturn(t, l) ==
    /\ latch[l] = t /\ t \notin raised
    /\ waiters[l] # {} => \E w \in waiters[l] : IsFront(w, l) /\ MustFinish(w, l)
    /\ latch' = [latch EXCEPT ![l] = None]
    /\ UNCHANGED <<op, owners, waiters, txVars, raised>>

\* pop the front waiter and set waiting to false
Wake(w, l) ==
    /\ waiters' = [waiters EXCEPT ![l] = @ \ {w}]
    /\ waiting' = [waiting EXCEPT ![w] = FALSE]
    /\ UNCHANGED <<latch, wop, spin, held, phase, budget, raised>>

PromoteOwner(t, l) ==
    /\ latch[l] = t /\ t \notin raised
    /\ \E w \in waiters[l] :
          /\ IsFront(w, l)
          /\ ~MustFinish(w, l)
          /\ wop[w] \in {"S", "E"}
          /\ owners' = [owners EXCEPT ![l] = @ \cup {w}]
          /\ op' = [op EXCEPT ![l] = wop[w]]
          /\ Wake(w, l)

PromoteUpgrade(t, l) ==
    /\ latch[l] = t /\ t \notin raised
    /\ \E w \in waiters[l] :
          /\ IsFront(w, l)
          /\ ~MustFinish(w, l)
          /\ wop[w] = "U"
          /\ IF op[l] = "S" /\ IsOldestOwner(w, l)
             THEN /\ op' = [op EXCEPT ![l] = "E"]
                  /\ Wake(w, l)
                  /\ UNCHANGED owners
             ELSE Raise(t, l) /\ UNCHANGED budget

-----------------------------------------------------------------------------
\* the spin loop of a try_lock reads waiting = true again
Spin(t) ==
    /\ spin[t] # None /\ waiting[t]
    /\ UNCHANGED vars

\* it reads false: the try_lock returns true and its waiter node is freed
EndSpin(t) ==
    /\ spin[t] # None /\ ~waiting[t]
    /\ held' = [held EXCEPT ![t][spin[t]] = IF wop[t] = "S" THEN "S" ELSE "E"]
    /\ spin' = [spin EXCEPT ![t] = None]
    /\ wop' = [wop EXCEPT ![t] = "S"]
    /\ UNCHANGED <<lockVars, waiting, phase, budget, raised>>

\* precommit, or an abort for another reason: nothing is locked any more
BeginRelease(t) ==
    /\ Idle(t)
    /\ phase[t] = "grow"
    /\ phase' = [phase EXCEPT ![t] = "shrink"]
    /\ UNCHANGED <<lockVars, wop, waiting, spin, held, budget, raised>>

EndRelease(t) ==
    /\ Idle(t)
    /\ phase[t] = "shrink"
    /\ \A l \in Lock : held[t][l] = "N"
    /\ phase' = [phase EXCEPT ![t] = "done"]
    /\ UNCHANGED <<lockVars, wop, waiting, spin, held, budget, raised>>

AllDone ==
    /\ \A t \in TS : phase[t] = "done"
    /\ UNCHANGED vars

LockStep(t, l) ==
    \/ try_lock_shared(t, l)
    \/ try_lock(t, l)
    \/ try_lock_upgrade(t, l)
    \/ unlock_shared(t, l)
    \/ unlock(t, l)
    \/ PromoteReturn(t, l)
    \/ PromoteOwner(t, l)
    \/ PromoteUpgrade(t, l)

TxStep(t) ==
    \/ \E l \in Lock : LockStep(t, l)
    \/ Spin(t)
    \/ EndSpin(t)
    \/ BeginRelease(t)
    \/ EndRelease(t)

Next == (\E t \in TS : TxStep(t)) \/ AllDone

Spec == Init /\ [][Next]_vars

\* A transaction is a finite program, so it is enough that some worker goes on as
\* long as one can.
FairSpec == Spec /\ WF_vars(Next)

-----------------------------------------------------------------------------
(***************************************************************************)
(* What a transaction believes to hold excludes what the others do: an     *)
(* exclusive holder is alone, whatever upgrades and promotions ran.        *)
(***************************************************************************)
MutualExclusion ==
    \A t, u \in TS, l \in Lock :
        (t # u /\ held[t][l] = "E") => held[u][l] = "N"

(***************************************************************************)
(* The owner list of a lock is exactly the transactions that hold it or    *)
(* were promoted and have not left their spin loop yet, and its operation  *)
(* is the strongest of what they hold.                                     *)
(***************************************************************************)
OwnersAreHolders ==
    \A l \in Lock :
        /\ \A t \in TS :
              t \in owners[l] <=> held[t][l] # "N" \/ (spin[t] = l /\ ~waiting[t])
        /\ op[l] = "I" <=> owners[l] = {}
        /\ op[l] = "E" => ~Multiple(l)
        /\ \A t \in TS : held[t][l] = "E" => op[l] = "E"

(***************************************************************************)
(* Wait-die: a transaction waits only for younger owners (larger           *)
(* timestamps), itself excepted when it upgrades.  With the waiter list    *)
(* sorted largest first, every edge of the waits-for relation goes from a  *)
(* smaller to a larger timestamp: there is no cycle.                       *)
(***************************************************************************)
WaitsForYounger ==
    \A l \in Lock : \A w \in waiters[l], o \in owners[l] :
        w < o \/ (w = o /\ wop[w] = "U")

(***************************************************************************)
(* waitdielock.hpp:261: the node of an upgrade "should come to the head of *)
(* waiter_list".                                                           *)
(***************************************************************************)
UpgradeAtHead ==
    \A l \in Lock : \A w \in waiters[l] : wop[w] = "U" => IsFront(w, l)

\* No throw and no assert of waitdielock.hpp is ever reached.
NoException == raised = {}

(***************************************************************************)
(* Once promote_waiters has returned, every waiter really has somebody to  *)
(* wait for, so that an unlock to come will promote it.                    *)
(***************************************************************************)
NoLostWakeup ==
    \A l \in Lock : latch[l] = None =>
        \A w \in waiters[l] : \E o \in owners[l] : o # w

\* Nobody spins for ever: every transaction ends.
AllFinish == <>(\A t \in TS : phase[t] = "done")
=============================================================================
