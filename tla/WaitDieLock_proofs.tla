------------------------ MODULE WaitDieLock_proofs --------------------------
(***************************************************************************)
(* The safety properties of the wait-die lock, for every number of         *)
(* transactions and of records.  The inductive invariant adds to them how  *)
(* the waiter nodes, the spinning transactions and the owner list relate.  *)
(***************************************************************************)
EXTENDS WaitDieLock, TLAPS

\* The waiter list of a lock is the transactions that spin on it unpromoted.
Queued ==
    \A t \in TS, l \in Lock : t \in waiters[l] <=> spin[t] = l /\ waiting[t]

\* Waiters hold nothing of the lock, upgrades the shared lock they upgrade.
WaitMode ==
    \A t \in TS, l \in Lock : t \in waiters[l] =>
        IF wop[t] = "U" THEN held[t][l] = "S" /\ op[l] = "S" ELSE held[t][l] = "N"

\* A promoted transaction that still spins owns the lock in the mode it asked.
GrantMode ==
    \A t \in TS, l \in Lock : spin[t] = l /\ ~waiting[t] =>
        /\ wop[t] = "S" => op[l] = "S" /\ held[t][l] = "N"
        /\ wop[t] = "E" => op[l] = "E" /\ held[t][l] = "N"
        /\ wop[t] = "U" => op[l] = "E" /\ held[t][l] = "S"

\* A shared holder shares the lock, unless its own upgrade was just granted.
SharedMode ==
    \A t \in TS, l \in Lock : held[t][l] = "S" =>
        op[l] = "S" \/ (spin[t] = l /\ ~waiting[t] /\ wop[t] = "U")

IInv ==
    /\ TypeOK
    /\ Queued
    /\ WaitMode
    /\ GrantMode
    /\ SharedMode
    /\ OwnersAreHolders
    /\ WaitsForYounger
    /\ UpgradeAtHead
    /\ NoException
    /\ NoLostWakeup

-----------------------------------------------------------------------------
LEMMA InitIInv == Init => IInv
  <1> SUFFICES ASSUME Init PROVE IInv
    OBVIOUS
  <1>1. TypeOK
    BY LockAssumption DEF Init, TypeOK
  <1>2. Queued /\ WaitMode /\ GrantMode /\ SharedMode
    BY LockAssumption DEF Init, Queued, WaitMode, GrantMode, SharedMode
  <1>3. OwnersAreHolders
    BY LockAssumption DEF Init, OwnersAreHolders, Multiple
  <1>4. WaitsForYounger /\ UpgradeAtHead /\ NoException /\ NoLostWakeup
    BY DEF Init, WaitsForYounger, UpgradeAtHead, NoException, NoLostWakeup
  <1>5. QED
    BY <1>1, <1>2, <1>3, <1>4 DEF IInv

\* OwnersAreHolders of the next state, clause by clause.
LEMMA HoldersNext ==
  ASSUME \A m \in Lock :
            /\ \A u \in TS : u \in owners'[m] <=>
                    held'[u][m] # "N" \/ (spin'[u] = m /\ ~waiting'[u])
            /\ op'[m] = "I" <=> owners'[m] = {}
            /\ op'[m] = "E" => ~\E p, q \in owners'[m] : p # q
            /\ \A u \in TS : held'[u][m] = "E" => op'[m] = "E"
  PROVE  OwnersAreHolders'
BY Zenon DEF OwnersAreHolders, Multiple

\* Who waits is a transaction, and timestamps are numbers.
LEMMA WaitersAreNumbers ==
  ASSUME TypeOK, NEW m \in Lock, NEW v \in waiters[m]
  PROVE  v \in TS /\ v \in Nat
<1>1. v \in TS
  BY DEF TypeOK
<1>2. QED
  BY <1>1, LockAssumption

\* A request that is granted at once: nobody waits, or the only owner upgrades.
LEMMA GrantIInv ==
  ASSUME IInv, NEW t \in TS, NEW l \in Lock, NEW o \in {"S", "E"},
         Request(t, l), Grant(t, l, o),
         \/ /\ held[t][l] = "N"
            /\ waiters[l] = {}
            /\ op[l] = "I" \/ (o = "S" /\ op[l] = "S")
         \/ /\ held[t][l] = "S"
            /\ o = "E"
            /\ t \in owners[l] /\ ~Multiple(l)
  PROVE  IInv'
  <1>1. /\ owners' = [owners EXCEPT ![l] = @ \cup {t}]
        /\ op' = [op EXCEPT ![l] = o]
        /\ held' = [held EXCEPT ![t][l] = o]
        /\ UNCHANGED <<waiters, latch, wop, waiting, spin, phase, raised>>
    BY DEF Grant
  <1>2. spin[t] = None /\ budget' \in [TS -> 0..MaxOps]
    BY LockAssumption DEF Request, Idle, IInv, TypeOK
  <1>3. TypeOK'
    BY <1>1, <1>2, Zenon DEF IInv, TypeOK
  <1>4. Queued'
    BY <1>1 DEF IInv, Queued
  <1>5. \A u \in TS, m \in Lock :
           held'[u][m] = IF u = t /\ m = l THEN o ELSE held[u][m]
    BY <1>1 DEF IInv, TypeOK
  <1>6. \A m \in Lock : /\ op'[m] = IF m = l THEN o ELSE op[m]
                        /\ owners'[m] = IF m = l THEN owners[l] \cup {t} ELSE owners[m]
    BY <1>1 DEF IInv, TypeOK
  <1>7. op[l] # "E" /\ (held[t][l] = "S" => op[l] = "S")
    BY <1>2, LockAssumption DEF IInv, SharedMode
  <1>8. o = "E" => owners'[l] = {t}
    BY <1>6 DEF IInv, TypeOK, OwnersAreHolders, Multiple
  <1>9. held[t][l] = "S" => owners'[l] = owners[l]
    BY <1>6
  <1>10. WaitMode'
    <2> SUFFICES ASSUME NEW u \in TS, NEW m \in Lock, u \in waiters[m]
                 PROVE  IF wop[u] = "U" THEN held'[u][m] = "S" /\ op'[m] = "S"
                                        ELSE held'[u][m] = "N"
      BY <1>1 DEF WaitMode
    <2>1. u # t
      BY <1>2, LockAssumption DEF IInv, Queued
    <2>2. IF wop[u] = "U" THEN held[u][m] = "S" /\ op[m] = "S" ELSE held[u][m] = "N"
      BY DEF IInv, WaitMode
    <2>3. CASE m # l
      BY <2>1, <2>2, <2>3, <1>5, <1>6
    <2>4. CASE m = l
      <3>1. owners[l] = {t}
        BY <2>4, <1>8, <1>9
      <3>2. held[u][l] = "N"
        BY <2>1, <3>1 DEF IInv, OwnersAreHolders
      <3>3. QED
        BY <2>1, <2>2, <2>4, <3>2, <1>5
    <2>5. QED
      BY <2>3, <2>4
  <1>11. GrantMode'
    <2> SUFFICES ASSUME NEW u \in TS, NEW m \in Lock, spin[u] = m, ~waiting[u]
                 PROVE  /\ wop[u] = "S" => op'[m] = "S" /\ held'[u][m] = "N"
                        /\ wop[u] = "E" => op'[m] = "E" /\ held'[u][m] = "N"
                        /\ wop[u] = "U" => op'[m] = "E" /\ held'[u][m] = "S"
      BY <1>1 DEF GrantMode
    <2>1. u # t
      BY <1>2, LockAssumption
    <2>2. u \in owners[m] /\ u \in owners'[m]
      BY <1>6 DEF IInv, OwnersAreHolders
    <2>3. CASE m # l
      BY <2>1, <2>3, <1>5, <1>6 DEF IInv, GrantMode
    <2>4. CASE m = l
      <3>1. o = "S"
        BY <2>1, <2>2, <2>4, <1>8
      <3>2. wop[u] = "S"
        BY <2>4, <1>7 DEF IInv, GrantMode, TypeOK
      <3>3. QED
        BY <2>1, <2>4, <3>1, <3>2, <1>5, <1>6 DEF IInv, GrantMode
    <2>5. QED
      BY <2>3, <2>4
  <1>12. SharedMode'
    <2> SUFFICES ASSUME NEW u \in TS, NEW m \in Lock, held'[u][m] = "S"
                 PROVE  op'[m] = "S" \/ (spin[u] = m /\ ~waiting[u] /\ wop[u] = "U")
      BY <1>1 DEF SharedMode
    <2>1. CASE m # l
      BY <2>1, <1>5, <1>6 DEF IInv, SharedMode
    <2>2. CASE m = l /\ u = t
      BY <2>2, <1>5, <1>6
    <2>3. CASE m = l /\ u # t
      BY <2>3, <1>5, <1>6, <1>8, SMTT(40) DEF IInv, OwnersAreHolders
    <2>4. QED
      BY <2>1, <2>2, <2>3
  <1>13. OwnersAreHolders'
    <2>0. spin' = spin /\ waiting' = waiting
      BY <1>1
    <2> SUFFICES ASSUME NEW m \in Lock
                 PROVE  /\ \A u \in TS : u \in owners'[m] <=>
                                held'[u][m] # "N" \/ (spin[u] = m /\ ~waiting[u])
                        /\ op'[m] = "I" <=> owners'[m] = {}
                        /\ op'[m] = "E" => ~\E p, q \in owners'[m] : p # q
                        /\ \A u \in TS : held'[u][m] = "E" => op'[m] = "E"
      BY <2>0, HoldersNext
    <2>1. CASE m # l
      BY <2>1, <1>5, <1>6 DEF IInv, OwnersAreHolders, Multiple
    <2>2. CASE m = l
      <3>1. \A u \in TS : u \in owners'[m] <=>
                held'[u][m] # "N" \/ (spin[u] = m /\ ~waiting[u])
        BY <2>2, <1>5, <1>6 DEF IInv, OwnersAreHolders
      <3>2. \A u \in TS : held'[u][m] = "E" => op'[m] = "E"
        BY <2>2, <1>5, <1>6, <1>7 DEF IInv, OwnersAreHolders
      <3>3. QED
        BY <2>2, <3>1, <3>2, <1>6, <1>8
    <2>3. QED
      BY <2>1, <2>2
  <1>14. WaitsForYounger'
    BY <1>1, <1>6, <1>9 DEF IInv, WaitsForYounger
  <1>15. UpgradeAtHead' /\ NoException'
    BY <1>1 DEF IInv, UpgradeAtHead, IsFront, NoException
  <1>16. NoLostWakeup'
    BY <1>1, <1>6, <1>9 DEF IInv, NoLostWakeup
  <1>17. QED
    BY <1>3, <1>4, <1>10, <1>11, <1>12, <1>13, <1>14, <1>15, <1>16 DEF IInv

\* A request that waits: every owner is younger, or the oldest owner upgrades.
LEMMA WaitIInv ==
  ASSUME IInv, NEW t \in TS, NEW l \in Lock, NEW o \in {"S", "E", "U"},
         Request(t, l), Wait(t, l, o),
         \/ /\ held[t][l] = "N" /\ o # "U"
            /\ op[l] # "I" \/ waiters[l] # {}
            /\ AllOwnersYounger(t, l)
         \/ /\ held[t][l] = "S" /\ o = "U" /\ op[l] = "S"
            /\ IsOldestOwner(t, l) /\ Multiple(l)
  PROVE  IInv'
  <1>1. /\ waiters' = [waiters EXCEPT ![l] = @ \cup {t}]
        /\ wop' = [wop EXCEPT ![t] = o]
        /\ waiting' = [waiting EXCEPT ![t] = TRUE]
        /\ spin' = [spin EXCEPT ![t] = l]
        /\ UNCHANGED <<op, owners, latch, held, phase, raised>>
    BY DEF Wait
  <1>2. spin[t] = None /\ budget' \in [TS -> 0..MaxOps] /\ latch[l] = None
    BY LockAssumption DEF Request, Idle, IInv, TypeOK
  <1>3. TypeOK'
    BY <1>1, <1>2, Zenon DEF IInv, TypeOK
  <1>4. /\ \A m \in Lock : waiters'[m] = IF m = l THEN waiters[l] \cup {t} ELSE waiters[m]
        /\ \A u \in TS : /\ wop'[u] = IF u = t THEN o ELSE wop[u]
                         /\ waiting'[u] = IF u = t THEN TRUE ELSE waiting[u]
                         /\ spin'[u] = IF u = t THEN l ELSE spin[u]
    BY <1>1 DEF IInv, TypeOK
  <1>5. \A m \in Lock : spin[t] # m /\ t \notin waiters[m]
    BY <1>2, LockAssumption DEF IInv, Queued
  <1>6. Queued'
    <2> SUFFICES ASSUME NEW u \in TS, NEW m \in Lock
                 PROVE  u \in waiters'[m] <=> spin'[u] = m /\ waiting'[u]
      BY DEF Queued
    <2>1. CASE u = t
      BY <2>1, <1>4, <1>5, ZenonT(60)
    <2>2. CASE u # t
      <3>1. u \in waiters'[m] <=> u \in waiters[m]
        BY <2>2, <1>4
      <3>2. spin'[u] = spin[u] /\ waiting'[u] = waiting[u]
        BY <2>2, <1>4, Zenon
      <3>3. QED
        BY <3>1, <3>2 DEF IInv, Queued
    <2>3. QED
      BY <2>1, <2>2
  <1>7. WaitMode'
    <2> SUFFICES ASSUME NEW u \in TS, NEW m \in Lock, u \in waiters'[m]
                 PROVE  IF wop'[u] = "U" THEN held'[u][m] = "S" /\ op'[m] = "S"
                                         ELSE held'[u][m] = "N"
      BY DEF WaitMode
    <2>1. CASE u = t
      <3>1. m = l
        BY <2>1, <1>4, <1>5
      <3>2. wop'[u] = o /\ held' = held /\ op' = op
        BY <2>1, <1>1, <1>4, Zenon
      <3>3. QED
        BY <2>1, <3>1, <3>2
    <2>2. CASE u # t
      BY <2>2, <1>1, <1>4 DEF IInv, WaitMode
    <2>3. QED
      BY <2>1, <2>2
  <1>8. GrantMode'
    <2> SUFFICES ASSUME NEW u \in TS, NEW m \in Lock, spin'[u] = m, ~waiting'[u]
                 PROVE  /\ wop'[u] = "S" => op'[m] = "S" /\ held'[u][m] = "N"
                        /\ wop'[u] = "E" => op'[m] = "E" /\ held'[u][m] = "N"
                        /\ wop'[u] = "U" => op'[m] = "E" /\ held'[u][m] = "S"
      BY DEF GrantMode
    <2>1. u # t
      BY <1>4, Zenon
    <2>2. spin[u] = m /\ ~waiting[u] /\ wop'[u] = wop[u]
      BY <2>1, <1>4, ZenonT(60)
    <2>3. QED
      BY <2>2, <1>1 DEF IInv, GrantMode
  <1>9. SharedMode'
    BY <1>1, <1>4, <1>5 DEF IInv, SharedMode
  <1>10. OwnersAreHolders'
    <2>1. \A u \in TS, m \in Lock :
             spin'[u] = m /\ ~waiting'[u] <=> spin[u] = m /\ ~waiting[u]
      BY <1>4, <1>5, Zenon
    <2>2. QED
      BY <2>1, <1>1 DEF IInv, OwnersAreHolders, Multiple
  <1>11. \A p \in owners[l] : t < p \/ (t = p /\ o = "U")
    <2> SUFFICES ASSUME NEW p \in owners[l]
                 PROVE  t < p \/ (t = p /\ o = "U")
      OBVIOUS
    <2>1. t \in Nat /\ p \in Nat
      BY LockAssumption DEF IInv, TypeOK
    <2>2. QED
      BY <2>1 DEF AllOwnersYounger, IsOldestOwner
  <1>12. WaitsForYounger'
    BY <1>1, <1>4, <1>5, <1>11 DEF IInv, WaitsForYounger, TypeOK
  <1>13. UpgradeAtHead'
    <2> SUFFICES ASSUME NEW m \in Lock, NEW w \in waiters'[m], wop'[w] = "U",
                        NEW u \in waiters'[m]
                 PROVE  u <= w
      BY DEF UpgradeAtHead, IsFront
    <2>t. w \in TS /\ u \in TS /\ w \in Nat /\ u \in Nat
      BY <1>3, LockAssumption, Zenon DEF TypeOK
    <2>1. CASE m # l
      BY <2>1, <1>4, <1>5, <2>t, ZenonT(60) DEF IInv, UpgradeAtHead, IsFront
    <2>2. CASE m = l /\ w # t /\ u # t
      BY <2>2, <1>4, <2>t, ZenonT(60) DEF IInv, UpgradeAtHead, IsFront
    <2>3. CASE m = l /\ w # t /\ u = t
      <3>1. w \in waiters[l] /\ wop[w] = "U"
        BY <2>3, <1>4, <2>t, ZenonT(60)
      <3>2. w \in owners[l]
        BY <3>1, <2>t DEF IInv, WaitMode, OwnersAreHolders
      <3>3. QED
        BY <2>3, <3>2, <1>11, <2>t
    <2>4. CASE m = l /\ w = t /\ u # t
      <3>1. u \in waiters[l] /\ t \in owners[l]
        BY <2>4, <1>4, <2>t, ZenonT(60) DEF IsOldestOwner
      <3>2. u < t
        BY <2>4, <3>1, <2>t DEF IInv, WaitsForYounger
      <3>3. QED
        BY <2>4, <3>2, <2>t
    <2>5. QED
      BY <2>1, <2>2, <2>3, <2>4, <2>t
  <1>14. NoException'
    BY <1>1 DEF IInv, NoException
  <1>15. NoLostWakeup'
    <2> SUFFICES ASSUME NEW m \in Lock, latch[m] = None, NEW w \in waiters'[m]
                 PROVE  \E p \in owners[m] : p # w
      BY <1>1, SMTT(40) DEF NoLostWakeup
    <2>1. CASE m # l \/ w # t
      BY <2>1, <1>4 DEF IInv, NoLostWakeup
    <2>2. CASE m = l /\ w = t /\ held[t][l] = "S"
      BY <2>2 DEF Multiple
    <2>3. CASE m = l /\ w = t /\ held[t][l] = "N"
      <3>1. owners[l] # {}
        BY <2>3, <1>2 DEF IInv, OwnersAreHolders, NoLostWakeup
      <3>2. t \notin owners[l]
        BY <2>3, <1>11, <1>5 DEF IInv, OwnersAreHolders
      <3>3. QED
        BY <2>3, <3>1, <3>2
    <2>4. QED
      BY <2>1, <2>2, <2>3
  <1>16. QED
    BY <1>3, <1>6, <1>7, <1>8, <1>9, <1>10, <1>12, <1>13, <1>14, <1>15 DEF IInv

\* An owner that is not spinning leaves the owner list.
LEMMA RemoveIInv ==
  ASSUME IInv, NEW t \in TS, NEW l \in Lock,
         spin[t] = None, held[t][l] # "N", op[l] = held[t][l], t \in owners[l],
         Remove(t, l)
  PROVE  IInv'
  <1>1. /\ owners' = [owners EXCEPT ![l] = @ \ {t}]
        /\ op' = [op EXCEPT ![l] = IF owners[l] = {t} THEN "I" ELSE @]
        /\ held' = [held EXCEPT ![t][l] = "N"]
        /\ latch' = [latch EXCEPT ![l] = t]
        /\ UNCHANGED <<waiters, wop, waiting, spin, phase, budget, raised>>
    BY DEF Remove
  <1>2. TypeOK'
    BY <1>1 DEF IInv, TypeOK
  <1>3. \A u \in TS, m \in Lock :
           held'[u][m] = IF u = t /\ m = l THEN "N" ELSE held[u][m]
    BY <1>1 DEF IInv, TypeOK
  <1>4. \A m \in Lock :
           /\ owners'[m] = IF m = l THEN owners[l] \ {t} ELSE owners[m]
           /\ op'[m] = IF m = l /\ owners[l] = {t} THEN "I" ELSE op[m]
           /\ latch'[m] = IF m = l THEN t ELSE latch[m]
    BY <1>1 DEF IInv, TypeOK
  <1>5. \A m \in Lock : spin[t] # m /\ t \notin waiters[m]
    BY LockAssumption DEF IInv, Queued
  <1>6. \A u \in owners[l] : u # t => op'[l] = op[l]
    BY <1>4
  <1>7. Queued'
    BY <1>1 DEF IInv, Queued
  <1>8. WaitMode'
    <2> SUFFICES ASSUME NEW u \in TS, NEW m \in Lock, u \in waiters[m]
                 PROVE  IF wop[u] = "U" THEN held'[u][m] = "S" /\ op'[m] = "S"
                                        ELSE held'[u][m] = "N"
      BY <1>1 DEF WaitMode
    <2>1. u # t
      BY <1>5
    <2>2. IF wop[u] = "U" THEN held[u][m] = "S" /\ op[m] = "S" ELSE held[u][m] = "N"
      BY DEF IInv, WaitMode
    <2>3. wop[u] = "U" => u \in owners[m]
      BY <2>2 DEF IInv, OwnersAreHolders
    <2>4. QED
      BY <2>1, <2>2, <2>3, <1>3, <1>4, <1>6
  <1>9. GrantMode'
    <2> SUFFICES ASSUME NEW u \in TS, NEW m \in Lock, spin[u] = m, ~waiting[u]
                 PROVE  /\ wop[u] = "S" => op'[m] = "S" /\ held'[u][m] = "N"
                        /\ wop[u] = "E" => op'[m] = "E" /\ held'[u][m] = "N"
                        /\ wop[u] = "U" => op'[m] = "E" /\ held'[u][m] = "S"
      BY <1>1 DEF GrantMode
    <2>1. u # t /\ u \in owners[m]
      BY <1>5 DEF IInv, OwnersAreHolders
    <2>2. held'[u][m] = held[u][m] /\ op'[m] = op[m]
      BY <2>1, <1>3, <1>4, <1>6, SMTT(40)
    <2>3. QED
      BY <2>2 DEF IInv, GrantMode
  <1>10. SharedMode'
    <2> SUFFICES ASSUME NEW u \in TS, NEW m \in Lock, held'[u][m] = "S"
                 PROVE  op'[m] = "S" \/ (spin[u] = m /\ ~waiting[u] /\ wop[u] = "U")
      BY <1>1 DEF SharedMode
    <2>1. held[u][m] = "S" /\ ~(u = t /\ m = l)
      BY <1>3
    <2>2. u \in owners[m]
      BY <2>1, Zenon DEF IInv, OwnersAreHolders
    <2>3. op'[m] = op[m]
      BY <2>1, <2>2, <1>4, <1>6, SMTT(40)
    <2>4. QED
      BY <2>1, <2>3 DEF IInv, SharedMode
  <1>11. OwnersAreHolders'
    <2> SUFFICES ASSUME NEW m \in Lock
                 PROVE  /\ \A u \in TS : u \in owners'[m] <=>
                                held'[u][m] # "N" \/ (spin[u] = m /\ ~waiting[u])
                        /\ op'[m] = "I" <=> owners'[m] = {}
                        /\ op'[m] = "E" => ~\E p, q \in owners'[m] : p # q
                        /\ \A u \in TS : held'[u][m] = "E" => op'[m] = "E"
      BY <1>1, HoldersNext
    <2>1. CASE m # l
      BY <2>1, <1>3, <1>4 DEF IInv, OwnersAreHolders, Multiple
    <2>2. CASE m = l
      <3>1. \A u \in TS : u \in owners'[m] <=>
                held'[u][m] # "N" \/ (spin[u] = m /\ ~waiting[u])
        BY <2>2, <1>3, <1>4, <1>5 DEF IInv, OwnersAreHolders
      <3>2. op'[m] = "I" <=> owners'[m] = {}
        <4>1. op[l] # "I"
          BY DEF IInv, OwnersAreHolders
        <4>2. owners'[l] = {} <=> owners[l] = {t}
          BY <1>4
        <4>3. QED
          BY <2>2, <4>1, <4>2, <1>4
      <3>3. op'[m] = "E" => ~\E p, q \in owners'[m] : p # q
        BY <2>2, <1>4 DEF IInv, OwnersAreHolders, Multiple
      <3>4. \A u \in TS : held'[u][m] = "E" => op'[m] = "E"
        BY <2>2, <1>3, <1>6 DEF IInv, OwnersAreHolders
      <3>5. QED
        BY <3>1, <3>2, <3>3, <3>4
    <2>3. QED
      BY <2>1, <2>2, SMTT(40)
  <1>12. WaitsForYounger'
    BY <1>1, <1>4 DEF IInv, WaitsForYounger
  <1>13. UpgradeAtHead' /\ NoException'
    BY <1>1 DEF IInv, UpgradeAtHead, IsFront, NoException
  <1>14. NoLostWakeup'
    BY <1>1, <1>4, LockAssumption DEF IInv, NoLostWakeup
  <1>15. QED
    BY <1>2, <1>7, <1>8, <1>9, <1>10, <1>11, <1>12, <1>13, <1>14 DEF IInv

\* The loop of promote_waiters ends and the latch is released.
LEMMA PromoteReturnIInv ==
  ASSUME IInv, NEW t \in TS, NEW l \in Lock, PromoteReturn(t, l)
  PROVE  IInv'
  <1>1. /\ latch' = [latch EXCEPT ![l] = None]
        /\ UNCHANGED <<op, owners, waiters, txVars, raised>>
        /\ waiters[l] # {} => \E w \in waiters[l] : IsFront(w, l) /\ MustFinish(w, l)
    BY DEF PromoteReturn
  <1>2. UNCHANGED <<wop, waiting, spin, held, phase, budget>>
    BY <1>1 DEF txVars
  <1>3. TypeOK'
    BY <1>1, <1>2, ZenonT(60) DEF IInv, TypeOK
  <1>4. /\ Queued' /\ WaitMode' /\ GrantMode' /\ SharedMode' /\ OwnersAreHolders'
        /\ WaitsForYounger' /\ UpgradeAtHead' /\ NoException'
    BY <1>1, <1>2 DEF IInv, Queued, WaitMode, GrantMode, SharedMode, OwnersAreHolders,
                      Multiple, WaitsForYounger, UpgradeAtHead, IsFront, NoException
  <1>5. NoLostWakeup'
    <2> SUFFICES ASSUME NEW m \in Lock, latch'[m] = None, NEW w \in waiters[m]
                 PROVE  \E o \in owners[m] : o # w
      BY <1>1 DEF NoLostWakeup
    <2>1. CASE m # l
      BY <2>1, <1>1 DEF IInv, NoLostWakeup, TypeOK
    <2>2. CASE m = l
      <3>1. PICK f \in waiters[l] : IsFront(f, l) /\ MustFinish(f, l)
        BY <2>2, <1>1
      <3>2. CASE wop[f] = "U"
        BY <3>1, <3>2, <2>2 DEF MustFinish, Multiple
      <3>3. CASE wop[f] # "U"
        <4>1. owners[l] # {}
          BY <3>1, <3>3 DEF MustFinish, IInv, OwnersAreHolders
        <4>2. w \in Nat /\ f \in Nat
          BY <2>2, LockAssumption, Zenon DEF IInv, TypeOK
        <4>3. wop[w] # "U"
          BY <2>2, <3>1, <3>3, <4>2 DEF IInv, UpgradeAtHead, IsFront
        <4>4. w \notin owners[l]
          BY <2>2, <4>2, <4>3 DEF IInv, WaitsForYounger
        <4>5. QED
          BY <2>2, <4>1, <4>4, SMTT(40)
      <3>4. QED
        BY <3>2, <3>3
    <2>3. QED
      BY <2>1, <2>2
  <1>6. QED
    BY <1>3, <1>4, <1>5 DEF IInv

\* The waiter at the front becomes an owner.
LEMMA PromoteOwnerIInv ==
  ASSUME IInv, NEW t \in TS, NEW l \in Lock, PromoteOwner(t, l)
  PROVE  IInv'
  <1>1. PICK w \in waiters[l] :
           /\ IsFront(w, l)
           /\ ~MustFinish(w, l)
           /\ wop[w] \in {"S", "E"}
           /\ owners' = [owners EXCEPT ![l] = @ \cup {w}]
           /\ op' = [op EXCEPT ![l] = wop[w]]
           /\ Wake(w, l)
    BY Zenon DEF PromoteOwner
  <1>2. /\ waiters' = [waiters EXCEPT ![l] = @ \ {w}]
        /\ waiting' = [waiting EXCEPT ![w] = FALSE]
        /\ UNCHANGED <<latch, wop, spin, held, phase, budget, raised>>
    BY <1>1 DEF Wake
  <1>3. w \in TS /\ spin[w] = l /\ waiting[w] /\ held[w][l] = "N" /\ latch[l] # None
    BY <1>1, LockAssumption DEF IInv, TypeOK, Queued, WaitMode, PromoteOwner
  <1>4. TypeOK'
    BY <1>1, <1>2, <1>3 DEF IInv, TypeOK
  <1>5. /\ \A m \in Lock :
              /\ owners'[m] = IF m = l THEN owners[l] \cup {w} ELSE owners[m]
              /\ op'[m] = IF m = l THEN wop[w] ELSE op[m]
              /\ waiters'[m] = IF m = l THEN waiters[l] \ {w} ELSE waiters[m]
        /\ \A u \in TS : waiting'[u] = IF u = w THEN FALSE ELSE waiting[u]
    BY <1>1, <1>2, <1>3 DEF IInv, TypeOK
  <1>6. /\ op[l] = "I" \/ (op[l] = "S" /\ wop[w] = "S")
        /\ wop[w] = "E" => owners[l] = {}
    BY <1>1 DEF MustFinish, IInv, TypeOK, OwnersAreHolders
  <1>7. \A u \in TS : u \in owners[l] => op'[l] = op[l] /\ op[l] = "S"
    BY <1>5, <1>6 DEF IInv, OwnersAreHolders
  <1>8. Queued'
    <2> SUFFICES ASSUME NEW u \in TS, NEW m \in Lock
                 PROVE  u \in waiters'[m] <=> spin[u] = m /\ waiting'[u]
      BY <1>2 DEF Queued
    <2>1. CASE u = w
      <3>1. ~waiting'[w]
        BY <1>3, <1>5, Zenon
      <3>2. w \notin waiters'[m]
        BY <1>3, <1>5 DEF IInv, Queued
      <3>3. QED
        BY <2>1, <3>1, <3>2
    <2>2. CASE u # w
      <3>1. waiting'[u] = waiting[u] /\ (u \in waiters'[m] <=> u \in waiters[m])
        BY <2>2, <1>5, Zenon
      <3>2. QED
        BY <3>1 DEF IInv, Queued
    <2>3. QED
      BY <2>1, <2>2
  <1>9. WaitMode'
    <2> SUFFICES ASSUME NEW u \in TS, NEW m \in Lock, u \in waiters'[m]
                 PROVE  IF wop[u] = "U" THEN held[u][m] = "S" /\ op'[m] = "S"
                                        ELSE held[u][m] = "N"
      BY <1>2 DEF WaitMode
    <2>1. u \in waiters[m]
      BY <1>5
    <2>2. IF wop[u] = "U" THEN held[u][m] = "S" /\ op[m] = "S" ELSE held[u][m] = "N"
      BY <2>1 DEF IInv, WaitMode
    <2>3. wop[u] = "U" => u \in owners[m]
      BY <2>2, Zenon DEF IInv, OwnersAreHolders
    <2>4. QED
      BY <2>2, <2>3, <1>5, <1>7
  <1>10. GrantMode'
    <2> SUFFICES ASSUME NEW u \in TS, NEW m \in Lock, spin[u] = m, ~waiting'[u]
                 PROVE  /\ wop[u] = "S" => op'[m] = "S" /\ held[u][m] = "N"
                        /\ wop[u] = "E" => op'[m] = "E" /\ held[u][m] = "N"
                        /\ wop[u] = "U" => op'[m] = "E" /\ held[u][m] = "S"
      BY <1>2, ZenonT(60) DEF GrantMode
    <2>1. CASE u = w
      BY <2>1, <1>1, <1>3, <1>5, ZenonT(60)
    <2>2. CASE u # w
      <3>1. ~waiting[u]
        BY <2>2, <1>5, Zenon
      <3>2. u \in owners[m]
        BY <3>1 DEF IInv, OwnersAreHolders
      <3>3. op'[m] = op[m]
        BY <3>2, <1>5, <1>7
      <3>4. QED
        BY <3>1, <3>3 DEF IInv, GrantMode
    <2>3. QED
      BY <2>1, <2>2
  <1>11. SharedMode'
    <2> SUFFICES ASSUME NEW u \in TS, NEW m \in Lock, held[u][m] = "S"
                 PROVE  op'[m] = "S" \/ (spin[u] = m /\ ~waiting'[u] /\ wop[u] = "U")
      BY <1>2 DEF SharedMode
    <2>1. u \in owners[m]
      BY DEF IInv, OwnersAreHolders
    <2>2. CASE m = l
      BY <2>1, <2>2, <1>7, Zenon
    <2>3. CASE m # l
      <3>1. op'[m] = op[m]
        BY <2>3, <1>5
      <3>2. spin[u] = m => waiting'[u] = waiting[u]
        BY <2>3, <1>3, <1>5, Zenon
      <3>3. QED
        BY <3>1, <3>2 DEF IInv, SharedMode
    <2>4. QED
      BY <2>2, <2>3
  <1>12. OwnersAreHolders'
    <2> SUFFICES ASSUME NEW m \in Lock
                 PROVE  /\ \A u \in TS : u \in owners'[m] <=>
                                held[u][m] # "N" \/ (spin[u] = m /\ ~waiting'[u])
                        /\ op'[m] = "I" <=> owners'[m] = {}
                        /\ op'[m] = "E" => ~\E p, q \in owners'[m] : p # q
                        /\ \A u \in TS : held[u][m] = "E" => op'[m] = "E"
      BY <1>2, HoldersNext
    <2>1. ASSUME NEW u \in TS
          PROVE  u \in owners'[m] <=> held[u][m] # "N" \/ (spin[u] = m /\ ~waiting'[u])
      <3>1. CASE u = w
        <4>1. ~waiting'[u] /\ (u \in owners'[m] <=> m = l \/ u \in owners[m])
          BY <3>1, <1>5, Zenon
        <4>2. u \in owners[m] <=> held[u][m] # "N"
          BY <3>1, <1>3 DEF IInv, OwnersAreHolders
        <4>3. QED
          BY <3>1, <4>1, <4>2, <1>3
      <3>2. CASE u # w
        <4>1. waiting'[u] = waiting[u] /\ (u \in owners'[m] <=> u \in owners[m])
          BY <3>2, <1>5, Zenon
        <4>2. QED
          BY <4>1 DEF IInv, OwnersAreHolders
      <3>3. QED
        BY <3>1, <3>2
    <2>2. op'[m] = "I" <=> owners'[m] = {}
      BY <1>1, <1>5, SMTT(40) DEF IInv, OwnersAreHolders
    <2>3. op'[m] = "E" => ~\E p, q \in owners'[m] : p # q
      BY <1>5, <1>6, SMTT(40) DEF IInv, OwnersAreHolders, Multiple
    <2>4. ASSUME NEW u \in TS, held[u][m] = "E" PROVE op'[m] = "E"
      <3>1. u \in owners[m] /\ op[m] = "E"
        BY <2>4, SMTT(40) DEF IInv, OwnersAreHolders
      <3>2. QED
        BY <3>1, <1>5, <1>7
    <2>5. QED
      BY <2>1, <2>2, <2>3, <2>4, Zenon
  <1>13. WaitsForYounger'
    <2> SUFFICES ASSUME NEW m \in Lock, NEW v \in waiters'[m], NEW o \in owners'[m]
                 PROVE  v < o \/ (v = o /\ wop[v] = "U")
      BY <1>2, Zenon DEF WaitsForYounger
    <2>1. v \in waiters[m] /\ (m = l => v # w)
      BY <1>5, Zenon
    <2>2. CASE o \in owners[m]
      BY <2>1, <2>2, Zenon DEF IInv, WaitsForYounger
    <2>3. CASE m = l /\ o = w
      <3>1. w \in waiters[l] /\ v \in waiters[l] /\ v # w /\ v <= w
        BY <2>1, <2>3, <1>1 DEF IsFront
      <3>2. v \in Nat /\ w \in Nat
        BY <3>1, WaitersAreNumbers DEF IInv
      <3>3. QED
        BY <3>1, <3>2, <2>3
    <2>4. QED
      BY <2>2, <2>3, <1>5, Zenon
  <1>14. UpgradeAtHead' /\ NoException'
    BY <1>2, <1>5, SMTT(40) DEF IInv, UpgradeAtHead, IsFront, NoException
  <1>15. NoLostWakeup'
    BY <1>2, <1>3, <1>5, SMTT(40) DEF IInv, NoLostWakeup
  <1>16. QED
    BY <1>4, <1>8, <1>9, <1>10, <1>11, <1>12, <1>13, <1>14, <1>15 DEF IInv

\* The upgrade at the front is granted; promote_waiters never throws.
LEMMA PromoteUpgradeIInv ==
  ASSUME IInv, NEW t \in TS, NEW l \in Lock, PromoteUpgrade(t, l)
  PROVE  IInv'
  <1>1. PICK w \in waiters[l] :
           /\ ~MustFinish(w, l)
           /\ wop[w] = "U"
           /\ IF op[l] = "S" /\ IsOldestOwner(w, l)
              THEN op' = [op EXCEPT ![l] = "E"] /\ Wake(w, l) /\ UNCHANGED owners
              ELSE Raise(t, l) /\ UNCHANGED budget
    BY DEF PromoteUpgrade
  <1>2. w \in TS /\ w \in Nat /\ spin[w] = l /\ waiting[w] /\ latch[l] # None
    BY LockAssumption, SMTT(40) DEF IInv, TypeOK, Queued, PromoteUpgrade
  <1>3. held[w][l] = "S" /\ op[l] = "S" /\ w \in owners[l]
    BY <1>1, <1>2, ZenonT(60) DEF IInv, WaitMode, OwnersAreHolders
  <1>4. owners[l] = {w}
    BY <1>1, <1>3, Zenon DEF MustFinish, Multiple
  <1>5. /\ op' = [op EXCEPT ![l] = "E"]
        /\ waiters' = [waiters EXCEPT ![l] = @ \ {w}]
        /\ waiting' = [waiting EXCEPT ![w] = FALSE]
        /\ UNCHANGED <<owners, latch, wop, spin, held, phase, budget, raised>>
    BY <1>1, <1>2, <1>3, <1>4 DEF IsOldestOwner, Wake
  <1>6. TypeOK'
    BY <1>2, <1>5 DEF IInv, TypeOK
  <1>7. /\ \A m \in Lock :
              /\ op'[m] = IF m = l THEN "E" ELSE op[m]
              /\ waiters'[m] = IF m = l THEN waiters[l] \ {w} ELSE waiters[m]
        /\ \A u \in TS : waiting'[u] = IF u = w THEN FALSE ELSE waiting[u]
    BY <1>2, <1>5 DEF IInv, TypeOK
  <1>8. Queued'
    <2> SUFFICES ASSUME NEW u \in TS, NEW m \in Lock
                 PROVE  u \in waiters'[m] <=> spin[u] = m /\ waiting'[u]
      BY <1>5 DEF Queued
    <2>1. CASE u = w
      <3>1. ~waiting'[w]
        BY <1>2, <1>7, Zenon
      <3>2. w \notin waiters'[m]
        BY <1>2, <1>7 DEF IInv, Queued
      <3>3. QED
        BY <2>1, <3>1, <3>2
    <2>2. CASE u # w
      <3>1. waiting'[u] = waiting[u] /\ (u \in waiters'[m] <=> u \in waiters[m])
        BY <2>2, <1>7, ZenonT(60)
      <3>2. QED
        BY <3>1 DEF IInv, Queued
    <2>3. QED
      BY <2>1, <2>2
  <1>9. WaitMode'
    <2> SUFFICES ASSUME NEW u \in TS, NEW m \in Lock, u \in waiters'[m]
                 PROVE  IF wop[u] = "U" THEN held[u][m] = "S" /\ op'[m] = "S"
                                        ELSE held[u][m] = "N"
      BY <1>5, SMTT(40) DEF WaitMode
    <2>1. u \in waiters[m] /\ (m = l => u # w)
      BY <1>7
    <2>2. IF wop[u] = "U" THEN held[u][m] = "S" /\ op[m] = "S" ELSE held[u][m] = "N"
      BY <2>1, Zenon DEF IInv, WaitMode
    <2>3. wop[u] = "U" => u \in owners[m]
      BY <2>2 DEF IInv, OwnersAreHolders
    <2>4. QED
      BY <2>1, <2>2, <2>3, <1>4, <1>7
  <1>10. GrantMode'
    <2> SUFFICES ASSUME NEW u \in TS, NEW m \in Lock, spin[u] = m, ~waiting'[u]
                 PROVE  /\ wop[u] = "S" => op'[m] = "S" /\ held[u][m] = "N"
                        /\ wop[u] = "E" => op'[m] = "E" /\ held[u][m] = "N"
                        /\ wop[u] = "U" => op'[m] = "E" /\ held[u][m] = "S"
      BY <1>5, ZenonT(60) DEF GrantMode
    <2>1. CASE u = w
      BY <2>1, <1>1, <1>2, <1>3, <1>7
    <2>2. CASE u # w
      <3>1. ~waiting[u]
        BY <2>2, <1>7, Zenon
      <3>2. u \in owners[m]
        BY <3>1 DEF IInv, OwnersAreHolders
      <3>3. op'[m] = op[m]
        BY <2>2, <3>2, <1>4, <1>7
      <3>4. QED
        BY <3>1, <3>3 DEF IInv, GrantMode
    <2>3. QED
      BY <2>1, <2>2
  <1>11. SharedMode'
    <2> SUFFICES ASSUME NEW u \in TS, NEW m \in Lock, held[u][m] = "S"
                 PROVE  op'[m] = "S" \/ (spin[u] = m /\ ~waiting'[u] /\ wop[u] = "U")
      BY <1>5 DEF SharedMode
    <2>1. u \in owners[m]
      BY DEF IInv, OwnersAreHolders
    <2>2. CASE m = l
      BY <2>1, <2>2, <1>1, <1>2, <1>4, <1>7, Zenon
    <2>3. CASE m # l
      <3>1. op'[m] = op[m]
        BY <2>3, <1>7
      <3>2. spin[u] = m => waiting'[u] = waiting[u]
        BY <2>3, <1>2, <1>7, ZenonT(60)
      <3>3. QED
        BY <3>1, <3>2 DEF IInv, SharedMode
    <2>4. QED
      BY <2>2, <2>3
  <1>12. OwnersAreHolders'
    <2> SUFFICES ASSUME NEW m \in Lock
                 PROVE  /\ \A u \in TS : u \in owners[m] <=>
                                held[u][m] # "N" \/ (spin[u] = m /\ ~waiting'[u])
                        /\ op'[m] = "I" <=> owners[m] = {}
                        /\ op'[m] = "E" => ~\E p, q \in owners[m] : p # q
                        /\ \A u \in TS : held[u][m] = "E" => op'[m] = "E"
      BY <1>5, HoldersNext
    <2>1. ASSUME NEW u \in TS
          PROVE  u \in owners[m] <=> held[u][m] # "N" \/ (spin[u] = m /\ ~waiting'[u])
      <3>1. CASE u = w
        <4>1. u \in owners[m] <=> held[u][m] # "N"
          BY <3>1, <1>2 DEF IInv, OwnersAreHolders
        <4>2. spin[u] = m => u \in owners[m]
          BY <3>1, <1>2, <1>3
        <4>3. QED
          BY <4>1, <4>2, Zenon
      <3>2. CASE u # w
        <4>1. waiting'[u] = waiting[u]
          BY <3>2, <1>7, ZenonT(60)
        <4>2. QED
          BY <4>1 DEF IInv, OwnersAreHolders
      <3>3. QED
        BY <3>1, <3>2, Zenon
    <2>2. op'[m] = "I" <=> owners[m] = {}
      BY <1>4, <1>7 DEF IInv, OwnersAreHolders
    <2>3. op'[m] = "E" => ~\E p, q \in owners[m] : p # q
      BY <1>4, <1>7 DEF IInv, OwnersAreHolders, Multiple
    <2>4. \A u \in TS : held[u][m] = "E" => op'[m] = "E"
      BY <1>7 DEF IInv, OwnersAreHolders
    <2>5. QED
      BY <2>1, <2>2, <2>3, <2>4
  <1>13. WaitsForYounger' /\ UpgradeAtHead' /\ NoException'
    BY <1>5, <1>7, SMTT(40) DEF IInv, WaitsForYounger, UpgradeAtHead, IsFront, NoException
  <1>14. NoLostWakeup'
    BY <1>2, <1>5, <1>7 DEF IInv, NoLostWakeup
  <1>15. QED
    BY <1>6, <1>8, <1>9, <1>10, <1>11, <1>12, <1>13, <1>14, Zenon DEF IInv

\* A promoted transaction leaves its spin loop.
LEMMA EndSpinIInv ==
  ASSUME IInv, NEW t \in TS, EndSpin(t)
  PROVE  IInv'
  <1> DEFINE l == spin[t]
             h == IF wop[t] = "S" THEN "S" ELSE "E"
  <1>1. /\ held' = [held EXCEPT ![t][l] = h]
        /\ spin' = [spin EXCEPT ![t] = None]
        /\ wop' = [wop EXCEPT ![t] = "S"]
        /\ UNCHANGED <<op, owners, waiters, latch, waiting, phase, budget, raised>>
    BY Zenon DEF EndSpin, lockVars
  <1>2. l \in Lock /\ ~waiting[t]
    BY DEF EndSpin, IInv, TypeOK
  <1>3. t \in owners[l]
    BY <1>2 DEF IInv, OwnersAreHolders
  <1>4. op[l] = h
    BY <1>2 DEF IInv, TypeOK, GrantMode
  <1> HIDE DEF l, h
  <1>5. TypeOK'
    <2>1. h \in {"S", "E"}
      BY DEF h
    <2>2. held' \in [TS -> [Lock -> {"N", "S", "E"}]]
      BY <2>1, <1>1, <1>2 DEF IInv, TypeOK
    <2>3. QED
      BY <2>2, <1>1 DEF IInv, TypeOK
  <1>6. /\ \A u \in TS, m \in Lock :
              held'[u][m] = IF u = t /\ m = l THEN h ELSE held[u][m]
        /\ \A u \in TS : /\ spin'[u] = IF u = t THEN None ELSE spin[u]
                         /\ wop'[u] = IF u = t THEN "S" ELSE wop[u]
    BY <1>1, <1>2 DEF IInv, TypeOK
  <1>7. \A m \in Lock : /\ t \notin waiters[m]
                        /\ spin[t] = m => m = l
                        /\ None # m
    BY <1>2, LockAssumption DEF IInv, Queued, l
  <1>8. Queued'
    BY <1>1, <1>6, <1>7 DEF IInv, Queued
  <1>9. WaitMode'
    BY <1>1, <1>6, <1>7 DEF IInv, WaitMode
  <1>10. GrantMode'
    BY <1>1, <1>6, <1>7, SMTT(40) DEF IInv, GrantMode
  <1>11. SharedMode'
    <2> SUFFICES ASSUME NEW u \in TS, NEW m \in Lock, held'[u][m] = "S"
                 PROVE  op[m] = "S" \/ (spin'[u] = m /\ ~waiting[u] /\ wop'[u] = "U")
      BY <1>1, ZenonT(60) DEF SharedMode
    <2>1. CASE u = t /\ m = l
      BY <2>1, <1>4, <1>6, Zenon
    <2>2. CASE u = t /\ m # l
      BY <2>2, <1>6, <1>7 DEF IInv, SharedMode
    <2>3. CASE u # t
      BY <2>3, <1>6 DEF IInv, SharedMode
    <2>4. QED
      BY <2>1, <2>2, <2>3
  <1>12. OwnersAreHolders'
    <2> SUFFICES ASSUME NEW m \in Lock
                 PROVE  /\ \A u \in TS : u \in owners[m] <=>
                                held'[u][m] # "N" \/ (spin'[u] = m /\ ~waiting[u])
                        /\ op[m] = "I" <=> owners[m] = {}
                        /\ op[m] = "E" => ~Multiple(m)
                        /\ \A u \in TS : held'[u][m] = "E" => op[m] = "E"
      BY <1>1, SMTT(40) DEF OwnersAreHolders, Multiple
    <2>1. ASSUME NEW u \in TS
          PROVE  u \in owners[m] <=> held'[u][m] # "N" \/ (spin'[u] = m /\ ~waiting[u])
      <3>1. CASE u = t /\ m = l
        <4>1. held'[u][m] # "N"
          BY <3>1, <1>6, Zenon DEF h
        <4>2. QED
          BY <3>1, <4>1, <1>3
      <3>2. CASE u = t /\ m # l
        BY <3>2, <1>6, <1>7 DEF IInv, OwnersAreHolders
      <3>3. CASE u # t
        BY <3>3, <1>6 DEF IInv, OwnersAreHolders
      <3>4. QED
        BY <3>1, <3>2, <3>3
    <2>2. \A u \in TS : held'[u][m] = "E" => op[m] = "E"
      BY <1>4, <1>6 DEF IInv, OwnersAreHolders
    <2>3. QED
      BY <2>1, <2>2 DEF IInv, OwnersAreHolders
  <1>13. WaitsForYounger' /\ UpgradeAtHead'
    <2>1. \A m \in Lock : \A w \in waiters[m] : wop'[w] = wop[w]
      BY <1>6, <1>7 DEF IInv, TypeOK
    <2>2. QED
      BY <2>1, <1>1, SMTT(40) DEF IInv, WaitsForYounger, UpgradeAtHead, IsFront
  <1>14. NoException' /\ NoLostWakeup'
    BY <1>1 DEF IInv, NoException, NoLostWakeup
  <1>15. QED
    BY <1>5, <1>8, <1>9, <1>10, <1>11, <1>12, <1>13, <1>14 DEF IInv

\* A step that only moves a transaction to its next phase.
LEMMA PhaseIInv ==
  ASSUME IInv, phase' \in [TS -> {"grow", "shrink", "done"}],
         budget' \in [TS -> 0..MaxOps],
         UNCHANGED <<op, owners, waiters, latch, wop, waiting, spin, held, raised>>
  PROVE  IInv'
  <1>1. TypeOK'
    BY Zenon DEF IInv, TypeOK
  <1>2. Queued' /\ WaitMode'
    BY DEF IInv, Queued, WaitMode
  <1>3. GrantMode' /\ SharedMode'
    BY DEF IInv, GrantMode, SharedMode
  <1>4. OwnersAreHolders'
    BY DEF IInv, OwnersAreHolders, Multiple
  <1>5. WaitsForYounger' /\ UpgradeAtHead' /\ NoException' /\ NoLostWakeup'
    BY DEF IInv, WaitsForYounger, UpgradeAtHead, IsFront, NoException, NoLostWakeup
  <1>6. QED
    BY <1>1, <1>2, <1>3, <1>4, <1>5, Zenon DEF IInv

LEMMA DieIInv ==
  ASSUME IInv, NEW t \in TS, NEW l \in Lock, Request(t, l), Die(t)
  PROVE  IInv'
  <1>1. budget' \in [TS -> 0..MaxOps]
    BY LockAssumption DEF Request, IInv, TypeOK
  <1>2. phase' \in [TS -> {"grow", "shrink", "done"}]
    BY SMTT(40) DEF Die, IInv, TypeOK
  <1>3. QED
    BY <1>1, <1>2, PhaseIInv DEF Die, lockVars

-----------------------------------------------------------------------------
LEMMA NextIInv == IInv /\ [Next]_vars => IInv'
  <1> SUFFICES ASSUME IInv, [Next]_vars PROVE IInv'
    BY SMTT(40)
  <1>1. ASSUME NEW t \in TS, NEW l \in Lock, try_lock_shared(t, l)
        PROVE  IInv'
    <2>1. Request(t, l) /\ held[t][l] = "N"
      BY <1>1, SMTT(40) DEF try_lock_shared
    <2>2. CASE op[l] \in {"I", "S"} /\ waiters[l] = {} /\ Grant(t, l, "S")
      BY <2>1, <2>2, GrantIInv, Zenon
    <2>3. CASE /\ op[l] = "E" \/ waiters[l] # {}
               /\ AllOwnersYounger(t, l) /\ Wait(t, l, "S")
      BY <2>1, <2>3, WaitIInv
    <2>4. CASE Die(t)
      BY <2>1, <2>4, DieIInv, Zenon
    <2>5. QED
      BY <1>1, <2>2, <2>3, <2>4, Zenon DEF try_lock_shared
  <1>2. ASSUME NEW t \in TS, NEW l \in Lock, try_lock(t, l)
        PROVE  IInv'
    <2>1. Request(t, l) /\ held[t][l] = "N"
      BY <1>2 DEF try_lock
    <2>2. CASE op[l] = "I" /\ waiters[l] = {} /\ Grant(t, l, "E")
      BY <2>1, <2>2, GrantIInv, Zenon
    <2>3. CASE /\ op[l] # "I" \/ waiters[l] # {}
               /\ AllOwnersYounger(t, l) /\ Wait(t, l, "E")
      BY <2>1, <2>3, WaitIInv, Zenon
    <2>4. CASE Die(t)
      BY <2>1, <2>4, DieIInv
    <2>5. QED
      BY <1>2, <2>2, <2>3, <2>4, Zenon DEF try_lock
  <1>3. ASSUME NEW t \in TS, NEW l \in Lock, try_lock_upgrade(t, l)
        PROVE  IInv'
    <2>1. Request(t, l) /\ held[t][l] = "S"
      BY <1>3 DEF try_lock_upgrade
    <2>2. op[l] = "S"
      BY <2>1, LockAssumption, ZenonT(60) DEF Request, Idle, IInv, SharedMode
    <2>3. CASE IsOldestOwner(t, l) /\ Multiple(l) /\ Wait(t, l, "U")
      BY <2>1, <2>2, <2>3, WaitIInv, Zenon
    <2>4. CASE IsOldestOwner(t, l) /\ ~Multiple(l) /\ Grant(t, l, "E")
      BY <2>1, <2>4, GrantIInv DEF IsOldestOwner
    <2>5. CASE Die(t)
      BY <2>1, <2>5, DieIInv, SMTT(40)
    <2>6. QED
      BY <1>3, <2>2, <2>3, <2>4, <2>5, Zenon DEF try_lock_upgrade
  <1>4. ASSUME NEW t \in TS, NEW l \in Lock, unlock_shared(t, l)
        PROVE  IInv'
    <2>1. spin[t] = None /\ held[t][l] = "S"
      BY <1>4 DEF unlock_shared, Idle
    <2>2. op[l] = "S" /\ t \in owners[l]
      BY <2>1, LockAssumption, ZenonT(60) DEF IInv, SharedMode, OwnersAreHolders
    <2>3. QED
      BY <1>4, <2>1, <2>2, RemoveIInv DEF unlock_shared
  <1>5. ASSUME NEW t \in TS, NEW l \in Lock, unlock(t, l)
        PROVE  IInv'
    <2>1. spin[t] = None /\ held[t][l] = "E"
      BY <1>5 DEF unlock, Idle
    <2>2. op[l] = "E" /\ t \in owners[l]
      BY <2>1 DEF IInv, OwnersAreHolders
    <2>3. QED
      BY <1>5, <2>1, <2>2, RemoveIInv DEF unlock
  <1>6. ASSUME NEW t \in TS, BeginRelease(t) \/ EndRelease(t)
        PROVE  IInv'
    <2>1. phase' \in [TS -> {"grow", "shrink", "done"}]
      BY <1>6, SMTT(40) DEF BeginRelease, EndRelease, IInv, TypeOK
    <2>2. budget' \in [TS -> 0..MaxOps]
      BY <1>6 DEF BeginRelease, EndRelease, IInv, TypeOK
    <2>3. UNCHANGED <<op, owners, waiters, latch, wop, waiting, spin, held, raised>>
      BY <1>6, Zenon DEF BeginRelease, EndRelease, lockVars
    <2>4. QED
      BY <2>1, <2>2, <2>3, PhaseIInv
  <1>7. ASSUME UNCHANGED vars
        PROVE  IInv'
    BY <1>7, PhaseIInv DEF vars, IInv, TypeOK
  <1>8. QED
    BY <1>1, <1>2, <1>3, <1>4, <1>5, <1>6, <1>7,
       PromoteReturnIInv, PromoteOwnerIInv, PromoteUpgradeIInv, EndSpinIInv, Zenon
       DEF Next, TxStep, LockStep, Spin, AllDone

LEMMA InvariantHolds == Spec => []IInv
  BY InitIInv, NextIInv, PTL DEF Spec

\* The lists, the modes and the nodes of the lock keep their types.
THEOREM TypeCorrect == Spec => []TypeOK
  <1>1. IInv => TypeOK
    BY DEF IInv
  <1>2. QED
    BY <1>1, InvariantHolds, PTL

\* A transaction that holds a record exclusively is alone on it.
THEOREM Exclusion == Spec => []MutualExclusion
  <1>1. IInv => MutualExclusion
    BY DEF IInv, MutualExclusion, OwnersAreHolders, Multiple, TypeOK
  <1>2. QED
    BY <1>1, InvariantHolds, PTL

\* The owner list is exactly who holds the lock.
THEOREM OwnerListSound == Spec => []OwnersAreHolders
  <1>1. IInv => OwnersAreHolders
    BY DEF IInv
  <1>2. QED
    BY <1>1, InvariantHolds, PTL

\* Waits only go from older to younger transactions, and upgrades come first.
THEOREM WaitDieOrder == Spec => [](WaitsForYounger /\ UpgradeAtHead)
  <1>1. IInv => WaitsForYounger /\ UpgradeAtHead
    BY DEF IInv
  <1>2. QED
    BY <1>1, InvariantHolds, PTL

\* No throw or assert of the lock is reached.
THEOREM NeverThrows == Spec => []NoException
  <1>1. IInv => NoException
    BY DEF IInv
  <1>2. QED
    BY <1>1, InvariantHolds, PTL

\* Whoever sleeps on the lock is blocked by a holder, which will wake it: no
\* waiter that could be promoted is left behind.
THEOREM NoWaiterForgotten == Spec => []NoLostWakeup
  <1>1. IInv => NoLostWakeup
    BY DEF IInv
  <1>2. QED
    BY <1>1, InvariantHolds, PTL
=============================================================================
