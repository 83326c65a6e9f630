------------------------------ MODULE Silo_proofs ------------------------------
(***************************************************************************)
(* The locks of Silo's precommit, for any number of transactions, keys and *)
(* operations: a lock bit has exactly one owner, and the transactions that *)
(* spin for one never wait in a circle.                                    *)
(***************************************************************************)
EXTENDS Silo, FiniteSetTheorems, WellFoundedInduction, TLAPS

\* the Values that hold key k
Of(k) == {v \in Value : v[2] = k}

\* a function on keys, with a Value of the key for each of them
IsMap(f) == f = [k \in DOMAIN f |-> f[k]] /\ DOMAIN f \subseteq Key

IsWord(w) ==
    /\ w = [epoch |-> w.epoch, tid |-> w.tid, lock |-> w.lock, latest |-> w.latest,
            absent |-> w.absent]
    /\ w.lock \in BOOLEAN

IsEntry(e) == e = [val |-> e.val, tw |-> e.tw, rwt |-> e.rwt, new |-> e.new]

WordsOK == word = [v \in Value |-> word[v]] /\ \A v \in Value : IsWord(word[v])

IndexOK ==
    index = [k \in Key |-> index[k]] /\ \A k \in Key : index[k] = NoValue \/ index[k] \in Of(k)

LocalOK ==
    /\ pc = [t \in Tx |-> pc[t]]
    /\ todo = [t \in Tx |-> todo[t]]
    /\ rws = [t \in Tx |-> rws[t]]

\* What is known of one transaction.  In the first phase of precommit it has
\* locked the keys of its write set below those it has still to lock.
TxInv(t) ==
    /\ IsMap(rws[t]) /\ \A k \in DOMAIN rws[t] : IsEntry(rws[t][k]) /\ rws[t][k].val \in Of(k)
    /\ IsMap(todo[t]) /\ \A k \in DOMAIN todo[t] : todo[t][k] \in Of(k)
    /\ pc[t] \in {"insert", "load", "access", "store", "unlink"} => DOMAIN todo[t] # {}
    /\ pc[t] = "lock" =>
          /\ \A k \in DOMAIN todo[t] : k \in WriteSet(t) /\ todo[t][k] = rws[t][k].val
          /\ \A j \in WriteSet(t) \ DOMAIN todo[t], k \in DOMAIN todo[t] : j < k

\* The inductive invariant.
SiloInv == WordsOK /\ IndexOK /\ LocalOK /\ (\A t \in Tx : TxInv(t)) /\ LocksAreHeld

-----------------------------------------------------------------------------
(***************************************************************************)
(* Numbers and functions.                                                  *)
(***************************************************************************)
LEMMA MinOf ==
    ASSUME NEW T, T \subseteq Nat, T # {}
    PROVE  Min(T) \in T /\ \A y \in T : Min(T) <= y
  <1> DEFINE R == OpToRel(<, Nat)
  <1>1. IsWellFoundedOn(R, Nat)
    BY NatLessThanWellFounded, Zenon
  <1>2. \A x, y \in Nat : x < y => <<x, y>> \in R
    BY DEF OpToRel
  <1> HIDE DEF R
  <1>3. \E x \in T : \A y \in T : ~(<<y, x>> \in R)
    BY <1>1, WFMin, Zenon
  <1>4. PICK x \in T : \A y \in T : ~(<<y, x>> \in R)
    BY <1>3
  <1>5. ASSUME NEW y \in T PROVE x <= y
    <2>1. x \in Nat /\ y \in Nat
      OBVIOUS
    <2>2. ~(y < x)
      BY <1>2, <1>4, <2>1, Zenon
    <2> QED
      BY <2>1, <2>2
  <1> QED
    BY <1>5, Zenon DEF Min

LEMMA EmptyMap == IsMap(<< >>) /\ DOMAIN << >> = {}
  BY DEF IsMap

\* What is left of a map is one, and has its values.
LEMMA RestrictMap ==
    ASSUME NEW f, IsMap(f), NEW S, S \subseteq DOMAIN f
    PROVE  IsMap(Restrict(f, S)) /\ DOMAIN Restrict(f, S) = S
           /\ \A k \in S : Restrict(f, S)[k] = f[k]
  BY DEF IsMap, Restrict

\* A key is the key of one Value only.
LEMMA OneKey ==
    ASSUME NEW j, NEW k, NEW v \in Of(j), v \in Of(k)
    PROVE  j = k
  BY DEF Of

LEMMA ValsMap ==
    ASSUME NEW t \in Tx, TxInv(t), NEW K, K \subseteq DOMAIN rws[t]
    PROVE  /\ IsMap(Vals(t, K)) /\ DOMAIN Vals(t, K) = K
           /\ \A k \in K : Vals(t, K)[k] = rws[t][k].val /\ Vals(t, K)[k] \in Of(k)
  BY DEF TxInv, IsMap, Vals

-----------------------------------------------------------------------------
(***************************************************************************)
(* Steps of one transaction.                                               *)
(***************************************************************************)
\* a step of t, as far as the others are concerned
Others(t) ==
    /\ LocalOK'
    /\ \A u \in Tx \ {t} : pc'[u] = pc[u] /\ todo'[u] = todo[u] /\ rws'[u] = rws[u]

LEMMA OthersKeep ==
    ASSUME NEW t \in Tx, Others(t), NEW u \in Tx, u # t
    PROVE  Locked(u)' = Locked(u) /\ (TxInv(u) => TxInv(u)')
  <1>1. pc'[u] = pc[u] /\ todo'[u] = todo[u] /\ rws'[u] = rws[u]
    BY DEF Others
  <1>2. Locked(u)' = Locked(u)
    BY <1>1, ZenonT(60) DEF Locked, Vals, WriteSet, First, At
  <1>3. TxInv(u) => TxInv(u)'
    BY <1>1 DEF TxInv, WriteSet, Of, IsMap, IsEntry, Value
  <1> QED
    BY <1>2, <1>3

\* The step leaves the lock bits, and t's own locks, as they are.
LEMMA Quiet ==
    ASSUME SiloInv, NEW t \in Tx, Others(t), TxInv(t)', IndexOK', WordsOK',
           \A v \in Value : word'[v].lock = word[v].lock,
           Locked(t)' = Locked(t)
    PROVE  SiloInv'
  <1>1. \A u \in Tx : Locked(u)' = Locked(u)
    BY OthersKeep
  <1>2. \A u \in Tx : TxInv(u)'
    BY OthersKeep DEF SiloInv
  <1>3. LocksAreHeld'
    <2>1. ASSUME NEW v \in Value
          PROVE  /\ word'[v].lock <=> \E u \in Tx : v \in Locked(u)'
                 /\ \A u, w \in Tx : v \in Locked(u)' /\ v \in Locked(w)' => u = w
      BY <1>1 DEF SiloInv, LocksAreHeld
    <2> QED
      BY <2>1 DEF LocksAreHeld, Value
  <1> QED
    BY <1>2, <1>3 DEF SiloInv, Others

\* In particular, it holds none before and after it.
Unlocked(p) == p \notin {"lock", "validate", "write", "store", "unlock", "unlink"}

LEMMA QuietOutside ==
    ASSUME SiloInv, NEW t \in Tx, Others(t), TxInv(t)', IndexOK',
           UNCHANGED word, Locked(t) = {}, Unlocked(pc'[t])
    PROVE  SiloInv'
  <1>1. Locked(t)' = {}
    BY DEF Locked, Unlocked
  <1>2. WordsOK'
    BY Zenon DEF SiloInv, WordsOK, Value, IsWord
  <1> QED
    BY <1>1, <1>2, Quiet

LEMMA HoldsNone ==
    ASSUME NEW t \in Tx
    PROVE  /\ Unlocked(pc[t]) => Locked(t) = {}
           /\ pc[t] \in {"write", "store", "unlock"} /\ todo[t] = << >> => Locked(t) = {}
  BY EmptyMap DEF Locked, Unlocked, Range

-----------------------------------------------------------------------------
LEMMA InitInv == Init => SiloInv
  <1> SUFFICES ASSUME Init PROVE SiloInv
    OBVIOUS
  <1>1. WordsOK
    BY Zenon DEF Init, WordsOK, IsWord, Inserted
  <1>2. IndexOK
    BY TxAssumption DEF Init, IndexOK, Of, Value
  <1>3. LocalOK
    BY DEF Init, LocalOK
  <1>4. \A t \in Tx : TxInv(t)
    BY EmptyMap, Zenon DEF Init, TxInv
  <1>5. LocksAreHeld
    <2>1. \A t \in Tx : Locked(t) = {}
      BY Zenon DEF Init, Locked
    <2>2. \A v \in Value : word[v].lock = FALSE
      BY Zenon  DEF Init, Inserted
    <2> QED
      BY <2>1, <2>2 DEF LocksAreHeld
  <1> QED
    BY <1>1, <1>2, <1>3, <1>4, <1>5 DEF SiloInv

\* t keeps its read and write set, or gets a new one, and goes where it has no lock.
LEMMA TxInvOutside ==
    ASSUME NEW t \in Tx, Unlocked(pc'[t]),
           IsMap(rws'[t]), \A k \in DOMAIN rws'[t] : IsEntry(rws'[t][k]) /\ rws'[t][k].val \in Of(k),
           IsMap(todo'[t]), \A k \in DOMAIN todo'[t] : todo'[t][k] \in Of(k),
           pc'[t] \in {"insert", "load", "access"} => DOMAIN todo'[t] # {}
    PROVE  TxInv(t)'
  BY DEF TxInv, Unlocked, IsMap, IsEntry, Of, Value

\* return nullptr
LEMMA FailStep ==
    ASSUME SiloInv, NEW t \in Tx, Fail(t), Locked(t) = {}, UNCHANGED <<word, rws>>, IndexOK'
    PROVE  SiloInv'
  <1>1. Others(t)
    BY Zenon DEF SiloInv, Others, LocalOK, Fail, Goto
  <1>2. pc'[t] = "abort" /\ todo'[t] = Vals(t, NewKeys(t)) /\ rws'[t] = rws[t]
    BY DEF SiloInv, LocalOK, Fail, Goto
  <1>3. TxInv(t)'
    <2>1. TxInv(t) /\ NewKeys(t) \subseteq DOMAIN rws[t]
      BY DEF SiloInv, NewKeys
    <2>2. IsMap(rws[t]) /\ \A k \in DOMAIN rws[t] : IsEntry(rws[t][k]) /\ rws[t][k].val \in Of(k)
      BY <2>1 DEF TxInv
    <2> QED
      BY <1>2, <2>1, <2>2, ValsMap, TxInvOutside DEF Unlocked
  <1> QED
    BY <1>1, <1>2, <1>3, QuietOutside, SMTT(40) DEF Unlocked

\* an operation goes on, or returns
LEMMA LocalStep ==
    ASSUME SiloInv, NEW t \in Tx, NEW p, NEW m,
           pc' = [pc EXCEPT ![t] = p], todo' = [todo EXCEPT ![t] = m],
           Unlocked(p), Locked(t) = {},
           IsMap(m), \A k \in DOMAIN m : m[k] \in Of(k),
           p \in {"insert", "load", "access"} => DOMAIN m # {},
           UNCHANGED <<word, rws>>, IndexOK'
    PROVE  SiloInv'
  <1>1. Others(t)
    BY Zenon DEF SiloInv, Others, LocalOK
  <1>2. pc'[t] = p /\ todo'[t] = m /\ rws'[t] = rws[t]
    BY DEF SiloInv, LocalOK
  <1>3. TxInv(t)'
    <2>1. IsMap(rws[t]) /\ \A k \in DOMAIN rws[t] : IsEntry(rws[t][k]) /\ rws[t][k].val \in Of(k)
      BY DEF SiloInv, TxInv
    <2> QED
      BY <1>2, <2>1, TxInvOutside
  <1> QED
    BY <1>1, <1>2, <1>3, QuietOutside

\* One more key.
LEMMA PutMap ==
    ASSUME NEW f, IsMap(f), NEW k \in Key, NEW x
    PROVE  /\ IsMap(Put(f, k, x)) /\ DOMAIN Put(f, k, x) = DOMAIN f \cup {k}
           /\ Put(f, k, x)[k] = x /\ \A j \in DOMAIN f \ {k} : Put(f, k, x)[j] = f[j]
  BY DEF IsMap, Put

LEMMA SingletonMap ==
    ASSUME NEW k \in Key, NEW v \in Of(k)
    PROVE  /\ IsMap(Put(<< >>, k, v)) /\ DOMAIN Put(<< >>, k, v) # {}
           /\ \A j \in DOMAIN Put(<< >>, k, v) : Put(<< >>, k, v)[j] \in Of(j)
  <1>1. DOMAIN Put(<< >>, k, v) = {k} /\ Put(<< >>, k, v)[k] = v
    <2> DEFINE f == << >>
    <2>1. IsMap(f) /\ DOMAIN f = {}
      BY EmptyMap
    <2> HIDE DEF f
    <2>2. DOMAIN Put(f, k, v) = {k} /\ Put(f, k, v)[k] = v
      BY <2>1 DEF Put
    <2> QED
      BY <2>2 DEF f
  <1> QED
    BY <1>1, EmptyMap, PutMap, ZenonT(60)

LEMMA IndexKept == ASSUME IndexOK, UNCHANGED index PROVE IndexOK'
  BY DEF IndexOK, Of, Value

LEMMA FindStep ==
    ASSUME SiloInv, NEW t \in Tx, NEW o \in Op, NEW k \in Key, find(t, o, k)
    PROVE  SiloInv'
  <1> DEFINE own == k \in DOMAIN rws[t]
  <1>1. At(t, "run") /\ UNCHANGED <<word, rws>> /\ IndexOK'
    BY IndexKept DEF find, Call, shared, SiloInv
  <1>2. Locked(t) = {}
    BY <1>1, HoldsNone DEF At, Unlocked
  <1>3. CASE /\ own \/ index[k] # NoValue
             /\ Start(t, o, "load")
             /\ todo' = [todo EXCEPT ![t] = Put(<< >>, k, IF own THEN rws[t][k].val ELSE index[k])]
    <2> DEFINE v == IF own THEN rws[t][k].val ELSE index[k]
    <2>1. v \in Of(k)
      BY <1>3 DEF SiloInv, IndexOK, TxInv
    <2> HIDE DEF v
    <2>2. pc' = [pc EXCEPT ![t] = "load"] /\ todo' = [todo EXCEPT ![t] = Put(<< >>, k, v)]
      BY <1>3 DEF Start, Goto, v
    <2> QED
      BY <1>1, <1>2, <2>1, <2>2, SingletonMap, LocalStep, Zenon DEF Unlocked
  <1>4. CASE Start(t, o, "insert") /\ todo' = [todo EXCEPT ![t] = Put(<< >>, k, <<t, k>>)]
    <2>1. <<t, k>> \in Of(k)
      BY DEF Of, Value
    <2> QED
      BY <1>1, <1>2, <1>4, <2>1, SingletonMap, LocalStep, ZenonT(60) DEF Unlocked, Start, Goto
  <1>5. CASE Fail(t)
    BY <1>1, <1>2, <1>5, FailStep
  <1> QED
    BY <1>3, <1>4, <1>5 DEF find

LEMMA ScanStep ==
    ASSUME SiloInv, NEW t \in Tx, NEW o \in Op, NEW r \in Ranges, scan(t, o, r)
    PROVE  SiloInv'
  <1>1. At(t, "run") /\ UNCHANGED <<word, rws>> /\ IndexOK'
    BY IndexKept DEF scan, Call, shared, SiloInv
  <1>2. Locked(t) = {}
    BY <1>1, HoldsNone DEF At, Unlocked
  <1>3. CASE Fail(t)
    BY <1>1, <1>2, <1>3, FailStep, Zenon
  <1>4. CASE /\ IF Hits(r) = {} THEN Return(t) /\ UNCHANGED pc ELSE Start(t, o, "load")
             /\ todo' = [todo EXCEPT ![t] = [k \in Hits(r) |-> index[k]]]
    <2> DEFINE m == [k \in Hits(r) |-> index[k]]
    <2>1. IsMap(m) /\ \A k \in DOMAIN m : m[k] \in Of(k)
      BY DEF SiloInv, IndexOK, IsMap, Hits, InRange
    <2>2. DOMAIN m = Hits(r)
      OBVIOUS
    <2>3. todo' = [todo EXCEPT ![t] = m]
      BY <1>4
    <2> HIDE DEF m
    <2>4. CASE Hits(r) = {}
      <3>1. pc' = [pc EXCEPT ![t] = "run"]
        BY <1>1, <1>4, <2>4 DEF SiloInv, LocalOK, At
      <3> QED
        BY <1>1, <1>2, <2>1, <2>3, <3>1, LocalStep, Zenon DEF Unlocked
    <2>5. CASE Hits(r) # {}
      <3>1. pc' = [pc EXCEPT ![t] = "load"]
        BY <1>4, <2>5 DEF Start, Goto
      <3> QED
        BY <1>1, <1>2, <2>1, <2>2, <2>3, <2>5, <3>1, LocalStep, Zenon DEF Unlocked
    <2> QED
      BY <2>4, <2>5, ZenonT(60)
  <1> QED
    BY <1>3, <1>4 DEF scan

\* A key in todo exists where the code takes the next one.
LEMMA FirstKey ==
    ASSUME NEW t \in Tx, TxInv(t), DOMAIN todo[t] # {}
    PROVE  /\ First(t) \in DOMAIN todo[t] /\ First(t) \in Key
           /\ \A k \in DOMAIN todo[t] : First(t) <= k
  <1>1. DOMAIN todo[t] \subseteq Nat
    BY SiloAssumption, ZenonT(60) DEF TxInv, IsMap
  <1> QED
    BY <1>1, MinOf DEF First, TxInv, IsMap

LEMMA NotEmpty ==
    ASSUME NEW t \in Tx, TxInv(t), todo[t] # << >>
    PROVE  DOMAIN todo[t] # {}
  <1> SUFFICES ASSUME DOMAIN todo[t] = {} PROVE todo[t] = << >>
    OBVIOUS
  <1>1. todo[t] = [k \in {} |-> todo[t][k]]
    BY DEF TxInv, IsMap
  <1>2. << >> = [k \in {} |-> << >>[k]]
    BY EmptyMap DEF IsMap
  <1>3. [k \in {} |-> todo[t][k]] = [k \in {} |-> << >>[k]]
    OBVIOUS
  <1> QED
    BY <1>1, <1>2, <1>3

\* t leaves an operation with a new entry for k.
LEMMA EntryStep ==
    ASSUME SiloInv, NEW t \in Tx, NEW p, NEW m, NEW k \in Key, NEW e,
           pc' = [pc EXCEPT ![t] = p], todo' = [todo EXCEPT ![t] = m],
           rws' = [rws EXCEPT ![t] = Put(@, k, e)],
           IsEntry(e), e.val \in Of(k),
           Unlocked(p), Locked(t) = {},
           IsMap(m), \A j \in DOMAIN m : m[j] \in Of(j),
           p \in {"insert", "load", "access"} => DOMAIN m # {},
           UNCHANGED word, IndexOK'
    PROVE  SiloInv'
  <1>1. Others(t)
    BY Zenon DEF SiloInv, Others, LocalOK
  <1>2. pc'[t] = p /\ todo'[t] = m /\ rws'[t] = Put(rws[t], k, e)
    BY DEF SiloInv, LocalOK
  <1>3. /\ IsMap(rws[t])
        /\ \A j \in DOMAIN rws[t] : IsEntry(rws[t][j]) /\ rws[t][j].val \in Of(j)
    BY DEF SiloInv, TxInv
  <1>4. IsMap(rws'[t]) /\ DOMAIN rws'[t] = DOMAIN rws[t] \cup {k} /\ rws'[t][k] = e
        /\ \A j \in DOMAIN rws[t] \ {k} : rws'[t][j] = rws[t][j]
    <2> DEFINE f == rws[t]
    <2>1. IsMap(f) /\ rws'[t] = Put(f, k, e)
      BY <1>2, <1>3
    <2> HIDE DEF f
    <2>2. /\ IsMap(Put(f, k, e)) /\ DOMAIN Put(f, k, e) = DOMAIN f \cup {k}
          /\ Put(f, k, e)[k] = e /\ \A j \in DOMAIN f \ {k} : Put(f, k, e)[j] = f[j]
      BY <2>1, PutMap, SMTT(40)
    <2> QED
      BY <2>1, <2>2 DEF f
  <1>5. \A j \in DOMAIN rws'[t] : IsEntry(rws'[t][j]) /\ rws'[t][j].val \in Of(j)
    BY <1>3, <1>4
  <1>6. TxInv(t)'
    BY <1>2, <1>4, <1>5, TxInvOutside, Zenon
  <1> QED
    BY <1>1, <1>2, <1>6, QuietOutside

LEMMA InsertStep ==
    ASSUME SiloInv, NEW t \in Tx, insert_new(t)
    PROVE  SiloInv'
  <1> DEFINE k == First(t)
             e == [val |-> <<t, k>>, tw |-> Inserted, rwt |-> "INSERT", new |-> TRUE]
             rest == Put(Vals(t, NewKeys(t)), k, <<t, k>>)
  <1>1. At(t, "insert") /\ UNCHANGED word /\ Locked(t) = {}
    BY HoldsNone DEF insert_new, At, Unlocked
  <1>2. TxInv(t)
    BY DEF SiloInv
  <1>3. k \in Key
    BY <1>1, <1>2, FirstKey DEF TxInv, At
  <1> HIDE DEF k
  <1>4. CASE Fail(t) /\ UNCHANGED <<index, rws>>
    <2>1. IndexOK'
      BY <1>4, IndexKept DEF SiloInv
    <2> QED
      BY <1>1, <1>4, <2>1, FailStep, Zenon
  <1>5. CASE /\ index' = [index EXCEPT ![k] = <<t, k>>]
             /\ rws' = [rws EXCEPT ![t] = Put(@, k, e)]
             /\ \E bad \in BOOLEAN :
                   /\ Goto(t, IF bad THEN "abort" ELSE "run")
                   /\ todo' = [todo EXCEPT ![t] = IF bad THEN rest ELSE << >>]
    <2>1. <<t, k>> \in Of(k)
      BY <1>3, SMTT(40) DEF Of, Value
    <2>2. IndexOK'
      BY <1>3, <1>5, <2>1, Zenon DEF SiloInv, IndexOK, Of, Value
    <2>3. IsEntry(e) /\ e.val \in Of(k)
      BY <2>1 DEF IsEntry
    <2>4. IsMap(rest) /\ \A j \in DOMAIN rest : rest[j] \in Of(j)
      <3> DEFINE f == Vals(t, NewKeys(t))
      <3>1. IsMap(f) /\ \A j \in DOMAIN f : f[j] \in Of(j)
        BY <1>2, ValsMap DEF NewKeys
      <3> HIDE DEF f
      <3> QED
        BY <1>3, <2>1, <3>1 DEF Put, IsMap, f
    <2> HIDE DEF rest, e
    <2>5. PICK bad \in BOOLEAN : /\ Goto(t, IF bad THEN "abort" ELSE "run")
                                 /\ todo' = [todo EXCEPT ![t] = IF bad THEN rest ELSE << >>]
      BY <1>5, Zenon
    <2>6. CASE bad
      BY <1>1, <1>3, <1>5, <2>2, <2>3, <2>4, <2>5, <2>6, EntryStep, ZenonT(60) DEF Goto, Unlocked
    <2>7. CASE ~bad
      BY <1>1, <1>3, <1>5, <2>2, <2>3, <2>5, <2>7, EmptyMap, EntryStep, ZenonT(60) DEF Goto, Unlocked
    <2> QED
      BY <2>6, <2>7
  <1> QED
    BY <1>4, <1>5, Zenon DEF insert_new, k

LEMMA LoadStep ==
    ASSUME SiloInv, NEW t \in Tx, load(t)
    PROVE  SiloInv'
  <1>1. At(t, "load") /\ UNCHANGED <<word, rws>> /\ IndexOK' /\ Locked(t) = {}
    BY IndexKept, HoldsNone, Zenon DEF load, shared, SiloInv, At, Unlocked
  <1>2. CASE Fail(t)
    BY <1>1, <1>2, FailStep, Zenon
  <1>3. CASE Goto(t, "access") /\ UNCHANGED todo
    <2>1. pc' = [pc EXCEPT ![t] = "access"] /\ todo' = [todo EXCEPT ![t] = todo[t]]
      BY <1>3 DEF Goto, SiloInv, LocalOK
    <2>2. IsMap(todo[t]) /\ (\A k \in DOMAIN todo[t] : todo[t][k] \in Of(k)) /\ DOMAIN todo[t] # {}
      BY <1>1 DEF SiloInv, TxInv, At
    <2> QED
      BY <1>1, <2>1, <2>2, LocalStep, ZenonT(60) DEF Unlocked
  <1> QED
    BY <1>2, <1>3 DEF load

LEMMA AccessStep ==
    ASSUME SiloInv, NEW t \in Tx, access(t)
    PROVE  SiloInv'
  <1> DEFINE k == First(t)
             old == Type(t, k)
             v == IF old = "NONE" THEN todo[t][k] ELSE rws[t][k].val
             tw == word[v]
             entry == IF old = "NONE"
                      THEN [val |-> v, tw |-> tw, rwt |-> Result(op[t], old), new |-> FALSE]
                      ELSE [rws[t][k] EXCEPT !.rwt = Result(op[t], old)]
             m == Restrict(todo[t], DOMAIN todo[t] \ {k})
  <1>1. At(t, "access") /\ UNCHANGED word /\ IndexOK' /\ Locked(t) = {}
    BY IndexKept, HoldsNone, Zenon DEF access, shared, SiloInv, At, Unlocked
  <1>2. IsMap(todo[t]) /\ (\A j \in DOMAIN todo[t] : todo[t][j] \in Of(j)) /\ DOMAIN todo[t] # {}
    BY <1>1 DEF SiloInv, TxInv, At
  <1>3. k \in DOMAIN todo[t] /\ k \in Key
    BY <1>1, <1>2, FirstKey, Zenon DEF SiloInv, At
  <1>4. CASE UNCHANGED <<todo, rws>> /\ \E p \in {"load", "access"} : Goto(t, p)
    <2>1. todo' = [todo EXCEPT ![t] = todo[t]]
      BY <1>4 DEF SiloInv, LocalOK
    <2> QED
      BY <1>1, <1>2, <1>4, <2>1, LocalStep, ZenonT(60) DEF Unlocked, Goto
  <1>5. CASE Fail(t) /\ UNCHANGED rws
    BY <1>1, <1>5, FailStep
  <1>6. CASE /\ rws' = [rws EXCEPT ![t] = Put(@, k, entry)]
             /\ todo' = Rest(t, k)
             /\ IF DOMAIN todo[t] = {k} THEN Goto(t, "run") ELSE Goto(t, "load")
    <2>1. IsEntry(entry) /\ entry.val \in Of(k)
      <3>1. CASE old = "NONE"
        BY <1>2, <1>3, <3>1 DEF IsEntry
      <3>2. CASE old # "NONE"
        <4>1. k \in DOMAIN rws[t]
          BY <3>2 DEF Type
        <4>2. IsEntry(rws[t][k]) /\ rws[t][k].val \in Of(k)
          BY <4>1 DEF SiloInv, TxInv
        <4>3. entry = [rws[t][k] EXCEPT !.rwt = Result(op[t], old)]
          BY <3>2
        <4> QED
          BY <4>2, <4>3, Zenon DEF IsEntry
      <3> QED
        BY <3>1, <3>2
    <2>2. IsMap(m) /\ DOMAIN m = DOMAIN todo[t] \ {k} /\ \A j \in DOMAIN m : m[j] \in Of(j)
      BY <1>2, RestrictMap
    <2>3. todo' = [todo EXCEPT ![t] = m]
      BY <1>6, SMTT(40) DEF Rest
    <2> HIDE DEF entry, m, k
    <2>4. CASE DOMAIN todo[t] = {k}
      BY <1>1, <1>3, <1>6, <2>1, <2>2, <2>3, <2>4, EntryStep, Zenon DEF Goto, Unlocked
    <2>5. CASE DOMAIN todo[t] # {k}
      BY <1>1, <1>3, <1>6, <2>1, <2>2, <2>3, <2>5, EntryStep, ZenonT(60) DEF Goto, Unlocked
    <2> QED
      BY <2>4, <2>5
  <1>7. \/ UNCHANGED <<todo, rws>> /\ \E p \in {"load", "access"} : Goto(t, p)
        \/ Fail(t) /\ UNCHANGED rws
        \/ /\ rws' = [rws EXCEPT ![t] = Put(@, k, entry)]
           /\ todo' = Rest(t, k)
           /\ IF DOMAIN todo[t] = {k} THEN Goto(t, "run") ELSE Goto(t, "load")
    BY Zenon DEF access
  <1> QED
    BY <1>4, <1>5, <1>6, <1>7

(***************************************************************************)
(* precommit                                                               *)
(***************************************************************************)
\* t goes on with the same locks.
LEMMA SameLocks ==
    ASSUME SiloInv, NEW t \in Tx, NEW p, NEW m,
           pc' = [pc EXCEPT ![t] = p], todo' = [todo EXCEPT ![t] = m],
           UNCHANGED <<word, rws>>, IndexOK',
           IsMap(m), \A k \in DOMAIN m : m[k] \in Of(k),
           p \in {"insert", "load", "access", "store", "unlink"} => DOMAIN m # {},
           p = "lock" => /\ \A k \in DOMAIN m : k \in WriteSet(t) /\ m[k] = rws[t][k].val
                         /\ \A j \in WriteSet(t) \ DOMAIN m, k \in DOMAIN m : j < k,
           Locked(t)' = Locked(t)
    PROVE  SiloInv'
  <1>1. Others(t)
    BY Zenon DEF SiloInv, Others, LocalOK
  <1>2. pc'[t] = p /\ todo'[t] = m /\ rws'[t] = rws[t] /\ WriteSet(t)' = WriteSet(t)
    BY DEF SiloInv, LocalOK, WriteSet
  <1>3. TxInv(t)'
    <2>1. IsMap(rws[t]) /\ \A k \in DOMAIN rws[t] : IsEntry(rws[t][k]) /\ rws[t][k].val \in Of(k)
      BY DEF SiloInv, TxInv
    <2> QED
      BY <1>2, <2>1 DEF TxInv, IsMap, IsEntry, Of, Value
  <1>4. WordsOK'
    BY Zenon DEF SiloInv, WordsOK, Value, IsWord
  <1> QED
    BY <1>1, <1>3, <1>4, Quiet

LEMMA PrecommitStep ==
    ASSUME SiloInv, NEW t \in Tx, precommit(t)
    PROVE  SiloInv'
  <1> DEFINE m == Vals(t, WriteSet(t))
  <1>1. At(t, "run") /\ UNCHANGED <<word, rws>> /\ IndexOK' /\ Locked(t) = {}
    BY IndexKept, HoldsNone DEF precommit, shared, SiloInv, At, Unlocked
  <1>2. pc' = [pc EXCEPT ![t] = "lock"] /\ todo' = [todo EXCEPT ![t] = m]
    BY SMTT(40) DEF precommit, Goto
  <1>3. /\ IsMap(m) /\ DOMAIN m = WriteSet(t)
        /\ \A k \in DOMAIN m : m[k] \in Of(k) /\ m[k] = rws[t][k].val
    BY ValsMap DEF SiloInv, WriteSet
  <1> HIDE DEF m
  <1>4. Locked(t)' = {}
    <2>1. pc'[t] = "lock" /\ WriteSet(t)' \ DOMAIN todo'[t] = {}
      BY <1>1, <1>2, <1>3 DEF SiloInv, LocalOK, WriteSet
    <2> QED
      BY <2>1, Zenon DEF Locked, Vals, Range
  <1> QED
    BY <1>1, <1>2, <1>3, <1>4, SameLocks, Zenon

\* t sets a lock bit, or clears its own.
LEMMA TakeLock ==
    ASSUME SiloInv, NEW t \in Tx, Others(t), TxInv(t)', IndexOK', WordsOK', NEW v \in Value,
           ~word[v].lock, word'[v].lock, \A w \in Value \ {v} : word'[w].lock = word[w].lock,
           Locked(t)' = Locked(t) \cup {v}
    PROVE  SiloInv'
  <1>1. \A u \in Tx \ {t} : Locked(u)' = Locked(u)
    BY OthersKeep
  <1>2. \A u \in Tx : TxInv(u)'
    BY OthersKeep, Zenon DEF SiloInv
  <1>3. LocksAreHeld'
    <2>1. ASSUME NEW w \in Value
          PROVE  /\ word'[w].lock <=> \E u \in Tx : w \in Locked(u)'
                 /\ \A u, x \in Tx : w \in Locked(u)' /\ w \in Locked(x)' => u = x
      <3>1. /\ word[w].lock <=> \E u \in Tx : w \in Locked(u)
            /\ \A u, x \in Tx : w \in Locked(u) /\ w \in Locked(x) => u = x
        BY Zenon  DEF SiloInv, LocksAreHeld
      <3>2. CASE w = v
        BY <1>1, <3>1, <3>2, Zenon
      <3>3. CASE w # v
        BY <1>1, <3>1, <3>3, SMTT(40)
      <3> QED
        BY <3>2, <3>3, Zenon
    <2> QED
      BY <2>1, Zenon DEF LocksAreHeld, Value
  <1> QED
    BY <1>2, <1>3 DEF SiloInv, Others

LEMMA DropLock ==
    ASSUME SiloInv, NEW t \in Tx, Others(t), TxInv(t)', IndexOK', WordsOK', NEW v \in Value,
           ~word'[v].lock, \A w \in Value \ {v} : word'[w].lock = word[w].lock,
           v \in Locked(t), Locked(t)' = Locked(t) \ {v}
    PROVE  SiloInv'
  <1>1. \A u \in Tx \ {t} : Locked(u)' = Locked(u)
    BY OthersKeep
  <1>2. \A u \in Tx : TxInv(u)'
    BY OthersKeep DEF SiloInv
  <1>3. LocksAreHeld'
    <2>1. ASSUME NEW w \in Value
          PROVE  /\ word'[w].lock <=> \E u \in Tx : w \in Locked(u)'
                 /\ \A u, x \in Tx : w \in Locked(u)' /\ w \in Locked(x)' => u = x
      <3>1. /\ word[w].lock <=> \E u \in Tx : w \in Locked(u)
            /\ \A u, x \in Tx : w \in Locked(u) /\ w \in Locked(x) => u = x
        BY DEF SiloInv, LocksAreHeld
      <3>2. CASE w = v
        BY <1>1, <3>1, <3>2, Zenon
      <3>3. CASE w # v
        BY <1>1, <3>1, <3>3, Zenon
      <3> QED
        BY <3>2, <3>3, Zenon
    <2> QED
      BY <2>1, Zenon DEF LocksAreHeld, Value
  <1> QED
    BY <1>2, <1>3, Zenon DEF SiloInv, Others

\* Locks are Values of different keys.
LEMMA RangeRest ==
    ASSUME NEW f, IsMap(f), \A k \in DOMAIN f : f[k] \in Of(k), NEW k \in DOMAIN f
    PROVE  /\ Range(Restrict(f, DOMAIN f \ {k})) = Range(f) \ {f[k]}
           /\ f[k] \in Range(f)
  <1> DEFINE r == Restrict(f, DOMAIN f \ {k})
  <1>1. DOMAIN r = DOMAIN f \ {k} /\ \A j \in DOMAIN r : r[j] = f[j]
    BY RestrictMap
  <1>2. \A j \in DOMAIN f \ {k} : f[j] # f[k]
    BY OneKey
  <1> HIDE DEF r
  <1>3. Range(r) = Range(f) \ {f[k]}
    BY <1>1, <1>2 DEF Range
  <1> QED
    BY <1>3 DEF r, Range

LEMMA RangeVals ==
    ASSUME NEW t, NEW K
    PROVE  Range(Vals(t, K)) = {rws[t][k].val : k \in K}
  BY DEF Range, Vals

LEMMA SetWord ==
    ASSUME WordsOK, NEW v \in Value, NEW w, IsWord(w), word' = [word EXCEPT ![v] = w]
    PROVE  WordsOK' /\ word'[v] = w /\ \A x \in Value \ {v} : word'[x] = word[x]
  <1>1. word'[v] = w /\ (\A x \in Value \ {v} : word'[x] = word[x]) /\ DOMAIN word' = Value
    BY DEF WordsOK
  <1>2. \A x \in Value : IsWord(word'[x])
    <2> SUFFICES ASSUME NEW x \in Value PROVE IsWord(word'[x])
      OBVIOUS
    <2>1. CASE x = v
      BY <1>1, <2>1, Zenon
    <2>2. CASE x # v
      <3>1. word'[x] = word[x] /\ IsWord(word[x])
        BY <1>1, <2>2, Zenon DEF WordsOK
      <3> QED
        BY <3>1
    <2> QED
      BY <2>1, <2>2, Zenon
  <1>3. word' = [x \in Value |-> word'[x]]
    BY Zenon DEF WordsOK
  <1>4. \A x \in Value' : IsWord(word[x])'
    BY <1>2 DEF IsWord, Value
  <1> QED
    BY <1>1, <1>3, <1>4, Zenon DEF WordsOK, Value

LEMMA SetLock ==
    ASSUME WordsOK, NEW v \in Value, NEW b \in BOOLEAN, word' = [word EXCEPT ![v].lock = b]
    PROVE  /\ WordsOK' /\ word'[v].lock = b
           /\ \A x \in Value \ {v} : word'[x].lock = word[x].lock
  <1> DEFINE w == [word[v] EXCEPT !.lock = b]
  <1>1. IsWord(w) /\ w.lock = b
    <2>1. IsWord(word[v])
      BY DEF WordsOK
    <2>2. w = [epoch |-> word[v].epoch, tid |-> word[v].tid, lock |-> b,
               latest |-> word[v].latest, absent |-> word[v].absent]
      BY <2>1 DEF IsWord
    <2> HIDE DEF w
    <2> QED
      BY <2>2 DEF IsWord
  <1>2. word' = [word EXCEPT ![v] = w]
    OBVIOUS
  <1> HIDE DEF w
  <1> QED
    BY <1>1, <1>2, SetWord, Zenon

LEMMA LockStep ==
    ASSUME SiloInv, NEW t \in Tx, lock(t)
    PROVE  SiloInv'
  <1> DEFINE k == First(t)
             v == todo[t][k]
             m == Restrict(todo[t], DOMAIN todo[t] \ {k})
             n == Vals(t, locked_until(t, k))
  <1>1. /\ At(t, "lock") /\ UNCHANGED rws /\ IndexOK' /\ TxInv(t)
        /\ ~word[v].lock /\ word' = [word EXCEPT ![v].lock = TRUE]
    BY IndexKept DEF lock, SiloInv, next_lock
  <1>2. DOMAIN todo[t] # {}
    BY <1>1, NotEmpty DEF lock
  <1>3. k \in DOMAIN todo[t] /\ k \in Key /\ \A j \in DOMAIN todo[t] : k <= j
    BY <1>1, <1>2, FirstKey, Zenon
  <1>4. /\ IsMap(todo[t]) /\ \A j \in DOMAIN todo[t] : todo[t][j] \in Of(j)
        /\ \A j \in DOMAIN todo[t] : j \in WriteSet(t) /\ todo[t][j] = rws[t][j].val
        /\ \A i \in WriteSet(t) \ DOMAIN todo[t], j \in DOMAIN todo[t] : i < j
    BY <1>1, Zenon DEF TxInv, At
  <1>5. v \in Value /\ v = rws[t][k].val /\ k \in WriteSet(t) /\ DOMAIN todo[t] \subseteq Nat
    BY <1>3, <1>4, SiloAssumption, Zenon DEF Of, IsMap
  <1>6. WordsOK' /\ word'[v].lock /\ \A w \in Value \ {v} : word'[w].lock = word[w].lock
    BY <1>1, <1>5, SetLock, Zenon DEF SiloInv
  <1>7. Locked(t) = {rws[t][j].val : j \in WriteSet(t) \ DOMAIN todo[t]}
    BY <1>1, RangeVals DEF Locked, At
  <1>8. IsMap(rws[t]) /\ \A j \in DOMAIN rws[t] : IsEntry(rws[t][j]) /\ rws[t][j].val \in Of(j)
    BY <1>1 DEF TxInv
  <1>9. CASE Goto(t, "unlock") /\ todo' = [todo EXCEPT ![t] = n]
    <2>1. Others(t) /\ pc'[t] = "unlock" /\ todo'[t] = n /\ rws'[t] = rws[t]
      BY <1>1, <1>9, ZenonT(60) DEF SiloInv, LocalOK, Others, Goto
    <2>2. IsMap(n) /\ \A j \in DOMAIN n : n[j] \in Of(j)
      <3>1. locked_until(t, k) \subseteq DOMAIN rws[t]
        BY <1>5 DEF locked_until, WriteSet
      <3> QED
        BY <1>1, <3>1, ValsMap
    <2>3. Locked(t)' = Locked(t) \cup {v}
      <3>1. Range(n) = {rws[t][j].val : j \in (WriteSet(t) \ DOMAIN todo[t]) \cup {k}}
        BY RangeVals DEF locked_until
      <3>2. Locked(t)' = Range(n)
        BY <2>1, Zenon DEF Locked
      <3> QED
        BY <1>5, <1>7, <3>1, <3>2, ZenonT(60)
    <2> HIDE DEF n
    <2>4. TxInv(t)'
      BY <1>8, <2>1, <2>2, SMTT(40) DEF TxInv, IsMap, IsEntry, Of, Value
    <2> QED
      BY <1>1, <1>5, <1>6, <2>1, <2>3, <2>4, TakeLock, Zenon
  <1>10. CASE UNCHANGED pc /\ todo' = Rest(t, k)
    <2>1. Others(t) /\ pc'[t] = "lock" /\ todo'[t] = m /\ rws'[t] = rws[t]
      BY <1>1, <1>10, Zenon DEF SiloInv, LocalOK, Others, Rest, At
    <2>2. /\ IsMap(m) /\ DOMAIN m = DOMAIN todo[t] \ {k}
          /\ \A j \in DOMAIN m : m[j] = todo[t][j]
      BY <1>4, RestrictMap
    <2> HIDE DEF m, k
    <2>3. WriteSet(t)' = WriteSet(t)
      BY <2>1, Zenon DEF WriteSet
    <2>4. WriteSet(t) \ DOMAIN m = (WriteSet(t) \ DOMAIN todo[t]) \cup {k}
      BY <1>3, <1>5, <2>2, Zenon
    <2>5. Locked(t)' = Locked(t) \cup {v}
      <3>1. Locked(t)' = {rws[t][j].val : j \in WriteSet(t) \ DOMAIN m}
        BY <2>1, <2>3, Zenon DEF Locked, Vals, Range
      <3> QED
        BY <1>5, <1>7, <2>4, <3>1, Zenon
    <2>6. \A i \in WriteSet(t) \ DOMAIN m, j \in DOMAIN m : i < j
      <3> SUFFICES ASSUME NEW i \in WriteSet(t) \ DOMAIN m, NEW j \in DOMAIN m PROVE i < j
        BY Zenon
      <3>1. CASE i = k
        BY <1>3, <1>5, <2>2, <3>1, SMTT(40)
      <3>2. CASE i # k
        BY <1>4, <2>2, <2>4, <3>2, Zenon
      <3> QED
        BY <3>1, <3>2, Zenon
    <2>7. TxInv(t)'
      BY <1>4, <1>8, <2>1, <2>2, <2>3, <2>6, SMTT(40) DEF TxInv, IsMap, IsEntry, Of, Value
    <2> QED
      BY <1>1, <1>5, <1>6, <2>1, <2>5, <2>7, TakeLock, Zenon
  <1> QED
    BY <1>9, <1>10 DEF lock, next_lock

\* From its last lock to the end of validation t keeps all the locks of its write set.
LEMMA AllLocked ==
    ASSUME NEW t \in Tx, TxInv(t)
    PROVE  /\ IsMap(Vals(t, WriteSet(t)))
           /\ \A k \in DOMAIN Vals(t, WriteSet(t)) : Vals(t, WriteSet(t))[k] \in Of(k)
  BY ValsMap, SMTT(40) DEF WriteSet

LEMMA SerialPointStep ==
    ASSUME SiloInv, NEW t \in Tx, serial_point(t)
    PROVE  SiloInv'
  <1> DEFINE K == {k \in DOMAIN rws[t] : rws[t][k].rwt # "INSERT"}
             m == Vals(t, K)
  <1>1. At(t, "lock") /\ todo[t] = << >> /\ UNCHANGED <<word, rws>> /\ IndexOK' /\ TxInv(t)
    BY IndexKept DEF serial_point, shared, SiloInv
  <1>2. pc' = [pc EXCEPT ![t] = "validate"] /\ todo' = [todo EXCEPT ![t] = m]
    BY DEF serial_point, Goto
  <1>3. IsMap(m) /\ \A k \in DOMAIN m : m[k] \in Of(k)
    BY <1>1, ValsMap
  <1> HIDE DEF m
  <1>4. Locked(t)' = Locked(t)
    <2>1. WriteSet(t) \ DOMAIN todo[t] = WriteSet(t)
      BY <1>1, EmptyMap
    <2>2. Locked(t) = Range(Vals(t, WriteSet(t)))
      BY <1>1, <2>1, Zenon DEF Locked, At
    <2>3. pc'[t] = "validate" /\ rws'[t] = rws[t]
      BY <1>1, <1>2, Zenon DEF SiloInv, LocalOK
    <2> QED
      BY <2>2, <2>3, ZenonT(60) DEF Locked, Vals, WriteSet
  <1> QED
    BY <1>1, <1>2, <1>3, <1>4, SameLocks, Zenon

\* into unlock_writeset, or into the third phase
LEMMA AfterValidation ==
    ASSUME SiloInv, NEW t \in Tx, At(t, "validate"), NEW p \in {"unlock", "write"},
           Goto(t, p), todo' = [todo EXCEPT ![t] = Vals(t, WriteSet(t))],
           UNCHANGED <<word, rws>>, IndexOK'
    PROVE  SiloInv'
  <1> DEFINE m == Vals(t, WriteSet(t))
  <1>1. IsMap(m) /\ \A k \in DOMAIN m : m[k] \in Of(k)
    BY AllLocked, Zenon DEF SiloInv
  <1>2. Locked(t)' = Locked(t)
    <2>1. Locked(t) = Range(m)
      BY DEF Locked, At
    <2>2. pc'[t] = p /\ todo'[t] = m
      BY DEF SiloInv, LocalOK, Goto
    <2> HIDE DEF m
    <2> QED
      BY <2>1, <2>2, Zenon DEF Locked
  <1> HIDE DEF m
  <1>3. pc' = [pc EXCEPT ![t] = p] /\ todo' = [todo EXCEPT ![t] = m]
    BY DEF Goto, m
  <1> QED
    BY <1>1, <1>2, <1>3, SameLocks, Zenon

LEMMA ValidateStep ==
    ASSUME SiloInv, NEW t \in Tx, NEW k \in Key, validate(t, k)
    PROVE  SiloInv'
  <1> DEFINE m == Restrict(todo[t], DOMAIN todo[t] \ {k})
  <1>1. At(t, "validate") /\ UNCHANGED <<word, rws>> /\ IndexOK' /\ TxInv(t)
    BY IndexKept, Zenon DEF validate, shared, SiloInv
  <1>2. CASE unlock_writeset(t)
    BY <1>1, <1>2, AfterValidation, Zenon DEF unlock_writeset
  <1>3. CASE todo' = Rest(t, k) /\ UNCHANGED pc
    <2>1. pc' = [pc EXCEPT ![t] = "validate"] /\ todo' = [todo EXCEPT ![t] = m]
      BY <1>1, <1>3 DEF SiloInv, LocalOK, Rest, At
    <2>2. IsMap(m) /\ \A j \in DOMAIN m : m[j] \in Of(j)
      <3>1. IsMap(todo[t]) /\ \A j \in DOMAIN todo[t] : todo[t][j] \in Of(j)
        BY <1>1 DEF TxInv
      <3> QED
        BY <3>1, RestrictMap
    <2> HIDE DEF m
    <2>3. Locked(t)' = Locked(t)
      BY <1>1, <1>3 DEF Locked, Vals, WriteSet, At
    <2> QED
      BY <1>1, <2>1, <2>2, <2>3, SameLocks, Zenon
  <1> QED
    BY <1>2, <1>3 DEF validate

LEMMA ValidateNodesStep ==
    ASSUME SiloInv, NEW t \in Tx, validate_nodes(t)
    PROVE  SiloInv'
  <1>1. At(t, "validate") /\ UNCHANGED <<word, rws>> /\ IndexOK'
    BY IndexKept, SMTT(40) DEF validate_nodes, shared, SiloInv
  <1> QED
    BY <1>1, AfterValidation DEF validate_nodes, unlock_writeset

LEMMA ExchangeRecStep ==
    ASSUME SiloInv, NEW t \in Tx, exchange_rec(t)
    PROVE  SiloInv'
  <1>1. At(t, "write") /\ UNCHANGED <<word, rws>> /\ IndexOK' /\ TxInv(t)
    BY IndexKept DEF exchange_rec, SiloInv
  <1>2. pc' = [pc EXCEPT ![t] = "store"] /\ todo' = [todo EXCEPT ![t] = todo[t]]
    BY DEF exchange_rec, Goto, SiloInv, LocalOK
  <1>3. IsMap(todo[t]) /\ (\A k \in DOMAIN todo[t] : todo[t][k] \in Of(k)) /\ DOMAIN todo[t] # {}
    BY <1>1, NotEmpty DEF exchange_rec, TxInv
  <1>4. Locked(t)' = Locked(t)
    BY <1>1, <1>2, SMTT(40) DEF Locked, At, SiloInv, LocalOK, exchange_rec
  <1> QED
    BY <1>1, <1>2, <1>3, <1>4, SameLocks, Zenon

LEMMA StoreWordStep ==
    ASSUME SiloInv, NEW t \in Tx, store_word(t)
    PROVE  SiloInv'
  <1> DEFINE k == First(t)
             v == todo[t][k]
             deleted == rws[t][k].rwt = "DELETE"
             w == [epoch |-> commit[t].epoch, tid |-> commit[t].tid, lock |-> FALSE,
                   latest |-> ~deleted, absent |-> deleted]
             m == Restrict(todo[t], DOMAIN todo[t] \ {k})
  <1>1. At(t, "store") /\ UNCHANGED rws /\ IndexOK' /\ TxInv(t) /\ word' = [word EXCEPT ![v] = w]
    BY IndexKept, Zenon DEF store_word, SiloInv
  <1>2. IsMap(todo[t]) /\ (\A j \in DOMAIN todo[t] : todo[t][j] \in Of(j)) /\ DOMAIN todo[t] # {}
    BY <1>1, Zenon DEF TxInv, At
  <1>3. k \in DOMAIN todo[t] /\ v \in Value
    BY <1>1, <1>2, FirstKey, ZenonT(60) DEF Of
  <1>4. WordsOK' /\ ~word'[v].lock /\ \A x \in Value \ {v} : word'[x].lock = word[x].lock
    <2>1. IsWord(w) /\ w.lock = FALSE
      BY Zenon DEF IsWord
    <2> HIDE DEF w
    <2> QED
      BY <1>1, <1>3, <2>1, SetWord, ZenonT(60) DEF SiloInv
  <1>5. Locked(t) = Range(todo[t]) /\ v \in Locked(t) /\ Range(m) = Locked(t) \ {v}
    BY <1>1, <1>2, <1>3, RangeRest, ZenonT(60) DEF Locked, At
  <1>6. IsMap(rws[t]) /\ \A j \in DOMAIN rws[t] : IsEntry(rws[t][j]) /\ rws[t][j].val \in Of(j)
    BY <1>1, ZenonT(60) DEF TxInv
  <1>7. CASE Goto(t, "unlink") /\ todo' = todo
    <2>1. Others(t) /\ pc'[t] = "unlink" /\ todo'[t] = todo[t] /\ rws'[t] = rws[t]
      BY <1>1, <1>7, ZenonT(60) DEF SiloInv, LocalOK, Others, Goto
    <2>2. Locked(t)' = Range(m)
      BY <1>7, <2>1 DEF Locked, First
    <2>3. TxInv(t)'
      BY <1>2, <1>6, <2>1, ZenonT(60) DEF TxInv, IsMap, IsEntry, Of, Value
    <2> QED
      BY <1>1, <1>3, <1>4, <1>5, <2>1, <2>2, <2>3, DropLock, ZenonT(60)
  <1>8. CASE Goto(t, "write") /\ todo' = Rest(t, k)
    <2>1. Others(t) /\ pc'[t] = "write" /\ todo'[t] = m /\ rws'[t] = rws[t]
      BY <1>1, <1>8, ZenonT(60) DEF SiloInv, LocalOK, Others, Goto, Rest
    <2>2. IsMap(m) /\ \A j \in DOMAIN m : m[j] \in Of(j)
      BY <1>2, RestrictMap
    <2> HIDE DEF m
    <2>3. Locked(t)' = Range(m)
      BY <2>1 DEF Locked
    <2>4. TxInv(t)'
      BY <1>6, <2>1, <2>2 DEF TxInv, IsMap, IsEntry, Of, Value
    <2> QED
      BY <1>1, <1>3, <1>4, <1>5, <2>1, <2>3, <2>4, DropLock, ZenonT(60)
  <1> QED
    BY <1>7, <1>8, SMTT(40) DEF store_word

LEMMA RemoveKey == ASSUME IndexOK, NEW k, remove_key(k) PROVE IndexOK'
  BY SMTT(40) DEF IndexOK, remove_key, Of, Value

LEMMA UnlinkStep ==
    ASSUME SiloInv, NEW t \in Tx, unlink(t)
    PROVE  SiloInv'
  <1> DEFINE k == First(t)
             m == Restrict(todo[t], DOMAIN todo[t] \ {k})
  <1>1. At(t, "unlink") /\ UNCHANGED <<word, rws>> /\ IndexOK' /\ TxInv(t)
    BY RemoveKey DEF unlink, SiloInv
  <1>2. pc' = [pc EXCEPT ![t] = "write"] /\ todo' = [todo EXCEPT ![t] = m]
    BY DEF unlink, Goto, Rest
  <1>3. IsMap(m) /\ \A j \in DOMAIN m : m[j] \in Of(j)
    <2>1. IsMap(todo[t]) /\ \A j \in DOMAIN todo[t] : todo[t][j] \in Of(j)
      BY <1>1 DEF TxInv
    <2> QED
      BY <2>1, RestrictMap
  <1>4. Locked(t) = Range(m)
    BY <1>1 DEF Locked, At
  <1> HIDE DEF m
  <1>5. Locked(t)' = Locked(t)
    BY <1>2, <1>4, SMTT(40) DEF Locked, SiloInv, LocalOK
  <1> QED
    BY <1>1, <1>2, <1>3, <1>5, SameLocks, Zenon

\* The transaction ends, with or without success.
LEMMA EndStep ==
    ASSUME SiloInv, NEW t \in Tx, NEW p \in {"committed", "aborted"}, Goto(t, p), Forget(t),
           Locked(t) = {}, UNCHANGED <<word, todo>>, IndexOK'
    PROVE  SiloInv'
  <1>1. Others(t) /\ pc'[t] = p /\ todo'[t] = todo[t] /\ rws'[t] = << >>
    BY ZenonT(60) DEF SiloInv, LocalOK, Others, Goto, Forget
  <1>2. IsMap(todo[t]) /\ \A k \in DOMAIN todo[t] : todo[t][k] \in Of(k)
    BY DEF SiloInv, TxInv
  <1>3. TxInv(t)'
    BY <1>1, <1>2, EmptyMap, TxInvOutside DEF Unlocked
  <1> QED
    BY <1>1, <1>3, QuietOutside, SMTT(40) DEF Unlocked

LEMMA CommittedStep ==
    ASSUME SiloInv, NEW t \in Tx, committed(t)
    PROVE  SiloInv'
  <1>1. Locked(t) = {} /\ IndexOK'
    BY HoldsNone, IndexKept, SMTT(40) DEF committed, shared, SiloInv, At
  <1> QED
    BY <1>1, EndStep, SMTT(40) DEF committed, shared

LEMMA AbortedStep ==
    ASSUME SiloInv, NEW t \in Tx, aborted(t)
    PROVE  SiloInv'
  <1>1. Locked(t) = {} /\ IndexOK'
    BY HoldsNone, IndexKept, SMTT(40) DEF aborted, shared, SiloInv, At, Unlocked
  <1> QED
    BY <1>1, EndStep, SMTT(40) DEF aborted, shared

LEMMA UnlockStep ==
    ASSUME SiloInv, NEW t \in Tx, unlock(t)
    PROVE  SiloInv'
  <1> DEFINE k == First(t)
             v == todo[t][k]
             m == Restrict(todo[t], DOMAIN todo[t] \ {k})
  <1>1. At(t, "unlock") /\ UNCHANGED rws /\ IndexOK' /\ TxInv(t)
    BY IndexKept, SMTT(40) DEF unlock, SiloInv
  <1>2. CASE todo[t] = << >>
    <2>1. Locked(t) = {} /\ Fail(t) /\ UNCHANGED word
      BY <1>1, <1>2, HoldsNone, SMTT(40) DEF unlock, At
    <2> QED
      BY <1>1, <2>1, FailStep, SMTT(40)
  <1>3. CASE todo[t] # << >>
    <2>1. word' = [word EXCEPT ![v].lock = FALSE] /\ todo' = Rest(t, k) /\ UNCHANGED pc
      BY <1>3, SMTT(40) DEF unlock
    <2>2. IsMap(todo[t]) /\ \A j \in DOMAIN todo[t] : todo[t][j] \in Of(j)
      BY <1>1, SMTT(40) DEF TxInv
    <2>3. k \in DOMAIN todo[t] /\ v \in Value
      BY <1>1, <1>3, <2>2, NotEmpty, FirstKey, SMTT(40) DEF Of
    <2>4. WordsOK' /\ ~word'[v].lock /\ \A x \in Value \ {v} : word'[x].lock = word[x].lock
      BY <2>1, <2>3, SetLock, Zenon DEF SiloInv
    <2>5. v \in Locked(t) /\ Range(m) = Locked(t) \ {v}
      BY <1>1, <2>2, <2>3, RangeRest, Zenon DEF Locked, At
    <2>6. Others(t) /\ pc'[t] = "unlock" /\ todo'[t] = m /\ rws'[t] = rws[t]
      <3>1. pc' = pc /\ rws' = rws /\ pc[t] = "unlock"
        BY <1>1, <2>1 DEF At
      <3>2. todo' = [todo EXCEPT ![t] = m] /\ DOMAIN todo = Tx
        BY <2>1 DEF SiloInv, LocalOK, Rest
      <3> HIDE DEF m
      <3>3. todo'[t] = m /\ \A u \in Tx \ {t} : todo'[u] = todo[u]
        BY <3>2
      <3>4. LocalOK'
        BY <3>1, <3>2 DEF SiloInv, LocalOK
      <3> QED
        BY <3>1, <3>3, <3>4 DEF Others
    <2>7. IsMap(m) /\ \A j \in DOMAIN m : m[j] \in Of(j)
      BY <2>2, RestrictMap
    <2> HIDE DEF m
    <2>8. Locked(t)' = Range(m)
      BY <2>6, SMTT(40) DEF Locked
    <2>9. TxInv(t)'
      <3>1. IsMap(rws[t]) /\ \A j \in DOMAIN rws[t] : IsEntry(rws[t][j]) /\ rws[t][j].val \in Of(j)
        BY <1>1 DEF TxInv
      <3> QED
        BY <2>6, <2>7, <3>1, SMTT(40) DEF TxInv, IsMap, IsEntry, Of, Value
    <2> QED
      BY <1>1, <2>3, <2>4, <2>5, <2>6, <2>8, <2>9, DropLock, SMTT(40)
  <1> QED
    BY <1>2, <1>3, SMTT(40)

LEMMA UserAbortStep ==
    ASSUME SiloInv, NEW t \in Tx, user_abort(t)
    PROVE  SiloInv'
  <1>1. Locked(t) = {} /\ IndexOK'
    BY HoldsNone, IndexKept DEF user_abort, shared, SiloInv, At, Unlocked
  <1> QED
    BY <1>1, FailStep, SMTT(40) DEF user_abort, shared

\* Marking a new Value leaves its lock bit alone.
LEMMA SetMark ==
    ASSUME WordsOK, NEW v \in Value, NEW a, NEW l,
           word' = [word EXCEPT ![v].absent = a, ![v].latest = l]
    PROVE  WordsOK' /\ \A x \in Value : word'[x].lock = word[x].lock
  <1> DEFINE w1 == [word[v] EXCEPT !.absent = a]
             w == [w1 EXCEPT !.latest = l]
  <1>1. IsWord(w) /\ w.lock = word[v].lock
    <2>1. IsWord(word[v])
      BY DEF WordsOK
    <2>2. w1 = [epoch |-> word[v].epoch, tid |-> word[v].tid, lock |-> word[v].lock,
                latest |-> word[v].latest, absent |-> a]
      BY <2>1 DEF IsWord
    <2> HIDE DEF w1
    <2>3. w = [epoch |-> word[v].epoch, tid |-> word[v].tid, lock |-> word[v].lock,
               latest |-> l, absent |-> a]
      BY <2>2
    <2> HIDE DEF w
    <2> QED
      BY <2>1, <2>3 DEF IsWord
  <1>2. word' = [word EXCEPT ![v] = w]
    BY Zenon DEF WordsOK
  <1> HIDE DEF w
  <1>3. WordsOK' /\ word'[v] = w /\ \A x \in Value \ {v} : word'[x] = word[x]
    BY <1>1, <1>2, SetWord, ZenonT(60)
  <1> QED
    BY <1>1, <1>3, Zenon

LEMMA AbortInsertStep ==
    ASSUME SiloInv, NEW t \in Tx, NEW k \in Key, abort_insert(t, k)
    PROVE  SiloInv'
  <1> DEFINE v == todo[t][k]
             m == Restrict(todo[t], DOMAIN todo[t] \ {k})
  <1>1. At(t, "abort") /\ UNCHANGED <<rws, pc>> /\ TxInv(t) /\ Locked(t) = {} /\ k \in DOMAIN todo[t]
    BY HoldsNone, SMTT(40) DEF abort_insert, SiloInv, At, Unlocked
  <1>2. IsMap(todo[t]) /\ \A j \in DOMAIN todo[t] : todo[t][j] \in Of(j)
    BY <1>1, SMTT(40) DEF TxInv
  <1>3. CASE /\ word' = [word EXCEPT ![v].absent = TRUE, ![v].latest = FALSE]
             /\ UNCHANGED <<index, version, todo>>
    <2>1. v \in Value
      BY <1>1, <1>2, SMTT(40) DEF Of
    <2> HIDE DEF v
    <2>4. WordsOK' /\ \A x \in Value : word'[x].lock = word[x].lock
      BY <1>3, <2>1, SetMark, Zenon DEF SiloInv
    <2>5. Others(t) /\ IndexOK'
      BY <1>1, <1>3, IndexKept DEF SiloInv, Others, LocalOK
    <2>6. TxInv(t)'
      BY <1>1, <1>3 DEF TxInv, IsMap, IsEntry, Of, Value, WriteSet
    <2>7. Locked(t)' = Locked(t)
      BY <1>1, SMTT(40) DEF Locked, At
    <2> QED
      BY <2>4, <2>5, <2>6, <2>7, Quiet, SMTT(40)
  <1>4. CASE remove_key(k) /\ todo' = Rest(t, k) /\ UNCHANGED word
    <2>1. IndexOK'
      BY <1>4, RemoveKey DEF SiloInv
    <2>2. pc' = [pc EXCEPT ![t] = "abort"] /\ todo' = [todo EXCEPT ![t] = m]
      BY <1>1, <1>4 DEF SiloInv, LocalOK, Rest, At
    <2>3. IsMap(m) /\ \A j \in DOMAIN m : m[j] \in Of(j)
      BY <1>2, RestrictMap, SMTT(40)
    <2> QED
      BY <1>1, <1>4, <2>1, <2>2, <2>3, LocalStep, ZenonT(60) DEF Unlocked
  <1> QED
    BY <1>3, <1>4 DEF abort_insert

-----------------------------------------------------------------------------
LEMMA NextInv == SiloInv /\ [Next]_vars => SiloInv'
  <1> SUFFICES ASSUME SiloInv, [Next]_vars PROVE SiloInv'
    BY SMTT(40)
  <1>1. ASSUME NEW t \in Tx, Step(t) PROVE SiloInv'
    BY <1>1, FindStep, ScanStep, InsertStep, LoadStep, AccessStep, PrecommitStep, LockStep,
       SerialPointStep, ValidateStep, ValidateNodesStep, ExchangeRecStep, StoreWordStep,
       UnlinkStep, CommittedStep, UnlockStep, UserAbortStep, AbortInsertStep, AbortedStep, SMTT(40)
       DEF Step
  <1>2. CASE UNCHANGED <<index, word, local>>
    <2>1. IndexOK' /\ WordsOK' /\ LocalOK' /\ \A v \in Value : word'[v].lock = word[v].lock
      BY <1>2, IndexKept, Zenon DEF SiloInv, WordsOK, IsWord, Value, LocalOK, local
    <2>2. \A t \in Tx : Locked(t)' = Locked(t)
      BY <1>2 DEF local, Locked, Vals, WriteSet, First
    <2>3. ASSUME NEW t \in Tx PROVE TxInv(t)'
      <3>1. TxInv(t) /\ UNCHANGED <<rws, todo, pc>>
        BY <1>2 DEF local, SiloInv
      <3> QED
        BY <3>1, ZenonT(60) DEF TxInv, WriteSet, Of, IsMap, IsEntry, Value
    <2>4. LocksAreHeld'
      BY <2>1, <2>2 DEF SiloInv, LocksAreHeld, Value
    <2> QED
      BY <2>1, <2>3, <2>4, SMTT(40) DEF SiloInv
  <1> QED
    BY <1>1, <1>2, SMTT(40) DEF Next, AdvanceEpoch, Stop, vars, shared

LEMMA LockInvariant == Spec => []SiloInv
  BY InitInv, NextInv, PTL DEF Spec

\* The lock bits of the tidwords match what the transactions believe to hold, for any
\* transactions, keys and operations.
THEOREM LockBits == Spec => []LocksAreHeld
  <1>1. SiloInv => LocksAreHeld
    BY SMTT(40) DEF SiloInv
  <1> QED
    BY <1>1, LockInvariant, PTL

(***************************************************************************)
(* Whoever waits for somebody who waits too, waits for a smaller key: the  *)
(* other has locked the one and waits for a later one of the sorted write  *)
(* set.  Hence the one with the largest key waits for nobody of the set.   *)
(***************************************************************************)
LEMMA WaitsUpwards ==
    ASSUME SiloInv, NEW t \in Tx, NEW u \in Tx, WaitsFor(t, u), NEW x \in Tx, WaitsFor(u, x)
    PROVE  First(t) \in Key /\ First(u) \in Key /\ First(t) < First(u)
  <1>1. At(t, "lock") /\ DOMAIN todo[t] # {} /\ At(u, "lock") /\ DOMAIN todo[u] # {}
    BY NotEmpty, SMTT(40) DEF WaitsFor, SiloInv
  <1>2. /\ First(t) \in DOMAIN todo[t] /\ First(t) \in Key
        /\ First(u) \in DOMAIN todo[u] /\ First(u) \in Key
    BY <1>1, FirstKey, SMTT(40) DEF SiloInv
  <1>3. todo[t][First(t)] \in Of(First(t))
    BY <1>2 DEF SiloInv, TxInv
  <1>4. todo[t][First(t)] \in {rws[u][k].val : k \in WriteSet(u) \ DOMAIN todo[u]}
    BY <1>1, RangeVals, SMTT(40) DEF WaitsFor, next_lock, Locked, At
  <1>5. PICK k \in WriteSet(u) \ DOMAIN todo[u] : todo[t][First(t)] = rws[u][k].val
    BY <1>4, SMTT(40)
  <1>6. rws[u][k].val \in Of(k) /\ k < First(u)
    BY <1>1, <1>2, SMTT(40) DEF SiloInv, TxInv, WriteSet, At
  <1>7. k = First(t)
    BY <1>3, <1>5, <1>6, OneKey, SMTT(40)
  <1> QED
    BY <1>2, <1>6, <1>7, SMTT(40)

\* A finite set of numbers has a largest one.
LEMMA MaxOf ==
    ASSUME NEW T, T \subseteq Nat, IsFiniteSet(T), T # {}
    PROVE  \E x \in T : \A y \in T : y <= x
  <1> DEFINE Above(x) == {y \in T : x < y}
             sizes == {Cardinality(Above(x)) : x \in T}
  <1>1. \A x \in T : IsFiniteSet(Above(x)) /\ Cardinality(Above(x)) \in Nat
    BY FS_Subset, FS_CardinalityType
  <1>2. sizes \subseteq Nat /\ sizes # {}
    BY <1>1, Zenon
  <1>3. Min(sizes) \in sizes /\ \A n \in sizes : Min(sizes) <= n
    BY <1>2, MinOf, Zenon
  <1>4. PICK x \in T : \A y \in T : Cardinality(Above(x)) <= Cardinality(Above(y))
    BY <1>3, Zenon
  <1>5. ASSUME NEW y \in T, ~(y <= x) PROVE FALSE
    <2>0. x \in Nat /\ y \in Nat /\ x < y
      BY <1>5
    <2>1. Above(y) \subseteq Above(x) /\ y \in Above(x) /\ y \notin Above(y)
      <3>1. ASSUME NEW z \in T, y < z PROVE x < z
        <4>1. z \in Nat
          OBVIOUS
        <4> QED
          BY <2>0, <3>1, <4>1
      <3>2. ~(y < y)
        BY <2>0
      <3>3. \A z \in Above(y) : z \in Above(x)
        BY <3>1
      <3> QED
        BY <2>0, <3>2, <3>3, Zenon
    <2> HIDE DEF Above
    <2>2. Cardinality(Above(y)) < Cardinality(Above(x))
      <3>1. /\ Cardinality(Above(y)) <= Cardinality(Above(x))
            /\ Cardinality(Above(x)) = Cardinality(Above(y)) => Above(x) = Above(y)
        BY <1>1, <2>1, FS_Subset, SMTT(40)
      <3> QED
        BY <1>1, <2>1, <3>1, SMTT(40)
    <2> QED
      BY <1>1, <1>4, <2>2
  <1> QED
    BY <1>5

\* The order of the sort rules out that transactions spin for one another's locks.
THEOREM NoDeadlock == Spec => []NoWaitCycle
  <1>1. SiloInv => NoWaitCycle
    <2> SUFFICES ASSUME SiloInv, NEW S \in (SUBSET Tx) \ {{}}, \A t \in S : \E u \in S : WaitsFor(t, u)
                 PROVE  FALSE
      BY DEF NoWaitCycle
    <2> DEFINE K == {First(t) : t \in S}
    <2>1. \A t \in S : \E u \in S : First(t) \in Key /\ First(u) \in Key /\ First(t) < First(u)
      BY WaitsUpwards, Zenon
    <2>2. K \subseteq Key /\ K # {}
      BY <2>1, SMTT(40)
    <2>3. K \subseteq Nat /\ IsFiniteSet(K)
      BY <2>2, SiloAssumption, FS_Subset, Zenon
    <2>4. PICK k \in K : \A j \in K : j <= k
      BY <2>2, <2>3, MaxOf, Zenon
    <2>5. PICK t \in S : k = First(t)
      BY <2>4
    <2>6. PICK u \in S : First(t) < First(u) /\ First(u) \in Key /\ First(t) \in Key
      BY <2>1, <2>5, SMTT(40)
    <2>7. First(u) \in K /\ First(u) <= k
      BY <2>4, SMTT(40)
    <2>8. First(t) \in Nat /\ First(u) \in Nat
      BY <2>6, SiloAssumption, Zenon
    <2> QED
      BY <2>5, <2>6, <2>7, <2>8, SMTT(40)
  <1> QED
    BY <1>1, LockInvariant, PTL

=============================================================================
