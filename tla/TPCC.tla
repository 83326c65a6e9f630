-------------------------------- MODULE TPCC ---------------------------------
(***************************************************************************)
(* The five TPC-C transactions (benchmarks/tpcc/include) over the naive    *)
(* protocol, as executables/tpcc_naive.cpp runs them.                      *)
(*                                                                         *)
(* A step of a transaction is one or a few calls of the protocol; between  *)
(* any two of them the transaction may be aborted.  The random inputs of a *)
(* transaction are chosen where they are used.  Names, addresses, dates    *)
(* and the output are left out; money is counted in units.                 *)
(***************************************************************************)
EXTENDS Naive

CONSTANTS Warehouses,   \* 1..get_num_warehouses()
          Districts,    \* 1..DISTS_PER_WARE
          Customers,    \* 1..CUSTS_PER_DIST
          Items,        \* 1..ITEMS
          OlCnts,       \* MIN_ORDLINES_PER_ORD..MAX_ORDLINES_PER_ORD
          Quantities,   \* 1..10: the quantities of an order line
          LastNames,    \* 1000: the last names make_clast knows, by number from 0
          LoadedStock,  \* the s_quantity of the loader, 10..100
          NewOrders,    \* the last orders of the loader that are not delivered, 900
          RecentOrders, \* 20: how far StockLevel looks back
          U16, U32,     \* 2^16 and 2^32: where the counters of a record wrap around
          MaxTx,        \* bound: transactions that are started
          MaxAborts     \* bound: system aborts

\* The loader makes an order for every customer.
ORDS_PER_DIST == Cardinality(Customers)

ASSUME TPCCAssumption ==
    /\ \A S \in {Warehouses, Districts, Customers, Items, OlCnts, Quantities} :
          IsFiniteSet(S) /\ S # {} /\ S \subseteq Nat \ {0}
    /\ Quantities \subseteq 1..10
    /\ LastNames \in 1..Cardinality(Customers)
    /\ LoadedStock \in 10..100
    /\ NewOrders \in 0..ORDS_PER_DIST
    /\ RecentOrders \in 0..ORDS_PER_DIST
    /\ U16 \in Nat \ {0} /\ U32 \in Nat \ {0}
    /\ CacheLimit \in Nat /\ CacheLimit >= Cardinality(Districts)
    /\ MaxTx \in Nat /\ MaxAborts \in Nat

VARIABLES flag,      \* of main: the threads go on
          tx,        \* tx[t]: where t is, and the local variables of its transaction
          started,   \* transactions started
          aborted    \* system aborts

vars == <<naiveVars, flag, tx, started, aborted>>

Profiles == {"NewOrder", "Payment", "Delivery", "OrderStatus", "StockLevel"}

\* the local variables that are not set yet
Idle == [profile |-> "none", at |-> "loop", w |-> 0, d |-> 0, c |-> 0, o |-> 0, n |-> 0,
         cnt |-> 0, remote |-> FALSE, sum |-> 0]

Steps == {"loop", "done", "bug", "undefined", "run", "district", "neworder", "order", "line", "warehouse",
          "payDistrict", "customer", "history", "oldest", "carrier", "lines", "credit",
          "status", "level", "commit", "userAbort", "release"}

TypeOK ==
    /\ NaiveTypeOK
    /\ flag \in BOOLEAN
    /\ \A t \in Thread : /\ tx[t].profile \in Profiles \cup {"none"} /\ tx[t].at \in Steps
                         /\ tx[t].n \in 0..(Max(OlCnts) + 1)
    /\ started \in 0..MaxTx /\ aborted \in 0..MaxAborts

(***************************************************************************)
(* The loader: load_all_tables and the generate functions.  Which customer *)
(* placed which order is a permutation; all of them have the same records. *)
(***************************************************************************)
Delivered(o) == o <= ORDS_PER_DIST - NewOrders

generate_warehouse == [ytd |-> Cardinality(Districts) * Cardinality(Customers)]
generate_district == [ytd |-> Cardinality(Customers), next_o_id |-> ORDS_PER_DIST + 1]
\* the first customers have one last name each, the others any
generate_customer(c) ==
    [last |-> (c - 1) % LastNames,
     balance |-> -1, ytd_payment |-> 1, payment_cnt |-> 1, delivery_cnt |-> 0]
generate_history(w, d) == [w |-> w, d |-> d, amount |-> 1]
generate_stock == [quantity |-> LoadedStock, ytd |-> 0, order_cnt |-> 0, remote_cnt |-> 0]
generate_order(o, c) ==
    [c |-> c, carrier |-> IF Delivered(o) THEN 1 ELSE 0, ol_cnt |-> Max(OlCnts), all_local |-> TRUE]
generate_orderline(w, o) ==
    [i |-> Min(Items), supply |-> w, quantity |-> 5,
     delivered |-> Delivered(o), amount |-> IF Delivered(o) THEN 0 ELSE 1]

Loaded ==
    LET WD == Warehouses \X Districts
        WDC == Warehouses \X Districts \X Customers
        undelivered == {r \in WDC : ~Delivered(r[3])}
    IN     [k \in {<<"item", i>> : i \in Items} |-> {}]
        @@ [k \in {<<"warehouse", w>> : w \in Warehouses} |-> generate_warehouse]
        @@ [k \in {<<"district", r[1], r[2]>> : r \in WD} |-> generate_district]
        @@ [k \in {<<"customer", r[1], r[2], r[3]>> : r \in WDC} |-> generate_customer(k[4])]
        @@ [k \in {<<"history", 0, r[1], r[2], r[3]>> : r \in WDC} |-> generate_history(k[3], k[4])]
        @@ [k \in {<<"order", r[1], r[2], r[3]>> : r \in WDC} |-> generate_order(k[4], k[4])]
        @@ [k \in {<<"neworder", r[1], r[2], r[3]>> : r \in undelivered} |-> {}]
        @@ [k \in {<<"line", r[1], r[2], r[3], n>> : r \in WDC, n \in 1..Max(OlCnts)} |->
               generate_orderline(k[2], k[4])]
        @@ [k \in {<<"stock", r[1], r[2]>> : r \in Warehouses \X Items} |-> generate_stock]

Init ==
    /\ NaiveInit(Loaded)
    /\ flag = TRUE
    /\ tx = [t \in Thread |-> Idle]
    /\ started = 0 /\ aborted = 0

Keys(table) == {k \in DOMAIN db : k[1] = table}
WarehouseKey(t) == <<"warehouse", tx[t].w>>
DistrictKey(t) == <<"district", tx[t].w, tx[t].d>>
OrderKey(t) == <<"order", tx[t].w, tx[t].d, tx[t].o>>
NewOrderKey(t) == <<"neworder", tx[t].w, tx[t].d, tx[t].o>>
LineKeys(w, d, o) == {k \in Keys("line") : k[2] = w /\ k[3] = d /\ k[4] = o}

\* The calls of a transaction: the write set of t, and where t goes.  A call
\* that throws, and a FAIL, which run_with_retry takes for a BUG, end in "bug".
Call(t, succeeds, wset, next) ==
    IF succeeds
    THEN ws' = [ws EXCEPT ![t] = wset] /\ tx' = [tx EXCEPT ![t] = next]
    ELSE tx' = [tx EXCEPT ![t].at = "bug"] /\ UNCHANGED ws

Get(t, succeeds, next) == Call(t, succeeds, ws[t], next)
Update(t, k, rec, next) ==
    Call(t, CanUpdate(ws[t], k), apply_update_to_writeset(ws[t], k, rec), next)
Insert(t, k, rec, next) ==
    Call(t, CanInsert(ws[t], k), apply_insert_to_writeset(ws[t], k, rec), next)

At(t, step) == tx[t].at = step
Goto(t, step) == [tx[t] EXCEPT !.at = step]
Inside == UNCHANGED <<db, lock_var, cond, cache, memory, flag, started, aborted>>

-----------------------------------------------------------------------------
\* Deliberately wrong variants of the definitions below.
M_modify_stock(s, q, remote) ==            \* the stock is used up
    [quantity |-> IF s.quantity > q THEN s.quantity - q ELSE (s.quantity - q) + 91,
     ytd |-> (s.ytd + q) % U32,
     order_cnt |-> (s.order_cnt + 1) % U16,
     remote_cnt |-> IF remote THEN (s.remote_cnt + 1) % U16 ELSE s.remote_cnt]

M_NextDistrict(t) ==                       \* total_ol_amount is declared outside of the loop
    IF tx[t].d = Max(Districts) THEN Goto(t, "commit")
    ELSE [tx[t] EXCEPT !.at = "oldest", !.d = @ + 1]

M_delivery_lines(t) ==                     \* only the first line
    LET k == <<"line", tx[t].w, tx[t].d, tx[t].o, 1>>
    IN  /\ At(t, "lines")
        /\ Update(t, k, [Copy(ws[t], k) EXCEPT !.delivered = TRUE],
                  [tx[t] EXCEPT !.at = "credit", !.sum = @ + db[k].amount])
        /\ Inside

-----------------------------------------------------------------------------
(***************************************************************************)
(* NewOrderTx                                                              *)
(***************************************************************************)
\* The warehouse and the customer, an input, are read; the next order id of the
\* district is taken in between.
new_order_district(t) ==
    LET d == Copy(ws[t], DistrictKey(t))
    IN  /\ At(t, "district")
        /\ \E c \in Customers :
              Call(t, /\ WarehouseKey(t) \in DOMAIN db
                      /\ CanUpdate(ws[t], DistrictKey(t))
                      /\ <<"customer", tx[t].w, tx[t].d, c>> \in DOMAIN db,
                   apply_update_to_writeset(ws[t], DistrictKey(t), [d EXCEPT !.next_o_id = @ + 1]),
                   [tx[t] EXCEPT !.at = "neworder", !.o = d.next_o_id, !.c = c])
        /\ Inside

create_neworder(t) ==
    /\ At(t, "neworder")
    /\ Insert(t, NewOrderKey(t), {}, Goto(t, "order"))
    /\ Inside

\* ol_cnt and is_remote are inputs
create_order(t) ==
    /\ At(t, "order")
    /\ \E cnt \in OlCnts, remote \in BOOLEAN :
          Insert(t, OrderKey(t),
                 [c |-> tx[t].c, carrier |-> 0, ol_cnt |-> cnt, all_local |-> ~remote],
                 [tx[t] EXCEPT !.at = "line", !.n = 1, !.cnt = cnt, !.remote = remote])
    /\ Inside

modify_stock(s, q, remote) ==
    [quantity |-> IF s.quantity > q + 10 THEN s.quantity - q ELSE (s.quantity - q) + 91,
     ytd |-> (s.ytd + q) % U32,
     order_cnt |-> (s.order_cnt + 1) % U16,
     remote_cnt |-> IF remote THEN (s.remote_cnt + 1) % U16 ELSE s.remote_cnt]

\* a line: its item is read and its stock updated, then it is inserted.  Its
\* amount is the quantity times the price, which is 1.
create_orderline(t) ==
    LET others == Warehouses \ {tx[t].w}
        line == <<"line", tx[t].w, tx[t].d, tx[t].o, tx[t].n>>
    IN  /\ At(t, "line") /\ tx[t].n <= tx[t].cnt
        /\ \E i \in Items, q \in Quantities,
              supply \in IF tx[t].remote /\ others # {} THEN others ELSE {tx[t].w} :
              LET k == <<"stock", supply, i>>
                  stock == modify_stock(Copy(ws[t], k), q, tx[t].remote)
                  rec == [i |-> i, supply |-> supply, quantity |-> q, delivered |-> FALSE,
                          amount |-> q]
              IN  Call(t, <<"item", i>> \in DOMAIN db /\ CanUpdate(ws[t], k) /\ CanInsert(ws[t], line),
                       apply_insert_to_writeset(apply_update_to_writeset(ws[t], k, stock), line, rec),
                       [tx[t] EXCEPT !.n = @ + 1])
        /\ Inside

\* the last item has an unused id
unused_item(t) ==
    /\ At(t, "line") /\ tx[t].n = tx[t].cnt
    /\ Get(t, TRUE, Goto(t, "userAbort"))
    /\ Inside

new_order_end(t) ==
    /\ At(t, "line") /\ tx[t].n > tx[t].cnt
    /\ Get(t, TRUE, Goto(t, "commit"))
    /\ Inside

(***************************************************************************)
(* PaymentTx; the amount is 1                                              *)
(***************************************************************************)
h_amount == 1

payment_warehouse(t) ==
    LET w == Copy(ws[t], WarehouseKey(t))
    IN  /\ At(t, "warehouse")
        /\ Update(t, WarehouseKey(t), [w EXCEPT !.ytd = @ + h_amount], Goto(t, "payDistrict"))
        /\ Inside

payment_district(t) ==
    LET d == Copy(ws[t], DistrictKey(t))
    IN  /\ At(t, "payDistrict")
        /\ Update(t, DistrictKey(t), [d EXCEPT !.ytd = @ + h_amount], Goto(t, "customer"))
        /\ Inside

\* The customers get_customer_by_last_name may come up with.  If nobody in the
\* district has the name it is the nullptr, and FAIL; else one of those who have
\* it, or whoever is in their memory by now.
nullptr == <<"customer", 0, 0, 0>>

get_customer_by_last_name(w, d, last) ==
    LET temp == {k \in Keys("customer") : k[2] = w /\ k[3] = d /\ db[k].last = last}
    IN  IF temp = {} THEN {nullptr}
        ELSE IF memory["customer"] = "own" THEN temp ELSE Keys("customer")

\* A search in the secondary table of r follows an address that was freed.
FollowFreed(t, r) ==
    /\ memory[r] = "freed"
    /\ tx' = [tx EXCEPT ![t].at = "undefined"]
    /\ UNCHANGED ws

\* the districts of the customer who pays: the one of the payment, or any of
\* another warehouse
PayingDistricts(t) ==
    {<<tx[t].w, tx[t].d>>} \cup ((Warehouses \ {tx[t].w}) \X Districts)

payment_customer(t) ==
    LET Pay(k) == LET c == Copy(ws[t], k)
                  IN  Update(t, k, [c EXCEPT !.balance = @ - h_amount,
                                             !.ytd_payment = @ + h_amount,
                                             !.payment_cnt = (@ + 1) % U16],
                             Goto(t, "history"))
    IN  /\ At(t, "customer")
        /\ \/ \E r \in PayingDistricts(t), c \in Customers : Pay(<<"customer", r[1], r[2], c>>)
           \/ \E r \in PayingDistricts(t), last \in 0..(LastNames - 1) :
                 \E k \in get_customer_by_last_name(r[1], r[2], last) : Pay(k)
           \/ FollowFreed(t, "customer")
        /\ Inside

create_history(t) ==
    LET n == Cardinality({k \in Keys("history") : k[2] = t}) + 1
    IN  /\ At(t, "history")
        /\ Insert(t, <<"history", t, n>>, [w |-> tx[t].w, d |-> tx[t].d, amount |-> h_amount],
                  Goto(t, "commit"))
        /\ Inside

(***************************************************************************)
(* DeliveryTx: district after district                                     *)
(***************************************************************************)
KeyLess(k, l) ==
    \/ k[2] < l[2]
    \/ /\ k[2] = l[2]
       /\ k[3] < l[3] \/ (k[3] = l[3] /\ k[4] < l[4])

\* What low_iter points to.  Behind the last element of a std::map of this build's
\* library is its header, with the number of elements where an element has its
\* key; the ids of district and warehouse are in the upper half of a NewOrderKey.
lower_bound(low) ==
    LET from == {k \in Keys("neworder") : ~KeyLess(k, low)}
    IN  IF from = {} THEN <<"neworder", 0, 0, Cardinality(Keys("neworder"))>>
        ELSE CHOOSE k \in from : \A l \in from \ {k} : KeyLess(k, l)

\* get_neworder_with_smallest_key_no_less_than: none (FAIL) or one
smallest_neworder(low) ==
    LET k == lower_bound(low) IN IF k[2] = low[2] /\ k[3] = low[3] THEN {k} ELSE {}

NextDistrict(t) ==
    IF tx[t].d = Max(Districts) THEN Goto(t, "commit")
    ELSE [tx[t] EXCEPT !.at = "oldest", !.d = @ + 1, !.sum = 0]

delivery_neworder(t) ==
    LET found == smallest_neworder(<<"neworder", tx[t].w, tx[t].d, 1>>)
    IN  /\ At(t, "oldest")
        /\ \/ found = {} /\ Get(t, TRUE, NextDistrict(t))
           \/ \E k \in found : Call(t, CanDelete(ws[t], k), apply_delete_to_writeset(ws[t], k),
                                    [tx[t] EXCEPT !.at = "carrier", !.o = k[4]])
        /\ Inside

delivery_order(t) ==
    LET o == Copy(ws[t], OrderKey(t))
    IN  /\ At(t, "carrier")
        /\ Update(t, OrderKey(t), [o EXCEPT !.carrier = 1],
                  [tx[t] EXCEPT !.at = "lines", !.c = o.c])
        /\ Inside

\* range_update
delivery_lines(t) ==
    LET keys == LineKeys(tx[t].w, tx[t].d, tx[t].o)
        delivered == [k \in keys |-> [lt |-> "UPDATE",
                                      rec |-> [Copy(ws[t], k) EXCEPT !.delivered = TRUE]]]
    IN  /\ At(t, "lines")
        /\ Call(t, \A k \in keys : CanUpdate(ws[t], k), delivered @@ ws[t],
                [tx[t] EXCEPT !.at = "credit",
                              !.sum = @ + MapThenSumSet(LAMBDA k : db[k].amount, keys)])
        /\ Inside

delivery_customer(t) ==
    LET k == <<"customer", tx[t].w, tx[t].d, tx[t].c>>
        c == Copy(ws[t], k)
    IN  /\ At(t, "credit")
        /\ Update(t, k, [c EXCEPT !.balance = @ + tx[t].sum, !.delivery_cnt = (@ + 1) % U16],
                  NextDistrict(t))
        /\ Inside

(***************************************************************************)
(* OrderStatusTx and StockLevelTx                                          *)
(***************************************************************************)
\* The customer, by id or by last name; then get_order_by_customer_id, which finds
\* an order if this district has one for that id, and the lines of the order.
order_status(t) ==
    LET Orders(c) == {k \in Keys("order") : k[2] = tx[t].w /\ k[3] = tx[t].d /\ db[k].c = c}
        Show(k) == Get(t, k \in DOMAIN db /\ Orders(k[4]) # {}, Goto(t, "commit"))
    IN  /\ At(t, "status")
        /\ \/ \E c \in Customers : Show(<<"customer", tx[t].w, tx[t].d, c>>)
           \/ \E last \in 0..(LastNames - 1) :
                 \E k \in get_customer_by_last_name(tx[t].w, tx[t].d, last) : Show(k)
           \/ FollowFreed(t, "customer")
           \/ FollowFreed(t, "order")
        /\ Inside

\* the stock of the items of the recent orders, in this warehouse
stock_level(t) ==
    LET up == db[DistrictKey(t)].next_o_id
        recent == UNION {LineKeys(tx[t].w, tx[t].d, o) : o \in (up - RecentOrders)..(up - 1)}
    IN  /\ At(t, "level")
        /\ Get(t, /\ DistrictKey(t) \in DOMAIN db
                  /\ \A k \in recent : <<"stock", tx[t].w, db[k].i>> \in DOMAIN db,
               Goto(t, "commit"))
        /\ Inside

(***************************************************************************)
(* run_tx, run_with_retry and TxHelper                                     *)
(***************************************************************************)
FirstStep(profile) ==
    CASE profile = "NewOrder" -> "district" [] profile = "Payment" -> "warehouse"
      [] profile = "Delivery" -> "oldest"   [] profile = "OrderStatus" -> "status"
      [] profile = "StockLevel" -> "level"

\* while (flag) { Transaction tx(...);
begin(t) ==
    /\ At(t, "loop") /\ flag /\ started < MaxTx
    /\ lock(t)
    /\ tx' = [tx EXCEPT ![t] = [Idle EXCEPT !.at = "run"]]
    /\ started' = started + 1
    /\ UNCHANGED <<db, ws, cache, memory, flag, aborted>>

\* the loop of lock goes on after a notification, and may do so without one
wait(t) ==
    wake_up(t) /\ UNCHANGED <<db, ws, cache, memory, flag, tx, started, aborted>>
disturb(t) ==
    spurious_wake_up(t) /\ UNCHANGED <<db, ws, cache, memory, flag, tx, started, aborted>>

\* The profile is drawn once; a profile object with new inputs is made for every
\* try.
run(t) ==
    /\ At(t, "run") /\ cond[t] = "in"
    /\ \E p \in IF tx[t].profile = "none" THEN Profiles ELSE {tx[t].profile},
          w \in Warehouses, d \in Districts :
          /\ p = "Delivery" => d = Min(Districts)
          /\ tx' = [tx EXCEPT ![t] = [Idle EXCEPT !.profile = p, !.at = FirstStep(p),
                                                  !.w = w, !.d = d]]
    /\ UNCHANGED <<naiveVars, flag, started, aborted>>

InTransaction(t) ==
    tx[t].at \notin {"loop", "done", "bug", "undefined", "run", "userAbort", "release"}

\* not_succeeded and kill: a call returns ABORT, the loop of run_with_retry goes on
system_abort(t) ==
    /\ InTransaction(t) /\ aborted < MaxAborts
    /\ abort(t)
    /\ aborted' = aborted + 1
    /\ tx' = [tx EXCEPT ![t] = [Idle EXCEPT !.profile = tx[t].profile, !.at = "run"]]
    /\ UNCHANGED <<db, lock_var, cond, flag, started>>

user_abort(t) ==
    /\ At(t, "userAbort")
    /\ abort(t)
    /\ tx' = [tx EXCEPT ![t] = [Idle EXCEPT !.at = "release"]]
    /\ UNCHANGED <<db, lock_var, cond, flag, started, aborted>>

commit_tx(t) ==
    /\ At(t, "commit")
    /\ commit(t)
    /\ tx' = [tx EXCEPT ![t] = [Idle EXCEPT !.at = "release"]]
    /\ UNCHANGED <<lock_var, cond, flag, started, aborted>>

\* ~Transaction, and ~WriteSet with its clear_all after it
release(t) ==
    /\ At(t, "release")
    /\ unlock(t)
    /\ abort(t)
    /\ tx' = [tx EXCEPT ![t] = Idle]
    /\ UNCHANGED <<db, flag, started, aborted>>

\* the flag is read again, and run_tx returns
leave(t) ==
    /\ At(t, "loop") /\ ~flag
    /\ exit(t)
    /\ tx' = [tx EXCEPT ![t] = [Idle EXCEPT !.at = "done"]]
    /\ UNCHANGED <<ws, lock_var, cond, flag, started, aborted>>

\* main: sleep is over
stop ==
    /\ flag /\ flag' = FALSE
    /\ UNCHANGED <<naiveVars, tx, started, aborted>>

Undefined == \E t \in Thread : At(t, "undefined")

Joined == ((\A t \in Thread : At(t, "done")) \/ Undefined) /\ UNCHANGED vars

Step(t) ==
    \/ begin(t) \/ wait(t) \/ run(t) \/ commit_tx(t) \/ user_abort(t) \/ release(t) \/ leave(t)
    \/ new_order_district(t) \/ create_neworder(t) \/ create_order(t)
    \/ create_orderline(t) \/ unused_item(t) \/ new_order_end(t)
    \/ payment_warehouse(t) \/ payment_district(t) \/ payment_customer(t) \/ create_history(t)
    \/ delivery_neworder(t) \/ delivery_order(t) \/ delivery_lines(t) \/ delivery_customer(t)
    \/ order_status(t) \/ stock_level(t)

Next == (\E t \in Thread : Step(t) \/ system_abort(t) \/ disturb(t)) \/ stop \/ Joined

Spec == Init /\ [][Next]_vars

-----------------------------------------------------------------------------
SumOf(F(_), S) == MapThenSumSet(F, S)

(***************************************************************************)
(* The year-to-date amounts: those of the districts add up to that of the  *)
(* warehouse (test/naive/consistency_test.cpp, Test1), and each is what    *)
(* the history has for the district, until a thread ends and takes its     *)
(* part of the history with it.  A Payment that is aborted half way, and   *)
(* tried again, leaves nothing behind.                                     *)
(***************************************************************************)
YtdConsistent ==
    /\ \A k \in Keys("warehouse") :
          db[k].ytd = SumOf(LAMBDA l : db[l].ytd, {l \in Keys("district") : l[2] = k[2]})
    /\ (\A t \in Thread : ~At(t, "done")) => \A k \in Keys("district") :
          db[k].ytd = SumOf(LAMBDA h : db[h].amount,
                            {h \in Keys("history") : db[h].w = k[2] /\ db[h].d = k[3]})

OrderIds(table, w, d) == {k[4] : k \in {k \in Keys(table) : k[2] = w /\ k[3] = d}}

(***************************************************************************)
(* The order ids of a district are used without gaps, up to the next one   *)
(* of the district, and the orders still to be delivered are the last of   *)
(* them (consistency_test.cpp, Test2 and Test3): no id is lost or given    *)
(* out twice by an abort, and deliveries are in the order of the ids.      *)
(***************************************************************************)
OrderIdsConsistent ==
    \A k \in Keys("district") :
        LET last == db[k].next_o_id - 1
            undelivered == OrderIds("neworder", k[2], k[3])
        IN  /\ OrderIds("order", k[2], k[3]) = 1..last
            /\ undelivered = (last - Cardinality(undelivered) + 1)..last

(***************************************************************************)
(* Every order has its ol_cnt lines, and every line its order              *)
(* (consistency_test.cpp, Test4).                                          *)
(***************************************************************************)
LinesConsistent ==
    /\ \A k \in Keys("order") : {l[5] : l \in LineKeys(k[2], k[3], k[4])} = 1..db[k].ol_cnt
    /\ \A l \in Keys("line") : <<"order", l[2], l[3], l[4]>> \in DOMAIN db

(***************************************************************************)
(* An order has no carrier exactly as long as it is a new order, and so    *)
(* long none of its lines is delivered; after that all of them are.        *)
(***************************************************************************)
DeliveryConsistent ==
    \A k \in Keys("order") :
        LET new == <<"neworder", k[2], k[3], k[4]>> \in DOMAIN db
        IN  /\ new <=> db[k].carrier = 0
            /\ \A l \in LineKeys(k[2], k[3], k[4]) : db[l].delivered = ~new

(***************************************************************************)
(* Orders, order lines, new orders and districts agree with one another,   *)
(* whatever is aborted on the way.                                         *)
(***************************************************************************)
OrdersConsistent == OrderIdsConsistent /\ LinesConsistent /\ DeliveryConsistent

(***************************************************************************)
(* What a customer has paid and owes is what was delivered to them: every  *)
(* delivery is charged once, to the customer of the order, and a payment   *)
(* moves the same amount from the one to the other.                        *)
(***************************************************************************)
BalanceConsistent ==
    \A k \in Keys("customer") :
        db[k].balance + db[k].ytd_payment =
            SumOf(LAMBDA l : db[l].amount,
                  {l \in Keys("line") : /\ l[2] = k[2] /\ l[3] = k[3] /\ db[l].delivered
                                        /\ db[<<"order", l[2], l[3], l[4]>>].c = k[4]})

(***************************************************************************)
(* Nothing is paid or charged twice or lost between the warehouse, the     *)
(* districts, the history, the customers and the order lines.              *)
(***************************************************************************)
MoneyConsistent == YtdConsistent /\ BalanceConsistent

(***************************************************************************)
(* The stock is what was ordered: the counters of an item are those of the *)
(* order lines since the load, up to their wrap around, also if an order   *)
(* has the item twice, and the quantity stays between 10 and 101.          *)
(***************************************************************************)
StockConsistent ==
    \A k \in Keys("stock") :
        LET ordered == {l \in Keys("line") : /\ l[4] > ORDS_PER_DIST
                                             /\ db[l].supply = k[2] /\ db[l].i = k[3]}
        IN  /\ db[k].quantity \in 10..101
            /\ db[k].ytd = SumOf(LAMBDA l : db[l].quantity, ordered) % U32
            /\ db[k].order_cnt = Cardinality(ordered) % U16
            /\ db[k].remote_cnt =
                  Cardinality({l \in ordered : ~db[<<"order", l[2], l[3], l[4]>>].all_local}) % U16

(***************************************************************************)
(* Every record a transaction asks for is there: no call fails, which      *)
(* "case BUG: assert(false)" (tx_runner.hpp) takes for a bug, or throws a  *)
(* runtime_error of the write set, whatever the search by last name comes  *)
(* up with.  And as long as no thread has ended, a search follows no       *)
(* address of a freed record: allocate takes back what deallocate put into *)
(* a cache before the cache is full.                                       *)
(***************************************************************************)
LookupsSucceed ==
    /\ \A t \in Thread : ~At(t, "bug")
    /\ Undefined => \E t \in Thread : At(t, "done")
=============================================================================
