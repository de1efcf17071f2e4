-------------------------------- MODULE Orders --------------------------------
(***************************************************************************)
(* Orders (pkg/handlers/order.go).  An order is a row of orders and the    *)
(* rows of order_items that name it.  The checks run before the            *)
(* transaction; the transaction writes the order and replaces its lines.   *)
(* Prices are in thousandths, what is stored in hundredths.                *)
(*                                                                         *)
(* An operator whose comment begins "A bug:" is a mutant: it changes the   *)
(* definition that follows it, and no part of Spec uses it.                *)
(***************************************************************************)
EXTENDS Integers, FiniteSets, Sequences, Functions

CONSTANTS
  Handlers,  \* the requests that are served at the same time
  Ids,       \* bound: ids that are ever given
  Numbers,   \* sequence numbers, which clients choose
  Carts,     \* the lines that are ordered: sequences of [quantity, price]
  MaxFaults  \* bound: failed statements and lost answers

VARIABLES
  orders,      \* the rows, by id: number, whether a store is named, total
  order_items, \* by id: the line totals
  given,       \* ids are never given twice
  pc, req,     \* per handler: where it stands and its request
  work,        \* per handler in a transaction: what it will commit
  faults

vars == <<orders, order_items, given, pc, req, work, faults>>
tables == <<orders, order_items, given>>

Idle == [op |-> "none"]
NoWork == [id |-> {}, row |-> {}, lines |-> <<>>]

Init ==
  /\ orders = [o \in {} |-> {}]
  /\ order_items = [o \in {} |-> <<>>]
  /\ given = {}
  /\ pc = [h \in Handlers |-> "idle"]
  /\ req = [h \in Handlers |-> Idle]
  /\ work = [h \in Handlers |-> NoWork]
  /\ faults = 0

Learn(h, place, w) ==
  /\ pc' = [pc EXCEPT ![h] = place]
  /\ work' = [work EXCEPT ![h] = w]
  /\ UNCHANGED req
Goto(h, place) == Learn(h, place, work[h])
Answer(h) ==
  /\ pc' = [pc EXCEPT ![h] = "idle"]
  /\ req' = [req EXCEPT ![h] = Idle]
  /\ work' = [work EXCEPT ![h] = NoWork]
Fail == faults < MaxFaults /\ faults' = faults + 1
Put(f, k, v) == [x \in DOMAIN f \cup {k} |-> IF x = k THEN v ELSE f[x]]
Without(f, k) == [x \in DOMAIN f \ {k} |-> f[x]]

\* A column of two decimals rounds what it is given.
Round(thousandths) == (thousandths + 5) \div 10
Value(line) == line.quantity * line.price
Sum(s) == SumFunctionOnSet(s, DOMAIN s)

\* computeOrderTotal adds up before anything is rounded.
OrderTotal(cart) == Round(Sum([i \in DOMAIN cart |-> Value(cart[i])]))
LineTotals(cart) == [i \in DOMAIN cart |-> Round(Value(cart[i]))]

\* New orders, and what is asked of orders that were listed.
Receive(h) ==
  /\ pc[h] = "idle"
  /\ \E r \in [op : {"create"}, number : Numbers, store : BOOLEAN, cart : Carts]
              \cup [op : {"update"}, id : given, number : Numbers, store : BOOLEAN, cart : Carts]
              \cup [op : {"delete", "get"}, id : given] :
       /\ pc' = [pc EXCEPT ![h] = CASE r.op = "create" -> "number" [] r.op = "get" -> "order" [] OTHER -> "known"]
       /\ req' = [req EXCEPT ![h] = r]
  /\ UNCHANGED <<tables, work, faults>>

\* UpdateOrder and DeleteOrder find only orders that name a store.
CheckKnown(h) ==
  LET id == req[h].id IN
  /\ pc[h] = "known"
  /\ \/ /\ id \in DOMAIN orders /\ orders[id].store
        /\ Goto(h, IF req[h].op = "delete" THEN "delete" ELSE "number")
     \/ Answer(h)
  /\ UNCHANGED <<tables, faults>>

\* The counts of clients and stores, the status and the count of equal numbers;
\* when that last one fails, its error is not looked at.
CheckNumber(h) ==
  LET own == IF req[h].op = "update" THEN {req[h].id} ELSE {}
      taken == \E o \in DOMAIN orders \ own : orders[o].number = req[h].number
  IN
  /\ pc[h] = "number"
  /\ \/ IF taken THEN Answer(h) /\ UNCHANGED faults ELSE Goto(h, "row") /\ UNCHANGED faults
     \/ taken /\ Fail /\ Goto(h, "row")
     \/ Answer(h) /\ UNCHANGED faults
  /\ UNCHANGED tables

\* What the other transactions have locked: orders and sequence numbers.
Open(h) == pc[h] \in {"clear", "lines", "commit"}
LockedIds(h) == UNION {work[i].id : i \in {i \in Handlers \ {h} : Open(i)}}
LockedNumbers(h) ==
  UNION {{req[i].number} \cup {orders[o].number : o \in work[i].id \cap DOMAIN orders}
           : i \in {i \in Handlers \ {h} : Open(i)}}

\* UpdateOrder's row; where the order has gone, none, and the handler goes on.
UpdateRow(h, row) ==
  LET id == req[h].id IN
  Learn(h, "clear", IF id \in DOMAIN orders
                    THEN [id |-> {id}, row |-> {row}, lines |-> order_items[id]]
                    ELSE [NoWork EXCEPT !.id = {id}])

\* The row of the order.  A number that is in use is refused by its unique key.
WriteRow(h) ==
  LET r == req[h]
      row == [number |-> r.number, store |-> r.store, total |-> OrderTotal(r.cart)]
      own == IF r.op = "update" THEN {r.id} ELSE {}
  IN
  /\ pc[h] = "row"
  /\ r.number \notin LockedNumbers(h) /\ own \cap LockedIds(h) = {}
  /\ \/ /\ \E o \in DOMAIN orders \ own : orders[o].number = r.number
        /\ Answer(h)
        /\ UNCHANGED <<given, faults>>
     \/ /\ ~ \E o \in DOMAIN orders \ own : orders[o].number = r.number
        /\ IF r.op = "update"
           THEN UpdateRow(h, row) /\ UNCHANGED given
           ELSE \E o \in Ids \ given :
                  /\ given' = given \cup {o}
                  /\ Learn(h, "lines", [id |-> {o}, row |-> {row}, lines |-> <<>>])
        /\ UNCHANGED faults
     \/ Fail /\ Answer(h) /\ UNCHANGED given
  /\ UNCHANGED <<orders, order_items>>

\* DELETE FROM order_items, of an update.
\* A bug: the lines that were there stay.
LinesKept(h) == work[h].lines
LinesCleared(h) == <<>>
ClearLines(h) ==
  /\ pc[h] = "clear"
  /\ \/ Learn(h, "lines", [work[h] EXCEPT !.lines = LinesCleared(h)]) /\ UNCHANGED faults
     \/ Fail /\ Answer(h)
  /\ UNCHANGED tables

\* insertOrderItems: the foreign key refuses a line of an order that has gone.
InsertLines(h) ==
  /\ pc[h] = "lines"
  /\ \/ /\ IF work[h].row = {} /\ req[h].cart # <<>>
           THEN Answer(h)
           ELSE Learn(h, "commit", [work[h] EXCEPT !.lines = @ \o LineTotals(req[h].cart)])
        /\ UNCHANGED faults
     \/ Fail /\ Answer(h)
  /\ UNCHANGED tables

\* The commit; its answer may be an error although it took effect, or did not.
Commit(h) ==
  /\ pc[h] = "commit"
  /\ \/ UNCHANGED faults \/ Fail
  /\ \/ /\ \E o \in work[h].id, row \in work[h].row :
             orders' = Put(orders, o, row) /\ order_items' = Put(order_items, o, work[h].lines)
     \/ /\ work[h].row = {} \/ faults' # faults
        /\ UNCHANGED <<orders, order_items>>
  /\ Answer(h)
  /\ UNCHANGED given

\* DeleteOrder: one statement; the lines follow by their foreign key.
Delete(h) ==
  /\ pc[h] = "delete"
  /\ req[h].id \notin LockedIds(h)
  /\ orders' = Without(orders, req[h].id)
  /\ order_items' = Without(order_items, req[h].id)
  /\ Answer(h)
  /\ UNCHANGED <<given, faults>>

\* GetOrder reads the order and then its lines, in no transaction.
Get(h) ==
  /\ pc[h] \in {"order", "items"}
  /\ IF pc[h] = "order" /\ req[h].id \in DOMAIN orders THEN Goto(h, "items") ELSE Answer(h)
  /\ UNCHANGED <<tables, faults>>

\* DeleteStore (store.go:361) counts no orders: theirs lose the store.
StoreGone ==
  /\ \E S \in SUBSET {o \in DOMAIN orders : orders[o].store} :
       /\ S # {} /\ \A h \in Handlers : S \cap LockedIds(h) = {}
       /\ orders' = [o \in DOMAIN orders |-> IF o \in S THEN [orders[o] EXCEPT !.store = FALSE] ELSE orders[o]]
  /\ Fail
  /\ UNCHANGED <<order_items, given, pc, req, work>>

Next ==
  \/ StoreGone
  \/ \E h \in Handlers :
       \/ Receive(h)
       \/ CheckKnown(h) \/ CheckNumber(h)
       \/ WriteRow(h) \/ ClearLines(h) \/ InsertLines(h) \/ Commit(h)
       \/ Delete(h) \/ Get(h)

Spec == Init /\ [][Next]_vars
-------------------------------------------------------------------------------
\* Every order has the lines of one request, and a total that differs from
\* their sum by rounding alone (each of the lines and the total is rounded on
\* its own, order.go:380): no two requests are mixed, whatever fails or is
\* deleted between their statements.
OrdersWhole ==
  /\ DOMAIN order_items = DOMAIN orders
  /\ \A o \in DOMAIN orders :
       LET difference == orders[o].total - Sum(order_items[o]) IN
         \E cart \in Carts :
           /\ order_items[o] = LineTotals(cart) /\ orders[o].total = OrderTotal(cart)
           /\ 2 * difference <= Len(cart) + 1 /\ 2 * difference >= - (Len(cart) + 1)
  /\ \A o, p \in DOMAIN orders : o # p => orders[o].number # orders[p].number
===============================================================================
