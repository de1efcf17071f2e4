------------------------------- MODULE Stock -------------------------------
(***************************************************************************)
(* The stock ledger: product.quantity and stock_movements, and the         *)
(* commands that change them (pkg/handlers/stock.go, purchase_bill.go,     *)
(* product.go; of the sale command, the part that touches stock).          *)
(*                                                                         *)
(* What a transaction writes to a product is kept in own[h] and its        *)
(* movements in delta[h] until it commits.  InnoDB locks: the handler that *)
(* wrote a product holds it (X); a sale that inserted lines holds their    *)
(* products shared (S), for bill_product.product_id references product.    *)
(* A plain SELECT in a transaction reads the snapshot snap[h].             *)
(*                                                                         *)
(* An operator whose comment begins "A bug:" is a mutant: it changes the   *)
(* definition that follows it, and no part of Spec uses it.                *)
(***************************************************************************)
EXTENDS Integers, Sequences, Functions

CONSTANTS
  Handlers,      \* the requests that are served at the same time
  Products,
  Sales,         \* bound: the bills that may exist
  Purchases,     \* bound: the purchase bills that may exist
  Received,      \* those that were recorded before the start
  Orders,        \* what a request may ask for: sequences of lines
  FirstOrder,    \* the lines of the bills in Received
  Opening,       \* the quantities at the start
  Changes,       \* the quantities an adjustment or an edit may name
  Modes,         \* the settings of stock_enforcement the owner moves between
  Ops,           \* the commands in use
  NoQuantity,    \* a product that a transaction has not written or read
  NoBill,        \* reference_id NULL on a movement of a bill
  Manual,        \* the reference of an adjustment
  MaxQuantity,   \* bound: on quantities and on sums of movements
  MaxTimeouts,   \* bound: lock waits that time out
  MaxDeadlocks   \* bound: deadlocks on products

Lines == [product : Products, quantity : Nat \ {0}]

ASSUME NullsAssumption ==
  /\ NoQuantity \notin Int
  /\ NoBill \notin Sales \cup Purchases /\ Manual \notin Sales \cup Purchases \cup {NoBill}
  /\ Sales \cap Purchases = {}
ASSUME OrdersAssumption ==
  /\ Orders \subseteq Seq(Lines) /\ FirstOrder \in Seq(Lines)
  /\ Received \subseteq Purchases
ASSUME QuantitiesAssumption ==
  Opening \in [Products -> Nat] /\ Changes \subseteq Int
ASSUME ModesAssumption ==
  Modes \subseteq {"disable", "warn", "enforce"}
ASSUME BoundsAssumption ==
  MaxQuantity \in Nat /\ MaxTimeouts \in Nat /\ MaxDeadlocks \in Nat

VARIABLES
  quantity,      \* product.quantity
  moved,         \* the sum of stock_movements.quantity since the start
  traced,        \* the sum of all movements by what they refer to
  setting,       \* stock_enforcement
  sale,          \* the bills: state and lines
  purchase,      \* the purchase bills: state and lines
  pc,            \* where the handler stands
  req,           \* its request
  mode,          \* the enforcement it read
  todo,          \* the lines it has not come to
  seen,          \* the quantity it read and will base a write on
  snap,          \* its snapshot of the quantities
  own,           \* the quantities it has written
  delta,         \* the movements it has recorded
  shared,        \* the products its inserted lines refer to
  detached,      \* whether its transaction is gone without its knowing
  reply,         \* what it answered
  timeouts, deadlocks

tables == <<quantity, moved, traced, sale, purchase>>
faults == <<timeouts, deadlocks>>
vars == <<quantity, moved, traced, setting, sale, purchase, pc, req, mode, todo,
          seen, snap, own, delta, shared, detached, reply, timeouts, deadlocks>>

References == Sales \cup Purchases \cup {NoBill, Manual}
NoRow == [state |-> "none", lines |-> <<>>]
NoRequest == [op |-> "none", bill |-> NoBill, lines |-> <<>>, final |-> FALSE]
Untouched == [p \in Products |-> NoQuantity]
Nothing == [p \in Products |-> 0]

\* The quantity of p that a sequence of lines asks for.
Total(lines, p) ==
  SumFunctionOnSet([i \in DOMAIN lines |->
                      IF lines[i].product = p THEN lines[i].quantity ELSE 0], DOMAIN lines)
ProductsOf(lines) == {lines[i].product : i \in DOMAIN lines}

Init ==
  /\ quantity = Opening
  /\ moved = Nothing
  /\ traced = [r \in References |->
                 IF r \in Received THEN [p \in Products |-> Total(FirstOrder, p)]
                                   ELSE Nothing]
  /\ setting \in Modes
  /\ sale = [s \in Sales |-> NoRow]
  /\ purchase = [b \in Purchases |->
                   IF b \in Received THEN [state |-> "final", lines |-> FirstOrder]
                                     ELSE NoRow]
  /\ pc = [h \in Handlers |-> "idle"]
  /\ req = [h \in Handlers |-> NoRequest]
  /\ mode = [h \in Handlers |-> "disable"]
  /\ todo = [h \in Handlers |-> <<>>]
  /\ seen = [h \in Handlers |-> NoQuantity]
  /\ snap = [h \in Handlers |-> Untouched]
  /\ own = [h \in Handlers |-> Untouched]
  /\ delta = [h \in Handlers |-> Nothing]
  /\ shared = [h \in Handlers |-> {}]
  /\ detached = [h \in Handlers |-> FALSE]
  /\ reply = [h \in Handlers |-> "none"]
  /\ timeouts = 0 /\ deadlocks = 0
----------------------------------------------------------------------------
(* Locks and reads *)

\* No other transaction has written p, or holds it shared.
Unwritten(h, p) == \A g \in Handlers \ {h} : own[g][p] = NoQuantity
\* A bug: nothing waits for the rows that another transaction wrote.
FreeAlways(h, p) == \A g \in Handlers \ {h} : p \notin shared[g]
Free(h, p) == Unwritten(h, p) /\ \A g \in Handlers \ {h} : p \notin shared[g]

\* No transaction, of another handler, holds the row of the bill or the purchase
\* bill.  Deleting a purchase bill takes its row last.
Open(h) == pc[h] \notin {"idle", "answered", "wait"}
\* A bug: the draft is read without FOR UPDATE.
SaleFreeAlways(s) == s \in Sales
SaleFree(s) == \A g \in Handlers : Open(g) /\ ~detached[g] => req[g].bill # s
PurchaseFree(h, b) ==
  \A g \in Handlers \ {h} :
    Open(g) /\ req[g].op # "delete_purchase" => req[g].bill # b

\* What a locking read or an UPDATE of h finds, and what a plain SELECT finds.
Current(h, p) == IF own[h][p] = NoQuantity THEN quantity[p] ELSE own[h][p]
Snapshot(h) == IF snap[h] = Untouched THEN quantity ELSE snap[h]
Read(h, p) == IF own[h][p] = NoQuantity THEN Snapshot(h)[p] ELSE own[h][p]

\* Does request h record stock movements for its purchase bill?
Records(h) == mode[h] # "disable" /\ req[h].final
----------------------------------------------------------------------------
(* Steps that all commands share *)

\* quantity = quantity + d, and the movement of it, in the transaction.
Move(h, p, d) ==
  /\ own' = [own EXCEPT ![h][p] = Current(h, p) + d]
  /\ delta' = [delta EXCEPT ![h][p] = @ + d]

NextLine(h) == todo' = [todo EXCEPT ![h] = Tail(@)]

Begin(h, stage, r, lines) ==
  /\ pc[h] = "idle"
  /\ pc' = [pc EXCEPT ![h] = stage]
  /\ req' = [req EXCEPT ![h] = r]
  /\ mode' = [mode EXCEPT ![h] = setting]
  /\ todo' = [todo EXCEPT ![h] = lines]

\* The transaction ends and the request is answered.
Answer(h, kind) ==
  /\ pc' = [pc EXCEPT ![h] = "answered"]
  /\ reply' = [reply EXCEPT ![h] = kind]
  /\ todo' = [todo EXCEPT ![h] = <<>>]
  /\ seen' = [seen EXCEPT ![h] = NoQuantity]
  /\ snap' = [snap EXCEPT ![h] = Untouched]
  /\ own' = [own EXCEPT ![h] = Untouched]
  /\ delta' = [delta EXCEPT ![h] = Nothing]
  /\ shared' = [shared EXCEPT ![h] = {}]
  /\ detached' = [detached EXCEPT ![h] = FALSE]
  /\ UNCHANGED <<setting, req, mode, faults>>

WithinBound ==
  \A p \in Products :
    /\ quantity[p] <= MaxQuantity
    /\ \A r \in References : traced[r][p] \in -MaxQuantity .. MaxQuantity

\* Its writes reach the tables; its movements refer to r.
Apply(h, r) ==
  /\ quantity' = [p \in Products |-> Current(h, p)]
  /\ moved' = [p \in Products |-> moved[p] + delta[h][p]]
  /\ traced' = [traced EXCEPT ![r] = [p \in Products |-> @[p] + delta[h][p]]]
  /\ WithinBound'

\* Any failure or refusal: an error of the database, stock too short to take back
\* what a purchase brought in, a purchase bill that is already deleted (the UPDATE
\* changes no row), a client that is gone.
Abort(h) ==
  /\ pc[h] \notin {"idle", "answered"}
  /\ Answer(h, "failed")
  /\ UNCHANGED tables

Done(h) ==
  /\ pc[h] = "answered"
  /\ pc' = [pc EXCEPT ![h] = "idle"]
  /\ req' = [req EXCEPT ![h] = NoRequest]
  /\ mode' = [mode EXCEPT ![h] = "disable"]
  /\ reply' = [reply EXCEPT ![h] = "none"]
  /\ UNCHANGED <<tables, setting, todo, seen, snap, own, delta, shared, detached, faults>>
----------------------------------------------------------------------------
(* Sales *)

\* The draft of a sale: lines, no movement.
SaveDraft(s, lines) ==
  /\ "draft" \in Ops
  /\ SaleFree(s) /\ sale[s].state # "final"
  /\ \A p \in ProductsOf(lines), g \in Handlers : own[g][p] = NoQuantity
  /\ sale' = [sale EXCEPT ![s] = [state |-> "draft", lines |-> lines]]
  /\ UNCHANGED <<quantity, moved, traced, setting, purchase, pc, req, mode, todo, seen,
                 snap, own, delta, shared, detached, reply, faults>>

\* A final sale, new or of a draft, has opened its bill.
StartSale(h, s, lines) ==
  /\ "sale" \in Ops
  /\ SaleFree(s) /\ sale[s].state # "final"
  /\ Begin(h, "insert", [op |-> "sale", bill |-> s, lines |-> lines, final |-> TRUE], <<>>)
  /\ UNCHANGED <<tables, setting, seen, snap, own, delta, shared, detached, reply, faults>>

\* Its lines are inserted; then the setting is read, on another connection.
InsertLines(h) ==
  /\ pc[h] = "insert"
  /\ \A p \in ProductsOf(req[h].lines) : Unwritten(h, p)
  /\ shared' = [shared EXCEPT ![h] = ProductsOf(req[h].lines)]
  /\ mode' = [mode EXCEPT ![h] = setting]
  /\ todo' = [todo EXCEPT ![h] = IF setting = "disable" THEN <<>> ELSE req[h].lines]
  /\ pc' = [pc EXCEPT ![h] = "sell"]
  /\ UNCHANGED <<tables, setting, req, seen, snap, own, delta, detached, reply, faults>>

Selling(h) == pc[h] = "sell" /\ todo[h] # <<>>

\* A bug: a short line is sold in every mode.
SellLineShort(h) ==
  /\ Selling(h) /\ ~detached[h]
  /\ LET l == Head(todo[h]) IN Free(h, l.product) /\ Move(h, l.product, -l.quantity)
  /\ NextLine(h)
  /\ UNCHANGED <<tables, setting, pc, req, mode, seen, snap, shared, detached, reply, faults>>
\* The row is locked, and there is enough.
SellLine(h) ==
  /\ Selling(h) /\ ~detached[h]
  /\ LET l == Head(todo[h]) IN
       /\ Free(h, l.product) /\ Current(h, l.product) >= l.quantity
       /\ Move(h, l.product, -l.quantity)
  /\ NextLine(h)
  /\ UNCHANGED <<tables, setting, pc, req, mode, seen, snap, shared, detached, reply, faults>>

\* There is not: in enforce mode the handler refuses, in warn mode the table does
\* (ch_product_quantity).
SellShort(h) ==
  /\ Selling(h)
  /\ LET l == Head(todo[h]) IN
       Free(h, l.product) /\ Current(h, l.product) < l.quantity
  /\ Answer(h, "short")
  /\ UNCHANGED tables

\* recordSaleMovements takes every error of the locking read for a product that does
\* not exist and skips the line.  After a timeout the transaction goes on; after a
\* deadlock InnoDB has rolled it back, and each later statement commits by itself.
Waiting(h) == Selling(h) /\ ~detached[h] /\ ~Free(h, Head(todo[h]).product)
SellTimeout(h) ==
  /\ Waiting(h)
  /\ timeouts < MaxTimeouts
  /\ timeouts' = timeouts + 1
  /\ NextLine(h)
  /\ UNCHANGED <<tables, setting, pc, req, mode, seen, snap, own, delta, shared, detached,
                 reply, deadlocks>>
SellDeadlock(h) ==
  /\ Waiting(h)
  /\ \E g \in Handlers \ {h} :
       pc[g] \in {"sell", "restore", "reverse", "write"} /\ todo[g] # <<>>
         /\ LET p == Head(todo[g]).product IN own[h][p] # NoQuantity \/ p \in shared[h]
  /\ deadlocks < MaxDeadlocks
  /\ deadlocks' = deadlocks + 1
  /\ NextLine(h)
  /\ own' = [own EXCEPT ![h] = Untouched]
  /\ delta' = [delta EXCEPT ![h] = Nothing]
  /\ shared' = [shared EXCEPT ![h] = {}]
  /\ detached' = [detached EXCEPT ![h] = TRUE]
  /\ UNCHANGED <<tables, setting, pc, req, mode, seen, snap, reply, timeouts>>

\* A later line: the UPDATE commits, then the movement.
DetachedSellLine(h) ==
  /\ Selling(h) /\ detached[h]
  /\ LET l == Head(todo[h]) IN
       /\ Free(h, l.product) /\ quantity[l.product] >= l.quantity
       /\ quantity' = [quantity EXCEPT ![l.product] = @ - l.quantity]
       /\ moved' = [moved EXCEPT ![l.product] = @ - l.quantity]
       /\ traced' = [traced EXCEPT ![NoBill][l.product] = @ - l.quantity]
  /\ NextLine(h)
  /\ UNCHANGED <<setting, sale, purchase, pc, req, mode, seen, snap, own, delta, shared,
                 detached, reply, faults>>
\* ... or the movement fails.
DetachedSellFails(h) ==
  /\ Selling(h) /\ detached[h]
  /\ LET l == Head(todo[h]) IN
       /\ Free(h, l.product) /\ quantity[l.product] >= l.quantity
       /\ quantity' = [quantity EXCEPT ![l.product] = @ - l.quantity]
  /\ Answer(h, "failed")
  /\ UNCHANGED <<moved, traced, sale, purchase>>

CommitSale(h) ==
  /\ pc[h] = "sell" /\ todo[h] = <<>> /\ ~detached[h]
  /\ Apply(h, NoBill)
  /\ sale' = [sale EXCEPT ![req[h].bill] = [state |-> "final", lines |-> req[h].lines]]
  /\ Answer(h, "done")
  /\ UNCHANGED purchase
\* COMMIT finds no transaction, and no error.
DetachedCommit(h) ==
  /\ pc[h] = "sell" /\ todo[h] = <<>> /\ detached[h]
  /\ Answer(h, "done")
  /\ UNCHANGED tables

\* Deleting a draft puts its lines back into stock.
StartDeleteDraft(h, s) ==
  /\ "delete_draft" \in Ops
  /\ SaleFree(s) /\ sale[s].state = "draft"
  /\ Begin(h, "restore", [op |-> "delete_draft", bill |-> s, lines |-> <<>>, final |-> FALSE],
           IF setting = "disable" THEN <<>> ELSE sale[s].lines)
  /\ UNCHANGED <<tables, setting, seen, snap, own, delta, shared, detached, reply, faults>>
RestoreLine(h) ==
  /\ pc[h] = "restore" /\ todo[h] # <<>>
  /\ LET l == Head(todo[h]) IN Free(h, l.product) /\ Move(h, l.product, l.quantity)
  /\ NextLine(h)
  /\ UNCHANGED <<tables, setting, pc, req, mode, seen, snap, shared, detached, reply, faults>>
CommitDeleteDraft(h) ==
  /\ pc[h] = "restore" /\ todo[h] = <<>>
  /\ Apply(h, req[h].bill)
  /\ sale' = [sale EXCEPT ![req[h].bill].state = "deleted"]
  /\ Answer(h, "done")
  /\ UNCHANGED purchase
----------------------------------------------------------------------------
(* Purchase bills *)

PurchaseRequest(op, b, lines, final) ==
  [op |-> op, bill |-> b, lines |-> lines, final |-> final]

StartAddPurchase(h, b, lines) ==
  /\ "add_purchase" \in Ops
  /\ purchase[b].state = "none" /\ PurchaseFree(h, b)
  /\ Begin(h, "line", PurchaseRequest("add_purchase", b, lines, TRUE), lines)
  /\ UNCHANGED <<tables, setting, seen, snap, own, delta, shared, detached, reply, faults>>

\* An update reads the setting, then waits for the row; it asks for no state of it.
StartUpdatePurchase(h, b, lines, final) ==
  /\ "update_purchase" \in Ops
  /\ purchase[b].state # "none"
  /\ Begin(h, "wait", PurchaseRequest("update_purchase", b, lines, final), <<>>)
  /\ UNCHANGED <<tables, setting, seen, snap, own, delta, shared, detached, reply, faults>>

\* A bug: an update takes nothing back.
OpenPurchaseOnly(h) ==
  /\ pc[h] = "wait" /\ PurchaseFree(h, req[h].bill)
  /\ pc' = [pc EXCEPT ![h] = "reverse"]
  /\ UNCHANGED <<tables, setting, req, mode, todo, seen, snap, own, delta, shared, detached,
                 reply, faults>>
\* What the bill brought in is to be taken back, whether it was recorded or not, in the
\* mode that is read anew.  The lines are the first that the transaction reads.
OpenPurchase(h) ==
  /\ pc[h] = "wait" /\ PurchaseFree(h, req[h].bill)
  /\ pc' = [pc EXCEPT ![h] = "reverse"]
  /\ IF mode[h] = "disable" \/ setting = "disable"
     THEN UNCHANGED <<todo, snap, mode>>
     ELSE /\ todo' = [todo EXCEPT ![h] = purchase[req[h].bill].lines]
          /\ snap' = [snap EXCEPT ![h] = quantity]
          /\ mode' = [mode EXCEPT ![h] = setting]
  /\ UNCHANGED <<tables, setting, req, seen, own, delta, shared, detached, reply, faults>>

ReverseLine(h) ==
  /\ pc[h] = "reverse" /\ todo[h] # <<>>
  /\ LET l == Head(todo[h]) IN
       /\ Free(h, l.product) /\ Current(h, l.product) >= l.quantity
       /\ Move(h, l.product, -l.quantity)
  /\ NextLine(h)
  /\ UNCHANGED <<tables, setting, pc, req, mode, seen, snap, shared, detached, reply, faults>>

\* In enforce mode a locking read comes first; its error is taken, as in a sale, for a
\* product that does not exist, and the line stays in stock.
ReverseTimeout(h) ==
  /\ pc[h] = "reverse" /\ todo[h] # <<>> /\ mode[h] = "enforce"
  /\ ~Free(h, Head(todo[h]).product)
  /\ timeouts < MaxTimeouts
  /\ timeouts' = timeouts + 1
  /\ NextLine(h)
  /\ UNCHANGED <<tables, setting, pc, req, mode, seen, snap, own, delta, shared, detached,
                 reply, deadlocks>>

ReplaceLines(h) ==
  /\ pc[h] = "reverse" /\ todo[h] = <<>> /\ req[h].op = "update_purchase"
  /\ pc' = [pc EXCEPT ![h] = "line"]
  /\ todo' = [todo EXCEPT ![h] = req[h].lines]
  /\ UNCHANGED <<tables, setting, req, mode, seen, snap, own, delta, shared, detached, reply,
                 faults>>

\* updatePurchaseInventoryProduct reads the quantity without a lock and writes what
\* it read: with the line's quantity if no movement will bring it, as it is if one
\* will.
ReadLine(h) ==
  /\ pc[h] = "line" /\ todo[h] # <<>>
  /\ pc' = [pc EXCEPT ![h] = "write"]
  /\ seen' = [seen EXCEPT ![h] = Read(h, Head(todo[h]).product)]
  /\ snap' = [snap EXCEPT ![h] = Snapshot(h)]
  /\ UNCHANGED <<tables, setting, req, mode, todo, own, delta, shared, detached, reply, faults>>
WriteLine(h) ==
  /\ pc[h] = "write"
  /\ LET l == Head(todo[h]) IN
       /\ Free(h, l.product)
       /\ own' = [own EXCEPT ![h][l.product] =
                    seen[h] + (IF Records(h) THEN 0 ELSE l.quantity)]
  /\ pc' = [pc EXCEPT ![h] = "line"]
  /\ seen' = [seen EXCEPT ![h] = NoQuantity]
  /\ NextLine(h)
  /\ UNCHANGED <<tables, setting, req, mode, snap, delta, shared, detached, reply, faults>>

\* The movements, for all the lines: their products are locked by now.
RecordPurchase(h) ==
  /\ pc[h] = "line" /\ todo[h] = <<>>
  /\ pc' = [pc EXCEPT ![h] = "commit"]
  /\ IF Records(h)
     THEN /\ own' = [own EXCEPT ![h] =
                       [p \in Products |-> IF p \in ProductsOf(req[h].lines)
                                           THEN @[p] + Total(req[h].lines, p) ELSE @[p]]]
          /\ delta' = [delta EXCEPT ![h] =
                         [p \in Products |-> @[p] + Total(req[h].lines, p)]]
     ELSE UNCHANGED <<own, delta>>
  /\ UNCHANGED <<tables, setting, req, mode, todo, seen, snap, shared, detached, reply, faults>>
CommitPurchase(h) ==
  /\ pc[h] = "commit"
  /\ Apply(h, req[h].bill)
  /\ purchase' = [purchase EXCEPT ![req[h].bill] =
                    [state |-> IF req[h].final THEN "final" ELSE "draft",
                     lines |-> req[h].lines]]
  /\ Answer(h, "done")
  /\ UNCHANGED sale

\* A deletion reads the lines without a lock, and marks the bill last.
StartDeletePurchase(h, b) ==
  /\ "delete_purchase" \in Ops
  /\ purchase[b].state # "none"
  /\ Begin(h, "reverse", PurchaseRequest("delete_purchase", b, <<>>, FALSE),
           IF setting = "disable" THEN <<>> ELSE purchase[b].lines)
  /\ UNCHANGED <<tables, setting, seen, snap, own, delta, shared, detached, reply, faults>>
\* A bug: it does not look at the number of rows that it marked.
CommitDeleteAnyway(h) ==
  /\ pc[h] = "reverse" /\ todo[h] = <<>> /\ req[h].op = "delete_purchase"
  /\ LET b == req[h].bill IN
       /\ PurchaseFree(h, b)
       /\ Apply(h, b)
       /\ purchase' = [purchase EXCEPT ![b].state = "deleted"]
  /\ Answer(h, "done")
  /\ UNCHANGED sale
CommitDeletePurchase(h) ==
  /\ pc[h] = "reverse" /\ todo[h] = <<>> /\ req[h].op = "delete_purchase"
  /\ LET b == req[h].bill IN
       /\ PurchaseFree(h, b) /\ purchase[b].state # "deleted"
       /\ Apply(h, b)
       /\ purchase' = [purchase EXCEPT ![b].state = "deleted"]
  /\ Answer(h, "done")
  /\ UNCHANGED sale
----------------------------------------------------------------------------
(* Adjustments and edits *)

\* StockAdjust reads the setting and the quantity, and then adds in a transaction.
StartAdjust(h, p, n) ==
  /\ "adjust" \in Ops /\ setting # "disable"
  /\ Begin(h, "adjust",
           [op |-> "adjust", bill |-> Manual,
            lines |-> <<[product |-> p, quantity |-> n]>>, final |-> FALSE], <<>>)
  /\ UNCHANGED <<tables, setting, seen, snap, own, delta, shared, detached, reply, faults>>
Adjustment(h) == Head(req[h].lines)
AdjustRead(h) ==
  /\ pc[h] = "adjust" /\ seen[h] = NoQuantity
  /\ LET l == Adjustment(h) IN
       IF mode[h] = "enforce" /\ quantity[l.product] + l.quantity < 0
       THEN Answer(h, "short")
       ELSE /\ seen' = [seen EXCEPT ![h] = quantity[l.product]]
            /\ UNCHANGED <<setting, pc, req, mode, todo, snap, own, delta, shared, detached,
                           reply, faults>>
  /\ UNCHANGED tables
\* A bug: the quantity that was read is the base of the one that is written.
AdjustWriteRead(h) ==
  /\ pc[h] = "adjust" /\ seen[h] # NoQuantity
  /\ LET l == Adjustment(h) IN
       /\ Free(h, l.product)
       /\ seen[h] + l.quantity >= 0
       /\ quantity' = [quantity EXCEPT ![l.product] = seen[h] + l.quantity]
       /\ moved' = [moved EXCEPT ![l.product] = @ + l.quantity]
       /\ traced' = [traced EXCEPT ![Manual][l.product] = @ + l.quantity]
       /\ WithinBound'
  /\ Answer(h, "done")
  /\ UNCHANGED <<sale, purchase>>
AdjustWrite(h) ==
  /\ pc[h] = "adjust" /\ seen[h] # NoQuantity
  /\ LET l == Adjustment(h) IN
       /\ Free(h, l.product)
       /\ quantity[l.product] + l.quantity >= 0
       /\ quantity' = [quantity EXCEPT ![l.product] = @ + l.quantity]
       /\ moved' = [moved EXCEPT ![l.product] = @ + l.quantity]
       /\ traced' = [traced EXCEPT ![Manual][l.product] = @ + l.quantity]
       /\ WithinBound'
  /\ Answer(h, "done")
  /\ UNCHANGED <<sale, purchase>>

\* A single statement waits for nobody's commit but its own.
Edit(p, n) ==
  /\ \A g \in Handlers : own[g][p] = NoQuantity /\ p \notin shared[g]
  /\ n \in 0 .. MaxQuantity
  /\ quantity' = [quantity EXCEPT ![p] = n]
  /\ UNCHANGED <<moved, traced, setting, sale, purchase, pc, req, mode, todo, seen, snap,
                 own, delta, shared, detached, reply, faults>>
\* UpdateProduct writes the quantity of its form, AddQuantity adds to the row.
UpdateProduct(p, n) == "update_product" \in Ops /\ Edit(p, n)
AddQuantity(p, n) == "add_quantity" \in Ops /\ Edit(p, quantity[p] + n)

ChangeSetting(m) ==
  /\ m # setting
  /\ setting' = m
  /\ UNCHANGED <<tables, pc, req, mode, todo, seen, snap, own, delta, shared, detached,
                 reply, faults>>
----------------------------------------------------------------------------
SaleStep(h) ==
  \/ \E s \in Sales : (\E ls \in Orders : StartSale(h, s, ls)) \/ StartDeleteDraft(h, s)
  \/ InsertLines(h) \/ SellLine(h) \/ SellShort(h) \/ SellTimeout(h) \/ SellDeadlock(h)
  \/ DetachedSellLine(h) \/ DetachedSellFails(h) \/ CommitSale(h) \/ DetachedCommit(h)
  \/ RestoreLine(h) \/ CommitDeleteDraft(h)
PurchaseStep(h) ==
  \/ \E b \in Purchases :
       \/ \E ls \in Orders :
            \/ StartAddPurchase(h, b, ls)
            \/ \E final \in BOOLEAN : StartUpdatePurchase(h, b, ls, final)
       \/ StartDeletePurchase(h, b)
  \/ OpenPurchase(h) \/ ReverseLine(h) \/ ReverseTimeout(h) \/ ReplaceLines(h)
  \/ ReadLine(h) \/ WriteLine(h) \/ RecordPurchase(h) \/ CommitPurchase(h)
  \/ CommitDeletePurchase(h)
AdjustStep(h) ==
  \/ \E p \in Products, n \in Changes : StartAdjust(h, p, n)
  \/ AdjustRead(h) \/ AdjustWrite(h)
Step(h) == SaleStep(h) \/ PurchaseStep(h) \/ AdjustStep(h) \/ Abort(h) \/ Done(h)
OwnerStep ==
  \/ \E s \in Sales, ls \in Orders : SaveDraft(s, ls)
  \/ \E p \in Products, n \in Changes : UpdateProduct(p, n) \/ AddQuantity(p, n)
  \/ \E m \in Modes : ChangeSetting(m)

Next == (\E h \in Handlers : Step(h)) \/ OwnerStep
Spec == Init /\ [][Next]_vars
----------------------------------------------------------------------------
(* Properties *)

\* Every variable has its type; no quantity is negative.
Requests == [op : {"none", "sale", "delete_draft", "add_purchase", "update_purchase",
                   "delete_purchase", "adjust"},
             bill : References,
             lines : Seq([product : Products, quantity : Int]),
             final : BOOLEAN]
Maybe(S) == S \cup {NoQuantity}
TypeOK ==
  /\ quantity \in [Products -> Nat]
  /\ moved \in [Products -> Int]
  /\ traced \in [References -> [Products -> Int]]
  /\ setting \in {"disable", "warn", "enforce"}
  /\ sale \in [Sales -> [state : {"none", "draft", "final", "deleted"}, lines : Seq(Lines)]]
  /\ purchase \in [Purchases -> [state : {"none", "draft", "final", "deleted"},
                                 lines : Seq(Lines)]]
  /\ pc \in [Handlers -> {"idle", "insert", "sell", "restore", "wait", "reverse", "line",
                          "write", "commit", "adjust", "answered"}]
  /\ req \in [Handlers -> Requests]
  /\ mode \in [Handlers -> {"disable", "warn", "enforce"}]
  /\ todo \in [Handlers -> Seq(Lines)]
  /\ seen \in [Handlers -> Maybe(Nat)]
  /\ snap \in [Handlers -> [Products -> Maybe(Nat)]]
  /\ own \in [Handlers -> [Products -> Maybe(Nat)]]
  /\ delta \in [Handlers -> [Products -> Int]]
  /\ shared \in [Handlers -> SUBSET Products]
  /\ detached \in [Handlers -> BOOLEAN]
  /\ reply \in [Handlers -> {"none", "done", "short", "failed"}]
  /\ timeouts \in 0 .. MaxTimeouts /\ deadlocks \in 0 .. MaxDeadlocks

\* The quantity of a product is what it was and what its movements add up to.
QuantityIsLedger == \A p \in Products : quantity[p] = Opening[p] + moved[p]

\* The same where movements may be lost after a deadlock: no piece of stock comes from
\* nowhere.
NothingFromNowhere == \A p \in Products : quantity[p] <= Opening[p] + moved[p]

\* What makes them inductive, for the commands that add to the quantity: a transaction
\* holds what it wrote alone, and wrote what its movements say; it is detached only
\* after a deadlock.
Exclusive ==
  \A h \in Handlers : \A g \in Handlers \ {h} : \A p \in Products :
    own[h][p] # NoQuantity => own[g][p] = NoQuantity /\ p \notin shared[g]
OwnIsMoved ==
  \A h \in Handlers : \A p \in Products :
    IF own[h][p] = NoQuantity THEN delta[h][p] = 0
                              ELSE own[h][p] = quantity[p] + delta[h][p]
DetachedByDeadlock ==
  \A h \in Handlers : detached[h] => deadlocks > 0 /\ own[h] = Untouched
ExactBeforeDeadlocks == deadlocks = 0 => QuantityIsLedger
\* No handler serves a command that writes a quantity it read.
Additive ==
  \A h \in Handlers : /\ pc[h] \notin {"wait", "line", "write", "commit"}
                      /\ req[h].op \notin {"add_purchase", "update_purchase"}
LedgerInv ==
  /\ Additive /\ Exclusive /\ OwnIsMoved /\ DetachedByDeadlock
  /\ ExactBeforeDeadlocks /\ NothingFromNowhere

\* What some bills of a table ask for, and those of them that are final.
LinesOf(table, bills, p) ==
  SumFunctionOnSet([b \in bills |-> Total(table[b].lines, p)], bills)
FinalLines(table, bills, p) == LinesOf(table, {b \in bills : table[b].state = "final"}, p)

\* No error of a locking read was passed over: what the code does then is in the actions
\* SellTimeout, SellDeadlock and ReverseTimeout, and the papers no longer explain the stock.
NothingPassedOver == timeouts = 0 /\ deadlocks = 0

\* Stock is explained by the papers: what there was, what purchases that stand have brought
\* in since (a draft purchase too), what sales took out, and what adjustments corrected.
Standing == {b \in Purchases : purchase[b].state \in {"draft", "final"}}
StockExplained ==
  NothingPassedOver =>
    \A p \in Products :
      quantity[p] = Opening[p] + traced[Manual][p]
                      + LinesOf(purchase, Standing, p)
                      - SumFunctionOnSet([b \in Received |-> Total(FirstOrder, p)], Received)
                      - FinalLines(sale, Sales, p)

\* The movements of sales, which all refer to no bill, are those of the final sales.
SalesLedger ==
  NothingPassedOver => \A p \in Products : traced[NoBill][p] = -FinalLines(sale, Sales, p)

\* A purchase bill is never counted twice: the movements that refer to it add up to no more
\* than its lines while it is final, and to nothing that was brought in before.  (They may
\* add up to less: an update takes back the lines of a draft or of a deleted bill too.)  Once
\* it is deleted nothing is left of it, unless an update replaced the lines that the deletion
\* had read: the deletion takes back the old ones, and some of the new ones may stay.
CountedOnce ==
  NothingPassedOver =>
    \A b \in Purchases : \A p \in Products :
      traced[b][p] <=
        IF \/ purchase[b].state = "final"
           \/ purchase[b].state = "deleted" /\ "update_purchase" \in Ops
        THEN Total(purchase[b].lines, p) ELSE 0
=============================================================================
