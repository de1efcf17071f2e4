----------------------------- MODULE Statements -----------------------------
(***************************************************************************)
(* What is owed to suppliers: the general ledger (supplier_ledger.go), the *)
(* report of one supplier or of several and the receipt marks              *)
(* (supplier_report.go).  An answer is put together from several           *)
(* statements, without a transaction, while bills and vouchers change.     *)
(*                                                                         *)
(* An instant is twice its day, plus one after midnight: a date of a       *)
(* request is a midnight.  The rows are those of the user who asks         *)
(* (merchant_id is the id of the session's user).                          *)
(*                                                                         *)
(* An operator whose comment begins "A bug:" is a mutant: it changes the   *)
(* definition that follows it, and no part of Spec uses it.                *)
(***************************************************************************)
EXTENDS Integers, FiniteSets, Sequences, SequencesExt, FiniteSetsExt

CONSTANTS
  Handlers,
  Ops,           \* the routes this instance uses
  Suppliers,
  NoSupplier,    \* recipient_id NULL on a voucher
  Papers,        \* the bills and the vouchers that may exist: positive numbers
  Instants,      \* when they may be dated
  Now,           \* the instant of every request
  MaxChanges,    \* bound: rows recorded, approved and deleted
  MaxFaults      \* bound: statements that fail

VARIABLES
  supplier,      \* the suppliers that are not deleted
  purchase_bill, \* the bills, by id
  cash_voucher,  \* the vouchers to suppliers, by id
  pc, req,       \* per handler: where it stands and its request
  work,          \* per handler: what it has read
  answer,        \* per handler: what it answered last
  faults, changes

vars == <<supplier, purchase_bill, cash_voucher, pc, req, work, answer, faults, changes>>
tables == <<supplier, purchase_bill, cash_voucher>>

NoReading == [bills |-> {}, payments |-> {}, supplier |-> NoSupplier, summary |-> {},
              paid |-> {}, reports |-> <<>>, left |-> <<>>]
NoAnswer == [kind |-> "none"]
Idle == [op |-> "none"]

Init ==
  /\ supplier = Suppliers
  /\ purchase_bill = <<>> /\ cash_voucher = <<>>
  /\ pc = [h \in Handlers |-> "idle"]
  /\ req = [h \in Handlers |-> Idle]
  /\ work = [h \in Handlers |-> NoReading]
  /\ answer = [h \in Handlers |-> NoAnswer]
  /\ faults = 0 /\ changes = 0

To(h, place, reading) ==
  /\ pc' = [pc EXCEPT ![h] = place] /\ work' = [work EXCEPT ![h] = reading]
  /\ UNCHANGED <<tables, req, changes, answer>>
Reply(h, a) ==
  /\ pc' = [pc EXCEPT ![h] = "idle"] /\ req' = [req EXCEPT ![h] = Idle]
  /\ work' = [work EXCEPT ![h] = NoReading] /\ answer' = [answer EXCEPT ![h] = a]
  /\ UNCHANGED <<tables, changes>>
Refused(detail) == [kind |-> detail]
Works == UNCHANGED faults
Fails == faults < MaxFaults /\ faults' = faults + 1
At(h, op, place) == pc[h] = place /\ req[h].op = op
----------------------------------------------------------------------------
(* Requests *)

\* A date is given, left out, or not a date.
NoDate == -1
BadDate == -2
DateParams == {NoDate, BadDate} \cup {i \in Instants : i % 2 = 0}
\* The first instant of a statement: the default is long before every row.
parseDateRange(from, to) ==
  [from |-> IF from = NoDate THEN 0 ELSE from, to |-> IF to = NoDate THEN Now ELSE to]

\* Lists of ids, with a repetition or with something that is not an id.
SupplierLists == {<<>>} \cup [1..1 -> Suppliers \cup {NoSupplier}] \cup [1..2 -> Suppliers]
\* The ids in the order given, each once.
parseSupplierIDList(ids) ==
  FoldLeft(LAMBDA seen, s : IF s \in ToSet(seen) THEN seen ELSE Append(seen, s), <<>>, ids)

\* supplier_id "all": the vouchers that name no supplier's id, too.
Everyone == {Suppliers \cup {NoSupplier}}

Receive(h) ==
  /\ pc[h] = "idle"
  /\ \/ "ledger" \in Ops /\ \E s \in Everyone \cup {{x} : x \in Suppliers}, from, to \in DateParams :
          IF BadDate \in {from, to} THEN Reply(h, Refused("invalid date format"))
          ELSE /\ pc' = [pc EXCEPT ![h] = "bills"]
               /\ req' = [req EXCEPT ![h] = [op |-> "ledger", supplier |-> s,
                                             range |-> parseDateRange(from, to)]]
               /\ answer' = [answer EXCEPT ![h] = NoAnswer]
               /\ UNCHANGED <<tables, work, changes>>
     \/ "report" \in Ops /\ \E ids \in SupplierLists, many \in BOOLEAN, to \in DateParams :
          IF to = BadDate \/ ids = <<>> \/ NoSupplier \in ToSet(ids)
          THEN Reply(h, Refused("invalid supplier ids or date"))
          ELSE /\ many \/ Len(ids) = 1
               /\ pc' = [pc EXCEPT ![h] = "supplier"]
               /\ req' = [req EXCEPT ![h] = [op |-> "report", many |-> many, ids |-> parseSupplierIDList(ids),
                                             range |-> parseDateRange(NoDate, to)]]
               /\ work' = [work EXCEPT ![h].left = parseSupplierIDList(ids)]
               /\ answer' = [answer EXCEPT ![h] = NoAnswer]
               /\ UNCHANGED <<tables, changes>>
  /\ Works
----------------------------------------------------------------------------
(* The general ledger *)

\* effective_date between the instants; one supplier, or all of them.
InRange(row, range) == range.from <= row.at /\ row.at <= range.to
Bills(s, range) ==
  {b \in DOMAIN purchase_bill :
     purchase_bill[b].supplier \in s /\ InRange(purchase_bill[b], range)}
Payments(s, range) ==
  {v \in DOMAIN cash_voucher :
     /\ cash_voucher[v].state >= 1 /\ cash_voucher[v].supplier \in s
     /\ InRange(cash_voucher[v], range)}
With(id, row) == [id |-> id, supplier |-> row.supplier, at |-> row.at]

LedgerBills(h) ==
  /\ At(h, "ledger", "bills")
  /\ \/ Works /\ To(h, "payments", [work[h] EXCEPT !.bills =
          {With(b, purchase_bill[b]) : b \in Bills(req[h].supplier, req[h].range)}])
     \/ Fails /\ Reply(h, Refused("failed to fetch ledger bills"))

LedgerPayments(h) ==
  /\ At(h, "ledger", "payments")
  /\ \/ Works /\ To(h, "build", [work[h] EXCEPT !.payments =
          {With(v, cash_voucher[v]) : v \in Payments(req[h].supplier, req[h].range)}])
     \/ Fails /\ Reply(h, Refused("failed to fetch ledger payments"))

\* An amount is as good as any other: that of a row is its id.
Entry(type, row) ==
  [type |-> type, id |-> row.id, supplier |-> row.supplier, date |-> row.at \div 2,
   debit |-> IF type = "bill" THEN row.id ELSE 0,
   credit |-> IF type = "payment" THEN row.id ELSE 0, balance |-> 0]
EntriesOf(reading) ==
  {Entry("bill", b) : b \in reading.bills}
  \cup {Entry("payment", v) : v \in {p \in reading.payments : p.supplier # NoSupplier}}

\* Chronological: within a day, in any order the statements and the map left them.
Feeds(entries) ==
  {f \in [1..Cardinality(entries) -> entries] :
     /\ \A i, j \in DOMAIN f : i # j => f[i] # f[j]
     /\ \A i, j \in DOMAIN f : i < j => f[i].date <= f[j].date}
\* What each line adds to the balance.
Net(feed) == [i \in DOMAIN feed |-> feed[i].debit - feed[i].credit]
\* A bug: the feed of all suppliers keeps the balances of each supplier's own feed.
OwnBalances(feed) ==
  [i \in DOMAIN feed |-> [feed[i] EXCEPT !.balance =
     SumFunctionOnSet(Net(feed), {j \in 1..i : feed[j].supplier = feed[i].supplier})]]
withRunningBalance(feed) ==
  [i \in DOMAIN feed |-> [feed[i] EXCEPT !.balance = SumFunctionOnSet(Net(feed), 1..i)]]

Debit(entries) == SumFunctionOnSet([e \in entries |-> e.debit], entries)
Credit(entries) == SumFunctionOnSet([e \in entries |-> e.credit], entries)
Breakdowns(entries) ==
  {[supplier |-> s, balance |-> LET own == {e \in entries : e.supplier = s}
                                IN  Debit(own) - Credit(own)] :
     s \in {e.supplier : e \in entries}}

LedgerBuild(h) ==
  /\ At(h, "ledger", "build") /\ Works
  /\ LET entries == EntriesOf(work[h])
     IN  \E feed \in Feeds(entries) :
           Reply(h, [kind |-> "ledger", ledger |-> withRunningBalance(feed),
                     bill_count |-> Cardinality(work[h].bills),
                     payment_count |-> Cardinality(work[h].payments),
                     closing_balance |-> Debit(entries) - Credit(entries),
                     suppliers |-> IF req[h].supplier \in Everyone THEN Breakdowns(entries) ELSE {}])
----------------------------------------------------------------------------
(* The report of a supplier *)

Total(ids) == SumSet(ids)
\* The report is done: the next supplier, or the answer.
Next1(h, reading) ==
  IF Len(reading.left) = 1
  THEN Reply(h, [kind |-> "report", many |-> req[h].many, asked |-> req[h].ids,
                 reports |-> reading.reports])
  ELSE To(h, "supplier", [NoReading EXCEPT !.reports = reading.reports,
                                            !.left = Tail(reading.left)])
\* It cannot be: one supplier's is refused, several suppliers' goes on without it.
Skip(h, detail) ==
  IF req[h].many THEN Next1(h, work[h]) ELSE Reply(h, Refused(detail))
Current(h) == Head(work[h].left)

ReportSupplier(h) ==
  /\ At(h, "report", "supplier")
  /\ \/ Works /\ Current(h) \in supplier
        /\ To(h, "summary", [work[h] EXCEPT !.supplier = Current(h)])
     \/ Works /\ Current(h) \notin supplier /\ Skip(h, "supplier not found")
     \/ Fails /\ Skip(h, "supplier not found")

ReportSummary(h) ==
  /\ At(h, "report", "summary")
  /\ \/ Works /\ To(h, "paid", [work[h] EXCEPT
                                  !.summary = Bills({Current(h)}, req[h].range)])
     \/ Fails /\ Skip(h, "failed to compute bill summary")

\* A failure is not fatal: the payments are zero.
ReportPaid(h) ==
  /\ At(h, "report", "paid")
  /\ \/ Works /\ To(h, "bills", [work[h] EXCEPT
                                   !.paid = Payments({Current(h)}, req[h].range)])
     \/ Fails /\ To(h, "bills", work[h])

ReportBills(h) ==
  /\ At(h, "report", "bills")
  /\ \/ Works /\ To(h, "payments", [work[h] EXCEPT !.bills = Bills({Current(h)}, req[h].range)])
     \/ Fails /\ Skip(h, "failed to fetch bills")

\* The payments, and then the top items, the aging and the months: none is fatal.
ReportPayments(h) ==
  /\ At(h, "report", "payments")
  /\ \E listed \in {Payments({Current(h)}, req[h].range), {}} :
       /\ \/ Works /\ listed = Payments({Current(h)}, req[h].range)
          \/ Fails /\ listed = {}
       /\ Next1(h, [work[h] EXCEPT !.reports = Append(@,
            [supplier |-> Current(h), total_spent |-> Total(work[h].summary),
             total_payments |-> Total(work[h].paid),
             closing_balance |-> Total(work[h].summary) - Total(work[h].paid),
             bills |-> work[h].bills, payments |-> listed])])
----------------------------------------------------------------------------
(* What changes the rows: the receipt marks here, the rest in other handlers *)

Change == changes < MaxChanges /\ changes' = changes + 1 /\ UNCHANGED <<pc, req, work, answer, faults>>

MarkBillReceived(b) ==
  /\ Change /\ "report" \in Ops /\ ~purchase_bill[b].received
  /\ purchase_bill' = [purchase_bill EXCEPT ![b].received = TRUE] /\ UNCHANGED <<supplier, cash_voucher>>
UnmarkBillReceived(b) ==
  /\ Change /\ "report" \in Ops /\ purchase_bill[b].received
  /\ purchase_bill' = [purchase_bill EXCEPT ![b].received = FALSE] /\ UNCHANGED <<supplier, cash_voucher>>

Bought(b, s, t) ==
  /\ Change /\ b \notin DOMAIN purchase_bill
  /\ purchase_bill' = [x \in DOMAIN purchase_bill \cup {b} |->
       IF x = b THEN [supplier |-> s, at |-> t, received |-> FALSE] ELSE purchase_bill[x]]
  /\ UNCHANGED <<supplier, cash_voucher>>
\* A voucher, of whatever type (the statements do not ask), may name a supplier
\* without its id.
Paid(v, s, t) ==
  /\ Change /\ v \notin DOMAIN cash_voucher
  /\ \E state \in {0, 1} : cash_voucher' = [x \in DOMAIN cash_voucher \cup {v} |->
       IF x = v THEN [supplier |-> s, at |-> t, state |-> state] ELSE cash_voucher[x]]
  /\ UNCHANGED <<supplier, purchase_bill>>
Removed ==
  /\ Change
  /\ \/ \E b \in DOMAIN purchase_bill :
          /\ purchase_bill' = [x \in DOMAIN purchase_bill \ {b} |-> purchase_bill[x]]
          /\ UNCHANGED <<supplier, cash_voucher>>
     \/ \E s \in supplier : supplier' = supplier \ {s} /\ UNCHANGED <<purchase_bill, cash_voucher>>

Next ==
  \/ \E h \in Handlers :
       \/ Receive(h)
       \/ LedgerBills(h) \/ LedgerPayments(h) \/ LedgerBuild(h)
       \/ ReportSupplier(h) \/ ReportSummary(h) \/ ReportPaid(h) \/ ReportBills(h)
       \/ ReportPayments(h)
  \/ \E b \in DOMAIN purchase_bill : MarkBillReceived(b) \/ UnmarkBillReceived(b)
  \/ \E p \in Papers, s \in Suppliers, t \in Instants : Bought(p, s, t)
  \/ \E p \in Papers, s \in Suppliers \cup {NoSupplier}, t \in Instants : Paid(p, s, t)
  \/ Removed

Spec == Init /\ [][Next]_vars
----------------------------------------------------------------------------
(* Properties *)

\* The ledger adds up ("running-balance view", supplier_ledger.go:8): each balance is the
\* one before it plus the debit less the credit, the last is the closing balance, and the
\* balances of the suppliers sum to it -- whatever order equal dates come in.  Each bill
\* that is counted has a line; of the payments, those that name a supplier without its
\* id are counted and have none.
LedgerAddsUp ==
  \A h \in Handlers : answer[h].kind = "ledger" =>
    LET l == answer[h].ledger
        Lines(type) == {i \in DOMAIN l : l[i].type = type}
        Before(i) == IF i = 1 THEN 0 ELSE l[i - 1].balance
    IN  /\ \A i \in DOMAIN l : l[i].balance = Before(i) + l[i].debit - l[i].credit
        /\ l = <<>> \/ l[Len(l)].balance = answer[h].closing_balance
        /\ answer[h].suppliers # {} =>
             SumFunctionOnSet([s \in answer[h].suppliers |-> s.balance], answer[h].suppliers)
               = answer[h].closing_balance
        /\ Cardinality(Lines("bill")) = answer[h].bill_count
        /\ Cardinality(Lines("payment")) <= answer[h].payment_count

\* Several suppliers' reports come in the order asked for, each once, whichever of them a
\* failure or a deletion leaves out (supplier_report.go:154-163); the report of one supplier
\* is there or refused.
ReportsOfThoseAsked ==
  \A h \in Handlers : answer[h].kind = "report" =>
    LET given == answer[h].reports
        asked == answer[h].asked
    IN  /\ \E place \in [DOMAIN given -> DOMAIN asked] :
             /\ \A i \in DOMAIN given : given[i].supplier = asked[place[i]]
             /\ \A i, j \in DOMAIN given : i < j => place[i] < place[j]
        /\ \A i, j \in DOMAIN given : given[i].supplier = given[j].supplier => i = j
        /\ answer[h].many \/ Len(given) = 1
=============================================================================
