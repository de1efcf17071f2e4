----------------------------- MODULE Dashboard -----------------------------
(***************************************************************************)
(* The dashboard, its analytics and the comparison of two periods          *)
(* (pkg/handlers/dashboard.go).  A request runs its queries in goroutines  *)
(* of their own, waits for all of them, and puts the figures together.     *)
(* Of the figures, those that relate several queries or several months     *)
(* are here; each bill is worth one.                                       *)
(*                                                                         *)
(* A day is a number; the months follow one another.                       *)
(*                                                                         *)
(* An operator whose comment begins "A bug:" is a mutant: it changes the   *)
(* definition that follows it, and no part of Spec uses it.                *)
(***************************************************************************)
EXTENDS Integers, FiniteSets, Sequences, Functions

CONSTANTS
  Handlers,
  Ops,           \* the routes this instance uses
  MonthLengths,  \* the days of each month, in their order
  Dates,         \* the days on which bills are dated, and periods begin and end
  Todays,        \* the days on which requests are made
  Spans,         \* the numbers of months asked for
  Accounts,      \* rows of the balance sheet: type, subtype, net balance
  MaxChanges,    \* bound: bills recorded while requests are served
  MaxFaults      \* bound: queries that fail

VARIABLES
  today,
  sold, bought,  \* the bills and the purchase bills, by day
  pc, req,       \* per handler: where it stands and its request
  pending,       \* per handler: the queries that have not ended
  work,          \* per handler: what the queries gave; a failed one gives nothing
  answer,        \* per handler: what it answered last
  faults, changes,
  asked          \* history, per handler: the bills when its request came

vars == <<today, sold, bought, pc, req, pending, work, answer, faults, changes, asked>>
tables == <<sold, bought>>

Idle == [op |-> "none"]
NoAnswer == [kind |-> "none"]
Nothing == <<>>

Init ==
  /\ today \in Todays
  /\ sold = [d \in Dates |-> 1] /\ bought = [d \in Dates |-> 1]
  /\ pc = [h \in Handlers |-> "idle"]
  /\ req = [h \in Handlers |-> Idle]
  /\ pending = [h \in Handlers |-> {}]
  /\ work = [h \in Handlers |-> Nothing]
  /\ answer = [h \in Handlers |-> NoAnswer]
  /\ faults = 0 /\ changes = 0
  /\ asked = [h \in Handlers |-> [sold |-> sold, bought |-> bought]]
----------------------------------------------------------------------------
(* The calendar *)

LastDay(m) == SumFunctionOnSet(MonthLengths, 1..m)
MonthOf(d) == CHOOSE m \in DOMAIN MonthLengths : LastDay(m - 1) < d /\ d <= LastDay(m)
DayOf(d) == d - LastDay(MonthOf(d) - 1)

\* AddDate(0, -i, 0): a day that the month does not have is a day of the next month.
MonthBack(d, i) ==
  LET m == MonthOf(d) - i IN IF DayOf(d) > MonthLengths[m] THEN m + 1 ELSE m
buildMonthLabels(d, n) == [i \in 1..n |-> MonthBack(d, n - i)]

Period(first, last) == first..last
Total(f, days) == SumFunctionOnSet(f, {d \in DOMAIN f : d \in days})
\* The rows of a query by month, and the figures in the order of the labels.
Monthly(f) == [m \in DOMAIN MonthLengths |-> Total(f, {d \in Dates : MonthOf(d) = m})]
ByLabel(labels, rows) ==
  [i \in DOMAIN labels |-> IF labels[i] \in DOMAIN rows THEN rows[labels[i]] ELSE 0]
SumOf(figures) == SumFunctionOnSet(figures, DOMAIN figures)
----------------------------------------------------------------------------
(* Requests *)

DashboardQueries == {"sales", "purchases", "monthlyRev", "monthlyPur", "clv"}
AnalyticsQueries == {"monthlyRev", "monthlyPur", "curInv", "prevInv", "curPurch", "prevPurch", "balance"}
CompareQueries == {"aInv", "aPurch", "bInv", "bPurch"}

Launch(h, r, queries) ==
  /\ pc' = [pc EXCEPT ![h] = "queries"]
  /\ req' = [req EXCEPT ![h] = r]
  /\ pending' = [pending EXCEPT ![h] = queries]
  /\ work' = [work EXCEPT ![h] = Nothing]
  /\ answer' = [answer EXCEPT ![h] = NoAnswer]
  /\ asked' = [asked EXCEPT ![h] = [sold |-> sold, bought |-> bought]]
  /\ UNCHANGED <<today, tables, faults, changes>>
Reply(h, a) ==
  /\ pc' = [pc EXCEPT ![h] = "idle"] /\ req' = [req EXCEPT ![h] = Idle]
  /\ work' = [work EXCEPT ![h] = Nothing] /\ answer' = [answer EXCEPT ![h] = a]
  /\ UNCHANGED <<today, tables, pending, faults, changes, asked>>

\* With both dates the period is whole days, and the one before it starts a second after
\* its first midnight: that day is left out.  Without, it is the last seven days.
TrendPeriods(given, first, last) ==
  IF given THEN [current |-> Period(first, last),
                 previous |-> Period(first - (last - first), first - 1)]
  ELSE [current |-> Period(today - 6, today), previous |-> Period(today - 13, today - 7)]

GetDashboard(h) ==
  /\ "dashboard" \in Ops /\ pc[h] = "idle"
  /\ \E n \in Spans : Launch(h, [op |-> "dashboard", months |-> n], DashboardQueries)
GetDashboardAnalytics(h) ==
  /\ "analytics" \in Ops /\ pc[h] = "idle"
  /\ \E n \in Spans, given \in BOOLEAN, first, last \in Dates :
       /\ first <= last
       /\ Launch(h, [op |-> "analytics", months |-> n, periods |-> TrendPeriods(given, first, last)],
                 AnalyticsQueries)
\* Four dates, or a refusal.
GetDashboardCompare(h) ==
  /\ "compare" \in Ops /\ pc[h] = "idle"
  /\ \/ \E a1, a2, b1, b2 \in Dates :
          /\ a1 <= a2 /\ b1 <= b2
          /\ Launch(h, [op |-> "compare", periods |-> [a |-> Period(a1, a2), b |-> Period(b1, b2)]],
                    CompareQueries)
     \/ Reply(h, [kind |-> "no dates"])
----------------------------------------------------------------------------
(* Queries *)

Give(given, q, v) == [x \in DOMAIN given \cup {q} |-> IF x = q THEN v ELSE given[x]]
Asked(q, periods) ==
  CASE q = "sales" -> Total(sold, Dates)
    [] q = "purchases" -> Total(bought, Dates)
    [] q = "monthlyRev" -> Monthly(sold)
    [] q = "monthlyPur" -> Monthly(bought)
    [] q = "clv" -> <<2, 1, 1, 1>>
    [] q = "balance" -> Accounts
    [] q = "curInv" -> Total(sold, periods.current)
    [] q = "prevInv" -> Total(sold, periods.previous)
    [] q = "curPurch" -> Total(bought, periods.current)
    [] q = "prevPurch" -> Total(bought, periods.previous)
    [] q = "aInv" -> Total(sold, periods.a)
    [] q = "aPurch" -> Total(bought, periods.a)
    [] q = "bInv" -> Total(sold, periods.b)
    [] q = "bPurch" -> Total(bought, periods.b)

\* The two queries of a period of a comparison run one after the other.
Turn(h, q) ==
  /\ q = "aPurch" => "aInv" \notin pending[h]
  /\ q = "bPurch" => "bInv" \notin pending[h]

Answered(h, q) ==
  /\ work' = [work EXCEPT ![h] = Give(@, q, Asked(q, IF req[h].op = "dashboard" THEN 0 ELSE req[h].periods))]
  /\ faults' = faults
\* An error, or the end of the ten seconds for whatever has not ended.
Failed ==
  /\ faults < MaxFaults /\ faults' = faults + 1
  /\ UNCHANGED work
Query(h, q) ==
  /\ pc[h] = "queries" /\ q \in pending[h] /\ Turn(h, q)
  /\ \/ Answered(h, q) /\ pending' = [pending EXCEPT ![h] = @ \ {q}]
     \/ Failed /\ \E gone \in {{q}, pending[h]} : pending' = [pending EXCEPT ![h] = @ \ gone]
  /\ UNCHANGED <<today, tables, pc, req, answer, changes, asked>>
----------------------------------------------------------------------------
(* Answers *)

\* A query that failed left its variable at zero: no rows, or nothing to convert.
Figure(h, q) == IF q \in DOMAIN work[h] THEN work[h][q] ELSE 0
Rows(h, q) == IF q \in DOMAIN work[h] THEN work[h][q] ELSE <<>>
RowSet(h, q) == IF q \in DOMAIN work[h] THEN work[h][q] ELSE {}
Waited(h, op) == pc[h] = "queries" /\ req[h].op = op /\ pending[h] = {}

pct(a, b) == IF b = 0 THEN 0 ELSE (a * 100) \div b
concentrationRisk(values, topN) ==
  pct(SumOf(SubSeq(values, 1, IF topN < Len(values) THEN topN ELSE Len(values))), SumOf(values))
\* Less than half a percent either way is flat.
makeTrend(cur, prev) ==
  IF prev = 0 THEN IF cur = 0 THEN "flat" ELSE "up"
  ELSE IF 200 * (cur - prev) > prev THEN "up"
  ELSE IF 200 * (prev - cur) > prev THEN "down" ELSE "flat"

AnswerDashboard(h) ==
  /\ Waited(h, "dashboard")
  /\ LET labels == buildMonthLabels(today, req[h].months)
         revenue == Figure(h, "sales")
         profit == revenue - Figure(h, "purchases")
     IN  Reply(h, [kind |-> "dashboard", revenue |-> revenue, gross_profit |-> profit,
                   gross_margin |-> pct(profit, revenue), labels |-> labels,
                   monthly_revenue |-> ByLabel(labels, Rows(h, "monthlyRev")),
                   monthly_purchases |-> ByLabel(labels, Rows(h, "monthlyPur")),
                   client_concentration |-> concentrationRisk(Rows(h, "clv"), 3)])

\* Liabilities and equity carry credit balances: their sign is flipped.
Net(rows) == SumFunctionOnSet([r \in rows |-> r.net], rows)
BalanceSheet(rows) ==
  LET Sum(type) == Net({r \in rows : r.type = type})
  IN  [assets |-> Sum("asset"), liabilities |-> -Sum("liability"), equity |-> -Sum("equity"),
       net_worth |-> Sum("asset") + Sum("liability")]
\* Current assets by their subtypes or, where they come to nothing, all but the fixed.
Liquidity(rows) ==
  LET Named(type, subtypes) ==
        Net({r \in rows : r.type = type /\ r.subtype \in subtypes})
      Other(type, subtype) ==
        Net({r \in rows : r.type = type /\ r.subtype # subtype})
      assets == Named("asset", {"current_asset", "cash", "bank", "accounts_receivable"})
      debts == Named("liability", {"current_liability", "accounts_payable", "short_term_debt"})
  IN  [assets |-> IF assets = 0 THEN Other("asset", "fixed_asset") ELSE assets,
       liabilities |-> IF debts = 0 THEN -Other("liability", "long_term_debt") ELSE -debts]

AnswerAnalytics(h) ==
  /\ Waited(h, "analytics")
  /\ LET labels == buildMonthLabels(today, req[h].months)
         inflow == ByLabel(labels, Rows(h, "monthlyRev"))
         outflow == ByLabel(labels, Rows(h, "monthlyPur"))
         rows == RowSet(h, "balance")
     IN  Reply(h, [kind |-> "analytics", labels |-> labels, revenue |-> SumOf(inflow),
                   cogs |-> SumOf(outflow), gross_profit |-> SumOf(inflow) - SumOf(outflow),
                   trends |-> [revenue |-> makeTrend(Figure(h, "curInv"), Figure(h, "prevInv")),
                               purchases |-> makeTrend(Figure(h, "curPurch"), Figure(h, "prevPurch"))],
                   balance_sheet |-> BalanceSheet(rows), liquidity |-> Liquidity(rows)])

\* A bug: only the error of the first period is looked at.
NoErrorOfA(h) == {"aInv", "aPurch"} \subseteq DOMAIN work[h]
NoError(h) == CompareQueries \subseteq DOMAIN work[h]

Compared(h, inv, purch) ==
  [revenue |-> Figure(h, inv), purchases |-> Figure(h, purch),
   profit |-> Figure(h, inv) - Figure(h, purch)]
AnswerCompare(h) ==
  /\ Waited(h, "compare")
  /\ Reply(h, IF NoError(h)
              THEN [kind |-> "compare", periods |-> req[h].periods,
                    a |-> Compared(h, "aInv", "aPurch"), b |-> Compared(h, "bInv", "bPurch")]
              ELSE [kind |-> "error"])
----------------------------------------------------------------------------
\* Other handlers record bills.
Record ==
  /\ changes < MaxChanges /\ changes' = changes + 1
  /\ \E d \in Dates : \/ sold' = [sold EXCEPT ![d] = @ + 1] /\ UNCHANGED bought
                      \/ bought' = [bought EXCEPT ![d] = @ + 1] /\ UNCHANGED sold
  /\ UNCHANGED <<today, pc, req, pending, work, answer, faults, asked>>

Next ==
  \/ \E h \in Handlers :
       \/ GetDashboard(h) \/ GetDashboardAnalytics(h) \/ GetDashboardCompare(h)
       \/ \E q \in pending[h] : Query(h, q)
       \/ AnswerDashboard(h) \/ AnswerAnalytics(h) \/ AnswerCompare(h)
  \/ Record

Spec == Init /\ [][Next]_vars
----------------------------------------------------------------------------
(* Properties *)

\* A comparison that is answered shows what the store held, at the request or after it, of
\* both periods: no query that failed or ran out of time stands there as a zero.
ComparedFromStore ==
  \A h \in Handlers : answer[h].kind = "compare" =>
    \A p \in {"a", "b"} :
      LET days == answer[h].periods[p]
          shown == answer[h][p]
      IN  /\ shown.revenue \in Total(asked[h].sold, days)..Total(sold, days)
          /\ shown.purchases \in Total(asked[h].bought, days)..Total(bought, days)

\* "trailing N months" (dashboard.sql:194): up to the 28th of a month, the charts show the
\* last months, each once.  (Later, a month that lacks the day gives its place to the next,
\* which is shown twice: dashboard.go:858.)
MonthsTrail ==
  \A h \in Handlers : answer[h].kind \in {"dashboard", "analytics"} /\ DayOf(today) <= 28 =>
    LET l == answer[h].labels
    IN  \A i \in DOMAIN l : l[i] = MonthOf(today) - (Len(l) - i)
=============================================================================
