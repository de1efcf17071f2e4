----------------------------- MODULE CashVoucher -----------------------------
(***************************************************************************)
(* The cash vouchers (pkg/handlers/cash_vouchar.go): handlers that run at  *)
(* the same time over one table.  Creating a voucher reads the highest     *)
(* number and inserts the next one in a transaction; the other commands    *)
(* read the state of the voucher, and then write it in one statement that  *)
(* asks for that state again; the summary is three statements.             *)
(*                                                                         *)
(* An operator whose comment begins "A bug:" is a mutant: it changes the   *)
(* definition that follows it, and no part of Spec uses it.                *)
(***************************************************************************)
EXTENDS Naturals

CONSTANTS
  Handlers,      \* the requests that are served at the same time
  Users,         \* the sessions' users: merchant_id and created_by of what they create
  Managers,      \* those whose role is manager or admin
  Vouchers,      \* bound: the ids that are ever given
  Contents,      \* the contents of a voucher
  TypeOf,        \* voucher_type of a content
  Numbers,       \* bound: the voucher numbers
  Nobody, NoVoucher, NoContent

ASSUME NullsAssumption ==
  Nobody \notin Users /\ NoVoucher \notin Vouchers /\ NoContent \notin Contents
ASSUME ManagersAssumption == Managers \subseteq Users
ASSUME TypesAssumption == TypeOf \in [Contents -> {"disbursement", "receipt", "cash_box"}]
ASSUME NumbersAssumption == Numbers \subseteq Nat \ {0}

VARIABLES
  voucher,       \* the table cash_voucher
  pc,            \* where the handler stands
  req,           \* its request
  number,        \* the next number as the handler read it
  total,         \* the vouchers behind each total of the summary
  reply          \* what it answered

vars == <<voucher, pc, req, number, total, reply>>

Absent(s) == [state |-> s, owner |-> Nobody, content |-> NoContent,
              approver |-> Nobody, number |-> 0]
Existing(v) == voucher[v].state \notin {"none", "deleted"}

Creates == [op : {"create"}, user : Users, voucher : {NoVoucher}, content : Contents]
Updates == [op : {"update"}, user : Users, voucher : Vouchers, content : Contents]
\* A bug: the routes do not ask for the role.
DecisionsByAnyone == [op : {"delete", "approve", "post"}, user : Users, voucher : Vouchers,
                      content : {NoContent}]
\* These commands are for managers: mgr on their routes, and the role that
\* ApproveCashVoucher reads.
Decisions == [op : {"delete", "approve", "post"}, user : Managers, voucher : Vouchers,
              content : {NoContent}]
Summaries == [op : {"summary"}, user : Users, voucher : {NoVoucher}, content : {NoContent}]
Requests == Creates \cup Updates \cup Decisions \cup Summaries
NoRequest == [op |-> "none", user |-> Nobody, voucher |-> NoVoucher, content |-> NoContent]

NoTotals == [disbursements |-> {}, receipts |-> {}, pending |-> {}]

Init ==
  /\ voucher = [v \in Vouchers |-> Absent("none")]
  /\ pc = [h \in Handlers |-> "idle"]
  /\ req = [h \in Handlers |-> NoRequest]
  /\ number = [h \in Handlers |-> 0]
  /\ total = [h \in Handlers |-> NoTotals]
  /\ reply = [h \in Handlers |-> "none"]
----------------------------------------------------------------------------
FirstStage(op) == CASE op = "create" -> "number"
                    [] op = "summary" -> "disbursements"
                    [] OTHER -> "check"

Receive(h, r) ==
  /\ pc[h] = "idle"
  /\ pc' = [pc EXCEPT ![h] = FirstStage(r.op)]
  /\ req' = [req EXCEPT ![h] = r]
  /\ UNCHANGED <<voucher, number, total, reply>>

Answer(h, kind) ==
  /\ pc' = [pc EXCEPT ![h] = "answered"]
  /\ reply' = [reply EXCEPT ![h] = kind]

\* The answer is read, and the locals of the handler are gone.
Done(h) ==
  /\ pc[h] = "answered"
  /\ pc' = [pc EXCEPT ![h] = "idle"]
  /\ req' = [req EXCEPT ![h] = NoRequest]
  /\ number' = [number EXCEPT ![h] = 0]
  /\ total' = [total EXCEPT ![h] = NoTotals]
  /\ reply' = [reply EXCEPT ![h] = "none"]
  /\ UNCHANGED voucher

\* A statement or the commit fails without effect, or there is no such store as a
\* new voucher names (the first look of CreateCashVoucher; Directory has stores).
Fail(h) ==
  /\ pc[h] \in {"number", "insert", "check", "write"}
  /\ Answer(h, "failed")
  /\ UNCHANGED <<voucher, req, number, total>>
----------------------------------------------------------------------------
(* Create *)

\* n is COALESCE(MAX(voucher_number), 0) + 1 of the user's vouchers.
IsNextNumber(n, u) ==
  LET used == {voucher[v].number : v \in {w \in Vouchers : voucher[w].owner = u}}
  IN  (\A m \in used : m < n) /\ n - 1 \in used \cup {0}

\* A plain SELECT: another transaction may read the same.
ReadNumber(h) ==
  /\ pc[h] = "number"
  /\ \E n \in Numbers :
       IsNextNumber(n, req[h].user) /\ number' = [number EXCEPT ![h] = n]
  /\ pc' = [pc EXCEPT ![h] = "insert"]
  /\ UNCHANGED <<voucher, req, total, reply>>

\* A bug: the creator is entered as the approver.
InsertApproved(h, v, kind) ==
  /\ pc[h] = "insert"
  /\ voucher[v].state = "none"
  /\ voucher' = [voucher EXCEPT ![v] =
       [state |-> "draft", owner |-> req[h].user, content |-> req[h].content,
        approver |-> req[h].user, number |-> number[h]]]
  /\ Answer(h, kind)
  /\ UNCHANGED <<req, number, total>>
\* The row is inserted, as a draft without an approver, and committed; ids are not
\* used twice.  The answer to the commit may be lost.
Insert(h, v, kind) ==
  /\ pc[h] = "insert"
  /\ voucher[v].state = "none"
  /\ voucher' = [voucher EXCEPT ![v] =
       [state |-> "draft", owner |-> req[h].user, content |-> req[h].content,
        approver |-> Nobody, number |-> number[h]]]
  /\ Answer(h, kind)
  /\ UNCHANGED <<req, number, total>>
----------------------------------------------------------------------------
(* Update, delete, approve, post *)

Mine(h) == voucher[req[h].voucher].owner = req[h].user
Expected(op) == IF op = "post" THEN "approved" ELSE "draft"
Matches(h) == Mine(h) /\ voucher[req[h].voucher].state = Expected(req[h].op)

\* A bug: the state is read and not looked at.
CheckExists(h) ==
  /\ pc[h] = "check"
  /\ IF Mine(h) THEN pc' = [pc EXCEPT ![h] = "write"] /\ UNCHANGED reply
                ELSE Answer(h, "refused")
  /\ UNCHANGED <<voucher, req, number, total>>
Check(h) ==
  /\ pc[h] = "check"
  /\ IF Matches(h) THEN pc' = [pc EXCEPT ![h] = "write"] /\ UNCHANGED reply
                   ELSE Answer(h, "refused")
  /\ UNCHANGED <<voucher, req, number, total>>

Written(row, r) ==
  CASE r.op = "update"  -> [row EXCEPT !.content = r.content]
    [] r.op = "delete"  -> Absent("deleted")
    [] r.op = "approve" -> [row EXCEPT !.state = "approved", !.approver = r.user]
    [] r.op = "post"    -> [row EXCEPT !.state = "posted"]

\* A bug: the statement does not ask for the state again.
StoreUnchecked(h) ==
  IF Mine(h) THEN voucher' = [voucher EXCEPT ![req[h].voucher] = Written(@, req[h])]
             ELSE UNCHANGED voucher
\* UPDATE or DELETE ... WHERE id = ? AND merchant_id = ? AND state = ?
Store(h) ==
  IF Matches(h) THEN voucher' = [voucher EXCEPT ![req[h].voucher] = Written(@, req[h])]
                ELSE UNCHANGED voucher

\* The handler does not ask how many rows there were.  The answer may be lost.
Write(h, kind) ==
  /\ pc[h] = "write"
  /\ Store(h)
  /\ Answer(h, kind)
  /\ UNCHANGED <<req, number, total>>
----------------------------------------------------------------------------
(* GetCashVoucherSummary *)

Posted(u, type) ==
  {v \in Vouchers : /\ voucher[v].owner = u /\ voucher[v].state = "posted"
                    /\ TypeOf[voucher[v].content] = type}
Selected(q, u) ==
  CASE q = "disbursements" -> Posted(u, "disbursement")
    [] q = "receipts"      -> Posted(u, "receipt")
    [] q = "pending"       -> {v \in Vouchers : /\ voucher[v].owner = u
                                                /\ voucher[v].state \in {"draft", "approved"}}

\* A bug: the pending vouchers are counted before the receipts.
PendingEarlier == [disbursements |-> "pending", pending |-> "receipts", receipts |-> "answered"]
AfterQuery == [disbursements |-> "receipts", receipts |-> "pending", pending |-> "answered"]

\* A query that fails is passed over: its total stays zero.
ReadTotal(h, q, failed) ==
  /\ pc[h] = q
  /\ total' = IF failed THEN total ELSE [total EXCEPT ![h][q] = Selected(q, req[h].user)]
  /\ pc' = [pc EXCEPT ![h] = AfterQuery[q]]
  /\ reply' = IF AfterQuery[q] = "answered" THEN [reply EXCEPT ![h] = "done"] ELSE reply
  /\ UNCHANGED <<voucher, req, number>>
----------------------------------------------------------------------------
Create(h) ==
  \/ ReadNumber(h)
  \/ \E v \in Vouchers, kind \in {"done", "failed"} : Insert(h, v, kind)
Change(h) == Check(h) \/ \E kind \in {"done", "failed"} : Write(h, kind)
Summarise(h) == \E q \in DOMAIN AfterQuery, failed \in BOOLEAN : ReadTotal(h, q, failed)

Next ==
  \E h \in Handlers :
    \/ \E r \in Requests : Receive(h, r)
    \/ Create(h) \/ Change(h) \/ Summarise(h) \/ Fail(h) \/ Done(h)
Spec == Init /\ [][Next]_vars
----------------------------------------------------------------------------
(* Properties *)

States == {"none", "draft", "approved", "posted", "deleted"}
Stages == {"idle", "number", "insert", "check", "write",
           "disbursements", "receipts", "pending", "answered"}

\* The state has its type; who approves is a manager.
Rows == [state : States, owner : Users \cup {Nobody}, content : Contents \cup {NoContent},
         approver : Managers \cup {Nobody}, number : Nat]
TypeOK ==
  /\ voucher \in [Vouchers -> Rows]
  /\ pc \in [Handlers -> Stages]
  /\ req \in [Handlers -> Requests \cup {NoRequest}]
  /\ number \in [Handlers -> Nat]
  /\ total \in [Handlers -> [disbursements : SUBSET Vouchers, receipts : SUBSET Vouchers,
                             pending : SUBSET Vouchers]]
  /\ reply \in [Handlers -> {"none", "done", "refused", "failed"}]

\* A voucher has an approver from its approval on and not before ("approved_by must
\* stay NULL until", cash_vouchar_test.go), through all edits and races.
ApproverIffApproved ==
  \A v \in Vouchers :
    voucher[v].approver # Nobody <=> voucher[v].state \in {"approved", "posted"}

\* A handler that answers "posted" has posted the voucher, or found that another did:
\* the success that is answered for a write without rows is true of a posting.
PostedAnswerIsTrue ==
  \A h \in Handlers : pc[h] = "answered" /\ reply[h] = "done" /\ req[h].op = "post" =>
    voucher[req[h].voucher].state = "posted"

\* No voucher is counted twice in a summary, although it is approved and posted between
\* the statements: neither in both totals nor in a total and among the pending ones.
CountedInOneTotal ==
  \A h \in Handlers :
    LET t == total[h]
    IN  /\ t.disbursements \cap t.receipts = {}
        /\ t.pending \cap (t.disbursements \cup t.receipts) = {}

\* "Get next voucher number for this merchant (atomic)": a merchant's vouchers have
\* different numbers.  (The code breaks this: two handlers read the same maximum.)
NumbersUnique ==
  \A v, w \in Vouchers :
    v # w /\ Existing(v) /\ Existing(w) /\ voucher[v].owner = voucher[w].owner =>
      voucher[v].number # voucher[w].number

\* The table is the promised book: whatever a handler read before, its write takes a
\* voucher one step forward or does nothing.
Entry(row) == [state |-> row.state, owner |-> row.owner, content |-> row.content,
               approver |-> row.approver]
Book == INSTANCE VoucherBook WITH entry <- [v \in Vouchers |-> Entry(voucher[v])]
ImplementsVoucherBook == Book!BookSpec
=============================================================================
