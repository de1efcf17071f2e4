-------------------------- MODULE CashVoucherProofs --------------------------
(***************************************************************************)
(* Proofs about CashVoucher.  A posted voucher is never written, and an    *)
(* approved one only posted (Forward); what a handler knows of a voucher   *)
(* that is approved or posted therefore stays true until it is used.       *)
(***************************************************************************)
EXTENDS CashVoucher, TLAPS

\* What a handler's request is at its stage, and what it knows of its voucher.
StageOf(h) ==
  /\ pc[h] \in {"number", "insert"} => req[h] \in Creates
  /\ pc[h] \in {"check", "write"} => req[h] \in Updates \cup Decisions
  /\ pc[h] \in {"disbursements", "receipts", "pending"} => req[h] \in Summaries
PostOf(h) ==
  req[h].op = "post" /\ (pc[h] = "write" \/ (pc[h] = "answered" /\ reply[h] = "done")) =>
    /\ voucher[req[h].voucher].owner = req[h].user
    /\ voucher[req[h].voucher].state \in
         IF pc[h] = "write" THEN {"approved", "posted"} ELSE {"posted"}

\* What a summary counted is posted, and the pending vouchers come last.
TotalOf(h) ==
  /\ \A v \in total[h].disbursements :
       voucher[v].state = "posted" /\ TypeOf[voucher[v].content] = "disbursement"
  /\ \A v \in total[h].receipts :
       voucher[v].state = "posted" /\ TypeOf[voucher[v].content] = "receipt"
  /\ pc[h] # "answered" => total[h].pending = {}
  /\ total[h].pending \cap (total[h].disbursements \cup total[h].receipts) = {}

HandlerInv == \A h \in Handlers : StageOf(h) /\ PostOf(h) /\ TotalOf(h)
IndInv == TypeOK /\ ApproverIffApproved /\ HandlerInv
-----------------------------------------------------------------------------
(* Types *)

LEMMA RequestFields ==
  ASSUME NEW r \in Requests
  PROVE  /\ r.op \in {"create", "update", "delete", "approve", "post", "summary"}
         /\ r.user \in Users
         /\ r.voucher \in Vouchers \cup {NoVoucher}
         /\ r.content \in Contents \cup {NoContent}
  BY ManagersAssumption DEF Requests, Creates, Updates, Decisions, Summaries

LEMMA ChangeFields ==
  ASSUME NEW r \in Updates \cup Decisions
  PROVE  /\ r.op \in {"update", "delete", "approve", "post"}
         /\ r.voucher \in Vouchers
         /\ r.op = "update" => r.content \in Contents
         /\ r.op # "update" => r.user \in Managers
  BY DEF Updates, Decisions

LEMMA AbsentIsRow == \A s \in States : Absent(s) \in Rows
  BY DEF Absent, Rows

LEMMA WrittenIsRow ==
  ASSUME NEW row \in Rows, NEW r \in Updates \cup Decisions
  PROVE  Written(row, r) \in Rows
<1>1. CASE r.op = "update"
  BY <1>1, ChangeFields DEF Written, Rows
<1>2. CASE r.op = "delete"
  BY <1>2, AbsentIsRow DEF Written, States
<1>3. CASE r.op = "approve"
  BY <1>3, ChangeFields DEF Written, Rows, States
<1>4. CASE r.op = "post"
  BY <1>4 DEF Written, Rows, States
<1> QED  BY <1>1, <1>2, <1>3, <1>4, ChangeFields

LEMMA StoreType ==
  ASSUME TypeOK, NEW h \in Handlers, req[h] \in Updates \cup Decisions, Store(h)
  PROVE  voucher' \in [Vouchers -> Rows]
<1> DEFINE v == req[h].voucher
<1>1. voucher[v] \in Rows /\ v \in Vouchers
  BY ChangeFields DEF TypeOK
<1>2. Written(voucher[v], req[h]) \in Rows
  BY <1>1, WrittenIsRow
<1> QED  BY <1>1, <1>2 DEF Store, TypeOK

LEMMA InsertType ==
  ASSUME TypeOK, NEW h \in Handlers, NEW v \in Vouchers, NEW kind \in {"done", "failed"},
         req[h] \in Creates, Insert(h, v, kind)
  PROVE  voucher' \in [Vouchers -> Rows]
<1>1. req[h].user \in Users /\ req[h].content \in Contents /\ number[h] \in Nat
  BY DEF Creates, TypeOK
<1> QED  BY <1>1 DEF Insert, TypeOK, Rows, States
-----------------------------------------------------------------------------
(* Vouchers move forward *)

\* A posted voucher stays as it is, and an approved one is at most posted.
Forward ==
  \A v \in Vouchers :
    /\ voucher[v].state = "posted" => voucher'[v] = voucher[v]
    /\ voucher[v].state = "approved" =>
         /\ voucher'[v].state \in {"approved", "posted"}
         /\ voucher'[v].owner = voucher[v].owner

LEMMA StillForward == ASSUME voucher' = voucher PROVE Forward
  BY DEF Forward

LEMMA InsertForward ==
  ASSUME TypeOK, NEW h \in Handlers, NEW v \in Vouchers, NEW kind, Insert(h, v, kind)
  PROVE  Forward
  BY DEF Insert, Forward, TypeOK

LEMMA StoreForward ==
  ASSUME TypeOK, NEW h \in Handlers, req[h] \in Updates \cup Decisions, Store(h)
  PROVE  Forward
<1> DEFINE r == req[h]
           v == r.voucher
<1>1. v \in Vouchers /\ voucher[v] \in Rows
  BY ChangeFields DEF TypeOK
<1>2. CASE ~Matches(h)
  BY <1>2, StillForward DEF Store
<1>3. CASE Matches(h)
  <2>1. voucher' = [voucher EXCEPT ![v] = Written(@, r)]
    BY <1>3 DEF Store
  <2>2. CASE r.op = "post"
    <3>1. /\ voucher[v].state = "approved"
          /\ Written(voucher[v], r).state = "posted"
          /\ Written(voucher[v], r).owner = voucher[v].owner
      BY <1>1, <1>3, <2>2 DEF Matches, Expected, Written, Rows
    <3> QED  BY <1>1, <2>1, <3>1 DEF Forward, TypeOK
  <2>3. CASE r.op # "post"
    <3>1. voucher[v].state = "draft"
      BY <1>3, <2>3 DEF Matches, Expected
    <3> QED  BY <1>1, <2>1, <3>1 DEF Forward, TypeOK
  <2> QED  BY <2>2, <2>3
<1> QED  BY <1>2, <1>3
-----------------------------------------------------------------------------
(* What a handler knows stays true *)

\* Nothing that handler g can see of itself changes.
Idles(g) == pc'[g] = pc[g] /\ req'[g] = req[g] /\ total'[g] = total[g] /\ reply'[g] = reply[g]

LEMMA TotalKept ==
  ASSUME IndInv, Forward, NEW g \in Handlers, total'[g] = total[g],
         pc'[g] # "answered" => pc[g] # "answered"
  PROVE  TotalOf(g)'
<1>1. TotalOf(g)
  BY DEF IndInv, HandlerInv
<1>2. total[g].disbursements \subseteq Vouchers /\ total[g].receipts \subseteq Vouchers
  BY DEF IndInv, TypeOK
<1> QED  BY <1>1, <1>2 DEF TotalOf, Forward

LEMMA OthersKept ==
  ASSUME IndInv, Forward, NEW h \in Handlers, \A g \in Handlers \ {h} : Idles(g)
  PROVE  \A g \in Handlers \ {h} : StageOf(g)' /\ PostOf(g)' /\ TotalOf(g)'
<1> SUFFICES ASSUME NEW g \in Handlers \ {h}
             PROVE  StageOf(g)' /\ PostOf(g)' /\ TotalOf(g)'
  OBVIOUS
<1>1. Idles(g) /\ StageOf(g) /\ PostOf(g)
  BY DEF IndInv, HandlerInv
<1>2. StageOf(g)'
  BY <1>1 DEF Idles, StageOf, Creates, Updates, Decisions, Summaries
<1>3. TotalOf(g)'
  BY <1>1, TotalKept DEF Idles
<1>4. PostOf(g)'
  <2>1. req[g] \in Requests \cup {NoRequest}
    BY DEF IndInv, TypeOK
  <2>2. req[g].op = "post" => req[g].voucher \in Vouchers
    BY <2>1 DEF Requests, Creates, Updates, Decisions, Summaries, NoRequest
  <2> QED  BY <1>1, <2>2 DEF Idles, PostOf, Forward
<1> QED  BY <1>2, <1>3, <1>4

\* The others and h together.
LEMMA AllHandlers ==
  ASSUME NEW h \in Handlers, StageOf(h)' /\ PostOf(h)' /\ TotalOf(h)',
         \A g \in Handlers \ {h} : StageOf(g)' /\ PostOf(g)' /\ TotalOf(g)'
  PROVE  HandlerInv'
  BY DEF HandlerInv
-----------------------------------------------------------------------------
(* One lemma for each operation *)

LEMMA InitInv == Init => IndInv
<1> SUFFICES ASSUME Init PROVE IndInv
  OBVIOUS
<1>1. TypeOK
  BY AbsentIsRow DEF Init, TypeOK, Stages, States, NoTotals
<1>2. ApproverIffApproved
  BY DEF Init, ApproverIffApproved, Absent
<1>3. HandlerInv
  BY DEF Init, HandlerInv, StageOf, PostOf, TotalOf, NoTotals, NoRequest
<1> QED  BY <1>1, <1>2, <1>3 DEF IndInv

LEMMA ReceiveInv ==
  ASSUME IndInv, NEW h \in Handlers, NEW r \in Requests, Receive(h, r)
  PROVE  IndInv'
<1>1. FirstStage(r.op) = IF r.op = "create" THEN "number"
                         ELSE IF r.op = "summary" THEN "disbursements" ELSE "check"
  BY DEF FirstStage
<1>2. TypeOK'
  BY <1>1 DEF Receive, IndInv, TypeOK, Stages
<1>3. pc'[h] = FirstStage(r.op) /\ req'[h] = r /\ total'[h] = total[h] /\ pc[h] = "idle"
  BY DEF Receive, IndInv, TypeOK
<1>4. StageOf(h)'
  BY <1>1, <1>3 DEF StageOf, Requests, Creates, Updates, Decisions, Summaries
<1>5. PostOf(h)'
  BY <1>1, <1>3 DEF PostOf
<1>6. Forward
  BY StillForward DEF Receive
<1>7. TotalOf(h)'
  BY <1>1, <1>3, <1>6, TotalKept
<1>8. \A g \in Handlers \ {h} : Idles(g)
  BY DEF Receive, IndInv, TypeOK, Idles
<1>9. ApproverIffApproved'
  BY DEF Receive, IndInv, ApproverIffApproved
<1> QED  BY <1>2, <1>4, <1>5, <1>6, <1>7, <1>8, <1>9, OthersKept, AllHandlers DEF IndInv

\* A handler that answers anything but the "done" of its post keeps what is said of it.
LEMMA AnswerInv ==
  ASSUME IndInv, TypeOK', ApproverIffApproved', Forward, NEW h \in Handlers,
         NEW kind \in {"done", "refused", "failed"}, Answer(h, kind),
         kind = "done" /\ req[h].op = "post" =>
           /\ voucher'[req[h].voucher].owner = req[h].user
           /\ voucher'[req[h].voucher].state = "posted",
         UNCHANGED <<req, total>>
  PROVE  IndInv'
<1>1. pc'[h] = "answered" /\ reply'[h] = kind /\ req'[h] = req[h] /\ total'[h] = total[h]
  BY DEF Answer, IndInv, TypeOK
<1>2. StageOf(h)'
  BY <1>1 DEF StageOf
<1>3. PostOf(h)'
  BY <1>1 DEF PostOf
<1>4. TotalOf(h)'
  <2>1. TotalOf(h) /\ total[h].disbursements \subseteq Vouchers
                  /\ total[h].receipts \subseteq Vouchers
    BY DEF IndInv, HandlerInv, TypeOK
  <2> QED  BY <1>1, <2>1 DEF TotalOf, Forward
<1>5. \A g \in Handlers \ {h} : Idles(g)
  BY DEF Answer, IndInv, TypeOK, Idles
<1> QED  BY <1>2, <1>3, <1>4, <1>5, OthersKept, AllHandlers DEF IndInv

LEMMA DoneInv ==
  ASSUME IndInv, NEW h \in Handlers, Done(h)
  PROVE  IndInv'
<1>1. TypeOK'
  BY DEF Done, IndInv, TypeOK, Stages, NoTotals
<1>2. pc'[h] = "idle" /\ total'[h] = NoTotals /\ req'[h] = NoRequest
  BY DEF Done, IndInv, TypeOK
<1>3. StageOf(h)' /\ PostOf(h)' /\ TotalOf(h)'
  BY <1>2 DEF StageOf, PostOf, TotalOf, NoTotals, NoRequest
<1>4. Forward
  BY StillForward DEF Done
<1>5. \A g \in Handlers \ {h} : Idles(g)
  BY DEF Done, IndInv, TypeOK, Idles
<1>6. ApproverIffApproved'
  BY DEF Done, IndInv, ApproverIffApproved
<1> QED  BY <1>1, <1>3, <1>4, <1>5, <1>6, OthersKept, AllHandlers DEF IndInv

LEMMA FailInv ==
  ASSUME IndInv, NEW h \in Handlers, Fail(h)
  PROVE  IndInv'
<1>1. TypeOK' /\ ApproverIffApproved'
  BY DEF Fail, Answer, IndInv, TypeOK, Stages, ApproverIffApproved
<1>2. Forward
  BY StillForward DEF Fail
<1> QED  BY <1>1, <1>2, AnswerInv DEF Fail

\* The handler goes to a stage that says no more of its voucher.
LEMMA ReadNumberInv ==
  ASSUME IndInv, NEW h \in Handlers, ReadNumber(h)
  PROVE  IndInv'
<1>1. TypeOK' /\ ApproverIffApproved'
  BY NumbersAssumption DEF ReadNumber, IndInv, TypeOK, Stages, ApproverIffApproved
<1>2. pc[h] = "number" /\ pc'[h] = "insert" /\ req'[h] = req[h] /\ total'[h] = total[h]
  BY DEF ReadNumber, IndInv, TypeOK
<1>3. Forward
  BY StillForward DEF ReadNumber
<1>4. StageOf(h)' /\ PostOf(h)'
  BY <1>2 DEF IndInv, HandlerInv, StageOf, PostOf
<1>5. TotalOf(h)'
  BY <1>2, <1>3, TotalKept
<1>6. \A g \in Handlers \ {h} : Idles(g)
  BY DEF ReadNumber, IndInv, TypeOK, Idles
<1> QED  BY <1>1, <1>3, <1>4, <1>5, <1>6, OthersKept, AllHandlers DEF IndInv

LEMMA InsertInv ==
  ASSUME IndInv, NEW h \in Handlers, NEW v \in Vouchers, NEW kind \in {"done", "failed"},
         Insert(h, v, kind)
  PROVE  IndInv'
<1>1. req[h] \in Creates
  BY DEF Insert, IndInv, HandlerInv, StageOf
<1>2. TypeOK'
  <2>1. voucher' \in [Vouchers -> Rows]
    BY <1>1, InsertType DEF IndInv
  <2> QED  BY <2>1 DEF Insert, Answer, IndInv, TypeOK, Stages
<1>3. Forward
  BY InsertForward DEF IndInv
<1>4. ApproverIffApproved'
  BY DEF Insert, IndInv, TypeOK, ApproverIffApproved
<1>5. req[h].op # "post"
  BY <1>1 DEF Creates
<1> QED  BY <1>2, <1>3, <1>4, <1>5, AnswerInv DEF Insert

LEMMA CheckInv ==
  ASSUME IndInv, NEW h \in Handlers, Check(h)
  PROVE  IndInv'
<1>1. TypeOK' /\ ApproverIffApproved'
  BY DEF Check, Answer, IndInv, TypeOK, Stages, ApproverIffApproved
<1>2. Forward
  BY StillForward DEF Check
<1>3. CASE ~Matches(h)
  BY <1>1, <1>2, <1>3, AnswerInv DEF Check
<1>4. CASE Matches(h)
  <2>1. pc[h] = "check" /\ pc'[h] = "write" /\ req'[h] = req[h] /\ total'[h] = total[h]
        /\ voucher' = voucher
    BY <1>4 DEF Check, IndInv, TypeOK
  <2>2. StageOf(h)'
    BY <2>1 DEF IndInv, HandlerInv, StageOf, Updates, Decisions
  <2>3. PostOf(h)'
    BY <1>4, <2>1 DEF PostOf, Matches, Mine, Expected
  <2>4. TotalOf(h)'
    BY <1>2, <2>1, TotalKept
  <2>5. \A g \in Handlers \ {h} : Idles(g)
    BY <1>4 DEF Check, IndInv, TypeOK, Idles
  <2> QED  BY <1>1, <1>2, <2>2, <2>3, <2>4, <2>5, OthersKept, AllHandlers DEF IndInv
<1> QED  BY <1>3, <1>4

LEMMA StoreApprover ==
  ASSUME TypeOK, ApproverIffApproved, NEW h \in Handlers,
         req[h] \in Updates \cup Decisions, Store(h)
  PROVE  ApproverIffApproved'
<1> DEFINE r == req[h]
           v == r.voucher
<1>1. v \in Vouchers /\ voucher[v] \in Rows
      /\ r.op \in {"update", "delete", "approve", "post"}
      /\ (r.op # "update" => r.user \in Managers)
  BY ChangeFields DEF TypeOK
<1>2. CASE ~Matches(h)
  BY <1>2 DEF Store, ApproverIffApproved
<1>3. CASE Matches(h)
  <2>1. voucher[v].state = IF r.op = "post" THEN "approved" ELSE "draft"
    BY <1>3 DEF Matches, Expected
  <2>2. voucher[v].approver # Nobody <=> voucher[v].state \in {"approved", "posted"}
    BY <1>1 DEF ApproverIffApproved
  <2>3. LET row == Written(voucher[v], r)
        IN  row.approver # Nobody <=> row.state \in {"approved", "posted"}
    BY <1>1, <2>1, <2>2, NullsAssumption, ManagersAssumption DEF Written, Rows, Absent
  <2>4. voucher' = [voucher EXCEPT ![v] = Written(@, r)]
    BY <1>3 DEF Store
  <2> QED  BY <1>1, <2>3, <2>4 DEF TypeOK, ApproverIffApproved
<1> QED  BY <1>2, <1>3

LEMMA WriteInv ==
  ASSUME IndInv, NEW h \in Handlers, NEW kind \in {"done", "failed"}, Write(h, kind)
  PROVE  IndInv'
<1>1. req[h] \in Updates \cup Decisions /\ Store(h) /\ req[h].voucher \in Vouchers
  BY ChangeFields DEF Write, IndInv, HandlerInv, StageOf
<1>2. TypeOK'
  <2>1. voucher' \in [Vouchers -> Rows]
    BY <1>1, StoreType DEF IndInv
  <2> QED  BY <2>1 DEF Write, Answer, IndInv, TypeOK, Stages
<1>3. Forward
  BY <1>1, StoreForward DEF IndInv
<1>4. ApproverIffApproved'
  BY <1>1, StoreApprover DEF IndInv
<1>5. ASSUME req[h].op = "post"
      PROVE  /\ voucher'[req[h].voucher].owner = req[h].user
             /\ voucher'[req[h].voucher].state = "posted"
  <2>1. /\ voucher[req[h].voucher].state \in {"approved", "posted"}
        /\ voucher[req[h].voucher].owner = req[h].user
    BY <1>5 DEF Write, IndInv, HandlerInv, PostOf
  <2>2. CASE voucher[req[h].voucher].state = "posted"
    BY <1>1, <1>3, <2>1, <2>2 DEF Forward
  <2>3. CASE voucher[req[h].voucher].state = "approved"
    <3>1. Matches(h)
      BY <1>5, <2>1, <2>3 DEF Matches, Mine, Expected
    <3>2. Written(voucher[req[h].voucher], req[h]).state = "posted"
      BY <1>1, <1>5 DEF Written, IndInv, TypeOK, Rows
    <3> QED  BY <1>1, <1>3, <2>1, <2>3, <3>1, <3>2 DEF Forward, Store, IndInv, TypeOK
  <2> QED  BY <2>1, <2>2, <2>3
<1> QED  BY <1>2, <1>3, <1>4, <1>5, AnswerInv DEF Write

LEMMA SelectedTypes ==
  ASSUME TypeOK, NEW q \in {"disbursements", "receipts", "pending"}, NEW u
  PROVE  /\ Selected(q, u) \subseteq Vouchers
         /\ \A v \in Selected(q, u) :
              /\ q = "disbursements" =>
                   voucher[v].state = "posted" /\ TypeOf[voucher[v].content] = "disbursement"
              /\ q = "receipts" =>
                   voucher[v].state = "posted" /\ TypeOf[voucher[v].content] = "receipt"
              /\ q = "pending" => voucher[v].state # "posted"
<1>1. CASE q = "disbursements"
  BY <1>1 DEF Selected, Posted
<1>2. CASE q = "receipts"
  BY <1>2 DEF Selected, Posted
<1>3. CASE q = "pending"
  BY <1>3 DEF Selected
<1> QED  BY <1>1, <1>2, <1>3

LEMMA ReadTotalInv ==
  ASSUME IndInv, NEW h \in Handlers, NEW q \in DOMAIN AfterQuery, NEW failed \in BOOLEAN,
         ReadTotal(h, q, failed)
  PROVE  IndInv'
<1>1. q \in {"disbursements", "receipts", "pending"}
  BY DEF AfterQuery
<1>2. AfterQuery[q] = IF q = "disbursements" THEN "receipts"
                      ELSE IF q = "receipts" THEN "pending" ELSE "answered"
  BY <1>1 DEF AfterQuery
<1>3. PICK S : /\ S \subseteq Vouchers
               /\ S = total[h][q] \/ S = Selected(q, req[h].user)
               /\ total' = [total EXCEPT ![h][q] = S]
  <2>1. CASE failed
    <3>1. total' = [total EXCEPT ![h][q] = total[h][q]]
      BY <1>1, <2>1 DEF ReadTotal, IndInv, TypeOK
    <3>2. total[h][q] \subseteq Vouchers
      BY <1>1 DEF IndInv, TypeOK
    <3> QED  BY <3>1, <3>2
  <2>2. CASE ~failed
    BY <1>1, <2>2, SelectedTypes DEF ReadTotal, IndInv
  <2> QED  BY <2>1, <2>2
<1>4. TypeOK' /\ ApproverIffApproved'
  <2>1. total' \in [Handlers -> [disbursements : SUBSET Vouchers, receipts : SUBSET Vouchers,
                                 pending : SUBSET Vouchers]]
    <3> DEFINE Totals == [disbursements : SUBSET Vouchers, receipts : SUBSET Vouchers,
                          pending : SUBSET Vouchers]
    <3>1. total \in [Handlers -> Totals]
      BY DEF IndInv, TypeOK
    <3>2. \A t \in Totals : [t EXCEPT ![q] = S] \in Totals
      BY <1>1, <1>3
    <3> HIDE DEF Totals
    <3>3. total' = [total EXCEPT ![h] = [@ EXCEPT ![q] = S]]
      BY <1>3
    <3>4. total' \in [Handlers -> Totals]
      BY <3>1, <3>2, <3>3
    <3> QED  BY <3>4 DEF Totals
  <2> QED  BY <1>2, <2>1 DEF ReadTotal, IndInv, TypeOK, Stages, ApproverIffApproved
<1>5. pc[h] = q /\ pc'[h] = AfterQuery[q] /\ req'[h] = req[h] /\ voucher' = voucher
  BY DEF ReadTotal, IndInv, TypeOK
<1>6. req[h] \in Summaries
  BY <1>1, <1>5 DEF IndInv, HandlerInv, StageOf
<1>7. StageOf(h)' /\ PostOf(h)'
  BY <1>1, <1>2, <1>5, <1>6 DEF StageOf, PostOf, Summaries
<1>8. TotalOf(h)'
  <2>1. TotalOf(h) /\ total[h].pending = {}
    BY <1>1, <1>5 DEF IndInv, HandlerInv, TotalOf
  <2>2. total[h] \in [disbursements : SUBSET Vouchers, receipts : SUBSET Vouchers,
                      pending : SUBSET Vouchers]
    BY DEF IndInv, TypeOK
  <2>3. total'[h] = [total[h] EXCEPT ![q] = S]
    BY <1>3 DEF IndInv, TypeOK
  <2>4. CASE q = "disbursements"
    <3>1. \A v \in S : voucher[v].state = "posted" /\ TypeOf[voucher[v].content] = "disbursement"
      BY <1>3, <2>1, <2>4, SelectedTypes DEF TotalOf, IndInv
    <3> QED  BY <1>2, <1>5, <2>1, <2>2, <2>3, <2>4, <3>1 DEF TotalOf
  <2>5. CASE q = "receipts"
    <3>1. \A v \in S : voucher[v].state = "posted" /\ TypeOf[voucher[v].content] = "receipt"
      BY <1>3, <2>1, <2>5, SelectedTypes DEF TotalOf, IndInv
    <3> QED  BY <1>2, <1>5, <2>1, <2>2, <2>3, <2>5, <3>1 DEF TotalOf
  <2>6. CASE q = "pending"
    <3>1. \A v \in S : voucher[v].state # "posted"
      BY <1>3, <2>1, <2>6, SelectedTypes DEF IndInv
    <3>2. /\ total'[h].disbursements = total[h].disbursements
          /\ total'[h].receipts = total[h].receipts
          /\ total'[h].pending = S
      BY <2>2, <2>3, <2>6
    <3> QED  BY <1>2, <1>5, <2>1, <2>6, <3>1, <3>2 DEF TotalOf
  <2> QED  BY <1>1, <2>4, <2>5, <2>6
<1>9. Forward
  BY <1>5, StillForward
<1>10. \A g \in Handlers \ {h} : Idles(g)
  BY <1>3 DEF ReadTotal, IndInv, TypeOK, Idles
<1> QED  BY <1>4, <1>7, <1>8, <1>9, <1>10, OthersKept, AllHandlers DEF IndInv

LEMMA StutterInv == IndInv /\ UNCHANGED vars => IndInv'
<1> SUFFICES ASSUME IndInv, UNCHANGED vars PROVE IndInv'
  OBVIOUS
<1>1. TypeOK' /\ ApproverIffApproved'
  BY DEF IndInv, TypeOK, ApproverIffApproved, vars
<1>2. HandlerInv'
  BY DEF IndInv, HandlerInv, StageOf, PostOf, TotalOf, vars
<1> QED  BY <1>1, <1>2 DEF IndInv

LEMMA NextInv == IndInv /\ [Next]_vars => IndInv'
<1> SUFFICES ASSUME IndInv, Next PROVE IndInv'
  BY StutterInv
<1>1. PICK h \in Handlers :
        \/ \E r \in Requests : Receive(h, r)
        \/ Create(h) \/ Change(h) \/ Summarise(h) \/ Fail(h) \/ Done(h)
  BY DEF Next
<1>2. ASSUME NEW r \in Requests, Receive(h, r) PROVE IndInv'
  BY <1>2, ReceiveInv
<1>3. CASE Create(h)
  BY <1>3, ReadNumberInv, InsertInv DEF Create
<1>4. CASE Change(h)
  BY <1>4, CheckInv, WriteInv DEF Change
<1>5. CASE Summarise(h)
  BY <1>5, ReadTotalInv DEF Summarise
<1>6. CASE Fail(h) \/ Done(h)
  BY <1>6, FailInv, DoneInv
<1> QED  BY <1>1, <1>2, <1>3, <1>4, <1>5, <1>6

\* The invariant holds of every behaviour of the handlers.
THEOREM Inductive == Spec => []IndInv
<1>1. Init => IndInv
  BY InitInv
<1>2. IndInv /\ [Next]_vars => IndInv'
  BY NextInv
<1> QED  BY <1>1, <1>2, PTL DEF Spec
-----------------------------------------------------------------------------
(* The properties *)

\* Table and handlers keep their types, and only a manager is an approver: the handlers
\* of CreateCashVoucher to PostCashVoucher.
THEOREM TypeCorrect == Spec => []TypeOK
<1>1. IndInv => TypeOK
  BY DEF IndInv
<1> QED  BY <1>1, Inductive, PTL

\* A voucher has an approver exactly from its approval on (ApproveCashVoucher).
THEOREM Approver == Spec => []ApproverIffApproved
<1>1. IndInv => ApproverIffApproved
  BY DEF IndInv
<1> QED  BY <1>1, Inductive, PTL

\* A voucher whose posting was answered with success is posted (PostCashVoucher).
THEOREM PostedIsTrue == Spec => []PostedAnswerIsTrue
<1>1. IndInv => PostedAnswerIsTrue
  BY DEF IndInv, HandlerInv, PostOf, PostedAnswerIsTrue
<1> QED  BY <1>1, Inductive, PTL

\* No summary counts a voucher twice (GetCashVoucherSummary).
THEOREM SummaryTotals == Spec => []CountedInOneTotal
<1>1. IndInv => CountedInOneTotal
  <2> SUFFICES ASSUME IndInv, NEW h \in Handlers
               PROVE  /\ total[h].disbursements \cap total[h].receipts = {}
                      /\ total[h].pending \cap
                           (total[h].disbursements \cup total[h].receipts) = {}
    BY DEF CountedInOneTotal
  <2> QED  BY DEF IndInv, HandlerInv, TotalOf
<1> QED  BY <1>1, Inductive, PTL
-----------------------------------------------------------------------------
(* CashVoucher implements VoucherBook *)

LEMMA EntryOfAbsent == \A s : Entry(Absent(s)) = Book!Absent(s)
  BY DEF Entry, Absent, Book!Absent

LEMMA InitRefines == Init => Book!BookInit
  BY EntryOfAbsent DEF Init, Book!BookInit

LEMMA QuietRefines ==
  ASSUME voucher' = voucher
  PROVE  [Book!BookNext]_[v \in Vouchers |-> Entry(voucher[v])]
  OBVIOUS

\* A row that is written is the entry that is written.
LEMMA EntryWritten ==
  ASSUME TypeOK, NEW v \in Vouchers, NEW row \in Rows, voucher' = [voucher EXCEPT ![v] = row]
  PROVE  [w \in Vouchers |-> Entry(voucher[w])]'
           = [[w \in Vouchers |-> Entry(voucher[w])] EXCEPT ![v] = Entry(row)]
  BY DEF TypeOK

LEMMA InsertRefines ==
  ASSUME IndInv, NEW h \in Handlers, NEW v \in Vouchers, NEW kind \in {"done", "failed"},
         Insert(h, v, kind)
  PROVE  Book!BookNext
<1> DEFINE row == [state |-> "draft", owner |-> req[h].user, content |-> req[h].content,
                   approver |-> Nobody, number |-> number[h]]
<1>1. req[h].user \in Users /\ req[h].content \in Contents /\ number[h] \in Nat
  BY DEF Insert, IndInv, HandlerInv, StageOf, TypeOK, Creates
<1>2. row \in Rows /\ voucher' = [voucher EXCEPT ![v] = row]
  BY <1>1 DEF Insert, Rows, States
<1>3. Entry(row) = [state |-> "draft", owner |-> req[h].user, content |-> req[h].content,
                    approver |-> Nobody]
  BY DEF Entry
<1>4. [w \in Vouchers |-> Entry(voucher[w])]'
        = [[w \in Vouchers |-> Entry(voucher[w])] EXCEPT ![v] = Entry(row)]
  BY <1>2, EntryWritten DEF IndInv
<1>5. Entry(voucher[v]).state = "none"
  BY DEF Insert, Entry
<1>6. Book!Draft(v, req[h].user, req[h].content)
  BY <1>3, <1>4, <1>5 DEF Book!Draft
<1> QED  BY <1>1, <1>6 DEF Book!BookNext

LEMMA StoreRefines ==
  ASSUME IndInv, NEW h \in Handlers, req[h] \in Updates \cup Decisions, Matches(h), Store(h)
  PROVE  Book!BookNext
<1> DEFINE r == req[h]
           v == r.voucher
           row == voucher[v]
           book == [w \in Vouchers |-> Entry(voucher[w])]
<1>1. /\ v \in Vouchers /\ row \in Rows
      /\ r.op \in {"update", "delete", "approve", "post"}
      /\ (r.op = "update" => r.content \in Contents)
      /\ (r.op # "update" => r.user \in Managers)
  BY ChangeFields DEF IndInv, TypeOK
<1>2. book' = [book EXCEPT ![v] = Entry(Written(row, r))]
  <2>1. Written(row, r) \in Rows
    BY <1>1, WrittenIsRow
  <2>2. voucher' = [voucher EXCEPT ![v] = Written(row, r)]
    BY DEF Store
  <2> QED  BY <1>1, <2>1, <2>2, EntryWritten DEF IndInv
<1>3. /\ book[v] = [state |-> row.state, owner |-> row.owner, content |-> row.content,
                   approver |-> row.approver]
      /\ row.state = IF r.op = "post" THEN "approved" ELSE "draft"
  BY <1>1 DEF Entry, Matches, Expected
<1>4. CASE r.op = "update"
  <2>1. Entry(Written(row, r)) = [state |-> row.state, owner |-> row.owner,
                                  content |-> r.content, approver |-> row.approver]
    BY <1>1, <1>4 DEF Written, Entry, Rows
  <2> HIDE DEF book, v, row
  <2>2. book[v].state = "draft" /\ book' = [book EXCEPT ![v] = [@ EXCEPT !.content = r.content]]
    <3>1. [book[v] EXCEPT !.content = r.content] = Entry(Written(row, r))
      BY <1>3, <2>1
    <3>2. book[v].state = "draft"
      BY <1>3, <1>4
    <3>3. book' = [book EXCEPT ![v] = [@ EXCEPT !.content = r.content]]
      BY <1>2, <3>1, Zenon
    <3> QED  BY <3>2, <3>3
  <2>3. Book!Edit(v, r.content)
    BY <2>2 DEF Book!Edit, book
  <2> QED  BY <1>1, <1>4, <2>3 DEF Book!BookNext
<1>5. CASE r.op = "delete"
  <2>1. Entry(Written(row, r)) = Book!Absent("deleted")
    BY <1>5, EntryOfAbsent DEF Written
  <2> HIDE DEF book, v, row
  <2>2. book[v].state = "draft" /\ book' = [book EXCEPT ![v] = Book!Absent("deleted")]
    BY <1>2, <1>3, <1>5, <2>1
  <2>3. Book!Drop(v)
    BY <2>2 DEF Book!Drop, book
  <2> QED  BY <1>1, <2>3 DEF Book!BookNext
<1>6. CASE r.op = "approve"
  <2>1. Written(row, r) = [row EXCEPT !.state = "approved", !.approver = r.user]
    BY <1>6 DEF Written
  <2>2. Entry(Written(row, r)) = [state |-> "approved", owner |-> row.owner,
                                  content |-> row.content, approver |-> r.user]
    BY <1>1, <2>1 DEF Entry, Rows
  <2> HIDE DEF book, v, row, r
  <2>3. /\ book[v].state = "draft"
        /\ book' = [book EXCEPT ![v] =
                             [@ EXCEPT !.state = "approved", !.approver = r.user]]
    <3>1. [book[v] EXCEPT !.state = "approved"]
            = [state |-> "approved", owner |-> row.owner, content |-> row.content,
               approver |-> row.approver]
      BY <1>3
    <3>2. [[state |-> "approved", owner |-> row.owner, content |-> row.content,
            approver |-> row.approver] EXCEPT !.approver = r.user]
            = [state |-> "approved", owner |-> row.owner, content |-> row.content,
               approver |-> r.user]
      OBVIOUS
    <3>3. [[book[v] EXCEPT !.state = "approved"] EXCEPT !.approver = r.user]
            = Entry(Written(row, r))
      BY <2>2, <3>1, <3>2, Zenon
    <3>4. book[v].state = "draft"
      BY <1>3, <1>6
    <3>5. book' = [book EXCEPT ![v] = [@ EXCEPT !.state = "approved", !.approver = r.user]]
      BY <1>2, <3>3, Zenon
    <3> QED  BY <3>4, <3>5
  <2>4. Book!Approve(v, r.user)
    BY <2>3 DEF Book!Approve, book
  <2> QED  BY <1>1, <1>6, <2>4 DEF Book!BookNext
<1>7. CASE r.op = "post"
  <2>1. Entry(Written(row, r)) = [state |-> "posted", owner |-> row.owner,
                                  content |-> row.content, approver |-> row.approver]
    BY <1>1, <1>7 DEF Written, Entry, Rows
  <2> HIDE DEF book, v, row
  <2>2. book[v].state = "approved" /\ book' = [book EXCEPT ![v] = [@ EXCEPT !.state = "posted"]]
    <3>1. [book[v] EXCEPT !.state = "posted"] = Entry(Written(row, r))
      BY <1>3, <2>1
    <3>2. book[v].state = "approved"
      BY <1>3, <1>7
    <3>3. book' = [book EXCEPT ![v] = [@ EXCEPT !.state = "posted"]]
      BY <1>2, <3>1, Zenon
    <3> QED  BY <3>2, <3>3
  <2>3. Book!Post(v)
    BY <2>2 DEF Book!Post, book
  <2> QED  BY <1>1, <2>3 DEF Book!BookNext
<1> QED  BY <1>1, <1>4, <1>5, <1>6, <1>7

LEMMA NextRefines ==
  ASSUME IndInv, [Next]_vars
  PROVE  [Book!BookNext]_[v \in Vouchers |-> Entry(voucher[v])]
<1>1. CASE UNCHANGED vars
  BY <1>1, QuietRefines DEF vars
<1>2. CASE Next
  <2>1. PICK h \in Handlers :
          \/ \E r \in Requests : Receive(h, r)
          \/ Create(h) \/ Change(h) \/ Summarise(h) \/ Fail(h) \/ Done(h)
    BY <1>2 DEF Next
  <2>2. CASE (\E r \in Requests : Receive(h, r)) \/ Summarise(h) \/ Fail(h) \/ Done(h)
    <3>1. voucher' = voucher
      BY <2>2 DEF Receive, Summarise, ReadTotal, Fail, Done
    <3> QED  BY <3>1, QuietRefines
  <2>3. CASE Create(h)
    <3>1. CASE ReadNumber(h)
      <4>1. voucher' = voucher
        BY <3>1 DEF ReadNumber
      <4> QED  BY <4>1, QuietRefines
    <3>2. ASSUME NEW v \in Vouchers, NEW kind \in {"done", "failed"}, Insert(h, v, kind)
          PROVE  Book!BookNext
      BY <3>2, InsertRefines
    <3> QED  BY <2>3, <3>1, <3>2 DEF Create
  <2>4. CASE Change(h)
    <3>1. CASE Check(h)
      <4>1. voucher' = voucher
        BY <3>1 DEF Check
      <4> QED  BY <4>1, QuietRefines
    <3>2. ASSUME NEW kind \in {"done", "failed"}, Write(h, kind)
          PROVE  [Book!BookNext]_[v \in Vouchers |-> Entry(voucher[v])]
      <4>1. Store(h) /\ req[h] \in Updates \cup Decisions
        BY <3>2 DEF Write, IndInv, HandlerInv, StageOf
      <4>2. CASE Matches(h)
        BY <4>1, <4>2, StoreRefines
      <4>3. CASE ~Matches(h)
        <5>1. voucher' = voucher
          BY <4>1, <4>3 DEF Store
        <5> QED  BY <5>1, QuietRefines
      <4> QED  BY <4>2, <4>3
    <3> QED  BY <2>4, <3>1, <3>2 DEF Change
  <2> QED  BY <2>1, <2>2, <2>3, <2>4
<1> QED  BY <1>1, <1>2

\* The handlers keep the promised book: whatever was read before, a write takes a voucher
\* one step of draft, approved, posted, or does nothing.
THEOREM Implements == Spec => ImplementsVoucherBook
<1>1. Init => Book!BookInit
  BY InitRefines
<1>2. IndInv /\ [Next]_vars => [Book!BookNext]_[v \in Vouchers |-> Entry(voucher[v])]
  BY NextRefines
<1> QED  BY <1>1, <1>2, Inductive, PTL DEF Spec, ImplementsVoucherBook, Book!BookSpec
=============================================================================
