-------------------------------- MODULE Sale --------------------------------
(***************************************************************************)
(* The sale command: AddBill, SubmitDraftBill and DeleteBillDetail         *)
(* (pkg/handlers/bill_sale.go, sale.go and bill.go) against the bill,      *)
(* branch_sequence, bill_product, bill_payment and outbox tables.          *)
(*                                                                         *)
(* A handler runs one request at a time in one transaction.  What the      *)
(* transaction writes is kept in work[h] and num[h] and reaches the tables *)
(* when it commits; the InnoDB locks that keep the transactions apart (the *)
(* bill's row, the branch's counter, the unique key of the request         *)
(* identity) follow from where the handlers stand.  The locks on products, *)
(* which other commands take too and in any order, are not modelled, but   *)
(* the deadlock they lead to is: see StockDeadlock.                        *)
(*                                                                         *)
(* An operator whose comment begins "A bug:" is a mutant: it changes the   *)
(* definition that follows it, and no part of Spec uses it.                *)
(***************************************************************************)
EXTENDS Naturals, Sequences, FiniteSets

CONSTANTS
  Handlers,      \* the requests that are served at the same time
  Bills,         \* bound: the bills that may exist
  Keys,          \* request identities: (pos_id, bill_request_id)
  NoKey,         \* the identity of a draft: NULL
  Contents,      \* request contents, as the fingerprint tells them apart
  NoContent,     \* the content of a row that was not written yet
  Branches,
  BranchOf,      \* the branch of a content
  Paid,          \* whether a content pays something
  NoBill,        \* the draft id of a new sale: nil
  MaxDeadlocks   \* bound: deadlocks on products; 0 where no stock is tracked

ASSUME NullsAssumption ==
  NoKey \notin Keys /\ NoContent \notin Contents /\ NoBill \notin Bills
ASSUME ContentsAssumption ==
  BranchOf \in [Contents -> Branches] /\ Paid \in [Contents -> BOOLEAN]
ASSUME BillsAssumption == IsFiniteSet(Bills)
ASSUME BoundAssumption == MaxDeadlocks \in Nat

VARIABLES
  bill,          \* the committed rows: the bill with its lines and payments
  outbox,        \* the committed events of every bill id, by request identity
  seq,           \* branch_sequence.last_value of every branch
  pc,            \* where the handler stands
  req,           \* its request
  target,        \* the bill it writes
  work,          \* that bill as the transaction sees it
  num,           \* the number it allocated, or 0
  reply,         \* what it answered
  deadlocks

tables == <<bill, outbox, seq>>
locals == <<req, target, work, num>>
vars == <<bill, outbox, seq, pc, req, target, work, num, reply, deadlocks>>

\* A request without an identity has state 0: it saves a draft.
Sales == [op : {"new"}, bill : {NoBill}, key : Keys \cup {NoKey}, content : Contents]
           \cup
         [op : {"submit"}, bill : Bills, key : Keys \cup {NoKey}, content : Contents]
Deletes == [op : {"delete"}, bill : Bills, key : {NoKey}, content : {NoContent}]
Requests == Sales \cup Deletes
NoRequest == [op |-> "none", bill |-> NoBill, key |-> NoKey, content |-> NoContent]

Final(r) == r.key # NoKey

\* A bill with what hangs from it: one entry of lines and payments for each time
\* the code inserted them.
Rows == [state : {"none", "draft", "final", "deleted"},
         number : Nat,
         key : Keys \cup {NoKey},
         content : Contents \cup {NoContent},
         lines : Seq(Contents),
         payments : Seq(Contents)]
NoRow == [state |-> "none", number |-> 0, key |-> NoKey, content |-> NoContent,
          lines |-> <<>>, payments |-> <<>>]

Replies == [kind : {"none", "error", "not_found", "conflict", "already_final",
                    "already_recorded", "refused"}, bill : {NoBill}]
             \cup [kind : {"success"}, bill : Bills]
Failure(kind) == [kind |-> kind, bill |-> NoBill]
Success(b) == [kind |-> "success", bill |-> b]
NoReply == Failure("none")

-----------------------------------------------------------------------------
\* The stages of an open transaction, in the order of the code.
InTransaction(h) ==
  pc[h] \in {"number", "update", "complete", "commit", "delete_commit", "final"}

\* A bug: the state of the draft is read without FOR UPDATE.
RowUnlocked(b) == FALSE

\* SELECT ... FOR UPDATE, or the row the transaction inserted itself.
RowLocked(b) == \E h \in Handlers : InTransaction(h) /\ target[h] = b

\* A bug: the counter is read and written back without a lock.
CounterShared(branch) == FALSE

\* The increment of branch_sequence is held until the transaction ends.
CounterLocked(branch) ==
  \E h \in Handlers : InTransaction(h) /\ num[h] > 0 /\ BranchOf[req[h].content] = branch

\* A bug: the identity has no unique key.
KeyShared(k) == FALSE

\* An uncommitted entry of uq_bill_pos_request makes another writer wait.
KeyLocked(k) == \E h \in Handlers : pc[h] \in {"complete", "commit"} /\ work[h].key = k

\* GetBillByRequestIdentity over the committed rows.
Recorded(k) == {b \in Bills : bill[b].key = k /\ k # NoKey}

\* A bug: the fingerprint is not compared.
AnyRecordedAnswer(r, b) ==
  IF r.bill \in {NoBill, b} THEN Success(b) ELSE Failure("conflict")

\* A bug: the retry of a new sale names no bill and is taken for another bill's.
NamedRecordedAnswer(r, b) ==
  IF r.bill = b /\ bill[b].content = r.content THEN Success(b) ELSE Failure("conflict")

\* A bug: the answer names the bill of the request, which a new sale has not.
NamelessRecordedAnswer(r, b) ==
  IF r.bill \in {NoBill, b} /\ bill[b].content = r.content
  THEN Success(r.bill) ELSE Failure("conflict")

\* answerRecordedRequest: the same content for the same bill is a retry.
RecordedAnswer(r, b) ==
  IF r.bill \in {NoBill, b} /\ bill[b].content = r.content
  THEN Success(b) ELSE Failure("conflict")

\* What a lookup of the identity answers, and what it answers without a record.
LookedUp(r, unrecorded) ==
  IF Recorded(r.key) = {} THEN Failure(unrecorded)
  ELSE RecordedAnswer(r, CHOOSE b \in Recorded(r.key) : TRUE)

\* The handler writes its response; an open transaction is rolled back.
Answer(h, a) ==
  /\ pc' = [pc EXCEPT ![h] = "answered"]
  /\ reply' = [reply EXCEPT ![h] = a]
  /\ target' = [target EXCEPT ![h] = NoBill]
  /\ work' = [work EXCEPT ![h] = NoRow]
  /\ num' = [num EXCEPT ![h] = 0]
  /\ UNCHANGED req

Go(h, stage) == pc' = [pc EXCEPT ![h] = stage]

-----------------------------------------------------------------------------
Init ==
  /\ bill = [b \in Bills |-> NoRow]
  /\ outbox = [b \in Bills |-> <<>>]
  /\ seq = [branch \in Branches |-> 0]
  /\ pc = [h \in Handlers |-> "idle"]
  /\ req = [h \in Handlers |-> NoRequest]
  /\ target = [h \in Handlers |-> NoBill]
  /\ work = [h \in Handlers |-> NoRow]
  /\ num = [h \in Handlers |-> 0]
  /\ reply = [h \in Handlers |-> NoReply]
  /\ deadlocks = 0

\* A request arrives.  The checks that read nothing a sale writes (its fields, the
\* store and the branch) are taken as passed.
Receive(h, r) ==
  /\ pc[h] = "idle"
  /\ req' = [req EXCEPT ![h] = r]
  /\ Go(h, CASE r.op = "new" -> "lookup" [] r.op = "submit" -> "open" [] OTHER -> "delete")
  /\ UNCHANGED <<tables, target, work, num, reply>>

\* writeSale: a new sale looks for its identity before it writes.
Lookup(h) ==
  /\ pc[h] = "lookup"
  /\ \/ /\ Recorded(req[h].key) = {}
        /\ Go(h, "open")
        /\ UNCHANGED <<locals, reply>>
     \/ /\ Recorded(req[h].key) # {}
        /\ Answer(h, LookedUp(req[h], "none"))
  /\ UNCHANGED tables

\* AUTO_INCREMENT: an id that a table or a handler knows is not given again.
Fresh(b) == bill[b] = NoRow /\ outbox[b] = <<>> /\ \A h \in Handlers : target[h] # b

\* openSaleBill for a new sale: CreateBill.
CreateBill(h, b) ==
  /\ pc[h] = "open" /\ req[h].op = "new"
  /\ Fresh(b)
  /\ target' = [target EXCEPT ![h] = b]
  /\ work' = [work EXCEPT ![h] = [NoRow EXCEPT !.state = "draft"]]
  /\ Go(h, "number")
  /\ UNCHANGED <<tables, req, num, reply>>

\* Bound: when the bills of the instance are used up, the insert fails.
NoMoreBills(h) ==
  /\ pc[h] = "open" /\ req[h].op = "new"
  /\ \A b \in Bills : ~ Fresh(b)
  /\ Answer(h, Failure("error"))
  /\ UNCHANGED tables

\* openSaleBill for a draft: its row is locked before its state is read.
OpenDraft(h) ==
  LET b == req[h].bill
  IN  /\ pc[h] = "open" /\ req[h].op = "submit"
      /\ ~ RowLocked(b)
      /\ \/ /\ bill[b].state = "none"
            /\ Answer(h, Failure("not_found"))
         \/ /\ bill[b].state # "none"
            /\ target' = [target EXCEPT ![h] = b]
            /\ work' = [work EXCEPT ![h] = bill[b]]
            /\ Go(h, IF bill[b].state = "final" THEN "final" ELSE "number")
            /\ UNCHANGED <<req, num, reply>>
      /\ UNCHANGED tables

\* answerFinalDraft: the draft is already final.
AnswerFinal(h) ==
  /\ pc[h] = "final"
  /\ Answer(h, LookedUp(req[h], "already_final"))
  /\ UNCHANGED tables

\* A bug: the counter is incremented outside the sale's transaction.
NumberSaleAtOnce(h) ==
  LET branch == BranchOf[req[h].content]
  IN  /\ pc[h] = "number"
      /\ \/ /\ Final(req[h])
            /\ num' = [num EXCEPT ![h] = seq[branch] + 1]
            /\ seq' = [seq EXCEPT ![branch] = @ + 1]
         \/ /\ ~ Final(req[h])
            /\ UNCHANGED <<num, seq>>
      /\ Go(h, "update")
      /\ UNCHANGED <<bill, outbox, req, target, work, reply>>

\* numberSale: a final sale takes the next number of its branch; a draft none.
NumberSale(h) ==
  LET branch == BranchOf[req[h].content]
  IN  /\ pc[h] = "number"
      /\ \/ /\ Final(req[h])
            /\ ~ CounterLocked(branch)
            /\ num' = [num EXCEPT ![h] = seq[branch] + 1]
         \/ /\ ~ Final(req[h])
            /\ UNCHANGED num
      /\ Go(h, "update")
      /\ UNCHANGED <<tables, req, target, work, reply>>

Written(row, r, n) ==
  [row EXCEPT !.state = IF Final(r) THEN "final" ELSE "draft",
              !.number = n, !.key = r.key, !.content = r.content]

\* A bug: the duplicate is reported before the other writer has committed.
DuplicateAtOnce(h) ==
  \/ ~ (Recorded(req[h].key) \subseteq {target[h]})
  \/ Final(req[h]) /\ KeyLocked(req[h].key)

\* The unique key refuses the identity: another bill carries it.
Duplicate(h) == ~ (Recorded(req[h].key) \subseteq {target[h]})

\* updateSaleBill: the bill's columns are written.  The unique key of the request
\* identity makes it wait for an uncommitted entry and refuses a committed one.
UpdateBill(h) ==
  /\ pc[h] = "update"
  /\ Final(req[h]) => ~ KeyLocked(req[h].key)
  /\ ~ Duplicate(h)
  /\ work' = [work EXCEPT ![h] = Written(work[h], req[h], num[h])]
  /\ Go(h, "complete")
  /\ UNCHANGED <<tables, req, target, num, reply>>

\* A bug: the sale is tried again instead of answered from the record.
LoseRaceAndRetry(h) ==
  /\ pc[h] = "update"
  /\ Duplicate(h)
  /\ target' = [target EXCEPT ![h] = NoBill]
  /\ work' = [work EXCEPT ![h] = NoRow]
  /\ num' = [num EXCEPT ![h] = 0]
  /\ Go(h, "open")
  /\ UNCHANGED <<tables, req, reply>>

\* Error 1062 on uq_bill_pos_request: the transaction is rolled back.
LoseRace(h) ==
  /\ pc[h] = "update"
  /\ Duplicate(h)
  /\ target' = [target EXCEPT ![h] = NoBill]
  /\ work' = [work EXCEPT ![h] = NoRow]
  /\ num' = [num EXCEPT ![h] = 0]
  /\ Go(h, "lost")
  /\ UNCHANGED <<tables, req, reply>>

\* answerLostRace reads the record outside the rolled-back transaction.
AnswerLostRace(h) ==
  /\ pc[h] = "lost"
  /\ Answer(h, LookedUp(req[h], "already_recorded"))
  /\ UNCHANGED tables

\* A bug: the payment of the draft is kept.
CompletedTwicePaid(row, r) ==
  LET old == IF r.op = "submit" THEN [row EXCEPT !.lines = <<>>] ELSE row
  IN  [old EXCEPT !.lines = Append(@, r.content),
                  !.payments = IF Paid[r.content] THEN Append(@, r.content) ELSE @]

\* finishSale up to its commit: a draft's lines and payment are replaced, and the
\* lines and the payment of the sale are inserted.  (Its event follows in Apply.)
Completed(row, r) ==
  LET old == IF r.op = "submit" THEN [row EXCEPT !.lines = <<>>, !.payments = <<>>] ELSE row
  IN  [old EXCEPT !.lines = Append(@, r.content),
                  !.payments = IF Paid[r.content] THEN Append(@, r.content) ELSE @]

CompleteSale(h) ==
  /\ pc[h] = "complete"
  /\ work' = [work EXCEPT ![h] = Completed(work[h], req[h])]
  /\ Go(h, "commit")
  /\ UNCHANGED <<tables, req, target, num, reply>>

\* recordSaleMovements passes over any error of the row lock it takes on a product.
\* When that error is a deadlock, InnoDB has rolled the transaction back and given up
\* its locks, and the handler goes on: each later statement commits by itself.
StockDeadlock(h) ==
  /\ deadlocks < MaxDeadlocks /\ deadlocks' = deadlocks + 1
  /\ pc[h] = "complete" /\ Final(req[h])
  /\ work' = [work EXCEPT ![h] = NoRow]
  /\ num' = [num EXCEPT ![h] = 0]
  /\ Go(h, "detached_event")
  /\ UNCHANGED <<tables, req, target, reply>>

DetachedEvent(h) ==
  /\ pc[h] = "detached_event"
  /\ outbox' = [outbox EXCEPT ![target[h]] = Append(@, req[h].key)]
  /\ Go(h, IF req[h].op = "submit" THEN "detached_clear" ELSE "detached_pay")
  /\ UNCHANGED <<bill, seq, locals, reply>>

DetachedClear(h) ==
  /\ pc[h] = "detached_clear" /\ ~ RowLocked(target[h])
  /\ bill' = [bill EXCEPT ![target[h]].payments = <<>>]
  /\ Go(h, "detached_pay")
  /\ UNCHANGED <<outbox, seq, locals, reply>>

\* recordSalePayment and the commit of nothing.  A new bill is gone, and a draft
\* still has its old total, which the payment may exceed.
DetachedPay(h) ==
  LET b == target[h]
      c == req[h].content
  IN  /\ pc[h] = "detached_pay" /\ ~ RowLocked(b)
      /\ \/ /\ ~ Paid[c]
            /\ UNCHANGED bill
            /\ Answer(h, Success(b))
         \/ /\ Paid[c] /\ bill[b].state # "none"
            /\ bill' = [bill EXCEPT ![b].payments = Append(@, c)]
            /\ Answer(h, Success(b))
         \/ /\ Paid[c]
            /\ UNCHANGED bill
            /\ Answer(h, Failure("error"))
      /\ UNCHANGED <<outbox, seq>>

\* DeleteBillDetail: only a draft is deleted.
DeleteDraft(h) ==
  LET b == req[h].bill
  IN  /\ pc[h] = "delete"
      /\ ~ RowLocked(b)
      /\ \/ /\ bill[b].state # "draft"
            /\ Answer(h, Failure(IF bill[b].state = "none" THEN "not_found" ELSE "refused"))
         \/ /\ bill[b].state = "draft"
            /\ target' = [target EXCEPT ![h] = b]
            /\ work' = [work EXCEPT ![h] = [bill[b] EXCEPT !.state = "deleted"]]
            /\ Go(h, "delete_commit")
            /\ UNCHANGED <<req, num, reply>>
      /\ UNCHANGED tables

Committing(h) == pc[h] \in {"commit", "delete_commit"}

\* A bug: a draft has an event too.
ApplyWithDraftEvent(h) ==
  /\ bill' = [bill EXCEPT ![target[h]] = work[h]]
  /\ outbox' = [outbox EXCEPT ![target[h]] = Append(@, req[h].key)]
  /\ seq' = IF num[h] > 0 THEN [seq EXCEPT ![BranchOf[req[h].content]] = num[h]] ELSE seq

\* The writes of the transaction reach the tables together, with the event that
\* queueSaleEvent wrote for a final sale.
Apply(h) ==
  /\ bill' = [bill EXCEPT ![target[h]] = work[h]]
  /\ outbox' = IF Final(req[h]) THEN [outbox EXCEPT ![target[h]] = Append(@, req[h].key)]
               ELSE outbox
  /\ seq' = IF num[h] > 0 THEN [seq EXCEPT ![BranchOf[req[h].content]] = num[h]] ELSE seq

Commit(h) ==
  /\ Committing(h)
  /\ Apply(h)
  /\ Answer(h, Success(target[h]))

\* The commit takes effect, and the connection fails before it is known.
CommitUnanswered(h) ==
  /\ Committing(h)
  /\ Apply(h)
  /\ Answer(h, Failure("error"))

\* A statement fails or is refused (stock, payment above the total, deadlock, lock
\* wait, lost connection), or the process dies: an open transaction is rolled back.
Abort(h) ==
  /\ pc[h] \notin {"idle", "answered"}
  /\ Answer(h, Failure("error"))
  /\ UNCHANGED tables

\* The client reads the answer.
Done(h) ==
  /\ pc[h] = "answered"
  /\ Go(h, "idle")
  /\ req' = [req EXCEPT ![h] = NoRequest]
  /\ reply' = [reply EXCEPT ![h] = NoReply]
  /\ UNCHANGED <<tables, target, work, num>>

Serve(h) ==
  /\ \/ Lookup(h) \/ (\E b \in Bills : CreateBill(h, b)) \/ NoMoreBills(h)
     \/ OpenDraft(h) \/ AnswerFinal(h) \/ NumberSale(h) \/ UpdateBill(h)
     \/ LoseRace(h) \/ AnswerLostRace(h) \/ CompleteSale(h) \/ Commit(h)
     \/ DeleteDraft(h)
     \/ DetachedEvent(h) \/ DetachedClear(h) \/ DetachedPay(h)
  /\ UNCHANGED deadlocks

Disturb(h) ==
  /\ CommitUnanswered(h) \/ Abort(h)
  /\ UNCHANGED deadlocks

Call(h) ==
  /\ (\E r \in Requests : Receive(h, r)) \/ Done(h)
  /\ UNCHANGED deadlocks

Next == \E h \in Handlers : Call(h) \/ Serve(h) \/ StockDeadlock(h) \/ Disturb(h)

Spec == Init /\ [][Next]_vars

\* A handler that is not waiting for a lock runs on, and InnoDB grants a lock to its
\* waiters in turn.
FairSpec == Spec /\ \A h \in Handlers : SF_vars(Serve(h))

-----------------------------------------------------------------------------
Stages == {"idle", "lookup", "open", "final", "number", "update", "complete", "commit",
           "lost", "delete", "delete_commit", "detached_event", "detached_clear",
           "detached_pay", "answered"}

\* The state has its type.
TypeOK ==
  /\ bill \in [Bills -> Rows]
  /\ outbox \in [Bills -> Seq(Keys)]
  /\ seq \in [Branches -> Nat]
  /\ pc \in [Handlers -> Stages]
  /\ req \in [Handlers -> Requests \cup {NoRequest}]
  /\ target \in [Handlers -> Bills \cup {NoBill}]
  /\ work \in [Handlers -> Rows]
  /\ num \in [Handlers -> Nat]
  /\ reply \in [Handlers -> Replies]
  /\ deadlocks \in Nat

Issued(branch) ==
  {b \in Bills : bill[b].state = "final" /\ BranchOf[bill[b].content] = branch}

\* The final sales of a branch carry the numbers 1, 2, ... up to its counter, each
\* once: neither a race nor a rollback (allocateBillNumber) leaves a gap or a double.
NumbersGapless ==
  \A branch \in Branches :
    /\ {bill[b].number : b \in Issued(branch)} = 1 .. seq[branch]
    /\ \A a, b \in Issued(branch) : bill[a].number = bill[b].number => a = b

\* A request identity is recorded on one bill, and that bill is final: the same sale
\* sent twice, at the same time or after an unknown outcome, is sold once.
SoldOnce ==
  \A k \in Keys : \A a, b \in Recorded(k) : a = b /\ bill[a].state = "final"

\* What hangs from a bill belongs to its last request, and hangs there once: a draft
\* that is saved, changed and submitted keeps neither its old lines nor its old
\* payment.
WrittenWhole ==
  \A b \in Bills : bill[b].state # "none" =>
    /\ bill[b].lines = <<bill[b].content>>
    /\ bill[b].payments = IF Paid[bill[b].content] THEN <<bill[b].content>> ELSE <<>>

\* "An event exists only if the change commits" (package outbox): a bill has one event
\* when it is final, with its identity, and none otherwise.  (The code breaks this
\* where stock is tracked: see StockDeadlock.)
EventIffSale ==
  \A b \in Bills : outbox[b] = IF bill[b].state = "final" THEN <<bill[b].key>> ELSE <<>>

\* The client that is told its final sale succeeded finds it in the tables, with the
\* content it sent and on the bill it named (answerRecordedRequest, finishSale).
SuccessIsRecorded ==
  \A h \in Handlers : pc[h] = "answered" /\ reply[h].kind = "success" /\ Final(req[h]) =>
    LET b == reply[h].bill
    IN  /\ Recorded(req[h].key) = {b}
        /\ bill[b].content = req[h].content
        /\ req[h].bill \in {NoBill, b}

\* A conflict is only answered to a request that is not a retry: its identity is
\* recorded with another content or on another bill than the one it names.
ConflictIsReal ==
  \A h \in Handlers : pc[h] = "answered" /\ reply[h].kind = "conflict" =>
    \E b \in Recorded(req[h].key) :
      bill[b].content # req[h].content \/ req[h].bill \notin {NoBill, b}

\* The sale that lost the race for its identity always finds the record it lost to:
\* the answer that ends answerLostRace is never given.
LostRaceFindsRecord == \A h \in Handlers : reply[h].kind # "already_recorded"

\* A final sale is an issued document: no request changes it, its lines, its payment
\* or its event again.
FinalIsImmutable ==
  [][\A b \in Bills : bill[b].state = "final" =>
       bill'[b] = bill[b] /\ outbox'[b] = outbox[b]]_vars

\* A deleted draft is not sold: SubmitDraftBill finalizes a draft.  (The code breaks
\* this: openSaleBill refuses only a state above 0, and a deleted bill has state -1.)
DeletedStaysDeleted ==
  [][\A b \in Bills : bill[b].state = "deleted" => bill'[b].state # "final"]_vars

\* A request is answered, whatever locks the others hold meanwhile: the order in
\* which a sale takes its locks (the row, the counter, the identity) has no cycle.
EveryRequestAnswered ==
  \A h \in Handlers : pc[h] # "idle" ~> pc[h] \in {"answered", "idle"}

-----------------------------------------------------------------------------
\* The sale command keeps the book of issued invoices.
NotIssued == [bill |-> NoBill, content |-> NoContent, number |-> 0]
Entry(b) == [bill |-> b, content |-> bill[b].content, number |-> bill[b].number]
book == [k \in Keys |-> IF Recorded(k) = {} THEN NotIssued
                        ELSE Entry(CHOOSE b \in Recorded(k) : TRUE)]
Book == INSTANCE InvoiceBook WITH book <- book

\* The tables implement the book: a commit enters one invoice with the next number,
\* and every other step leaves the book as it is.
ImplementsBook == Book!BookSpec

-----------------------------------------------------------------------------
(* The inductive invariant behind NumbersGapless and SoldOnce. *)

WritingStages == {"number", "update", "complete", "commit"}
DetachedStages == {"detached_event", "detached_clear", "detached_pay"}

\* What the request and the target of a handler are at its stage.
StageOf(h) ==
  /\ pc[h] # "idle" => req[h] \in Requests
  /\ pc[h] \in {"lookup", "open", "final", "lost"} \cup WritingStages => req[h] \in Sales
  /\ pc[h] \in {"delete", "delete_commit"} => req[h] \in Deletes
  /\ pc[h] \in DetachedStages => req[h] \in Sales /\ Final(req[h]) /\ target[h] \in Bills
  /\ InTransaction(h) => target[h] \in Bills
  /\ num[h] > 0 => pc[h] \in WritingStages \ {"number"} /\ Final(req[h])
StageInv == \A h \in Handlers : StageOf(h)

\* Two open transactions share neither a bill nor a counter nor an identity.
Apart(g, h) ==
  /\ InTransaction(g) /\ InTransaction(h) => target[g] # target[h]
  /\ num[g] > 0 /\ num[h] > 0 => BranchOf[req[g].content] # BranchOf[req[h].content]
  /\ pc[g] \in {"complete", "commit"} /\ pc[h] \in {"complete", "commit"} =>
       work[g].key = NoKey \/ work[g].key # work[h].key
LockInv == \A g, h \in Handlers : g # h => Apart(g, h)

\* What a transaction has read and written stays true of the tables until it ends.
WorkOf(h) ==
  /\ pc[h] \in WritingStages => bill[target[h]].state # "final"
  /\ pc[h] \in WritingStages \ {"number"} /\ Final(req[h]) =>
       num[h] = seq[BranchOf[req[h].content]] + 1
  /\ pc[h] \in {"complete", "commit"} =>
       /\ work[h].state = IF Final(req[h]) THEN "final" ELSE "draft"
       /\ work[h].number = num[h]
       /\ work[h].key = req[h].key
       /\ work[h].content = req[h].content
       /\ Recorded(req[h].key) = {}
  /\ pc[h] = "delete_commit" =>
       /\ bill[target[h]].state = "draft"
       /\ work[h].state = "deleted" /\ work[h].key = bill[target[h]].key
WorkInv == \A h \in Handlers : WorkOf(h)

\* A bill carries an identity exactly while it is final.
KeyIffFinal == \A b \in Bills : bill[b].key # NoKey <=> bill[b].state = "final"

\* The invariant that every step preserves: the locks keep the tables from changing
\* under a transaction, and so each commit extends the series and the record by one.
IndInv == /\ TypeOK /\ StageInv /\ LockInv /\ WorkInv /\ KeyIffFinal
          /\ NumbersGapless /\ SoldOnce
=============================================================================
