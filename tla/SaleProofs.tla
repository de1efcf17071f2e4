----------------------------- MODULE SaleProofs -----------------------------
(***************************************************************************)
(* Proofs about Sale, for every set of handlers, bills, identities and     *)
(* contents, and for any number of deadlocks on products: the inductive    *)
(* invariant, and what the sale command promises its clients and its book  *)
(* (the answers, the immutability of a final sale, its event, the book of  *)
(* issued invoices).  The theorems that assume MaxDeadlocks = 0 are about  *)
(* sales whose transaction is not lost on a product (see StockDeadlock).   *)
(***************************************************************************)
EXTENDS Sale, FiniteSetTheorems, FunctionTheorems, TLAPS

USE NullsAssumption, ContentsAssumption, BillsAssumption, BoundAssumption

\* The row of a bill that was not written has the type of a row.
LEMMA NoRowType == NoRow \in Rows
BY DEF NoRow, Rows

\* A lookup answers with a reply.
LEMMA LookedUpType ==
  ASSUME NEW r, NEW kind \in {"none", "already_final", "already_recorded"}
  PROVE  kind # "none" \/ Recorded(r.key) # {} => LookedUp(r, kind) \in Replies
<1> DEFINE b == CHOOSE x \in Recorded(r.key) : TRUE
<1>1. CASE Recorded(r.key) = {}
  BY <1>1 DEF LookedUp, Failure, Replies
<1>2. CASE Recorded(r.key) # {}
  <2>1. b \in Bills
    BY <1>2 DEF Recorded
  <2>2. RecordedAnswer(r, b) \in Replies
    BY <2>1 DEF RecordedAnswer, Success, Failure, Replies
  <2> QED
    BY <1>2, <2>2 DEF LookedUp
<1> QED
  BY <1>1, <1>2

\* A row that the sale rewrites, or whose lines and payment it replaces, is a row.
LEMMA WrittenType ==
  ASSUME NEW row \in Rows, NEW r \in Sales, NEW n \in Nat
  PROVE  Written(row, r, n) \in Rows
BY DEF Written, Rows, Sales, Final

LEMMA CompletedType ==
  ASSUME NEW row \in Rows, NEW r \in Sales
  PROVE  /\ Completed(row, r) \in Rows
         /\ Completed(row, r).state = row.state
         /\ Completed(row, r).number = row.number
         /\ Completed(row, r).key = row.key
         /\ Completed(row, r).content = row.content
<1> DEFINE old == IF r.op = "submit" THEN [row EXCEPT !.lines = <<>>, !.payments = <<>>]
                  ELSE row
           lines == Append(old.lines, r.content)
           payments == IF Paid[r.content] THEN Append(old.payments, r.content)
                       ELSE old.payments
<1>1. /\ old \in Rows /\ old.state = row.state /\ old.number = row.number
      /\ old.key = row.key /\ old.content = row.content
  <2>1. CASE r.op # "submit"
    BY <2>1
  <2>2. CASE r.op = "submit"
    <3> DEFINE empty == [row EXCEPT !.lines = <<>>, !.payments = <<>>]
    <3>1. <<>> \in Seq(Contents)
      OBVIOUS
    <3>2. /\ empty \in Rows /\ empty.state = row.state /\ empty.number = row.number
          /\ empty.key = row.key /\ empty.content = row.content
      BY <3>1 DEF Rows
    <3>3. old = empty
      BY <2>2
    <3> QED
      BY <3>2, <3>3
  <2> QED
    BY <2>1, <2>2
<1>2. r.content \in Contents
  BY DEF Sales
<1>3. old.lines \in Seq(Contents) /\ old.payments \in Seq(Contents)
  BY <1>1 DEF Rows
<1>4. lines \in Seq(Contents) /\ payments \in Seq(Contents)
  <2> HIDE DEF old
  <2> QED
    BY <1>2, <1>3
<1>5. Completed(row, r) = [old EXCEPT !.lines = lines, !.payments = payments]
  BY DEF Completed
<1> HIDE DEF old, lines, payments
<1> QED
  BY <1>1, <1>4, <1>5 DEF Rows

\* No bill row changes, or only what hangs from it.
RowsKept ==
  \A b \in Bills : /\ bill'[b].state = bill[b].state /\ bill'[b].number = bill[b].number
                   /\ bill'[b].key = bill[b].key /\ bill'[b].content = bill[b].content

\* While no bill row and no counter changes, the book of sales stays as it is.
LEMMA TablesKept ==
  ASSUME NumbersGapless, SoldOnce, KeyIffFinal, RowsKept, seq' = seq
  PROVE  /\ NumbersGapless' /\ SoldOnce' /\ KeyIffFinal'
         /\ \A k : Recorded(k)' = Recorded(k)
<1>1. \A k : Recorded(k)' = Recorded(k)
  BY DEF Recorded, RowsKept
<1>2. SoldOnce' /\ KeyIffFinal'
  BY <1>1 DEF SoldOnce, KeyIffFinal, RowsKept, Recorded
<1>3. \A branch \in Branches : /\ Issued(branch)' = Issued(branch)
                             /\ \A b \in Issued(branch) : bill'[b].number = bill[b].number
  BY DEF Issued, RowsKept
<1>4. \A branch \in Branches :
        {bill'[b].number : b \in Issued(branch)'} = {bill[b].number : b \in Issued(branch)}
  BY <1>3
<1>5. NumbersGapless'
  BY <1>3, <1>4 DEF NumbersGapless
<1> QED
  BY <1>1, <1>2, <1>5

\* The sale starts in the inductive invariant.
LEMMA InitInv == Init => IndInv
<1> SUFFICES ASSUME Init PROVE IndInv
  OBVIOUS
<1>1. \A b \in Bills : bill[b].state = "none" /\ bill[b].key = NoKey
  BY DEF Init, NoRow
<1>2. TypeOK
  BY NoRowType DEF Init, TypeOK, Stages, NoReply, Failure, Replies
<1>3. NumbersGapless
  <2>1. \A branch \in Branches : Issued(branch) = {} /\ seq[branch] = 0
    BY <1>1 DEF Issued, Init
  <2> QED
    BY <2>1 DEF NumbersGapless
<1>4. SoldOnce /\ KeyIffFinal
  BY <1>1 DEF SoldOnce, KeyIffFinal, Recorded
<1>5. StageInv /\ LockInv /\ WorkInv
  BY DEF Init, StageInv, LockInv, WorkInv, StageOf, Apart, WorkOf, WritingStages, DetachedStages,
         InTransaction
<1> QED
  BY <1>2, <1>3, <1>4, <1>5 DEF IndInv

\* A step of one handler leaves what the others hold in memory.
Local(h) ==
  \A g \in Handlers \ {h} :
    /\ pc'[g] = pc[g] /\ req'[g] = req[g] /\ target'[g] = target[g]
    /\ work'[g] = work[g] /\ num'[g] = num[g]

\* A step that changes one handler and no bill row needs a proof about that handler.
LEMMA LocalInv ==
  ASSUME IndInv, NEW h \in Handlers, Local(h), RowsKept, seq' = seq,
         TypeOK', StageOf(h)', WorkOf(h)',
         \A g \in Handlers \ {h} : Apart(g, h)'
  PROVE  IndInv'
<1> USE DEF IndInv
<1>1. NumbersGapless' /\ SoldOnce' /\ KeyIffFinal' /\ \A k : Recorded(k)' = Recorded(k)
  BY TablesKept
<1>2. ASSUME NEW g \in Handlers \ {h} PROVE StageOf(g)' /\ WorkOf(g)'
  <2>1. StageOf(g) /\ WorkOf(g)
    BY DEF StageInv, WorkInv
  <2> DEFINE P == pc[g]
             R == req[g]
             T == target[g]
             W == work[g]
             N == num[g]
  <2>2. P' = P /\ R' = R /\ T' = T /\ W' = W /\ N' = N
    BY DEF Local
  <2>3. Recorded(req[g].key)' = Recorded(req[g].key)
    BY <2>2 DEF Recorded, RowsKept
  <2>4. StageOf(g)' /\ WorkOf(g)'
    <3>1. StageOf(g)' = StageOf(g)
      BY <2>2 DEF StageOf, InTransaction
    <3>2. pc[g] \in WritingStages \cup {"delete_commit"} =>
            /\ bill'[T].state = bill[T].state /\ bill'[T].key = bill[T].key
      BY <2>1 DEF StageOf, InTransaction, WritingStages, RowsKept
    <3>3. WorkOf(g)'
      BY <2>1, <2>2, <2>3, <3>2 DEF WorkOf, WritingStages
    <3> QED
      BY <2>1, <3>1, <3>3
  <2> QED
    BY <2>4
<1>3. ASSUME NEW f \in Handlers \ {h}, NEW g \in Handlers \ {h}, f # g PROVE Apart(f, g)'
  BY <1>3 DEF LockInv, Apart, Local, InTransaction
<1>4. \A g \in Handlers \ {h} : Apart(h, g)'
  BY DEF Apart
<1>5. StageInv' /\ WorkInv' /\ LockInv'
  BY <1>2, <1>3, <1>4 DEF StageInv, WorkInv, LockInv
<1> QED
  BY <1>1, <1>5

\* A handler that answers gives up its locks and changes no bill row.
LEMMA AnswerInv ==
  ASSUME IndInv, NEW h \in Handlers, NEW a \in Replies, pc[h] # "idle",
         Answer(h, a), bill' \in [Bills -> Rows], RowsKept, outbox' = outbox, seq' = seq,
         deadlocks' = deadlocks
  PROVE  IndInv'
<1>1. TypeOK'
  BY NoRowType DEF TypeOK, Stages, IndInv, Answer
<1>2. Local(h) /\ pc'[h] = "answered" /\ num'[h] = 0 /\ req'[h] = req[h]
  BY DEF Local, Answer, IndInv, TypeOK
<1>3. req[h] \in Requests
  BY DEF IndInv, StageInv, StageOf
<1>4. StageOf(h)' /\ WorkOf(h)' /\ \A g \in Handlers \ {h} : Apart(g, h)'
  BY <1>2, <1>3 DEF StageOf, WorkOf, Apart, InTransaction, WritingStages, DetachedStages
<1> QED
  BY <1>1, <1>2, <1>4, LocalInv

\* An answer that changes no table at all.
LEMMA RefuseInv ==
  ASSUME IndInv, NEW h \in Handlers, NEW a \in Replies, pc[h] # "idle",
         Answer(h, a), UNCHANGED tables, deadlocks' = deadlocks
  PROVE  IndInv'
<1>1. bill' \in [Bills -> Rows] /\ RowsKept /\ outbox' = outbox /\ seq' = seq
  BY DEF tables, RowsKept, IndInv, TypeOK
<1> QED
  BY <1>1, AnswerInv

\* A request that arrives changes no table.
LEMMA ReceiveInv ==
  ASSUME IndInv, NEW h \in Handlers, NEW r \in Requests, Receive(h, r),
         deadlocks' = deadlocks
  PROVE  IndInv'
<1>1. TypeOK'
  BY DEF TypeOK, Stages, IndInv, Receive, Go, tables
<1>2. /\ Local(h) /\ num'[h] = num[h] /\ req'[h] = r /\ bill' = bill /\ seq' = seq
      /\ pc'[h] = CASE r.op = "new" -> "lookup" [] r.op = "submit" -> "open"
                     [] OTHER -> "delete"
  BY DEF Local, Receive, Go, IndInv, TypeOK, tables
<1>3. num[h] = 0
  <2>1. StageOf(h) /\ pc[h] = "idle" /\ num[h] \in Nat
    BY DEF IndInv, StageInv, Receive, TypeOK
  <2> QED
    BY <2>1 DEF StageOf, WritingStages
<1>4. \/ r \in Sales /\ pc'[h] \in {"lookup", "open"}
      \/ r \in Deletes /\ pc'[h] = "delete"
  BY <1>2 DEF Requests, Sales, Deletes
<1>5. StageOf(h)' /\ WorkOf(h)' /\ \A g \in Handlers \ {h} : Apart(g, h)'
  BY <1>2, <1>3, <1>4 DEF StageOf, WorkOf, Apart, InTransaction, WritingStages, DetachedStages
<1> QED
  BY <1>1, <1>2, <1>5, LocalInv DEF RowsKept

\* A handler that is done forgets its request.
LEMMA DoneInv ==
  ASSUME IndInv, NEW h \in Handlers, Done(h), deadlocks' = deadlocks
  PROVE  IndInv'
<1>1. TypeOK'
  BY DEF TypeOK, Stages, IndInv, Done, Go, tables, NoReply, Failure, Replies
<1>2. /\ Local(h) /\ num'[h] = num[h] /\ pc'[h] = "idle" /\ bill' = bill /\ seq' = seq
  BY DEF Local, Done, Go, IndInv, TypeOK, tables
<1>3. num[h] = 0
  <2>1. StageOf(h) /\ pc[h] = "answered" /\ num[h] \in Nat
    BY DEF IndInv, StageInv, Done, TypeOK
  <2> QED
    BY <2>1 DEF StageOf, WritingStages
<1>4. StageOf(h)' /\ WorkOf(h)' /\ \A g \in Handlers \ {h} : Apart(g, h)'
  BY <1>2, <1>3 DEF StageOf, WorkOf, Apart, InTransaction, WritingStages, DetachedStages
<1> QED
  BY <1>1, <1>2, <1>4, LocalInv DEF RowsKept

\* Until a sale has taken its number it has none, and its bill's row is a row.
LEMMA Memory ==
  ASSUME IndInv, NEW h \in Handlers
  PROVE  /\ StageOf(h) /\ WorkOf(h) /\ num[h] \in Nat /\ work[h] \in Rows
         /\ pc[h] \notin WritingStages \ {"number"} => num[h] = 0
<1>1. StageOf(h) /\ WorkOf(h) /\ num[h] \in Nat /\ work[h] \in Rows
  BY DEF IndInv, StageInv, WorkInv, TypeOK
<1> QED
  BY <1>1 DEF StageOf

\* A new sale that found no record of its identity goes on.
LEMMA LookupInv ==
  ASSUME IndInv, NEW h \in Handlers, Lookup(h), deadlocks' = deadlocks
  PROVE  IndInv'
<1>1. CASE Recorded(req[h].key) # {} /\ Answer(h, LookedUp(req[h], "none"))
  <2>1. LookedUp(req[h], "none") \in Replies
    BY <1>1, LookedUpType
  <2> QED
    BY <1>1, <2>1, RefuseInv DEF Lookup
<1>2. CASE Go(h, "open") /\ UNCHANGED <<locals, reply>>
  <2>1. TypeOK'
    BY <1>2 DEF TypeOK, Stages, IndInv, Lookup, Go, tables, locals
  <2>2. /\ Local(h) /\ num'[h] = num[h] /\ req'[h] = req[h] /\ bill' = bill /\ seq' = seq
        /\ pc[h] = "lookup" /\ pc'[h] = "open"
    BY <1>2 DEF Local, Lookup, Go, IndInv, TypeOK, tables, locals
  <2>3. StageOf(h)' /\ WorkOf(h)' /\ \A g \in Handlers \ {h} : Apart(g, h)'
    BY <2>2, Memory DEF StageOf, WorkOf, Apart, InTransaction, WritingStages, DetachedStages
  <2> QED
    BY <2>1, <2>2, <2>3, LocalInv DEF RowsKept
<1> QED
  BY <1>1, <1>2 DEF Lookup

\* A new sale writes a bill that no other transaction writes.
LEMMA CreateBillInv ==
  ASSUME IndInv, NEW h \in Handlers, NEW b \in Bills, CreateBill(h, b),
         deadlocks' = deadlocks
  PROVE  IndInv'
<1> DEFINE row == [NoRow EXCEPT !.state = "draft"]
<1>1. row \in Rows
  BY NoRowType DEF Rows
<1>2. work' = [work EXCEPT ![h] = row]
  BY DEF CreateBill
<1> HIDE DEF row
<1>3. TypeOK'
  BY <1>1, <1>2 DEF TypeOK, Stages, IndInv, CreateBill, Go, tables
<1>4. /\ Local(h) /\ num'[h] = num[h] /\ req'[h] = req[h] /\ bill' = bill /\ seq' = seq
      /\ pc[h] = "open" /\ pc'[h] = "number" /\ target'[h] = b
  BY DEF Local, CreateBill, Go, IndInv, TypeOK, tables
<1>5. \A g \in Handlers \ {h} : target'[g] # b
  BY <1>4 DEF CreateBill, Fresh, Local
<1>6. bill[b].state = "none"
  BY DEF CreateBill, Fresh, NoRow
<1>7. StageOf(h)' /\ WorkOf(h)' /\ \A g \in Handlers \ {h} : Apart(g, h)'
  BY <1>4, <1>5, <1>6, Memory
     DEF StageOf, WorkOf, Apart, InTransaction, WritingStages, DetachedStages
<1> QED
  BY <1>3, <1>4, <1>7, LocalInv DEF RowsKept

\* A draft is opened under its row lock, and a final one is not opened for writing.
LEMMA OpenDraftInv ==
  ASSUME IndInv, NEW h \in Handlers, OpenDraft(h), deadlocks' = deadlocks
  PROVE  IndInv'
<1> DEFINE b == req[h].bill
<1>1. CASE Answer(h, Failure("not_found"))
  BY <1>1, RefuseInv DEF OpenDraft, Failure, Replies
<1>2. CASE /\ target' = [target EXCEPT ![h] = b]
           /\ work' = [work EXCEPT ![h] = bill[b]]
           /\ Go(h, IF bill[b].state = "final" THEN "final" ELSE "number")
           /\ UNCHANGED <<req, num, reply>>
  <2>1. StageOf(h) /\ pc[h] = "open" /\ req[h].op = "submit" /\ num[h] = 0
    BY Memory DEF OpenDraft, WritingStages
  <2>2. b \in Bills
    BY <2>1 DEF StageOf, Sales
  <2>3. TypeOK'
    BY <1>2, <2>2 DEF TypeOK, Stages, IndInv, OpenDraft, Go, tables
  <2>4. /\ Local(h) /\ num'[h] = num[h] /\ req'[h] = req[h] /\ bill' = bill /\ seq' = seq
        /\ pc'[h] = IF bill[b].state = "final" THEN "final" ELSE "number"
        /\ target'[h] = b
    BY <1>2 DEF Local, OpenDraft, Go, IndInv, TypeOK, tables
  <2>5. \A g \in Handlers \ {h} : InTransaction(g)' => target'[g] # b
    BY <2>4 DEF OpenDraft, RowLocked, Local, InTransaction
  <2>6. StageOf(h)'
    BY <2>1, <2>2, <2>4 DEF StageOf, InTransaction, WritingStages, DetachedStages
  <2>7. WorkOf(h)'
    BY <2>4 DEF WorkOf, WritingStages
  <2>8. \A g \in Handlers \ {h} : Apart(g, h)'
    BY <2>1, <2>4, <2>5 DEF Apart
  <2> QED
    BY <2>3, <2>4, <2>6, <2>7, <2>8, LocalInv DEF RowsKept
<1> QED
  BY <1>1, <1>2 DEF OpenDraft

\* A sale takes the next number while it alone holds the counter.
LEMMA NumberSaleInv ==
  ASSUME IndInv, NEW h \in Handlers, NumberSale(h), deadlocks' = deadlocks
  PROVE  IndInv'
<1> DEFINE branch == BranchOf[req[h].content]
<1>1. /\ StageOf(h) /\ WorkOf(h) /\ pc[h] = "number" /\ num[h] = 0 /\ req[h] \in Sales
      /\ target[h] \in Bills /\ req[h] \in Requests
  BY Memory DEF NumberSale, WritingStages, StageOf, InTransaction
<1>2. branch \in Branches /\ seq[branch] \in Nat
  BY <1>1 DEF Sales, IndInv, TypeOK
<1>3. TypeOK'
  BY <1>2 DEF TypeOK, Stages, IndInv, NumberSale, Go, tables
<1>4. /\ Local(h) /\ req'[h] = req[h] /\ bill' = bill /\ seq' = seq
      /\ pc'[h] = "update" /\ target'[h] = target[h]
  BY DEF Local, NumberSale, Go, IndInv, TypeOK, tables
<1>5. \/ /\ Final(req[h]) /\ num'[h] = seq[branch] + 1
         /\ ~ CounterLocked(branch)
      \/ ~ Final(req[h]) /\ num'[h] = 0
  BY <1>1 DEF NumberSale, IndInv, TypeOK
<1>6. StageOf(h)'
  BY <1>1, <1>4, <1>5 DEF StageOf, InTransaction, WritingStages, DetachedStages
<1>7. WorkOf(h)'
  BY <1>1, <1>4, <1>5 DEF WorkOf, WritingStages, Final
<1>8. ASSUME NEW g \in Handlers \ {h} PROVE Apart(g, h)'
  <2>1. Apart(g, h)
    BY DEF IndInv, LockInv
  <2>2. num'[g] > 0 /\ num'[h] > 0 => BranchOf[req'[g].content] # BranchOf[req'[h].content]
    <3> SUFFICES ASSUME num'[g] > 0, num'[h] > 0
                 PROVE  BranchOf[req[g].content] # branch
      BY <1>4 DEF Local
    <3>1. num[g] > 0
      BY DEF Local, NumberSale, IndInv, TypeOK
    <3>2. InTransaction(g)
      BY <3>1, Memory DEF InTransaction, WritingStages
    <3>3. ~ CounterLocked(branch)
      BY <1>5
    <3> QED
      BY <3>1, <3>2, <3>3 DEF CounterLocked
  <2> QED
    BY <1>1, <1>4, <2>1, <2>2 DEF Apart, Local, InTransaction
<1> QED
  BY <1>3, <1>4, <1>6, <1>7, <1>8, LocalInv DEF RowsKept

\* A sale writes an identity that no bill and no other open transaction has.
LEMMA UpdateBillInv ==
  ASSUME IndInv, NEW h \in Handlers, UpdateBill(h), deadlocks' = deadlocks
  PROVE  IndInv'
<1> DEFINE row == Written(work[h], req[h], num[h])
           key == req[h].key
<1>1. /\ StageOf(h) /\ WorkOf(h) /\ pc[h] = "update" /\ num[h] \in Nat /\ req[h] \in Sales
      /\ work[h] \in Rows /\ target[h] \in Bills /\ req[h] \in Requests
  BY Memory DEF UpdateBill, WritingStages, StageOf, InTransaction
<1>2. /\ row \in Rows /\ row.state = (IF Final(req[h]) THEN "final" ELSE "draft")
      /\ row.number = num[h] /\ row.key = key /\ row.content = req[h].content
  BY <1>1, WrittenType DEF Written, Rows
<1>3. work' = [work EXCEPT ![h] = row]
  BY DEF UpdateBill
<1> HIDE DEF row
<1>4. TypeOK'
  BY <1>2, <1>3 DEF TypeOK, Stages, IndInv, UpdateBill, Go, tables
<1>5. /\ Local(h) /\ req'[h] = req[h] /\ bill' = bill /\ seq' = seq /\ work'[h] = row
      /\ pc'[h] = "complete" /\ target'[h] = target[h] /\ num'[h] = num[h]
  BY <1>3 DEF Local, UpdateBill, Go, IndInv, TypeOK, tables
<1>6. Recorded(key) = {}
  <2>1. Recorded(key) \subseteq {target[h]}
    BY DEF UpdateBill, Duplicate
  <2>2. bill[target[h]].key = NoKey
    BY <1>1 DEF WorkOf, WritingStages, IndInv, KeyIffFinal
  <2> QED
    BY <2>1, <2>2 DEF Recorded
<1>7. Recorded(key)' = Recorded(key)
  BY <1>5 DEF Recorded
<1>8. StageOf(h)'
  BY <1>1, <1>5 DEF StageOf, InTransaction, WritingStages, DetachedStages
<1>9. WorkOf(h)'
  BY <1>1, <1>2, <1>5, <1>6, <1>7 DEF WorkOf, WritingStages, Final
<1>10. ASSUME NEW g \in Handlers \ {h} PROVE Apart(g, h)'
  <2>1. Apart(g, h)
    BY DEF IndInv, LockInv
  <2>2. pc[g] \in {"complete", "commit"} => work[g].key = NoKey \/ work[g].key # key
    BY DEF UpdateBill, KeyLocked, Final
  <2> QED
    BY <1>1, <1>2, <1>5, <2>1, <2>2 DEF Apart, Local, InTransaction
<1> QED
  BY <1>4, <1>5, <1>8, <1>9, <1>10, LocalInv DEF RowsKept

\* A sale that lost the race is rolled back.
LEMMA LoseRaceInv ==
  ASSUME IndInv, NEW h \in Handlers, LoseRace(h), deadlocks' = deadlocks
  PROVE  IndInv'
<1>1. StageOf(h) /\ pc[h] = "update" /\ req[h] \in Sales /\ req[h] \in Requests
  BY Memory DEF LoseRace, WritingStages, StageOf
<1>2. TypeOK'
  BY NoRowType DEF TypeOK, Stages, IndInv, LoseRace, Go, tables
<1>3. /\ Local(h) /\ req'[h] = req[h] /\ bill' = bill /\ seq' = seq
      /\ pc'[h] = "lost" /\ num'[h] = 0
  BY DEF Local, LoseRace, Go, IndInv, TypeOK, tables
<1>4. StageOf(h)' /\ WorkOf(h)' /\ \A g \in Handlers \ {h} : Apart(g, h)'
  BY <1>1, <1>3 DEF StageOf, WorkOf, Apart, InTransaction, WritingStages, DetachedStages
<1> QED
  BY <1>2, <1>3, <1>4, LocalInv DEF RowsKept

\* The lines and the payment leave what the bill's row says as it is.
LEMMA CompleteSaleInv ==
  ASSUME IndInv, NEW h \in Handlers, CompleteSale(h), deadlocks' = deadlocks
  PROVE  IndInv'
<1> DEFINE row == Completed(work[h], req[h])
<1>1. /\ StageOf(h) /\ WorkOf(h) /\ pc[h] = "complete" /\ num[h] \in Nat /\ req[h] \in Sales
      /\ work[h] \in Rows /\ target[h] \in Bills /\ req[h] \in Requests
  BY Memory DEF CompleteSale, WritingStages, StageOf, InTransaction
<1>2. /\ row \in Rows /\ row.state = work[h].state /\ row.number = work[h].number
      /\ row.key = work[h].key /\ row.content = work[h].content
  BY <1>1, CompletedType
<1>3. work' = [work EXCEPT ![h] = row]
  BY DEF CompleteSale
<1> HIDE DEF row
<1>4. TypeOK'
  BY <1>2, <1>3 DEF TypeOK, Stages, IndInv, CompleteSale, Go, tables
<1>5. /\ Local(h) /\ req'[h] = req[h] /\ bill' = bill /\ seq' = seq /\ work'[h] = row
      /\ pc'[h] = "commit" /\ target'[h] = target[h] /\ num'[h] = num[h]
  BY <1>3 DEF Local, CompleteSale, Go, IndInv, TypeOK, tables
<1>6. Recorded(req[h].key)' = Recorded(req[h].key)
  BY <1>5 DEF Recorded
<1>7. StageOf(h)'
  BY <1>1, <1>5 DEF StageOf, InTransaction, WritingStages, DetachedStages
<1>8. WorkOf(h)'
  BY <1>1, <1>2, <1>5, <1>6 DEF WorkOf, WritingStages, Final
<1>9. ASSUME NEW g \in Handlers \ {h} PROVE Apart(g, h)'
  <2>1. Apart(g, h)
    BY DEF IndInv, LockInv
  <2> QED
    BY <1>1, <1>2, <1>5, <2>1 DEF Apart, Local, InTransaction
<1> QED
  BY <1>4, <1>5, <1>7, <1>8, <1>9, LocalInv DEF RowsKept

\* A draft is deleted under its row lock.
LEMMA DeleteDraftInv ==
  ASSUME IndInv, NEW h \in Handlers, DeleteDraft(h), deadlocks' = deadlocks
  PROVE  IndInv'
<1> DEFINE b == req[h].bill
           row == [bill[b] EXCEPT !.state = "deleted"]
<1>1. CASE Answer(h, Failure(IF bill[b].state = "none" THEN "not_found" ELSE "refused"))
  BY <1>1, RefuseInv DEF DeleteDraft, Failure, Replies
<1>2. CASE /\ bill[b].state = "draft"
           /\ target' = [target EXCEPT ![h] = b]
           /\ work' = [work EXCEPT ![h] = row]
           /\ Go(h, "delete_commit")
           /\ UNCHANGED <<req, num, reply>>
  <2>1. StageOf(h) /\ pc[h] = "delete" /\ num[h] = 0 /\ req[h] \in Deletes
    BY Memory DEF DeleteDraft, WritingStages, StageOf
  <2>2. b \in Bills /\ bill[b] \in Rows
    BY <2>1 DEF Deletes, IndInv, TypeOK
  <2>3. row \in Rows /\ row.state = "deleted" /\ row.key = bill[b].key
    BY <2>2 DEF Rows
  <2> HIDE DEF row
  <2>4. TypeOK'
    BY <1>2, <2>2, <2>3 DEF TypeOK, Stages, IndInv, DeleteDraft, Go, tables
  <2>5. /\ Local(h) /\ num'[h] = num[h] /\ req'[h] = req[h] /\ bill' = bill /\ seq' = seq
        /\ pc'[h] = "delete_commit" /\ target'[h] = b /\ work'[h] = row
    BY <1>2 DEF Local, DeleteDraft, Go, IndInv, TypeOK, tables
  <2>6. \A g \in Handlers \ {h} : InTransaction(g)' => target'[g] # b
    BY <2>5 DEF DeleteDraft, RowLocked, Local, InTransaction
  <2>7. StageOf(h)'
    BY <2>1, <2>2, <2>5 DEF StageOf, InTransaction, WritingStages, DetachedStages, Requests
  <2>8. WorkOf(h)'
    BY <1>2, <2>3, <2>5 DEF WorkOf, WritingStages
  <2>9. \A g \in Handlers \ {h} : Apart(g, h)'
    BY <2>1, <2>5, <2>6 DEF Apart
  <2> QED
    BY <2>4, <2>5, <2>7, <2>8, <2>9, LocalInv DEF RowsKept
<1> QED
  BY <1>1, <1>2 DEF DeleteDraft

\* A sale whose transaction is gone holds no lock.
LEMMA StockDeadlockInv ==
  ASSUME IndInv, NEW h \in Handlers, StockDeadlock(h)
  PROVE  IndInv'
<1>1. /\ StageOf(h) /\ pc[h] = "complete" /\ req[h] \in Sales /\ req[h] \in Requests
      /\ target[h] \in Bills /\ Final(req[h])
  BY Memory DEF StockDeadlock, WritingStages, StageOf, InTransaction
<1>2. TypeOK'
  BY NoRowType DEF TypeOK, Stages, IndInv, StockDeadlock, Go, tables
<1>3. /\ Local(h) /\ req'[h] = req[h] /\ bill' = bill /\ seq' = seq
      /\ pc'[h] = "detached_event" /\ num'[h] = 0 /\ target'[h] = target[h]
  BY DEF Local, StockDeadlock, Go, IndInv, TypeOK, tables
<1>4. StageOf(h)'
  BY <1>1, <1>3 DEF StageOf, InTransaction, WritingStages, DetachedStages, Final
<1>5. WorkOf(h)' /\ \A g \in Handlers \ {h} : Apart(g, h)'
  BY <1>1, <1>3 DEF WorkOf, Apart, InTransaction, WritingStages
<1> QED
  BY <1>2, <1>3, <1>4, <1>5, LocalInv DEF RowsKept

\* The event of a sale that is gone changes no bill.
LEMMA DetachedEventInv ==
  ASSUME IndInv, NEW h \in Handlers, DetachedEvent(h), deadlocks' = deadlocks
  PROVE  IndInv'
<1>1. /\ StageOf(h) /\ pc[h] = "detached_event" /\ req[h] \in Sales /\ req[h] \in Requests
      /\ target[h] \in Bills /\ Final(req[h]) /\ num[h] = 0
  BY Memory DEF DetachedEvent, WritingStages, DetachedStages, StageOf
<1>2. req[h].key \in Keys
  BY <1>1 DEF Sales, Final
<1>3. outbox' \in [Bills -> Seq(Keys)]
  <2>1. outbox[target[h]] \in Seq(Keys)
    BY <1>1 DEF IndInv, TypeOK
  <2>2. Append(outbox[target[h]], req[h].key) \in Seq(Keys)
    BY <1>2, <2>1
  <2> QED
    BY <2>2 DEF DetachedEvent, IndInv, TypeOK
<1>4. TypeOK'
  BY <1>3 DEF TypeOK, Stages, IndInv, DetachedEvent, Go, locals
<1>5. /\ Local(h) /\ req'[h] = req[h] /\ bill' = bill /\ seq' = seq
      /\ pc'[h] \in {"detached_clear", "detached_pay"} /\ num'[h] = 0 /\ target'[h] = target[h]
  BY <1>1 DEF Local, DetachedEvent, Go, IndInv, TypeOK, locals
<1>6. StageOf(h)'
  BY <1>1, <1>5 DEF StageOf, InTransaction, WritingStages, DetachedStages, Final
<1>7. WorkOf(h)' /\ \A g \in Handlers \ {h} : Apart(g, h)'
  BY <1>1, <1>5 DEF WorkOf, Apart, InTransaction, WritingStages
<1> QED
  BY <1>4, <1>5, <1>6, <1>7, LocalInv DEF RowsKept

\* A payment that is replaced leaves the rest of its bill as it is.
LEMMA PaymentsType ==
  ASSUME IndInv, NEW b \in Bills, NEW p \in Seq(Contents),
         bill' = [bill EXCEPT ![b].payments = p]
  PROVE  bill' \in [Bills -> Rows] /\ RowsKept
<1> DEFINE row == [bill[b] EXCEPT !.payments = p]
<1>1. bill \in [Bills -> Rows] /\ bill[b] \in Rows
  BY DEF IndInv, TypeOK
<1>2. /\ row \in Rows /\ row.state = bill[b].state /\ row.number = bill[b].number
      /\ row.key = bill[b].key /\ row.content = bill[b].content
  BY <1>1 DEF Rows
<1>3. bill' = [bill EXCEPT ![b] = row]
  OBVIOUS
<1> HIDE DEF row
<1> QED
  BY <1>1, <1>2, <1>3 DEF RowsKept

\* The old payment of a draft that was not submitted is deleted.
LEMMA DetachedClearInv ==
  ASSUME IndInv, NEW h \in Handlers, DetachedClear(h), deadlocks' = deadlocks
  PROVE  IndInv'
<1>1. /\ StageOf(h) /\ pc[h] = "detached_clear" /\ req[h] \in Sales /\ req[h] \in Requests
      /\ target[h] \in Bills /\ Final(req[h]) /\ num[h] = 0
  BY Memory DEF DetachedClear, WritingStages, DetachedStages, StageOf
<1>2. bill' \in [Bills -> Rows] /\ RowsKept
  <2>1. <<>> \in Seq(Contents)
    OBVIOUS
  <2>2. bill' = [bill EXCEPT ![target[h]].payments = <<>>]
    BY DEF DetachedClear
  <2> QED
    BY <1>1, <2>1, <2>2, PaymentsType
<1>3. TypeOK'
  BY <1>2 DEF TypeOK, Stages, IndInv, DetachedClear, Go, locals
<1>4. /\ Local(h) /\ req'[h] = req[h] /\ seq' = seq
      /\ pc'[h] = "detached_pay" /\ num'[h] = 0 /\ target'[h] = target[h]
  BY <1>1 DEF Local, DetachedClear, Go, IndInv, TypeOK, locals
<1>5. StageOf(h)'
  BY <1>1, <1>4 DEF StageOf, InTransaction, WritingStages, DetachedStages, Final
<1>6. WorkOf(h)' /\ \A g \in Handlers \ {h} : Apart(g, h)'
  BY <1>1, <1>4 DEF WorkOf, Apart, InTransaction, WritingStages
<1> QED
  BY <1>2, <1>3, <1>4, <1>5, <1>6, LocalInv

\* The payment of a sale that is gone is refused or lands on the draft.
LEMMA DetachedPayInv ==
  ASSUME IndInv, NEW h \in Handlers, DetachedPay(h), deadlocks' = deadlocks
  PROVE  IndInv'
<1> DEFINE b == target[h]
           c == req[h].content
<1>1. /\ pc[h] = "detached_pay" /\ b \in Bills /\ c \in Contents
      /\ outbox' = outbox /\ seq' = seq
  BY Memory DEF DetachedPay, StageOf, DetachedStages, Sales
<1>2. Success(b) \in Replies /\ Failure("error") \in Replies
  BY <1>1 DEF Success, Failure, Replies
<1>3. CASE bill' = bill /\ (Answer(h, Success(b)) \/ Answer(h, Failure("error")))
  BY <1>1, <1>2, <1>3, RefuseInv DEF tables
<1>4. CASE /\ bill' = [bill EXCEPT ![b].payments = Append(@, c)]
           /\ Answer(h, Success(b))
  <2> DEFINE p == Append(bill[b].payments, c)
  <2>1. bill[b] \in Rows
    BY <1>1 DEF IndInv, TypeOK
  <2>2. bill[b].payments \in Seq(Contents)
    BY <2>1 DEF Rows
  <2>3. p \in Seq(Contents)
    BY <1>1, <2>2
  <2>4. bill' = [bill EXCEPT ![b].payments = p]
    BY <1>4
  <2> HIDE DEF p
  <2>5. bill' \in [Bills -> Rows] /\ RowsKept
    BY <1>1, <2>3, <2>4, PaymentsType
  <2> QED
    BY <1>1, <1>2, <1>4, <2>5, AnswerInv
<1> QED
  BY <1>3, <1>4 DEF DetachedPay

\* What a commit writes and what that does to the record and to the series.
LEMMA CommitEffect ==
  ASSUME IndInv, NEW h \in Handlers, Committing(h), Apply(h)
  PROVE  /\ target[h] \in Bills /\ req[h] \in Requests
         /\ bill' = [bill EXCEPT ![target[h]] = work[h]]
         /\ bill[target[h]].state # "final"
         /\ bill[target[h]].key = NoKey
         /\ \/ /\ Final(req[h]) /\ work[h].state = "final"
               /\ req[h] \in Sales /\ req[h].key \in Keys
               /\ work[h].key = req[h].key /\ work[h].content = req[h].content
               /\ work[h].number = num[h]
               /\ num[h] = seq[BranchOf[req[h].content]] + 1
               /\ seq' = [seq EXCEPT ![BranchOf[req[h].content]] = num[h]]
               /\ Recorded(req[h].key) = {}
            \/ /\ ~ Final(req[h]) /\ work[h].state # "final" /\ work[h].key = NoKey
               /\ seq' = seq
<1>1. /\ StageOf(h) /\ WorkOf(h) /\ num[h] \in Nat /\ target[h] \in Bills
      /\ req[h] \in Requests
  BY Memory DEF Committing, StageOf, InTransaction
<1>2. bill' = [bill EXCEPT ![target[h]] = work[h]]
  BY DEF Apply
<1>3. KeyIffFinal
  BY DEF IndInv
<1>4. CASE pc[h] = "commit" /\ Final(req[h])
  <2>1. req[h] \in Sales /\ req[h].key \in Keys /\ req[h].content \in Contents
    BY <1>1, <1>4 DEF StageOf, WritingStages, Sales, Final
  <2>2. num[h] = seq[BranchOf[req[h].content]] + 1
    BY <1>1, <1>4 DEF WorkOf, WritingStages
  <2>3. BranchOf[req[h].content] \in Branches /\ seq[BranchOf[req[h].content]] \in Nat
    BY <2>1 DEF IndInv, TypeOK
  <2>4. num[h] > 0
    BY <2>2, <2>3
  <2>5. seq' = [seq EXCEPT ![BranchOf[req[h].content]] = num[h]]
    BY <2>4 DEF Apply
  <2>6. bill[target[h]].state # "final" /\ bill[target[h]].key = NoKey
    BY <1>1, <1>3, <1>4 DEF WorkOf, WritingStages, KeyIffFinal
  <2> QED
    BY <1>1, <1>2, <1>4, <2>1, <2>2, <2>5, <2>6 DEF WorkOf
<1>5. CASE pc[h] = "commit" /\ ~ Final(req[h])
  <2>1. num[h] = 0
    BY <1>1, <1>5 DEF StageOf
  <2>2. bill[target[h]].state # "final" /\ bill[target[h]].key = NoKey
    BY <1>1, <1>3, <1>5 DEF WorkOf, WritingStages, KeyIffFinal
  <2> QED
    BY <1>1, <1>2, <1>5, <2>1, <2>2 DEF WorkOf, Apply, Final
<1>6. CASE pc[h] = "delete_commit"
  <2>1. ~ Final(req[h])
    BY <1>1, <1>6 DEF StageOf, Deletes, Final
  <2>2. num[h] = 0
    BY <1>1, <1>6 DEF StageOf, WritingStages
  <2>3. bill[target[h]].state = "draft" /\ work[h].state = "deleted"
        /\ work[h].key = bill[target[h]].key
    BY <1>1, <1>6 DEF WorkOf
  <2> QED
    BY <1>1, <1>2, <1>3, <2>1, <2>2, <2>3 DEF Apply, KeyIffFinal
<1> QED
  BY <1>4, <1>5, <1>6 DEF Committing

\* A commit enters at most the identity of its own request, and enters it once.
LEMMA CommitRecord ==
  ASSUME IndInv, NEW h \in Handlers, Committing(h), Apply(h)
  PROVE  /\ SoldOnce' /\ KeyIffFinal'
         /\ \A k : k # req[h].key => Recorded(k)' = Recorded(k)
         /\ \A k : k = req[h].key /\ Final(req[h]) => Recorded(k)' = {target[h]}
<1> DEFINE b == target[h]
<1>0. PICK k0 : k0 = req[h].key
  OBVIOUS
<1>1. /\ b \in Bills /\ bill' = [bill EXCEPT ![b] = work[h]]
      /\ bill[b].key = NoKey /\ bill \in [Bills -> Rows]
      /\ \/ Final(req[h]) /\ work[h].key = k0 /\ work[h].state = "final" /\ Recorded(k0) = {}
            /\ k0 \in Keys
         \/ ~ Final(req[h]) /\ work[h].key = NoKey /\ work[h].state # "final"
  BY <1>0, CommitEffect DEF IndInv, TypeOK
<1>2. bill'[b] = work[h] /\ \A a \in Bills \ {b} : bill'[a] = bill[a]
  BY <1>1
<1>3. ASSUME NEW k, k # k0 PROVE Recorded(k)' = Recorded(k)
  BY <1>1, <1>2, <1>3 DEF Recorded
<1>4. Final(req[h]) => Recorded(k0)' = {b}
  BY <1>0, <1>1, <1>2 DEF Recorded, Final
<1>5. KeyIffFinal'
  BY <1>1, <1>2 DEF IndInv, KeyIffFinal
<1>6. ASSUME NEW k \in Keys, NEW x \in Recorded(k)', NEW y \in Recorded(k)'
      PROVE  x = y
  <2>1. CASE k # k0
    BY <1>3, <1>6, <2>1 DEF IndInv, SoldOnce
  <2>2. CASE k = k0
    <3>1. Final(req[h])
      <4>1. CASE ~ Final(req[h])
        <5>1. k0 = NoKey
          BY <1>0, <4>1 DEF Final
        <5> QED
          BY <2>2, <5>1, NullsAssumption
      <4> QED
        BY <4>1
    <3>2. Recorded(k)' = {b}
      BY <1>4, <2>2, <3>1
    <3> QED
      BY <1>6, <3>2
  <2> QED
    BY <2>1, <2>2
<1>7. ASSUME NEW k \in Keys, NEW x \in Recorded(k)' PROVE bill'[x].state = "final"
  BY <1>5, <1>7 DEF Recorded, KeyIffFinal
<1>8. SoldOnce'
  BY <1>6, <1>7 DEF SoldOnce
<1> QED
  BY <1>0, <1>3, <1>4, <1>5, <1>8

\* A commit extends the series of its branch by the next number, or leaves it.
LEMMA CommitSeries ==
  ASSUME IndInv, NEW h \in Handlers, Committing(h), Apply(h)
  PROVE  NumbersGapless' /\ seq' \in [Branches -> Nat]
<1> DEFINE b == target[h]
           Numbers(branch) == {bill[a].number : a \in Issued(branch)}
<1>0. PICK home, n : home = BranchOf[req[h].content] /\ n = num[h]
  OBVIOUS
<1>1. /\ b \in Bills /\ bill' = [bill EXCEPT ![b] = work[h]]
      /\ bill[b].state # "final" /\ bill \in [Bills -> Rows]
      /\ seq \in [Branches -> Nat] /\ NumbersGapless
  BY CommitEffect DEF IndInv, TypeOK
<1>2. bill'[b] = work[h] /\ \A a \in Bills \ {b} : bill'[a] = bill[a]
  BY <1>1
<1>3. \A branch \in Branches : b \notin Issued(branch)
  BY <1>1 DEF Issued
<1>4. CASE ~ Final(req[h])
  <2>1. work[h].state # "final" /\ seq' = seq
    BY <1>4, CommitEffect
  <2>2. \A branch \in Branches : Issued(branch)' = Issued(branch)
    BY <1>1, <1>2, <2>1 DEF Issued
  <2>3. \A branch \in Branches : \A a \in Issued(branch) : bill'[a].number = bill[a].number
    BY <1>2, <1>3 DEF Issued
  <2>4. \A branch \in Branches : Numbers(branch)' = Numbers(branch)
    BY <2>2, <2>3
  <2> QED
    BY <1>1, <2>1, <2>2, <2>3, <2>4 DEF NumbersGapless
<1>5. CASE Final(req[h])
  <2>1. /\ req[h] \in Sales /\ n = seq[home] + 1 /\ seq' = [seq EXCEPT ![home] = n]
        /\ work[h].state = "final" /\ work[h].number = n
        /\ BranchOf[work[h].content] = home
    BY <1>0, <1>5, CommitEffect
  <2>2. home \in Branches /\ n \in Nat
    BY <1>0, <1>1, <2>1, ContentsAssumption DEF Sales
  <2>3. seq' \in [Branches -> Nat]
    BY <1>1, <2>1, <2>2
  <2>4. ASSUME NEW branch \in Branches \ {home}
        PROVE  /\ Numbers(branch)' = 1 .. seq'[branch]
               /\ \A x, y \in Issued(branch)' : bill'[x].number = bill'[y].number => x = y
    <3>1. Issued(branch)' = Issued(branch)
      BY <1>1, <1>2, <2>1 DEF Issued
    <3>2. \A a \in Issued(branch) : bill'[a].number = bill[a].number
      BY <1>2, <1>3 DEF Issued
    <3>3. seq'[branch] = seq[branch]
      BY <1>1, <2>1, <2>2
    <3>4. Numbers(branch)' = Numbers(branch)
      BY <3>1, <3>2
    <3> QED
      BY <1>1, <3>1, <3>2, <3>3, <3>4 DEF NumbersGapless
  <2>5. /\ Numbers(home)' = 1 .. seq'[home]
        /\ \A x, y \in Issued(home)' : bill'[x].number = bill'[y].number => x = y
    <3>1. Issued(home)' = Issued(home) \cup {b}
      BY <1>1, <1>2, <2>1 DEF Issued
    <3>2. \A a \in Issued(home) : bill'[a].number = bill[a].number
      BY <1>2, <1>3, <2>2 DEF Issued
    <3>3. bill'[b].number = n /\ seq'[home] = n
      BY <1>1, <1>2, <2>1, <2>2
    <3>4. Numbers(home)' = Numbers(home) \cup {n}
      BY <3>1, <3>2, <3>3
    <3>5. /\ Numbers(home) = 1 .. seq[home]
          /\ \A x, y \in Issued(home) : bill[x].number = bill[y].number => x = y
      BY <1>1, <2>2 DEF NumbersGapless
    <3>6. seq[home] \in Nat /\ 1 .. n = (1 .. seq[home]) \cup {n}
      BY <1>1, <2>1, <2>2
    <3>7. \A a \in Issued(home) : bill[a].number # n
      <4>1. n \notin 1 .. seq[home]
        BY <2>1, <3>6
      <4> QED
        BY <3>5, <4>1
    <3>8. Numbers(home)' = 1 .. seq'[home]
      BY <3>3, <3>4, <3>5, <3>6
    <3>9. \A x, y \in Issued(home)' : bill'[x].number = bill'[y].number => x = y
      BY <3>1, <3>2, <3>3, <3>5, <3>7
    <3> QED
      BY <3>8, <3>9
  <2> QED
    BY <2>3, <2>4, <2>5 DEF NumbersGapless
<1> QED
  BY <1>4, <1>5

\* A commit leaves true what the other open transactions have read.
LEMMA CommitInv ==
  ASSUME IndInv, NEW h \in Handlers, NEW a \in Replies, Committing(h), Apply(h),
         Answer(h, a), deadlocks' = deadlocks
  PROVE  IndInv'
<1> DEFINE b == target[h]
<1>1. /\ b \in Bills /\ bill' = [bill EXCEPT ![b] = work[h]] /\ req[h] \in Requests
      /\ \/ /\ Final(req[h]) /\ work[h].key = req[h].key /\ req[h].key \in Keys
            /\ req[h] \in Sales /\ num[h] = seq[BranchOf[req[h].content]] + 1
            /\ seq' = [seq EXCEPT ![BranchOf[req[h].content]] = num[h]]
         \/ ~ Final(req[h]) /\ seq' = seq /\ req[h].key = NoKey
  BY CommitEffect DEF Final
<1>2. SoldOnce' /\ KeyIffFinal' /\ \A k : k # req[h].key => Recorded(k)' = Recorded(k)
  BY CommitRecord
<1>3. NumbersGapless' /\ seq' \in [Branches -> Nat]
  BY CommitSeries
<1>4. Local(h) /\ pc'[h] = "answered" /\ num'[h] = 0 /\ req'[h] = req[h]
  BY DEF Local, Answer, IndInv, TypeOK
<1>5. TypeOK'
  <2>1. bill' \in [Bills -> Rows]
    BY <1>1 DEF IndInv, TypeOK
  <2>2. outbox' \in [Bills -> Seq(Keys)]
    <3>1. CASE ~ Final(req[h])
      BY <3>1 DEF Apply, IndInv, TypeOK
    <3>2. CASE Final(req[h])
      <4>1. req[h].key \in Keys
        BY <1>1, <3>2
      <4>2. outbox[b] \in Seq(Keys)
        BY <1>1 DEF IndInv, TypeOK
      <4>3. Append(outbox[b], req[h].key) \in Seq(Keys)
        BY <4>1, <4>2
      <4> QED
        BY <3>2, <4>3 DEF Apply, IndInv, TypeOK
    <3> QED
      BY <3>1, <3>2
  <2> QED
    BY <1>3, <2>1, <2>2, NoRowType DEF TypeOK, Stages, IndInv, Answer
<1>6. StageOf(h)' /\ WorkOf(h)' /\ \A g \in Handlers \ {h} : Apart(g, h)' /\ Apart(h, g)'
  BY <1>1, <1>4 DEF StageOf, WorkOf, Apart, InTransaction, WritingStages, DetachedStages
<1>7. ASSUME NEW g \in Handlers \ {h} PROVE StageOf(g)' /\ WorkOf(g)'
  <2>1. StageOf(g) /\ WorkOf(g) /\ Apart(g, h) /\ num[g] \in Nat
    BY Memory DEF IndInv, LockInv
  <2> DEFINE P == pc[g]
             R == req[g]
             T == target[g]
             W == work[g]
             N == num[g]
  <2>2. P' = P /\ R' = R /\ T' = T /\ W' = W /\ N' = N
    BY <1>4 DEF Local
  <2>3. StageOf(g)' = StageOf(g)
    BY <2>2 DEF StageOf, InTransaction
  <2>4. InTransaction(g) => bill'[T] = bill[T]
    <3>1. InTransaction(h)
      BY DEF Committing, InTransaction
    <3> QED
      BY <1>1, <2>1, <3>1 DEF Apart
  <2>5. P \in WritingStages \ {"number"} /\ Final(R) =>
          seq'[BranchOf[R.content]] = seq[BranchOf[R.content]]
    <3> SUFFICES ASSUME P \in WritingStages \ {"number"}, Final(R)
                 PROVE  seq'[BranchOf[R.content]] = seq[BranchOf[R.content]]
      OBVIOUS
    <3>1. R \in Sales /\ N = seq[BranchOf[R.content]] + 1
      BY <2>1 DEF StageOf, WorkOf, WritingStages
    <3>2. BranchOf[R.content] \in Branches /\ seq \in [Branches -> Nat]
      BY <3>1, ContentsAssumption DEF Sales, IndInv, TypeOK
    <3>3. N > 0
      BY <3>1, <3>2
    <3>4. CASE Final(req[h])
      <4>1. BranchOf[req[h].content] \in Branches
        BY <1>1, <3>4, ContentsAssumption DEF Sales, Final
      <4>2. num[h] > 0
        BY <1>1, <3>2, <3>4, <4>1 DEF Final
      <4>3. BranchOf[R.content] # BranchOf[req[h].content]
        BY <2>1, <3>3, <4>2 DEF Apart
      <4> QED
        BY <1>1, <3>2, <4>1, <4>3
    <3>5. CASE ~ Final(req[h])
      BY <1>1, <3>5
    <3> QED
      BY <3>4, <3>5
  <2>6. P \in {"complete", "commit"} => Recorded(req[g].key)' = {}
    <3> SUFFICES ASSUME P \in {"complete", "commit"} PROVE Recorded(req[g].key)' = {}
      OBVIOUS
    <3>1. Recorded(R.key) = {} /\ W.key = R.key
      BY <2>1 DEF WorkOf
    <3>2. CASE R.key = NoKey
      BY <2>2, <3>2 DEF Recorded
    <3>3. CASE R.key # NoKey
      <4>1. R.key # req[h].key
        <5>1. CASE pc[h] = "commit"
          <6>1. work[h].key = req[h].key
            BY <5>1, Memory DEF WorkOf
          <6> QED
            BY <2>1, <3>1, <3>3, <5>1, <6>1 DEF Apart
        <5>2. CASE pc[h] = "delete_commit"
          <6>1. req[h] \in Deletes
            BY <5>2, Memory DEF StageOf
          <6> QED
            BY <3>3, <6>1 DEF Deletes
        <5> QED
          BY <5>1, <5>2 DEF Committing
      <4>2. PICK k : k = R.key
        OBVIOUS
      <4>3. Recorded(k)' = {}
        BY <1>2, <3>1, <4>1, <4>2
      <4> QED
        BY <2>2, <4>2, <4>3
    <3> QED
      BY <3>2, <3>3
  <2>7. WorkOf(g)'
    <3>1. P \in WritingStages \cup {"delete_commit"} => bill'[T] = bill[T]
      BY <2>4 DEF InTransaction, WritingStages
    <3>2. P \in WritingStages => bill'[T].state # "final"
      BY <2>1, <3>1 DEF WorkOf
    <3>3. P = "delete_commit" => /\ bill'[T].state = "draft"
                                 /\ W.state = "deleted" /\ W.key = bill'[T].key
      BY <2>1, <3>1 DEF WorkOf
    <3>4. P \in WritingStages \ {"number"} /\ Final(R) => N = seq'[BranchOf[R.content]] + 1
      BY <2>1, <2>5 DEF WorkOf
    <3>5. P \in {"complete", "commit"} =>
            /\ W.state = IF Final(R) THEN "final" ELSE "draft"
            /\ W.number = N /\ W.key = R.key /\ W.content = R.content
      BY <2>1 DEF WorkOf
    <3> QED
      BY <2>2, <2>6, <3>2, <3>3, <3>4, <3>5 DEF WorkOf, Final
  <2> QED
    BY <2>1, <2>3, <2>7
<1>8. ASSUME NEW f \in Handlers \ {h}, NEW g \in Handlers \ {h}, f # g PROVE Apart(f, g)'
  BY <1>4, <1>8 DEF IndInv, LockInv, Apart, Local, InTransaction
<1>9. StageInv' /\ WorkInv' /\ LockInv'
  BY <1>6, <1>7, <1>8 DEF StageInv, WorkInv, LockInv
<1> QED
  BY <1>2, <1>3, <1>5, <1>9 DEF IndInv

\* Every step of the sale command preserves the inductive invariant.
LEMMA StepInv == IndInv /\ [Next]_vars => IndInv'
<1> SUFFICES ASSUME IndInv, [Next]_vars PROVE IndInv'
  OBVIOUS
<1>1. ASSUME NEW h \in Handlers, Call(h) PROVE IndInv'
  BY <1>1, ReceiveInv, DoneInv DEF Call
<1>2. ASSUME NEW h \in Handlers, Serve(h) PROVE IndInv'
  <2>1. deadlocks' = deadlocks
    BY <1>2 DEF Serve
  <2>2. CASE NoMoreBills(h)
    <3>1. Failure("error") \in Replies
      BY DEF Failure, Replies
    <3> QED
      BY <2>1, <2>2, <3>1, RefuseInv DEF NoMoreBills
  <2>3. CASE AnswerFinal(h)
    <3>1. LookedUp(req[h], "already_final") \in Replies
      BY LookedUpType
    <3> QED
      BY <2>1, <2>3, <3>1, RefuseInv DEF AnswerFinal
  <2>4. CASE AnswerLostRace(h)
    <3>1. LookedUp(req[h], "already_recorded") \in Replies
      BY LookedUpType
    <3> QED
      BY <2>1, <2>4, <3>1, RefuseInv DEF AnswerLostRace
  <2>5. CASE Commit(h)
    <3>1. target[h] \in Bills
      BY <2>5, CommitEffect DEF Commit
    <3>2. Success(target[h]) \in Replies
      BY <3>1 DEF Success, Replies
    <3> QED
      BY <2>1, <2>5, <3>2, CommitInv DEF Commit
  <2>6. CASE \E b \in Bills : CreateBill(h, b)
    BY <2>1, <2>6, CreateBillInv
  <2>7. CASE Lookup(h) \/ OpenDraft(h) \/ NumberSale(h) \/ UpdateBill(h) \/ LoseRace(h)
    BY <2>1, <2>7, LookupInv, OpenDraftInv, NumberSaleInv, UpdateBillInv, LoseRaceInv
  <2>8. CASE CompleteSale(h) \/ DeleteDraft(h) \/ DetachedEvent(h) \/ DetachedClear(h)
             \/ DetachedPay(h)
    BY <2>1, <2>8, CompleteSaleInv, DeleteDraftInv, DetachedEventInv, DetachedClearInv,
       DetachedPayInv
  <2> QED
    BY <1>2, <2>2, <2>3, <2>4, <2>5, <2>6, <2>7, <2>8 DEF Serve
<1>3. ASSUME NEW h \in Handlers, StockDeadlock(h) PROVE IndInv'
  BY <1>3, StockDeadlockInv
<1>4. ASSUME NEW h \in Handlers, Disturb(h) PROVE IndInv'
  <2>1. Failure("error") \in Replies
    BY DEF Failure, Replies
  <2>2. CASE CommitUnanswered(h)
    BY <1>4, <2>1, <2>2, CommitInv DEF Disturb, CommitUnanswered
  <2>3. CASE Abort(h)
    BY <1>4, <2>1, <2>3, RefuseInv DEF Disturb, Abort
  <2> QED
    BY <1>4, <2>2, <2>3 DEF Disturb
<1>5. CASE UNCHANGED vars
  <2>1. TypeOK'
    BY <1>5 DEF vars, IndInv, TypeOK
  <2>2. RowsKept /\ seq' = seq
    BY <1>5 DEF vars, RowsKept
  <2>3. NumbersGapless' /\ SoldOnce' /\ KeyIffFinal' /\ \A k : Recorded(k)' = Recorded(k)
    BY <2>2, TablesKept DEF IndInv
  <2>4. StageInv'
    BY <1>5 DEF vars, IndInv, StageInv, StageOf, InTransaction
  <2>5. WorkInv'
    BY <1>5 DEF vars, IndInv, WorkInv, WorkOf, Recorded
  <2>6. LockInv'
    BY <1>5 DEF vars, IndInv, LockInv, Apart, InTransaction
  <2> QED
    BY <2>1, <2>3, <2>4, <2>5, <2>6 DEF IndInv
<1> QED
  BY <1>1, <1>2, <1>3, <1>4, <1>5 DEF Next

\* The inductive invariant holds at every moment.
THEOREM Inductive == Spec => []IndInv
<1>1. Init => IndInv
  BY InitInv
<1>2. IndInv /\ [Next]_vars => IndInv'
  BY StepInv
<1> QED
  BY <1>1, <1>2, PTL DEF Spec

\* The tables and the handlers' memory keep their types.
THEOREM TypeCorrect == Spec => []TypeOK
<1>1. IndInv => TypeOK
  BY DEF IndInv
<1> QED
  BY <1>1, Inductive, PTL

\* The numbers of a branch have no gap and no double (allocateBillNumber).
THEOREM Gapless == Spec => []NumbersGapless
<1>1. IndInv => NumbersGapless
  BY DEF IndInv
<1> QED
  BY <1>1, Inductive, PTL

\* A request identity is recorded on one final bill (updateSaleBill).
THEOREM Once == Spec => []SoldOnce
<1>1. IndInv => SoldOnce
  BY DEF IndInv
<1> QED
  BY <1>1, Inductive, PTL
-----------------------------------------------------------------------------
(* How a step changes the tables and what it answers. *)

\* A step changes no bill row and no counter, or it commits a sale or a deletion.
LEMMA Moves ==
  ASSUME IndInv, [Next]_vars
  PROVE  \/ RowsKept /\ seq' = seq
         \/ \E h \in Handlers : Committing(h) /\ Apply(h)
<1>1. CASE bill' = bill /\ seq' = seq
  BY <1>1 DEF RowsKept
<1>2. ASSUME NEW h \in Handlers, DetachedClear(h) PROVE RowsKept /\ seq' = seq
  <2>1. target[h] \in Bills
    BY <1>2, Memory DEF DetachedClear, StageOf, DetachedStages
  <2>2. <<>> \in Seq(Contents)
    OBVIOUS
  <2>3. bill' = [bill EXCEPT ![target[h]].payments = <<>>] /\ seq' = seq
    BY <1>2 DEF DetachedClear
  <2> QED
    BY <2>1, <2>2, <2>3, PaymentsType
<1>3. ASSUME NEW h \in Handlers, DetachedPay(h) PROVE RowsKept /\ seq' = seq
  <2>1. target[h] \in Bills /\ req[h].content \in Contents
    BY <1>3, Memory DEF DetachedPay, StageOf, DetachedStages, Sales
  <2> DEFINE p == Append(bill[target[h]].payments, req[h].content)
  <2>2. bill[target[h]] \in Rows
    BY <2>1 DEF IndInv, TypeOK
  <2>3. bill[target[h]].payments \in Seq(Contents)
    BY <2>2 DEF Rows
  <2>4. p \in Seq(Contents)
    BY <2>1, <2>3
  <2>5. seq' = seq /\ (bill' = bill \/ bill' = [bill EXCEPT ![target[h]].payments = p])
    BY <1>3 DEF DetachedPay
  <2> HIDE DEF p
  <2> QED
    BY <2>1, <2>4, <2>5, PaymentsType DEF RowsKept
<1>4. ASSUME NEW h \in Handlers, Serve(h)
      PROVE  \/ bill' = bill /\ seq' = seq
             \/ DetachedClear(h) \/ DetachedPay(h)
             \/ Committing(h) /\ Apply(h)
  BY <1>4 DEF Serve, Lookup, CreateBill, NoMoreBills, OpenDraft, AnswerFinal, NumberSale,
     UpdateBill, LoseRace, AnswerLostRace, CompleteSale, DeleteDraft, DetachedEvent, Commit,
     tables
<1>5. ASSUME NEW h \in Handlers, Call(h) \/ StockDeadlock(h) \/ Disturb(h)
      PROVE  \/ bill' = bill /\ seq' = seq
             \/ Committing(h) /\ Apply(h)
  BY <1>5 DEF Call, Receive, Done, StockDeadlock, Disturb, Abort, CommitUnanswered, tables
<1>6. CASE UNCHANGED vars
  BY <1>1, <1>6 DEF vars
<1> QED
  BY <1>1, <1>2, <1>3, <1>4, <1>5, <1>6 DEF Next

\* A recorded sale stays recorded, with its content and its number.
LEMMA RecordKept ==
  ASSUME IndInv, [Next]_vars, NEW k, NEW b \in Recorded(k)
  PROVE  /\ b \in Recorded(k)' /\ b \in Bills
         /\ bill'[b].content = bill[b].content /\ bill'[b].number = bill[b].number
<1>1. b \in Bills /\ bill[b].key = k /\ k # NoKey /\ bill[b].state = "final"
  BY DEF Recorded, IndInv, KeyIffFinal
<1>2. CASE RowsKept
  BY <1>1, <1>2 DEF RowsKept, Recorded
<1>3. ASSUME NEW h \in Handlers, Committing(h), Apply(h) PROVE bill'[b] = bill[b]
  <2>1. bill[target[h]].state # "final" /\ bill' = [bill EXCEPT ![target[h]] = work[h]]
    BY <1>3, CommitEffect
  <2> QED
    BY <1>1, <2>1 DEF IndInv, TypeOK
<1> QED
  BY <1>1, <1>2, <1>3, Moves DEF Recorded

\* What answerRecordedRequest answers, with and without a record.
LEMMA LookedUpAnswer ==
  ASSUME NEW r, NEW kind
  PROVE  \/ Recorded(r.key) = {} /\ LookedUp(r, kind) = Failure(kind)
         \/ \E b \in Recorded(r.key) :
              /\ LookedUp(r, kind) = Success(b)
              /\ r.bill \in {NoBill, b} /\ bill[b].content = r.content
         \/ \E b \in Recorded(r.key) :
              /\ LookedUp(r, kind) = Failure("conflict")
              /\ r.bill \notin {NoBill, b} \/ bill[b].content # r.content
<1>1. CASE Recorded(r.key) = {}
  BY <1>1 DEF LookedUp
<1>2. CASE Recorded(r.key) # {}
  <2> DEFINE b == CHOOSE x \in Recorded(r.key) : TRUE
  <2>1. b \in Recorded(r.key) /\ LookedUp(r, kind) = RecordedAnswer(r, b)
    BY <1>2 DEF LookedUp
  <2> HIDE DEF b
  <2> QED
    BY <2>1 DEF RecordedAnswer
<1> QED
  BY <1>1, <1>2

\* Where a handler that answers stands afterwards.
LEMMA AnswerEffect ==
  ASSUME IndInv, NEW h \in Handlers, NEW a, Answer(h, a)
  PROVE  /\ pc'[h] = "answered" /\ reply'[h] = a /\ req'[h] = req[h]
         /\ \A g \in Handlers \ {h} : /\ pc'[g] = pc[g] /\ req'[g] = req[g]
                                      /\ target'[g] = target[g] /\ work'[g] = work[g]
                                      /\ reply'[g] = reply[g]
BY DEF Answer, IndInv, TypeOK

-----------------------------------------------------------------------------
(* The answers that are read from the record. *)

\* A handler that lost the race has a record to find, and a conflict is one.
AnswerOf(h) ==
  /\ reply[h].kind # "already_recorded"
  /\ pc[h] = "lost" => Recorded(req[h].key) # {}
  /\ pc[h] = "answered" /\ reply[h].kind = "conflict" =>
       \E b \in Recorded(req[h].key) :
         bill[b].content # req[h].content \/ req[h].bill \notin {NoBill, b}

\* The other handlers' answers stay true, whatever the step does to the record.
LEMMA OtherAnswers ==
  ASSUME IndInv, [Next]_vars, NEW g \in Handlers, AnswerOf(g),
         pc'[g] = pc[g], req'[g] = req[g], reply'[g] = reply[g]
  PROVE  AnswerOf(g)'
<1>1. PICK k, r : k = req[g].key /\ r = req[g]
  OBVIOUS
<1>2. \A b \in Recorded(k) : b \in Recorded(k)' /\ bill'[b].content = bill[b].content
  BY RecordKept
<1>3. Recorded(req[g].key)' = Recorded(k)'
  BY <1>1 DEF Recorded
<1>4. pc[g] = "lost" => Recorded(k)' # {}
  BY <1>1, <1>2 DEF AnswerOf
<1>5. pc[g] = "answered" /\ reply[g].kind = "conflict" =>
        \E b \in Recorded(k)' : bill'[b].content # r.content \/ r.bill \notin {NoBill, b}
  BY <1>1, <1>2 DEF AnswerOf
<1>6. req'[g] = r /\ reply'[g].kind # "already_recorded"
  BY <1>1 DEF AnswerOf
<1> QED
  BY <1>3, <1>4, <1>5, <1>6 DEF AnswerOf

\* Every step keeps what the handlers answered true of the record.
LEMMA AnswerStep ==
  ASSUME IndInv, [Next]_vars, \A h \in Handlers : AnswerOf(h)
  PROVE  \A h \in Handlers : AnswerOf(h)'
<1> DEFINE Others(h) == \A g \in Handlers \ {h} :
             pc'[g] = pc[g] /\ req'[g] = req[g] /\ reply'[g] = reply[g]
           Same(h) == /\ Others(h) /\ req'[h] = req[h] /\ reply'[h] = reply[h]
                      /\ pc'[h] \notin {"lost", "answered"}
           Plain(h, a) == Answer(h, a) /\ a.kind \notin {"already_recorded", "conflict"}
<1>1. ASSUME NEW h \in Handlers, Others(h), AnswerOf(h)' PROVE \A g \in Handlers : AnswerOf(g)'
  BY <1>1, OtherAnswers
<1>2. ASSUME NEW h \in Handlers, Same(h) PROVE \A g \in Handlers : AnswerOf(g)'
  <2>1. AnswerOf(h)'
    BY <1>2 DEF AnswerOf
  <2> QED
    BY <1>1, <1>2, <2>1
<1>3. ASSUME NEW h \in Handlers, NEW a, Plain(h, a) PROVE \A g \in Handlers : AnswerOf(g)'
  <2>1. Others(h) /\ pc'[h] = "answered" /\ reply'[h] = a
    BY <1>3, AnswerEffect
  <2>2. AnswerOf(h)'
    BY <1>3, <2>1 DEF AnswerOf
  <2> QED
    BY <1>1, <2>1, <2>2
<1>4. ASSUME NEW h \in Handlers, NEW kind \in {"none", "already_final", "already_recorded"},
             Answer(h, LookedUp(req[h], kind)), UNCHANGED tables,
             kind = "already_recorded" => Recorded(req[h].key) # {}
      PROVE  \A g \in Handlers : AnswerOf(g)'
  <2> DEFINE a == LookedUp(req[h], kind)
  <2>1. \/ a.kind \notin {"already_recorded", "conflict"}
        \/ /\ a.kind = "conflict"
           /\ \E b \in Recorded(req[h].key) :
                req[h].bill \notin {NoBill, b} \/ bill[b].content # req[h].content
    BY <1>4, LookedUpAnswer DEF Success, Failure
  <2>2. /\ Others(h) /\ pc'[h] = "answered" /\ reply'[h] = a /\ req'[h] = req[h]
        /\ bill' = bill
    BY <1>4, AnswerEffect DEF tables
  <2> HIDE DEF a
  <2>3. Recorded(req[h].key)' = Recorded(req[h].key)
    BY <2>2 DEF Recorded
  <2>4. AnswerOf(h)'
    BY <2>1, <2>2, <2>3 DEF AnswerOf
  <2> QED
    BY <1>1, <2>2, <2>4
<1>5. ASSUME NEW h \in Handlers, Call(h) \/ StockDeadlock(h) \/ Disturb(h)
      PROVE  \A g \in Handlers : AnswerOf(g)'
  <2>1. CASE Abort(h) \/ CommitUnanswered(h)
    BY <1>3, <2>1 DEF Abort, CommitUnanswered, Failure
  <2>2. CASE StockDeadlock(h) \/ \E r \in Requests : Receive(h, r)
    <3>1. Others(h) /\ reply'[h] = reply[h] /\ pc'[h] \notin {"lost", "answered"}
      BY <2>2 DEF StockDeadlock, Receive, Go, IndInv, TypeOK
    <3>2. AnswerOf(h)'
      BY <3>1 DEF AnswerOf
    <3> QED
      BY <1>1, <3>1, <3>2
  <2>3. CASE Done(h)
    <3>1. Others(h) /\ reply'[h] = NoReply /\ pc'[h] = "idle"
      BY <2>3 DEF Done, Go, IndInv, TypeOK
    <3>2. AnswerOf(h)'
      BY <3>1 DEF AnswerOf, NoReply, Failure
    <3> QED
      BY <1>1, <3>1, <3>2
  <2> QED
    BY <1>5, <2>1, <2>2, <2>3 DEF Call, Disturb
<1>6. ASSUME NEW h \in Handlers, Serve(h) PROVE \A g \in Handlers : AnswerOf(g)'
  <2>1. CASE Lookup(h) /\ Recorded(req[h].key) # {}
    BY <1>4, <2>1 DEF Lookup
  <2>2. CASE AnswerFinal(h)
    BY <1>4, <2>2 DEF AnswerFinal
  <2>3. CASE AnswerLostRace(h)
    <3>1. Recorded(req[h].key) # {}
      BY <2>3 DEF AnswerLostRace, AnswerOf
    <3> QED
      BY <1>4, <2>3, <3>1 DEF AnswerLostRace
  <2>4. CASE LoseRace(h)
    <3>1. /\ Others(h) /\ reply'[h] = reply[h] /\ req'[h] = req[h] /\ pc'[h] = "lost"
          /\ bill' = bill
      BY <2>4 DEF LoseRace, Go, tables, IndInv, TypeOK
    <3>2. Recorded(req[h].key) # {}
      BY <2>4 DEF LoseRace, Duplicate
    <3>3. Recorded(req[h].key)' = Recorded(req[h].key)
      BY <3>1 DEF Recorded
    <3>4. AnswerOf(h)'
      BY <3>1, <3>2, <3>3 DEF AnswerOf
    <3> QED
      BY <1>1, <3>1, <3>4
  <2>5. CASE \/ NoMoreBills(h) \/ Commit(h)
    BY <1>3, <2>5 DEF NoMoreBills, Commit, Failure, Success
  <2>6. CASE \/ Lookup(h) /\ Recorded(req[h].key) = {}
             \/ (\E b \in Bills : CreateBill(h, b)) \/ NumberSale(h) \/ UpdateBill(h)
             \/ CompleteSale(h) \/ DetachedEvent(h) \/ DetachedClear(h)
    <3>1. Same(h)
      BY <2>6 DEF Lookup, CreateBill, NumberSale, UpdateBill, CompleteSale, DetachedEvent,
         DetachedClear, Go, locals, IndInv, TypeOK
    <3> QED
      BY <1>2, <3>1
  <2>7. CASE DetachedPay(h)
    BY <1>3, <2>7 DEF DetachedPay, Success, Failure
  <2>8. CASE OpenDraft(h) \/ DeleteDraft(h)
    <3>1. \/ Same(h)
          \/ \E kind \in {"not_found", "refused"} : Answer(h, Failure(kind))
      BY <2>8 DEF OpenDraft, DeleteDraft, Go, locals, IndInv, TypeOK
    <3> QED
      BY <1>2, <1>3, <3>1 DEF Failure
  <2> QED
    BY <1>6, <2>1, <2>2, <2>3, <2>4, <2>5, <2>6, <2>7, <2>8 DEF Serve
<1>7. CASE UNCHANGED vars
  BY <1>7, OtherAnswers DEF vars
<1> QED
  BY <1>5, <1>6, <1>7 DEF Next

\* The answers hold at every moment.
LEMMA AnswersHold == Spec => [](\A h \in Handlers : AnswerOf(h))
<1>1. Init => \A h \in Handlers : AnswerOf(h)
  BY DEF Init, AnswerOf, NoReply, Failure
<1>2. IndInv /\ (\A h \in Handlers : AnswerOf(h)) /\ [Next]_vars
        => (\A h \in Handlers : AnswerOf(h))'
  BY AnswerStep
<1> QED
  BY <1>1, <1>2, Inductive, PTL DEF Spec

\* The sale that lost the race for its identity finds the record it lost to: the
\* identity was committed, and no later request takes it away (answerLostRace).
THEOREM LoserFindsRecord == Spec => []LostRaceFindsRecord
<1>1. (\A h \in Handlers : AnswerOf(h)) => LostRaceFindsRecord
  BY DEF AnswerOf, LostRaceFindsRecord
<1> QED
  BY <1>1, AnswersHold, PTL

\* A conflict is answered only to a request whose identity is recorded with another
\* content or on another bill (answerRecordedRequest).
THEOREM ConflictsAreReal == Spec => []ConflictIsReal
<1>1. (\A h \in Handlers : AnswerOf(h)) => ConflictIsReal
  BY DEF AnswerOf, ConflictIsReal
<1> QED
  BY <1>1, AnswersHold, PTL
-----------------------------------------------------------------------------
(* Sales whose transaction is never lost on a product. *)

\* What hangs from a row belongs to the row's content, and hangs there once.
WholeRow(row) ==
  /\ row.lines = <<row.content>>
  /\ row.payments = IF Paid[row.content] THEN <<row.content>> ELSE <<>>

\* A bill that exists is whole, and its event is there exactly when it is final.
BillOf(b) ==
  /\ bill[b].state # "none" => WholeRow(bill[b])
  /\ outbox[b] = IF bill[b].state = "final" THEN <<bill[b].key>> ELSE <<>>

\* A sale is written to the bill it names, whole, and its success is in the record.
SaleOf(h) ==
  /\ pc[h] \notin DetachedStages
  /\ pc[h] \in WritingStages => req[h].bill \in {NoBill, target[h]}
  /\ pc[h] \in WritingStages \ {"commit"} /\ req[h].op = "new" =>
       work[h].lines = <<>> /\ work[h].payments = <<>>
  /\ Committing(h) => WholeRow(work[h])
  /\ pc[h] = "answered" /\ reply[h].kind = "success" /\ Final(req[h]) =>
       LET b == reply[h].bill
       IN  /\ b \in Recorded(req[h].key)
           /\ bill[b].content = req[h].content
           /\ req[h].bill \in {NoBill, b}

SaleInv == (\A b \in Bills : BillOf(b)) /\ (\A h \in Handlers : SaleOf(h))

\* No transaction is lost: a step changes the bills and the events only by a commit.
LEMMA OnlyCommitsWrite ==
  ASSUME MaxDeadlocks = 0, IndInv, SaleInv, [Next]_vars
  PROVE  \/ bill' = bill /\ outbox' = outbox
         \/ \E h \in Handlers : Committing(h) /\ Apply(h)
<1>1. ASSUME NEW h \in Handlers, StockDeadlock(h) PROVE FALSE
  BY <1>1 DEF StockDeadlock, IndInv, TypeOK
<1>2. ASSUME NEW h \in Handlers, Serve(h)
      PROVE  \/ bill' = bill /\ outbox' = outbox
             \/ Committing(h) /\ Apply(h)
  <2>1. ~ DetachedEvent(h) /\ ~ DetachedClear(h) /\ ~ DetachedPay(h)
    BY DEF SaleInv, SaleOf, DetachedStages, DetachedEvent, DetachedClear, DetachedPay
  <2> QED
    BY <1>2, <2>1 DEF Serve, Lookup, CreateBill, NoMoreBills, OpenDraft, AnswerFinal,
       NumberSale, UpdateBill, LoseRace, AnswerLostRace, CompleteSale, DeleteDraft, Commit,
       tables
<1>3. ASSUME NEW h \in Handlers, Call(h) \/ Disturb(h)
      PROVE  \/ bill' = bill /\ outbox' = outbox
             \/ Committing(h) /\ Apply(h)
  BY <1>3 DEF Call, Receive, Done, Disturb, Abort, CommitUnanswered, tables
<1>4. CASE UNCHANGED vars
  BY <1>4 DEF vars
<1> QED
  BY <1>1, <1>2, <1>3, <1>4 DEF Next

\* What a commit does to its own bill and its events, and that it leaves the others.
LEMMA CommitBill ==
  ASSUME IndInv, NEW h \in Handlers, Committing(h), Apply(h)
  PROVE  /\ target[h] \in Bills /\ bill'[target[h]] = work[h]
         /\ outbox'[target[h]] = IF Final(req[h]) THEN Append(outbox[target[h]], req[h].key)
                                 ELSE outbox[target[h]]
         /\ bill[target[h]].state # "final"
         /\ work[h].state = "final" <=> Final(req[h])
         /\ Final(req[h]) => work[h].key = req[h].key /\ work[h].content = req[h].content
         /\ \A b \in Bills \ {target[h]} : bill'[b] = bill[b] /\ outbox'[b] = outbox[b]
<1>1. bill \in [Bills -> Rows] /\ outbox \in [Bills -> Seq(Keys)]
  BY DEF IndInv, TypeOK
<1> QED
  BY <1>1, CommitEffect DEF Apply

\* The bills stay whole, and their events stay with the final ones.
LEMMA BillStep ==
  ASSUME MaxDeadlocks = 0, IndInv, SaleInv, [Next]_vars
  PROVE  \A b \in Bills : BillOf(b)'
<1>1. CASE bill' = bill /\ outbox' = outbox
  BY <1>1 DEF SaleInv, BillOf, WholeRow
<1>2. ASSUME NEW h \in Handlers, Committing(h), Apply(h), NEW b \in Bills
      PROVE  BillOf(b)'
  <2>1. CASE b # target[h]
    BY <1>2, <2>1, CommitBill DEF SaleInv, BillOf, WholeRow
  <2>2. CASE b = target[h]
    <3>1. WholeRow(bill'[b])
      BY <1>2, <2>2, CommitBill DEF SaleInv, SaleOf
    <3>2. outbox[b] = <<>>
      BY <1>2, <2>2, CommitBill DEF SaleInv, BillOf
    <3>3. outbox'[b] = IF bill'[b].state = "final" THEN <<bill'[b].key>> ELSE <<>>
      <4>1. \A k : Append(<<>>, k) = <<k>>
        OBVIOUS
      <4>2. CASE Final(req[h])
        <5>1. bill'[b].state = "final" /\ bill'[b].key = req[h].key
          BY <1>2, <2>2, <4>2, CommitBill
        <5>2. outbox'[target[h]] = Append(outbox[target[h]], req[h].key)
          BY <1>2, <4>2, CommitBill
        <5>3. outbox'[b] = Append(<<>>, req[h].key)
          BY <2>2, <3>2, <5>2
        <5> QED
          BY <4>1, <5>1, <5>3
      <4>3. CASE ~ Final(req[h])
        BY <1>2, <2>2, <3>2, <4>3, CommitBill
      <4> QED
        BY <4>2, <4>3
    <3> QED
      BY <3>1, <3>3 DEF BillOf, WholeRow
  <2> QED
    BY <2>1, <2>2
<1> QED
  BY <1>1, <1>2, OnlyCommitsWrite

\* What the record says of another handler's success stays true.
LEMMA OtherSales ==
  ASSUME IndInv, [Next]_vars, NEW g \in Handlers, SaleOf(g),
         pc'[g] = pc[g], req'[g] = req[g], reply'[g] = reply[g],
         target'[g] = target[g], work'[g] = work[g]
  PROVE  SaleOf(g)'
<1>1. PICK k, r, a : k = req[g].key /\ r = req[g] /\ a = reply[g]
  OBVIOUS
<1>2. \A b \in Recorded(k) : b \in Recorded(k)' /\ bill'[b].content = bill[b].content
  BY RecordKept
<1>3. Recorded(req[g].key)' = Recorded(k)'
  BY <1>1 DEF Recorded
<1>4. pc[g] = "answered" /\ a.kind = "success" /\ Final(r) =>
        a.bill \in Recorded(k)' /\ bill'[a.bill].content = r.content
        /\ r.bill \in {NoBill, a.bill}
  BY <1>1, <1>2 DEF SaleOf
<1>5. /\ pc'[g] \notin DetachedStages
      /\ pc'[g] \in WritingStages => req'[g].bill \in {NoBill, target'[g]}
      /\ pc'[g] \in WritingStages \ {"commit"} /\ req'[g].op = "new" =>
           work'[g].lines = <<>> /\ work'[g].payments = <<>>
      /\ Committing(g)' => WholeRow(work[g])'
  BY DEF SaleOf, Committing, WholeRow
<1> QED
  BY <1>1, <1>3, <1>4, <1>5 DEF SaleOf, Final
\* A new row has nothing hanging from it, and finishSale hangs the sale from it once.
LEMMA CompletedWhole ==
  ASSUME NEW row \in Rows, NEW r \in Sales, row.content = r.content,
         r.op = "new" => row.lines = <<>> /\ row.payments = <<>>
  PROVE  WholeRow(Completed(row, r))
<1> DEFINE old == IF r.op = "submit" THEN [row EXCEPT !.lines = <<>>, !.payments = <<>>]
                  ELSE row
           lines == Append(old.lines, r.content)
           payments == IF Paid[r.content] THEN Append(old.payments, r.content)
                       ELSE old.payments
<1>1. old \in Rows /\ old.lines = <<>> /\ old.payments = <<>> /\ old.content = r.content
  <2>1. CASE r.op = "submit"
    <3>1. <<>> \in Seq(Contents)
      OBVIOUS
    <3> QED
      BY <2>1, <3>1 DEF Rows
  <2>2. CASE r.op = "new"
    BY <2>2
  <2> QED
    BY <2>1, <2>2 DEF Sales
<1>2. \A c : Append(<<>>, c) = <<c>>
  OBVIOUS
<1>3. /\ lines = <<r.content>>
      /\ payments = IF Paid[r.content] THEN <<r.content>> ELSE <<>>
  <2>1. /\ lines = Append(<<>>, r.content)
        /\ payments = IF Paid[r.content] THEN Append(<<>>, r.content) ELSE <<>>
    <3> HIDE DEF old
    <3> QED
      BY <1>1
  <2> HIDE DEF lines, payments
  <2> QED
    BY <1>2, <2>1
<1>4. Completed(row, r) = [old EXCEPT !.lines = lines, !.payments = payments]
  BY DEF Completed
<1> HIDE DEF old, lines, payments
<1> QED
  BY <1>1, <1>3, <1>4 DEF WholeRow, Rows

\* Every step keeps what is said of the handlers.
LEMMA SaleStep ==
  ASSUME MaxDeadlocks = 0, IndInv, SaleInv, [Next]_vars
  PROVE  \A h \in Handlers : SaleOf(h)'
<1> DEFINE Others(h) == \A g \in Handlers \ {h} :
             /\ pc'[g] = pc[g] /\ req'[g] = req[g] /\ target'[g] = target[g]
             /\ work'[g] = work[g] /\ reply'[g] = reply[g]
<1>1. ASSUME NEW h \in Handlers, Others(h), SaleOf(h)' PROVE \A g \in Handlers : SaleOf(g)'
  BY <1>1, OtherSales DEF SaleInv
<1>2. ASSUME NEW h \in Handlers, Others(h),
             pc'[h] \in {"idle", "lookup", "open", "final", "lost", "delete"}
      PROVE  \A g \in Handlers : SaleOf(g)'
  <2>1. SaleOf(h)'
    BY <1>2 DEF SaleOf, WritingStages, DetachedStages, Committing
  <2> QED
    BY <1>1, <1>2, <2>1
<1>3. ASSUME NEW h \in Handlers, NEW a, Answer(h, a), a.kind # "success" \/ ~ Final(req[h])
      PROVE  \A g \in Handlers : SaleOf(g)'
  <2>1. Others(h) /\ pc'[h] = "answered" /\ reply'[h] = a /\ req'[h] = req[h]
    BY <1>3, AnswerEffect
  <2>2. SaleOf(h)'
    BY <1>3, <2>1 DEF SaleOf, WritingStages, DetachedStages, Committing, Final
  <2> QED
    BY <1>1, <2>1, <2>2
<1>4. ASSUME NEW h \in Handlers, NEW kind \in {"none", "already_final", "already_recorded"},
             Answer(h, LookedUp(req[h], kind)), UNCHANGED tables
      PROVE  \A g \in Handlers : SaleOf(g)'
  <2> DEFINE a == LookedUp(req[h], kind)
  <2>1. \/ a.kind # "success"
        \/ /\ a.bill \in Recorded(req[h].key)
           /\ bill[a.bill].content = req[h].content /\ req[h].bill \in {NoBill, a.bill}
    BY LookedUpAnswer DEF Success, Failure
  <2>2. /\ Others(h) /\ pc'[h] = "answered" /\ reply'[h] = a /\ req'[h] = req[h]
        /\ bill' = bill
    BY <1>4, AnswerEffect DEF tables
  <2> HIDE DEF a
  <2>3. Recorded(req[h].key)' = Recorded(req[h].key)
    BY <2>2 DEF Recorded
  <2>4. SaleOf(h)'
    BY <2>1, <2>2, <2>3 DEF SaleOf, WritingStages, DetachedStages, Committing, Final
  <2> QED
    BY <1>1, <2>2, <2>4
<1>5. ASSUME NEW h \in Handlers, Committing(h), Apply(h), Answer(h, Success(target[h]))
      PROVE  \A g \in Handlers : SaleOf(g)'
  <2>1. CASE ~ Final(req[h])
    BY <1>3, <1>5, <2>1
  <2>2. CASE Final(req[h])
    <3> DEFINE b == target[h]
    <3>1. /\ Others(h) /\ pc'[h] = "answered" /\ reply'[h] = Success(b)
          /\ req'[h] = req[h]
      BY <1>5, AnswerEffect
    <3>2. pc[h] = "commit" /\ req[h].bill \in {NoBill, b}
      BY <1>5, <2>2, Memory DEF Committing, StageOf, Deletes, Final, SaleInv, SaleOf,
         WritingStages
    <3>3. b \in Bills /\ bill'[b].key = req[h].key /\ bill'[b].content = req[h].content
      BY <1>5, <2>2, CommitBill
    <3>4. b \in Recorded(req[h].key)'
      BY <2>2, <3>1, <3>3 DEF Recorded, Final
    <3>5. SaleOf(h)'
      BY <3>1, <3>2, <3>3, <3>4
         DEF SaleOf, WritingStages, DetachedStages, Committing, Final, Success
    <3> QED
      BY <1>1, <3>1, <3>5
  <2> QED
    BY <2>1, <2>2
<1>6. ASSUME NEW h \in Handlers, Call(h) \/ StockDeadlock(h) \/ Disturb(h)
      PROVE  \A g \in Handlers : SaleOf(g)'
  <2>1. CASE Abort(h) \/ CommitUnanswered(h)
    BY <1>3, <2>1 DEF Abort, CommitUnanswered, Failure
  <2>2. CASE (\E r \in Requests : Receive(h, r)) \/ Done(h)
    <3>1. Others(h) /\ pc'[h] \in {"idle", "lookup", "open", "delete"}
      BY <2>2 DEF Receive, Done, Go, IndInv, TypeOK
    <3> QED
      BY <1>2, <3>1
  <2>3. ~ StockDeadlock(h)
    BY DEF StockDeadlock, IndInv, TypeOK
  <2> QED
    BY <1>6, <2>1, <2>2, <2>3 DEF Call, Disturb
<1>7. ASSUME NEW h \in Handlers, Serve(h) PROVE \A g \in Handlers : SaleOf(g)'
  <2>1. StageOf(h) /\ WorkOf(h) /\ work[h] \in Rows /\ SaleOf(h)
    BY Memory DEF SaleInv
  <2>2. CASE Lookup(h) \/ AnswerFinal(h) \/ AnswerLostRace(h) \/ LoseRace(h)
    <3>1. \/ Others(h) /\ pc'[h] \in {"open", "lost"}
          \/ \E kind \in {"none", "already_final", "already_recorded"} :
               Answer(h, LookedUp(req[h], kind)) /\ UNCHANGED tables
      BY <2>2 DEF Lookup, AnswerFinal, AnswerLostRace, LoseRace, Go, locals, IndInv, TypeOK
    <3> QED
      BY <1>2, <1>4, <3>1
  <2>3. CASE NoMoreBills(h) \/ Commit(h)
    BY <1>3, <1>5, <2>3 DEF NoMoreBills, Commit, Failure
  <2>4. CASE \E b \in Bills : CreateBill(h, b)
    <3> PICK b \in Bills : CreateBill(h, b)
      BY <2>4
    <3> DEFINE row == [NoRow EXCEPT !.state = "draft"]
    <3>1. row.lines = <<>> /\ row.payments = <<>>
      BY DEF NoRow
    <3> HIDE DEF row
    <3>2. /\ Others(h) /\ pc'[h] = "number" /\ target'[h] = b /\ req'[h] = req[h]
          /\ work'[h] = row
      BY DEF row, CreateBill, Go, IndInv, TypeOK
    <3>3. req[h].bill = NoBill
      BY <2>1 DEF CreateBill, StageOf, Sales
    <3>4. SaleOf(h)'
      BY <3>1, <3>2, <3>3 DEF SaleOf, WritingStages, DetachedStages, Committing
    <3> QED
      BY <1>1, <3>2, <3>4
  <2>5. CASE OpenDraft(h)
    <3>1. CASE Answer(h, Failure("not_found"))
      BY <1>3, <3>1 DEF Failure
    <3>2. CASE Others(h) /\ pc'[h] = "final"
      BY <1>2, <3>2
    <3>3. CASE /\ Others(h) /\ pc'[h] = "number" /\ target'[h] = req[h].bill
               /\ req'[h] = req[h] /\ req[h].op = "submit"
      <4>1. SaleOf(h)'
        BY <3>3 DEF SaleOf, WritingStages, DetachedStages, Committing
      <4> QED
        BY <1>1, <3>3, <4>1
    <3> QED
      BY <2>5, <3>1, <3>2, <3>3 DEF OpenDraft, Go, IndInv, TypeOK
  <2>6. CASE NumberSale(h)
    <3>1. /\ Others(h) /\ pc'[h] = "update" /\ pc[h] = "number"
          /\ req'[h] = req[h] /\ target'[h] = target[h] /\ work'[h] = work[h]
      BY <2>6 DEF NumberSale, Go, IndInv, TypeOK
    <3>2. SaleOf(h)'
      BY <2>1, <3>1 DEF SaleOf, WritingStages, DetachedStages, Committing
    <3> QED
      BY <1>1, <3>1, <3>2
  <2>7. CASE UpdateBill(h)
    <3> DEFINE row == Written(work[h], req[h], num[h])
    <3>1. row.lines = work[h].lines /\ row.payments = work[h].payments
      BY <2>1 DEF Written, Rows
    <3> HIDE DEF row
    <3>2. /\ Others(h) /\ pc'[h] = "complete" /\ pc[h] = "update"
          /\ req'[h] = req[h] /\ target'[h] = target[h] /\ work'[h] = row
      BY <2>7 DEF row, UpdateBill, Go, IndInv, TypeOK
    <3>3. SaleOf(h)'
      BY <2>1, <3>1, <3>2 DEF SaleOf, WritingStages, DetachedStages, Committing
    <3> QED
      BY <1>1, <3>2, <3>3
  <2>8. CASE CompleteSale(h)
    <3> DEFINE row == Completed(work[h], req[h])
    <3>1. req[h] \in Sales /\ work[h].content = req[h].content /\ pc[h] = "complete"
      BY <2>1, <2>8 DEF CompleteSale, StageOf, WorkOf, WritingStages
    <3>2. WholeRow(row)
      BY <2>1, <3>1, CompletedWhole DEF SaleOf, WritingStages
    <3> HIDE DEF row
    <3>3. /\ Others(h) /\ pc'[h] = "commit"
          /\ req'[h] = req[h] /\ target'[h] = target[h] /\ work'[h] = row
      BY <2>8 DEF row, CompleteSale, Go, IndInv, TypeOK
    <3>4. SaleOf(h)'
      BY <2>1, <3>1, <3>2, <3>3
         DEF SaleOf, WritingStages, DetachedStages, Committing, WholeRow
    <3> QED
      BY <1>1, <3>3, <3>4
  <2>9. CASE DeleteDraft(h)
    <3> DEFINE b == req[h].bill
               row == [bill[b] EXCEPT !.state = "deleted"]
    <3>1. CASE \E kind \in {"not_found", "refused"} : Answer(h, Failure(kind))
      BY <1>3, <3>1 DEF Failure
    <3>2. CASE /\ bill[b].state = "draft" /\ work' = [work EXCEPT ![h] = row]
               /\ target' = [target EXCEPT ![h] = b]
               /\ Go(h, "delete_commit") /\ UNCHANGED <<req, num, reply>>
      <4>1. b \in Bills /\ bill[b] \in Rows
        BY <2>1, <2>9 DEF DeleteDraft, StageOf, Deletes, IndInv, TypeOK
      <4>2. WholeRow(row)
        BY <3>2, <4>1 DEF SaleInv, BillOf, WholeRow, Rows
      <4> HIDE DEF row
      <4>3. Others(h) /\ pc'[h] = "delete_commit" /\ work'[h] = row
        BY <3>2 DEF Go, IndInv, TypeOK
      <4>4. SaleOf(h)'
        BY <4>2, <4>3 DEF SaleOf, WritingStages, DetachedStages, Committing, WholeRow
      <4> QED
        BY <1>1, <4>3, <4>4
    <3> QED
      BY <2>9, <3>1, <3>2 DEF DeleteDraft
  <2>10. ~ DetachedEvent(h) /\ ~ DetachedClear(h) /\ ~ DetachedPay(h)
    BY <2>1 DEF SaleOf, DetachedStages, DetachedEvent, DetachedClear, DetachedPay
  <2> QED
    BY <1>7, <2>2, <2>3, <2>4, <2>5, <2>6, <2>7, <2>8, <2>9, <2>10 DEF Serve
<1>8. CASE UNCHANGED vars
  BY <1>8, OtherSales DEF vars, SaleInv
<1> QED
  BY <1>6, <1>7, <1>8 DEF Next
\* Sales are whole, and successes recorded, at every moment.
LEMMA SalesHold ==
  ASSUME MaxDeadlocks = 0
  PROVE  Spec => []SaleInv
<1>1. Init => SaleInv
  BY DEF Init, SaleInv, BillOf, SaleOf, NoRow, NoReply, Failure, DetachedStages,
     WritingStages, Committing
<1>2. IndInv /\ SaleInv /\ [Next]_vars => SaleInv'
  <2> SUFFICES ASSUME IndInv, SaleInv, [Next]_vars PROVE SaleInv'
    OBVIOUS
  <2>1. (\A b \in Bills : BillOf(b))'
    BY BillStep
  <2>2. (\A h \in Handlers : SaleOf(h))'
    BY SaleStep
  <2> QED
    BY <2>1, <2>2 DEF SaleInv
<1> QED
  BY <1>1, <1>2, Inductive, PTL DEF Spec

\* What hangs from a bill is that of its last request, once (finishSale).
THEOREM Whole ==
  ASSUME MaxDeadlocks = 0
  PROVE  Spec => []WrittenWhole
<1>1. SaleInv => WrittenWhole
  BY DEF SaleInv, BillOf, WholeRow, WrittenWhole
<1> QED
  BY <1>1, SalesHold, PTL

\* An event exists exactly for a final sale, once (queueSaleEvent).
THEOREM EventWithSale ==
  ASSUME MaxDeadlocks = 0
  PROVE  Spec => []EventIffSale
<1>1. SaleInv => EventIffSale
  BY DEF SaleInv, BillOf, EventIffSale
<1> QED
  BY <1>1, SalesHold, PTL

\* A final sale that succeeded is in the tables, as it was sent and on one bill.
THEOREM SuccessRecorded ==
  ASSUME MaxDeadlocks = 0
  PROVE  Spec => []SuccessIsRecorded
<1>1. IndInv /\ SaleInv => SuccessIsRecorded
  <2> SUFFICES ASSUME IndInv, SaleInv, NEW h \in Handlers, pc[h] = "answered",
                      reply[h].kind = "success", Final(req[h])
               PROVE  /\ Recorded(req[h].key) = {reply[h].bill}
                      /\ bill[reply[h].bill].content = req[h].content
                      /\ req[h].bill \in {NoBill, reply[h].bill}
    BY DEF SuccessIsRecorded
  <2> DEFINE b == reply[h].bill
             k == req[h].key
  <2>1. /\ b \in Recorded(k) /\ bill[b].content = req[h].content
        /\ req[h].bill \in {NoBill, b}
    BY DEF SaleInv, SaleOf
  <2>2. k \in Keys
    <3>1. b \in Bills /\ bill[b].key = k /\ k # NoKey
      BY <2>1 DEF Recorded
    <3>2. bill[b] \in Rows
      BY <3>1 DEF IndInv, TypeOK
    <3> QED
      BY <3>1, <3>2 DEF Rows
  <2>3. \A a \in Recorded(k) : a = b
    BY <2>1, <2>2 DEF IndInv, SoldOnce
  <2> QED
    BY <2>1, <2>3
<1> QED
  BY <1>1, SalesHold, Inductive, PTL

\* No request changes a final sale, its lines, its payment or its event again.
THEOREM Immutable ==
  ASSUME MaxDeadlocks = 0
  PROVE  Spec => FinalIsImmutable
<1> DEFINE Kept == \A b \in Bills : bill[b].state = "final" =>
                     bill'[b] = bill[b] /\ outbox'[b] = outbox[b]
<1>1. IndInv /\ SaleInv /\ [Next]_vars => Kept
  <2> SUFFICES ASSUME IndInv, SaleInv, [Next]_vars PROVE Kept
    OBVIOUS
  <2>1. CASE bill' = bill /\ outbox' = outbox
    BY <2>1
  <2>2. ASSUME NEW h \in Handlers, Committing(h), Apply(h) PROVE Kept
    BY <2>2, CommitBill
  <2> QED
    BY <2>1, <2>2, OnlyCommitsWrite
<1>2. IndInv /\ SaleInv /\ [Next]_vars => [Kept]_vars
  BY <1>1
<1> QED
  BY <1>2, SalesHold, Inductive, PTL DEF Spec, FinalIsImmutable

-----------------------------------------------------------------------------
(* The book of issued invoices, with any number of deadlocks. *)

\* An identity that is recorded is entered with its bill; another is not.
LEMMA BookEntry ==
  ASSUME IndInv, NEW k \in Keys
  PROVE  /\ Recorded(k) = {} => book[k] = NotIssued
         /\ \A b \in Recorded(k) : book[k] = Entry(b)
         /\ Recorded(k) # {} => book[k] # NotIssued
<1>1. CASE Recorded(k) = {}
  BY <1>1 DEF book
<1>2. CASE Recorded(k) # {}
  <2> DEFINE x == CHOOSE b \in Recorded(k) : TRUE
  <2>1. x \in Recorded(k) /\ book[k] = Entry(x)
    BY <1>2 DEF book
  <2> HIDE DEF x
  <2>2. \A b \in Recorded(k) : b = x
    BY <2>1 DEF IndInv, SoldOnce
  <2>3. Entry(x) # NotIssued
    <3>1. x # NoBill
      BY <2>1, NullsAssumption DEF Recorded
    <3>2. Entry(x).bill = x /\ NotIssued.bill = NoBill
      BY DEF Entry, NotIssued
    <3> QED
      BY <3>1, <3>2
  <2> QED
    BY <1>2, <2>1, <2>2, <2>3
<1> QED
  BY <1>1, <1>2

\* The same of the book after a step that keeps the invariant.
LEMMA BookEntryNext ==
  ASSUME IndInv', NEW k \in Keys
  PROVE  /\ Recorded(k)' = {} => book'[k] = NotIssued
         /\ \A b \in Recorded(k)' : book'[k] = Entry(b)'
<1>1. CASE Recorded(k)' = {}
  BY <1>1 DEF book, NotIssued
<1>2. CASE Recorded(k)' # {}
  <2>0. PICK x : x = CHOOSE b \in Recorded(k)' : TRUE
    OBVIOUS
  <2>1. x \in Recorded(k)'
    BY <1>2, <2>0
  <2>2. book'[k] = Entry(x)'
    BY <1>2, <2>0 DEF book, Entry
  <2>3. \A b \in Recorded(k)' : b = x
    BY <2>1 DEF IndInv, SoldOnce
  <2> QED
    BY <1>2, <2>2, <2>3
<1> QED
  BY <1>1, <1>2

\* The entries of a branch are as many as its counter says.
LEMMA SeriesSize ==
  ASSUME IndInv, NEW branch \in Branches
  PROVE  Cardinality(Book!Series(branch)) = seq[branch]
<1> DEFINE S == {k \in Keys : book[k] # NotIssued /\ BranchOf[book[k].content] = branch}
           n == seq[branch]
           f == [k \in S |-> book[k].number]
<1>1. n \in Nat
  BY DEF IndInv, TypeOK
<1>2. ASSUME NEW k \in S
      PROVE  \E b \in Recorded(k) : b \in Issued(branch) /\ book[k] = Entry(b)
  <2>1. PICK b : b \in Recorded(k)
    BY BookEntry
  <2>2. book[k] = Entry(b) /\ b \in Bills /\ bill[b].state = "final"
    BY <2>1, BookEntry DEF IndInv, SoldOnce, Recorded
  <2> QED
    BY <2>1, <2>2 DEF Issued, Entry
<1>3. /\ {bill[b].number : b \in Issued(branch)} = 1 .. n
      /\ \A a, b \in Issued(branch) : bill[a].number = bill[b].number => a = b
  BY DEF IndInv, NumbersGapless
<1>4. ASSUME NEW k \in S PROVE f[k] \in 1 .. n
  <2>1. PICK b \in Recorded(k) : b \in Issued(branch) /\ book[k] = Entry(b)
    BY <1>2
  <2>2. f[k] = bill[b].number
    BY <2>1 DEF Entry
  <2> QED
    BY <1>3, <2>1, <2>2
<1>5. ASSUME NEW j \in S, NEW k \in S, f[j] = f[k] PROVE j = k
  <2>1. PICK a \in Recorded(j) : a \in Issued(branch) /\ book[j] = Entry(a)
    BY <1>2
  <2>2. PICK b \in Recorded(k) : b \in Issued(branch) /\ book[k] = Entry(b)
    BY <1>2
  <2>3. a = b
    BY <1>3, <1>5, <2>1, <2>2 DEF Entry
  <2> QED
    BY <2>1, <2>2, <2>3 DEF Recorded
<1>6. ASSUME NEW i \in 1 .. n PROVE \E k \in S : f[k] = i
  <2>1. PICK b \in Issued(branch) : bill[b].number = i
    BY <1>3
  <2>2. /\ b \in Bills /\ bill[b].state = "final" /\ bill[b] \in Rows
        /\ BranchOf[bill[b].content] = branch
    BY DEF Issued, IndInv, TypeOK
  <2> DEFINE k == bill[b].key
  <2>3. k \in Keys /\ b \in Recorded(k)
    BY <2>2 DEF IndInv, KeyIffFinal, Rows, Recorded
  <2>4. book[k] = Entry(b) /\ book[k] # NotIssued
    BY <2>3, BookEntry
  <2>5. k \in S
    BY <2>2, <2>3, <2>4 DEF Entry
  <2>6. f[k] = i
    BY <2>1, <2>4, <2>5 DEF Entry
  <2> QED
    BY <2>5, <2>6
<1>7. f \in Bijection(S, 1 .. n)
  <2> HIDE DEF S, n
  <2>1. f \in [S -> 1 .. n]
    BY <1>4
  <2>2. \A i \in 1 .. n : \E k \in S : f[k] = i
    BY <1>6
  <2>3. \A j, k \in S : f[j] = f[k] => j = k
    BY <1>5
  <2> HIDE DEF f
  <2> QED
    BY <2>1, <2>2, <2>3, Fun_IsBij
<1>8. ExistsBijection(1 .. n, S)
  <2> HIDE DEF S, n, f
  <2> QED
    BY <1>7, Fun_ExistsBij, Fun_ExistsBijSymmetric
<1>9. IsFiniteSet(1 .. n) /\ Cardinality(1 .. n) = n
  BY <1>1, FS_Interval
<1>10. Cardinality(S) = n
  <2> HIDE DEF S, n, f
  <2> QED
    BY <1>8, <1>9, FS_Bijection
<1>11. Book!Series(branch) = S
  BY DEF Book!Series
<1> QED
  BY <1>10, <1>11
\* An entry stays as it is while its bill keeps its content and its number.
LEMMA EntryKept ==
  ASSUME IndInv, IndInv', [Next]_vars, NEW k \in Keys, Recorded(k)' = Recorded(k)
  PROVE  book'[k] = book[k]
<1>1. CASE Recorded(k) = {}
  BY <1>1, BookEntry, BookEntryNext
<1>2. CASE Recorded(k) # {}
  <2>1. PICK b : b \in Recorded(k)
    BY <1>2
  <2>2. book[k] = Entry(b) /\ book'[k] = Entry(b)'
    BY <2>1, BookEntry, BookEntryNext
  <2>3. Entry(b)' = Entry(b)
    BY <2>1, RecordKept DEF Entry
  <2> QED
    BY <2>2, <2>3
<1> QED
  BY <1>1, <1>2

\* The book is a function of the identities, before and after a step.
LEMMA BookKept ==
  ASSUME \A k \in Keys : book'[k] = book[k]
  PROVE  book' = book
<1> DEFINE Value(k) == IF Recorded(k) = {} THEN NotIssued
                       ELSE Entry(CHOOSE b \in Recorded(k) : TRUE)
<1>1. book = [k \in Keys |-> Value(k)] /\ book' = [k \in Keys |-> Value(k)']
  BY DEF book
<1>2. \A k \in Keys : Value(k)' = Value(k)
  BY <1>1
<1> QED
  BY <1>1, <1>2

\* The instance of the book counts with an operator of its own, defined alike.
LEMMA SameCardinality ==
  ASSUME NEW S
  PROVE  Book!Cardinality(S) = Cardinality(S)
BY DEF Book!Cardinality, Cardinality

\* A commit of a final sale issues an invoice with the next number of its branch.
LEMMA CommitIssues ==
  ASSUME IndInv, IndInv', [Next]_vars, NEW h \in Handlers, Committing(h), Apply(h),
         Final(req[h])
  PROVE  Book!BookNext
<1>0. PICK k, b, c : k = req[h].key /\ b = target[h] /\ c = req[h].content
  OBVIOUS
<1>1. /\ b \in Bills /\ k \in Keys /\ c \in Contents /\ bill[b].state # "final"
      /\ bill' = [bill EXCEPT ![b] = work[h]] /\ work[h].content = c
      /\ work[h].number = seq[BranchOf[c]] + 1 /\ Recorded(k) = {}
  BY <1>0, CommitEffect DEF Sales
<1>2. bill'[b] = work[h]
  BY <1>1 DEF IndInv, TypeOK
<1>3. Recorded(k)' = {b} /\ \A j : j # k => Recorded(j)' = Recorded(j)
  BY <1>0, CommitRecord
<1>4. BranchOf[c] \in Branches
  BY <1>1, ContentsAssumption
<1>5. book[k] = NotIssued
  BY <1>1, BookEntry
<1>6. \A j \in Keys : book[j] # NotIssued => book[j].bill # b
  <2> SUFFICES ASSUME NEW j \in Keys, book[j] # NotIssued PROVE book[j].bill # b
    OBVIOUS
  <2>1. PICK a : a \in Recorded(j)
    BY BookEntry
  <2>2. book[j] = Entry(a) /\ bill[a].state = "final"
    BY <2>1, BookEntry DEF IndInv, SoldOnce
  <2> QED
    BY <1>1, <2>2 DEF Entry
<1> DEFINE entry == [bill |-> b, content |-> c,
                     number |-> Cardinality(Book!Series(BranchOf[c])) + 1]
<1>7. book'[k] = entry
  <2>1. book'[k] = Entry(b)'
    BY <1>1, <1>3, BookEntryNext
  <2>2. Cardinality(Book!Series(BranchOf[c])) = seq[BranchOf[c]]
    BY <1>4, SeriesSize
  <2> QED
    BY <1>1, <1>2, <2>1, <2>2 DEF Entry
<1>8. \A j \in Keys : j # k => book'[j] = book[j]
  BY <1>3, EntryKept
<1>9. book' = [book EXCEPT ![k] = entry]
  <2> HIDE DEF entry
  <2>1. /\ book' = [j \in Keys |-> book'[j]]
        /\ book = [j \in Keys |-> book[j]]
    BY DEF book
  <2> HIDE DEF book
  <2> QED
    BY <1>1, <1>7, <1>8, <2>1
<1>10. Book!Issue(k, b, c)
  BY <1>5, <1>6, <1>9, SameCardinality DEF Book!Issue
<1> QED
  BY <1>1, <1>10 DEF Book!BookNext

\* Every step issues one invoice or leaves the book as it is.
LEMMA StepKeepsBook ==
  ASSUME IndInv, IndInv', [Next]_vars
  PROVE  Book!BookNext \/ book' = book
<1>1. CASE RowsKept
  <2>1. \A k \in Keys : Recorded(k)' = Recorded(k)
    BY <1>1 DEF RowsKept, Recorded
  <2> QED
    BY <2>1, EntryKept, BookKept
<1>2. ASSUME NEW h \in Handlers, Committing(h), Apply(h)
      PROVE  Book!BookNext \/ book' = book
  <2>1. CASE Final(req[h])
    BY <1>2, <2>1, CommitIssues
  <2>2. CASE ~ Final(req[h])
    <3>1. \A k \in Keys : k # req[h].key
      BY <2>2, NullsAssumption DEF Final
    <3>2. \A k \in Keys : Recorded(k)' = Recorded(k)
      BY <1>2, <3>1, CommitRecord
    <3> QED
      BY <3>2, EntryKept, BookKept
  <2> QED
    BY <2>1, <2>2
<1> QED
  BY <1>1, <1>2, Moves

\* The tables implement the book of issued invoices: an identity is entered once, with
\* the next number of its branch, and its entry is never changed (finishSale's commit).
THEOREM Implements == Spec => ImplementsBook
<1>1. Init => Book!BookInit
  <2> SUFFICES ASSUME Init PROVE Book!BookInit
    OBVIOUS
  <2>1. \A k \in Keys : Recorded(k) = {}
    BY DEF Init, NoRow, Recorded
  <2> QED
    BY <2>1 DEF Book!BookInit, book
<1>2. IndInv /\ IndInv' /\ [Next]_vars => [Book!BookNext]_book
  BY StepKeepsBook
<1> QED
  BY <1>1, <1>2, Inductive, PTL DEF Spec, ImplementsBook, Book!BookSpec
=============================================================================
