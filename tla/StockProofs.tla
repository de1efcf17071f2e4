---------------------------- MODULE StockProofs ----------------------------
(***************************************************************************)
(* Theorems about Stock.                                                   *)
(*                                                                         *)
(* The ledger: where only commands run that add to a quantity and record   *)
(* what they add, the quantity of every product is the sum of its          *)
(* movements, however the requests interleave.  The proof groups the       *)
(* actions by what they do to the quantities, the movements and the locks  *)
(* (the effects below), shows for every effect that it keeps the ledger,   *)
(* and for every action which effect it has.                               *)
(*                                                                         *)
(* The types, for all commands, with where each handler stands and what it *)
(* has written by then.                                                    *)
(*                                                                         *)
(* The papers: what the movements that refer to a bill are, against its    *)
(* lines.  Desk says of every handler what it has recorded, against the    *)
(* lines it has not come to; Owners, that no two requests open one bill;   *)
(* Books, what the committed movements are.                                *)
(***************************************************************************)
EXTENDS Stock, Induction

\* The commands whose writes do not rest on a quantity that was read.
ADDITIVE == {"draft", "sale", "delete_draft", "delete_purchase", "adjust"}

AnyLines == [product : Products, quantity : Int]

\* The types of what the ledger is made of.
BookTypes ==
  /\ quantity \in [Products -> Nat]
  /\ moved \in [Products -> Int]
  /\ own \in [Handlers -> [Products -> Nat \cup {NoQuantity}]]
  /\ delta \in [Handlers -> [Products -> Int]]
  /\ shared \in [Handlers -> SUBSET Products]
  /\ detached \in [Handlers -> BOOLEAN]
  /\ deadlocks \in Nat

\* Where the handlers stand, and what lines they and the bills have.
Control ==
  /\ setting \in {"disable", "warn", "enforce"}
  /\ pc \in [Handlers -> {"idle", "insert", "sell", "restore", "reverse", "adjust",
                          "answered"}]
  /\ req \in [Handlers -> [op : {"none", "sale", "delete_draft", "delete_purchase", "adjust"},
                           bill : References, lines : Seq(AnyLines), final : BOOLEAN]]
  /\ todo \in [Handlers -> Seq(Lines)]
  /\ sale \in [Sales -> [state : {"none", "draft", "final", "deleted"}, lines : Seq(Lines)]]
  /\ purchase \in [Purchases -> [state : {"none", "draft", "final", "deleted"},
                                 lines : Seq(Lines)]]
  /\ \A h \in Handlers :
       /\ pc[h] \in {"insert", "sell"} => req[h].lines \in Seq(Lines)
       /\ pc[h] = "adjust" => req[h].lines # <<>>
       /\ detached[h] => pc[h] = "sell"
  /\ detached \in [Handlers -> BOOLEAN]

Book ==
  /\ BookTypes /\ Exclusive /\ OwnIsMoved /\ DetachedByDeadlock
  /\ ExactBeforeDeadlocks /\ NothingFromNowhere
----------------------------------------------------------------------------
(* The effects *)

\* h has ended: it holds nothing.
Ended(h) ==
  /\ own' = [own EXCEPT ![h] = Untouched]
  /\ delta' = [delta EXCEPT ![h] = Nothing]
  /\ shared' = [shared EXCEPT ![h] = {}]
  /\ detached' = [detached EXCEPT ![h] = FALSE]
  /\ deadlocks' = deadlocks

\* Nothing of the ledger changes, or h ends.
LEMMA QuietKeeps ==
  ASSUME Book, UNCHANGED <<quantity, moved, own, delta, shared, detached, deadlocks>>
  PROVE  Book'
BY DEF Book, BookTypes, Exclusive, OwnIsMoved, DetachedByDeadlock, ExactBeforeDeadlocks,
       QuantityIsLedger, NothingFromNowhere

\* What an ended transaction leaves is its tables; they keep the ledger if they did.
LEMMA EndKeeps ==
  ASSUME Book, NEW h \in Handlers, UNCHANGED <<quantity, moved>>, Ended(h)
  PROVE  Book'
<1>1. /\ own'[h] = Untouched /\ delta'[h] = Nothing
      /\ shared'[h] = {} /\ detached'[h] = FALSE
      /\ \A g \in Handlers \ {h} : /\ own'[g] = own[g] /\ delta'[g] = delta[g]
                                   /\ shared'[g] = shared[g] /\ detached'[g] = detached[g]
  BY DEF Book, BookTypes, Ended
<1>2. /\ Untouched \in [Products -> Nat \cup {NoQuantity}]
      /\ Nothing \in [Products -> Int]
      /\ \A p \in Products : Untouched[p] = NoQuantity /\ Nothing[p] = 0
  BY DEF Untouched, Nothing
<1>3. BookTypes'
  BY <1>2 DEF Book, BookTypes, Ended
<1>4. Exclusive'
  BY <1>1, <1>2 DEF Book, Exclusive
<1>5. OwnIsMoved'
  BY <1>1, <1>2 DEF Book, OwnIsMoved
<1>6. DetachedByDeadlock'
  BY <1>1 DEF Book, DetachedByDeadlock, Ended, Untouched
<1>7. ExactBeforeDeadlocks' /\ NothingFromNowhere'
  BY DEF Book, ExactBeforeDeadlocks, QuantityIsLedger, NothingFromNowhere, Ended
<1> QED BY <1>3, <1>4, <1>5, <1>6, <1>7 DEF Book

\* A transaction that holds a product alone changes it and records the change.
LEMMA MoveKeeps ==
  ASSUME Book, NEW h \in Handlers, NEW p \in Products, NEW d \in Int,
         ~detached[h], Free(h, p), Current(h, p) + d \in Nat, Move(h, p, d),
         UNCHANGED <<quantity, moved, shared, detached, deadlocks>>
  PROVE  Book'
<1>1. /\ own'[h][p] = Current(h, p) + d /\ delta'[h][p] = delta[h][p] + d
      /\ \A q \in Products \ {p} : own'[h][q] = own[h][q] /\ delta'[h][q] = delta[h][q]
      /\ \A g \in Handlers \ {h} : own'[g] = own[g] /\ delta'[g] = delta[g]
  BY DEF Book, BookTypes, Move
<1>2. BookTypes'
  BY DEF Book, BookTypes, Move
<1>3. Exclusive'
  BY <1>1 DEF Book, Exclusive, Free, Unwritten
<1>4. OwnIsMoved'
  <2>1. own'[h][p] # NoQuantity
    BY <1>1, NullsAssumption
  <2>2. own'[h][p] = quantity[p] + delta'[h][p]
    BY <1>1 DEF Book, BookTypes, OwnIsMoved, Current
  <2> QED BY <1>1, <2>1, <2>2 DEF Book, OwnIsMoved
<1>5. DetachedByDeadlock'
  BY <1>1 DEF Book, DetachedByDeadlock, Untouched
<1>6. ExactBeforeDeadlocks' /\ NothingFromNowhere'
  BY DEF Book, ExactBeforeDeadlocks, QuantityIsLedger, NothingFromNowhere
<1> QED BY <1>2, <1>3, <1>4, <1>5, <1>6 DEF Book

\* A commit: what it wrote and what it moved reach the tables together.
LEMMA CommitKeeps ==
  ASSUME Book, NEW h \in Handlers, Ended(h),
         quantity' = [p \in Products |-> Current(h, p)],
         moved' = [p \in Products |-> moved[p] + delta[h][p]]
  PROVE  Book'
<1>1. /\ own'[h] = Untouched /\ delta'[h] = Nothing
      /\ shared'[h] = {} /\ detached'[h] = FALSE
      /\ \A g \in Handlers \ {h} : /\ own'[g] = own[g] /\ delta'[g] = delta[g]
                                   /\ shared'[g] = shared[g] /\ detached'[g] = detached[g]
  BY DEF Book, BookTypes, Ended
<1>2. /\ Untouched \in [Products -> Nat \cup {NoQuantity}]
      /\ Nothing \in [Products -> Int]
      /\ \A p \in Products : Untouched[p] = NoQuantity /\ Nothing[p] = 0
  BY DEF Untouched, Nothing
<1>3. \A p \in Products : /\ quantity'[p] = quantity[p] + delta[h][p]
                          /\ quantity'[p] \in Nat
                          /\ own[h][p] = NoQuantity => quantity'[p] = quantity[p]
                          /\ moved'[p] = moved[p] + delta[h][p]
  BY DEF Book, BookTypes, OwnIsMoved, Current
<1>4. BookTypes'
  BY <1>2, <1>3 DEF Book, BookTypes, Ended
<1>5. Exclusive'
  BY <1>1, <1>2 DEF Book, Exclusive
<1>6. OwnIsMoved'
  <2>1. ASSUME NEW g \in Handlers \ {h}, NEW p \in Products, own[g][p] # NoQuantity
        PROVE  quantity'[p] = quantity[p]
    BY <2>1, <1>3 DEF Book, Exclusive
  <2> QED BY <1>1, <1>2, <2>1 DEF Book, OwnIsMoved
<1>7. DetachedByDeadlock'
  BY <1>1 DEF Book, DetachedByDeadlock, Ended, Untouched
<1>8. ExactBeforeDeadlocks' /\ NothingFromNowhere'
  BY <1>3, QuantitiesAssumption
     DEF Book, BookTypes, ExactBeforeDeadlocks, QuantityIsLedger, NothingFromNowhere, Ended
<1> QED BY <1>4, <1>5, <1>6, <1>7, <1>8 DEF Book

\* Lines are inserted: their products are held shared.
LEMMA ShareKeeps ==
  ASSUME Book, NEW h \in Handlers, NEW S \in SUBSET Products,
         \A p \in S : Unwritten(h, p),
         shared' = [shared EXCEPT ![h] = S],
         UNCHANGED <<quantity, moved, own, delta, detached, deadlocks>>
  PROVE  Book'
<1>1. /\ shared'[h] = S
      /\ \A g \in Handlers \ {h} : shared'[g] = shared[g]
  BY DEF Book, BookTypes
<1>2. BookTypes'
  BY DEF Book, BookTypes
<1>3. Exclusive'
  BY <1>1 DEF Book, Exclusive, Unwritten
<1>4. OwnIsMoved' /\ DetachedByDeadlock' /\ ExactBeforeDeadlocks' /\ NothingFromNowhere'
  BY DEF Book, OwnIsMoved, DetachedByDeadlock, ExactBeforeDeadlocks, QuantityIsLedger,
         NothingFromNowhere
<1> QED BY <1>2, <1>3, <1>4 DEF Book

\* A deadlock: the transaction is gone, its handler does not know.
LEMMA DeadlockKeeps ==
  ASSUME Book, NEW h \in Handlers,
         own' = [own EXCEPT ![h] = Untouched],
         delta' = [delta EXCEPT ![h] = Nothing],
         shared' = [shared EXCEPT ![h] = {}],
         detached' = [detached EXCEPT ![h] = TRUE],
         deadlocks' = deadlocks + 1,
         UNCHANGED <<quantity, moved>>
  PROVE  Book'
<1>1. /\ own'[h] = Untouched /\ delta'[h] = Nothing /\ shared'[h] = {}
      /\ \A g \in Handlers \ {h} : /\ own'[g] = own[g] /\ delta'[g] = delta[g]
                                   /\ shared'[g] = shared[g] /\ detached'[g] = detached[g]
  BY DEF Book, BookTypes
<1>2. /\ Untouched \in [Products -> Nat \cup {NoQuantity}]
      /\ Nothing \in [Products -> Int]
      /\ \A p \in Products : Untouched[p] = NoQuantity /\ Nothing[p] = 0
  BY DEF Untouched, Nothing
<1>3. deadlocks' > 0 /\ deadlocks' \in Nat
  BY DEF Book, BookTypes
<1>4. BookTypes'
  BY <1>2, <1>3 DEF Book, BookTypes
<1>5. Exclusive'
  BY <1>1, <1>2 DEF Book, Exclusive
<1>6. OwnIsMoved'
  BY <1>1, <1>2 DEF Book, OwnIsMoved
<1>7. DetachedByDeadlock'
  BY <1>1, <1>3 DEF Book, DetachedByDeadlock, Untouched
<1>8. ExactBeforeDeadlocks' /\ NothingFromNowhere'
  BY <1>3 DEF Book, ExactBeforeDeadlocks, NothingFromNowhere
<1> QED BY <1>4, <1>5, <1>6, <1>7, <1>8 DEF Book

\* A statement that commits by itself, and its movement with it.
LEMMA AddKeeps ==
  ASSUME Book, NEW h \in Handlers, NEW p \in Products, NEW d \in Int,
         Free(h, p), quantity[p] + d \in Nat,
         quantity' = [quantity EXCEPT ![p] = @ + d],
         moved' = [moved EXCEPT ![p] = @ + d],
         \/ Ended(h)
         \/ own[h] = Untouched /\ UNCHANGED <<own, delta, shared, detached, deadlocks>>
  PROVE  Book'
<1>1. /\ \A g \in Handlers \ {h} : /\ own'[g] = own[g] /\ delta'[g] = delta[g]
                                   /\ shared'[g] = shared[g] /\ detached'[g] = detached[g]
      /\ own'[h] = Untouched /\ shared'[h] \subseteq shared[h] /\ deadlocks' = deadlocks
  BY DEF Book, BookTypes, Ended
<1>2. /\ Untouched \in [Products -> Nat \cup {NoQuantity}]
      /\ Nothing \in [Products -> Int]
      /\ \A q \in Products : Untouched[q] = NoQuantity /\ Nothing[q] = 0
  BY DEF Untouched, Nothing
<1>3. /\ quantity'[p] = quantity[p] + d /\ moved'[p] = moved[p] + d
      /\ \A q \in Products \ {p} : quantity'[q] = quantity[q] /\ moved'[q] = moved[q]
  BY DEF Book, BookTypes
<1>4. BookTypes'
  <2>1. quantity' \in [Products -> Nat] /\ moved' \in [Products -> Int]
    BY DEF Book, BookTypes
  <2>2. CASE Ended(h)
    BY <1>2, <2>1, <2>2 DEF Book, BookTypes, Ended
  <2>3. CASE UNCHANGED <<own, delta, shared, detached, deadlocks>>
    BY <2>1, <2>3 DEF Book, BookTypes
  <2> QED BY <2>2, <2>3
<1>5. Exclusive'
  BY <1>1, <1>2 DEF Book, Exclusive
<1>6. OwnIsMoved'
  <2>1. ASSUME NEW q \in Products PROVE delta'[h][q] = 0
    BY <1>2 DEF Book, BookTypes, OwnIsMoved, Ended
  <2>2. ASSUME NEW g \in Handlers \ {h}, NEW q \in Products, own[g][q] # NoQuantity
        PROVE  quantity'[q] = quantity[q]
    BY <2>2, <1>3 DEF Free, Unwritten
  <2> QED BY <1>1, <1>2, <2>1, <2>2 DEF Book, OwnIsMoved
<1>7. DetachedByDeadlock'
  <2>1. CASE Ended(h)
    <3>1. detached'[h] = FALSE
      BY <2>1 DEF Book, BookTypes, Ended
    <3> QED BY <1>1, <3>1 DEF Book, DetachedByDeadlock
  <2>2. CASE UNCHANGED <<own, delta, shared, detached, deadlocks>>
    BY <2>2 DEF Book, DetachedByDeadlock, Untouched
  <2> QED BY <2>1, <2>2
<1>8. ExactBeforeDeadlocks' /\ NothingFromNowhere'
  <2>1. ASSUME NEW q \in Products
        PROVE  \E e \in Int : quantity'[q] = quantity[q] + e /\ moved'[q] = moved[q] + e
    <3>1. quantity[q] \in Int /\ moved[q] \in Int
      BY DEF Book, BookTypes
    <3>2. CASE q = p
      BY <3>2, <1>3
    <3>3. CASE q # p
      <4>1. quantity'[q] = quantity[q] + 0 /\ moved'[q] = moved[q] + 0
        BY <3>1, <3>3, <1>3
      <4> QED BY <4>1
    <3> QED BY <3>2, <3>3
  <2>2. ASSUME NEW q \in Products
        PROVE  /\ quantity[q] = Opening[q] + moved[q] => quantity'[q] = Opening[q] + moved'[q]
               /\ quantity[q] <= Opening[q] + moved[q]
                    => quantity'[q] <= Opening[q] + moved'[q]
    <3>1. quantity[q] \in Int /\ moved[q] \in Int /\ Opening[q] \in Int
      <4>1. quantity[q] \in Nat /\ moved[q] \in Int
        BY DEF Book, BookTypes
      <4>2. Opening[q] \in Nat
        BY QuantitiesAssumption
      <4> QED BY <4>1, <4>2
    <3>2. PICK e \in Int : quantity'[q] = quantity[q] + e /\ moved'[q] = moved[q] + e
      BY <2>1
    <3> DEFINE x == quantity[q]  y == moved[q]  o == Opening[q]
    <3> HIDE DEF x, y, o
    <3>3. x \in Int /\ y \in Int /\ o \in Int
      BY <3>1 DEF x, y, o
    <3>4. /\ x = o + y => x + e = o + (y + e)
          /\ x <= o + y => x + e <= o + (y + e)
      BY <3>3
    <3> QED BY <3>2, <3>4 DEF x, y, o
  <2> QED
    BY <1>1, <2>2 DEF Book, ExactBeforeDeadlocks, QuantityIsLedger, NothingFromNowhere
<1> QED BY <1>4, <1>5, <1>6, <1>7, <1>8 DEF Book

\* A deduction whose movement fails, after a deadlock.
LEMMA LossKeeps ==
  ASSUME Book, NEW h \in Handlers, NEW p \in Products, NEW d \in Nat,
         Free(h, p), quantity[p] >= d, detached[h],
         quantity' = [quantity EXCEPT ![p] = @ - d],
         moved' = moved, Ended(h)
  PROVE  Book'
<1>1. /\ own'[h] = Untouched /\ delta'[h] = Nothing
      /\ shared'[h] = {} /\ detached'[h] = FALSE
      /\ \A g \in Handlers \ {h} : /\ own'[g] = own[g] /\ delta'[g] = delta[g]
                                   /\ shared'[g] = shared[g] /\ detached'[g] = detached[g]
  BY DEF Book, BookTypes, Ended
<1>2. /\ Untouched \in [Products -> Nat \cup {NoQuantity}]
      /\ Nothing \in [Products -> Int]
      /\ \A q \in Products : Untouched[q] = NoQuantity /\ Nothing[q] = 0
  BY DEF Untouched, Nothing
<1>3. /\ quantity'[p] = quantity[p] - d /\ quantity'[p] \in Nat
      /\ \A q \in Products \ {p} : quantity'[q] = quantity[q]
  BY DEF Book, BookTypes
<1>4. deadlocks' > 0 /\ deadlocks' \in Nat
  BY DEF Book, BookTypes, DetachedByDeadlock, Ended
<1>5. BookTypes'
  BY <1>2, <1>3 DEF Book, BookTypes, Ended
<1>6. Exclusive'
  BY <1>1, <1>2 DEF Book, Exclusive
<1>7. OwnIsMoved'
  <2>1. ASSUME NEW g \in Handlers \ {h}, NEW q \in Products, own[g][q] # NoQuantity
        PROVE  quantity'[q] = quantity[q]
    BY <2>1, <1>3 DEF Free, Unwritten
  <2> QED BY <1>1, <1>2, <2>1 DEF Book, OwnIsMoved
<1>8. DetachedByDeadlock'
  BY <1>1 DEF Book, DetachedByDeadlock, Ended, Untouched
<1>9. ExactBeforeDeadlocks' /\ NothingFromNowhere'
  <2>1. ASSUME NEW q \in Products
        PROVE  quantity'[q] <= Opening[q] + moved'[q]
    <3>1. quantity[q] <= Opening[q] + moved[q]
      BY DEF Book, NothingFromNowhere
    <3>2. quantity'[q] <= quantity[q] /\ quantity[q] \in Nat /\ quantity'[q] \in Nat
      <4>1. quantity[q] \in Nat
        BY DEF Book, BookTypes
      <4> QED BY <1>3, <4>1
    <3>3. moved[q] \in Int /\ Opening[q] \in Nat /\ moved'[q] = moved[q]
      BY QuantitiesAssumption DEF Book, BookTypes
    <3> QED BY <3>1, <3>2, <3>3
  <2> QED BY <1>4, <2>1 DEF ExactBeforeDeadlocks, NothingFromNowhere
<1> QED BY <1>5, <1>6, <1>7, <1>8, <1>9 DEF Book
----------------------------------------------------------------------------
(* The actions *)

\* What an answer does to the handler.
LEMMA AnswerEnds ==
  ASSUME Control, NEW h \in Handlers, NEW kind, Answer(h, kind), UNCHANGED <<sale, purchase>>
  PROVE  Control' /\ Ended(h)
<1>1. Ended(h)
  BY DEF Answer, Ended, faults
<1>2. \A g \in Handlers \ {h} : pc'[g] = pc[g] /\ detached'[g] = detached[g]
  BY DEF Control, Answer
<1>3. pc'[h] = "answered" /\ ~detached'[h] /\ detached' \in [Handlers -> BOOLEAN]
  BY DEF Control, Answer
<1>4. <<>> \in Seq(Lines)
  OBVIOUS
<1>5. Control'
  BY <1>2, <1>3, <1>4 DEF Control, Answer
<1> QED BY <1>1, <1>5

\* The first of the lines that are left, and the lines after it.
LEMMA HeadAndTail ==
  ASSUME Control, NEW h \in Handlers, todo[h] # <<>>
  PROVE  /\ Head(todo[h]) \in Lines
         /\ Head(todo[h]).product \in Products /\ Head(todo[h]).quantity \in Nat
         /\ Tail(todo[h]) \in Seq(Lines)
<1>1. todo[h] \in Seq(Lines)
  BY DEF Control
<1>2. Head(todo[h]) \in Lines /\ Tail(todo[h]) \in Seq(Lines)
  BY <1>1
<1> QED BY <1>2 DEF Lines

\* Going on to the next line disturbs nothing of Control.
LEMMA NextLineKeeps ==
  ASSUME Control, NEW h \in Handlers, todo[h] # <<>>, NextLine(h),
         UNCHANGED <<setting, pc, req, sale, purchase>>,
         \/ detached' = detached
         \/ pc[h] = "sell" /\ detached' = [detached EXCEPT ![h] = TRUE]
  PROVE  Control'
BY HeadAndTail DEF Control, NextLine

\* A request begins at a stage, with lines to work through.
LEMMA BeginKeeps ==
  ASSUME Control, NEW h \in Handlers, NEW stage, NEW r, NEW lines \in Seq(Lines),
         Begin(h, stage, r, lines), UNCHANGED <<setting, sale, purchase, detached>>,
         stage \in {"insert", "restore", "reverse", "adjust"},
         r \in [op : {"none", "sale", "delete_draft", "delete_purchase", "adjust"},
                bill : References, lines : Seq(AnyLines), final : BOOLEAN],
         stage = "insert" => r.lines \in Seq(Lines),
         stage = "adjust" => r.lines # <<>>
  PROVE  Control'
<1>1. /\ pc'[h] = stage /\ req'[h] = r
      /\ \A g \in Handlers \ {h} : pc'[g] = pc[g] /\ req'[g] = req[g]
  BY DEF Control, Begin
<1>2. /\ setting' \in {"disable", "warn", "enforce"}
      /\ pc' \in [Handlers -> {"idle", "insert", "sell", "restore", "reverse", "adjust",
                               "answered"}]
      /\ todo' \in [Handlers -> Seq(Lines)]
      /\ sale' = sale /\ purchase' = purchase /\ detached' = detached
      /\ ~detached[h]
  BY DEF Control, Begin
<1>3. req' \in [Handlers ->
                  [op : {"none", "sale", "delete_draft", "delete_purchase", "adjust"},
                   bill : References, lines : Seq(AnyLines), final : BOOLEAN]]
  BY DEF Control, Begin
<1> QED BY <1>1, <1>2, <1>3 DEF Control

LEMMA LinesAreLines == Seq(Lines) \subseteq Seq(AnyLines)
<1>1. Lines \subseteq AnyLines
  BY DEF Lines, AnyLines
<1> QED BY <1>1

LEMMA CurrentType ==
  ASSUME Book, NEW h \in Handlers, NEW p \in Products
  PROVE  Current(h, p) \in Nat
BY DEF Book, BookTypes, Current

LEMMA SaleStepKeeps ==
  ASSUME Book, Control, NEW h \in Handlers, SaleStep(h)
  PROVE  Book' /\ Control'
<1>1. ASSUME NEW s \in Sales, NEW ls \in Orders, StartSale(h, s, ls)
      PROVE  Book' /\ Control'
  <2> DEFINE r == [op |-> "sale", bill |-> s, lines |-> ls, final |-> TRUE]
  <2>1. Book'
    BY <1>1, QuietKeeps DEF StartSale, tables, faults
  <2>2. ls \in Seq(Lines) /\ ls \in Seq(AnyLines) /\ <<>> \in Seq(Lines)
    BY OrdersAssumption, LinesAreLines
  <2>3. r \in [op : {"none", "sale", "delete_draft", "delete_purchase", "adjust"},
               bill : References, lines : Seq(AnyLines), final : BOOLEAN]
    BY <2>2 DEF References
  <2>4. Begin(h, "insert", r, <<>>) /\ UNCHANGED <<setting, sale, purchase, detached>>
    BY <1>1 DEF StartSale, tables
  <2>5. r.lines = ls
    OBVIOUS
  <2> HIDE DEF r
  <2>6. Control'
    BY <2>2, <2>3, <2>4, <2>5, BeginKeeps
  <2> QED BY <2>1, <2>6
<1>2. ASSUME NEW s \in Sales, StartDeleteDraft(h, s)
      PROVE  Book' /\ Control'
  <2> DEFINE r == [op |-> "delete_draft", bill |-> s, lines |-> <<>>, final |-> FALSE]
             ls == IF setting = "disable" THEN <<>> ELSE sale[s].lines
  <2>1. Book'
    BY <1>2, QuietKeeps DEF StartDeleteDraft, tables, faults
  <2>2. ls \in Seq(Lines)
    BY DEF Control
  <2>3. r \in [op : {"none", "sale", "delete_draft", "delete_purchase", "adjust"},
               bill : References, lines : Seq(AnyLines), final : BOOLEAN]
    BY DEF References
  <2>4. Begin(h, "restore", r, ls) /\ UNCHANGED <<setting, sale, purchase, detached>>
    BY <1>2 DEF StartDeleteDraft, tables
  <2> HIDE DEF r, ls
  <2>5. Control'
    BY <2>2, <2>3, <2>4, BeginKeeps
  <2> QED BY <2>1, <2>5
<1>3. CASE InsertLines(h)
  <2> DEFINE S == ProductsOf(req[h].lines)
  <2>1. req[h].lines \in Seq(Lines)
    BY <1>3 DEF Control, InsertLines
  <2>2. S \subseteq Products
    <3> DEFINE ls == req[h].lines
    <3>1. \A i \in DOMAIN ls : ls[i] \in Lines
      <4> HIDE DEF ls
      <4>1. ls \in Seq(Lines)
        BY <2>1 DEF ls
      <4>2. DOMAIN ls = 1 .. Len(ls)
        BY <4>1
      <4> QED BY <4>1, <4>2
    <3>2. \A l \in Lines : l.product \in Products
      BY DEF Lines
    <3> QED BY <3>1, <3>2 DEF ProductsOf
  <2>3. Book'
    <3>1. /\ \A p \in S : Unwritten(h, p)
          /\ shared' = [shared EXCEPT ![h] = S]
          /\ UNCHANGED <<quantity, moved, own, delta, detached, deadlocks>>
      BY <1>3 DEF InsertLines, tables, faults
    <3> HIDE DEF S
    <3> QED BY <2>2, <3>1, ShareKeeps
  <2>4. Control'
    <3>1. /\ pc' = [pc EXCEPT ![h] = "sell"]
          /\ UNCHANGED <<setting, req, sale, purchase, detached>>
      BY <1>3 DEF InsertLines, tables
    <3>2. PICK ls \in Seq(Lines) : todo' = [todo EXCEPT ![h] = ls]
      <4> DEFINE x == IF setting = "disable" THEN <<>> ELSE req[h].lines
      <4>1. x \in Seq(Lines)
        BY <2>1
      <4>2. todo' = [todo EXCEPT ![h] = x]
        BY <1>3 DEF InsertLines
      <4> HIDE DEF x
      <4> QED BY <4>1, <4>2
    <3>3. todo' \in [Handlers -> Seq(Lines)]
      BY <3>2 DEF Control
    <3>4. pc'[h] = "sell" /\ \A g \in Handlers \ {h} : pc'[g] = pc[g]
      BY <3>1 DEF Control
    <3>5. \A g \in Handlers :
            /\ pc'[g] \in {"insert", "sell"} => req'[g].lines \in Seq(Lines)
            /\ pc'[g] = "adjust" => req'[g].lines # <<>>
            /\ detached'[g] => pc'[g] = "sell"
      BY <2>1, <3>1, <3>4 DEF Control
    <3> QED BY <3>1, <3>3, <3>5 DEF Control
  <2> QED BY <2>3, <2>4
<1>4. CASE SellLine(h)
  <2> DEFINE p == Head(todo[h]).product
             n == Head(todo[h]).quantity
  <2>1. p \in Products /\ n \in Nat
    BY <1>4, HeadAndTail DEF SellLine, Selling
  <2>2. /\ ~detached[h] /\ Free(h, p) /\ Current(h, p) >= n /\ Move(h, p, -n)
        /\ UNCHANGED <<quantity, moved, shared, detached, deadlocks>>
    BY <1>4 DEF SellLine, tables, faults
  <2>3. Control'
    BY <1>4, NextLineKeeps DEF SellLine, Selling, tables
  <2> HIDE DEF p, n
  <2>4. -n \in Int /\ Current(h, p) + (-n) \in Nat
    BY <2>1, <2>2, CurrentType
  <2>5. Book'
    BY <2>1, <2>2, <2>4, MoveKeeps
  <2> QED BY <2>3, <2>5
<1>5. CASE SellShort(h)
  BY <1>5, AnswerEnds, EndKeeps DEF SellShort, tables
<1>6. CASE SellTimeout(h)
  <2>1. Book'
    BY <1>6, QuietKeeps DEF SellTimeout, tables
  <2>2. Control'
    BY <1>6, NextLineKeeps DEF SellTimeout, Waiting, Selling, tables
  <2> QED BY <2>1, <2>2
<1>7. CASE SellDeadlock(h)
  <2>1. Book'
    BY <1>7, DeadlockKeeps DEF SellDeadlock, tables
  <2>2. Control'
    BY <1>7, NextLineKeeps DEF SellDeadlock, Waiting, Selling, tables
  <2> QED BY <2>1, <2>2
<1>8. CASE DetachedSellLine(h)
  <2> DEFINE p == Head(todo[h]).product
             n == Head(todo[h]).quantity
  <2>1. p \in Products /\ n \in Nat
    BY <1>8, HeadAndTail DEF DetachedSellLine, Selling
  <2>2. /\ detached[h] /\ Free(h, p) /\ quantity[p] >= n
        /\ quantity' = [quantity EXCEPT ![p] = @ - n]
        /\ moved' = [moved EXCEPT ![p] = @ - n]
        /\ UNCHANGED <<own, delta, shared, detached, deadlocks>>
    BY <1>8 DEF DetachedSellLine, faults
  <2>3. Control'
    BY <1>8, NextLineKeeps DEF DetachedSellLine, Selling
  <2> HIDE DEF p, n
  <2>4. /\ -n \in Int /\ quantity[p] + (-n) \in Nat
        /\ quantity[p] - n = quantity[p] + (-n) /\ moved[p] - n = moved[p] + (-n)
    <3>1. quantity[p] \in Nat /\ moved[p] \in Int
      BY <2>1 DEF Book, BookTypes
    <3> QED BY <2>1, <2>2, <3>1
  <2>5. own[h] = Untouched
    BY <2>2 DEF Book, DetachedByDeadlock
  <2>6. /\ quantity' = [quantity EXCEPT ![p] = @ + (-n)]
        /\ moved' = [moved EXCEPT ![p] = @ + (-n)]
    BY <2>2, <2>4
  <2>7. Book'
    BY <2>1, <2>2, <2>4, <2>5, <2>6, AddKeeps
  <2> QED BY <2>3, <2>7
<1>9. CASE DetachedSellFails(h)
  <2> DEFINE p == Head(todo[h]).product
             n == Head(todo[h]).quantity
  <2>1. p \in Products /\ n \in Nat
    BY <1>9, HeadAndTail DEF DetachedSellFails, Selling
  <2>2. /\ detached[h] /\ Free(h, p) /\ quantity[p] >= n
        /\ quantity' = [quantity EXCEPT ![p] = @ - n]
        /\ moved' = moved
    BY <1>9 DEF DetachedSellFails, Selling
  <2>3. Control' /\ Ended(h)
    BY <1>9, AnswerEnds DEF DetachedSellFails
  <2> HIDE DEF p, n
  <2>4. Book'
    BY <2>1, <2>2, <2>3, LossKeeps
  <2> QED BY <2>3, <2>4
<1>10. CASE CommitSale(h)
  <2>1. Answer(h, "done") /\ UNCHANGED purchase
    BY <1>10 DEF CommitSale
  <2>2. /\ quantity' = [p \in Products |-> Current(h, p)]
        /\ moved' = [p \in Products |-> moved[p] + delta[h][p]]
        /\ Ended(h)
    BY <1>10 DEF CommitSale, Apply, Answer, Ended, faults
  <2>3. Book'
    BY <2>2, CommitKeeps
  <2>4. req[h].lines \in Seq(Lines)
    BY <1>10 DEF CommitSale, Control
  <2>5. sale' \in [Sales -> [state : {"none", "draft", "final", "deleted"},
                             lines : Seq(Lines)]]
    BY <1>10, <2>4 DEF CommitSale, Control
  <2>6. Control'
    <3>1. /\ \A g \in Handlers \ {h} : pc'[g] = pc[g] /\ detached'[g] = detached[g]
          /\ ~detached'[h] /\ detached' \in [Handlers -> BOOLEAN]
          /\ pc'[h] = "answered" /\ req' = req /\ setting' = setting
          /\ todo' = [todo EXCEPT ![h] = <<>>]
          /\ pc' = [pc EXCEPT ![h] = "answered"]
      BY <2>1 DEF Control, Answer
    <3>2. <<>> \in Seq(Lines)
      OBVIOUS
    <3> QED BY <2>1, <2>5, <3>1, <3>2 DEF Control
  <2> QED BY <2>3, <2>6
<1>11. CASE DetachedCommit(h)
  BY <1>11, AnswerEnds, EndKeeps DEF DetachedCommit, tables
<1>12. CASE RestoreLine(h)
  <2> DEFINE p == Head(todo[h]).product
             n == Head(todo[h]).quantity
  <2>1. p \in Products /\ n \in Nat
    BY <1>12, HeadAndTail DEF RestoreLine
  <2>2. /\ Free(h, p) /\ Move(h, p, n)
        /\ UNCHANGED <<quantity, moved, shared, detached, deadlocks>>
    BY <1>12 DEF RestoreLine, tables, faults
  <2>3. Control'
    BY <1>12, NextLineKeeps DEF RestoreLine, tables
  <2>4. pc[h] = "restore"
    BY <1>12 DEF RestoreLine
  <2> HIDE DEF p, n
  <2>5. n \in Int /\ Current(h, p) + n \in Nat
    BY <2>1, CurrentType
  <2>6. Book'
    BY <2>1, <2>2, <2>4, <2>5, MoveKeeps DEF Control
  <2> QED BY <2>3, <2>6
<1>13. CASE CommitDeleteDraft(h)
  <2>1. Answer(h, "done") /\ UNCHANGED purchase
    BY <1>13 DEF CommitDeleteDraft
  <2>2. /\ quantity' = [p \in Products |-> Current(h, p)]
        /\ moved' = [p \in Products |-> moved[p] + delta[h][p]]
        /\ Ended(h)
    BY <1>13 DEF CommitDeleteDraft, Apply, Answer, Ended, faults
  <2>3. Book'
    BY <2>2, CommitKeeps
  <2>4. sale' \in [Sales -> [state : {"none", "draft", "final", "deleted"},
                             lines : Seq(Lines)]]
    BY <1>13 DEF CommitDeleteDraft, Control
  <2>5. Control'
    <3>1. /\ \A g \in Handlers \ {h} : pc'[g] = pc[g] /\ detached'[g] = detached[g]
          /\ ~detached'[h] /\ detached' \in [Handlers -> BOOLEAN]
          /\ pc'[h] = "answered" /\ req' = req /\ setting' = setting
          /\ todo' = [todo EXCEPT ![h] = <<>>]
          /\ pc' = [pc EXCEPT ![h] = "answered"]
      BY <2>1 DEF Control, Answer
    <3>2. <<>> \in Seq(Lines)
      OBVIOUS
    <3> QED BY <2>1, <2>4, <3>1, <3>2 DEF Control
  <2> QED BY <2>3, <2>5
<1> QED
  BY <1>1, <1>2, <1>3, <1>4, <1>5, <1>6, <1>7, <1>8, <1>9, <1>10, <1>11, <1>12, <1>13
     DEF SaleStep

\* Of the commands on purchase bills only the deletion is additive.
LEMMA PurchaseStepKeeps ==
  ASSUME Ops \subseteq ADDITIVE, Book, Control, NEW h \in Handlers, PurchaseStep(h)
  PROVE  Book' /\ Control'
<1>1. ASSUME NEW b \in Purchases, StartDeletePurchase(h, b)
      PROVE  Book' /\ Control'
  <2> DEFINE r == PurchaseRequest("delete_purchase", b, <<>>, FALSE)
             ls == IF setting = "disable" THEN <<>> ELSE purchase[b].lines
  <2>1. Book'
    BY <1>1, QuietKeeps DEF StartDeletePurchase, tables, faults
  <2>2. ls \in Seq(Lines)
    BY DEF Control
  <2>3. r \in [op : {"none", "sale", "delete_draft", "delete_purchase", "adjust"},
               bill : References, lines : Seq(AnyLines), final : BOOLEAN]
    BY DEF References, PurchaseRequest
  <2>4. Begin(h, "reverse", r, ls) /\ UNCHANGED <<setting, sale, purchase, detached>>
    BY <1>1 DEF StartDeletePurchase, tables
  <2> HIDE DEF r, ls
  <2>5. Control'
    BY <2>2, <2>3, <2>4, BeginKeeps
  <2> QED BY <2>1, <2>5
<1>2. CASE ReverseLine(h)
  <2> DEFINE p == Head(todo[h]).product
             n == Head(todo[h]).quantity
  <2>1. p \in Products /\ n \in Nat
    BY <1>2, HeadAndTail DEF ReverseLine
  <2>2. /\ Free(h, p) /\ Current(h, p) >= n /\ Move(h, p, -n)
        /\ UNCHANGED <<quantity, moved, shared, detached, deadlocks>>
    BY <1>2 DEF ReverseLine, tables, faults
  <2>3. Control'
    BY <1>2, NextLineKeeps DEF ReverseLine, tables
  <2>4. pc[h] = "reverse"
    BY <1>2 DEF ReverseLine
  <2> HIDE DEF p, n
  <2>5. -n \in Int /\ Current(h, p) + (-n) \in Nat
    BY <2>1, <2>2, CurrentType
  <2>6. Book'
    BY <2>1, <2>2, <2>4, <2>5, MoveKeeps DEF Control
  <2> QED BY <2>3, <2>6
<1>3. CASE CommitDeletePurchase(h)
  <2>1. Answer(h, "done") /\ UNCHANGED sale
    BY <1>3 DEF CommitDeletePurchase
  <2>2. /\ quantity' = [p \in Products |-> Current(h, p)]
        /\ moved' = [p \in Products |-> moved[p] + delta[h][p]]
        /\ Ended(h)
    BY <1>3 DEF CommitDeletePurchase, Apply, Answer, Ended, faults
  <2>3. Book'
    BY <2>2, CommitKeeps
  <2>4. purchase' \in [Purchases -> [state : {"none", "draft", "final", "deleted"},
                                     lines : Seq(Lines)]]
    BY <1>3 DEF CommitDeletePurchase, Control
  <2>5. Control'
    <3>1. /\ \A g \in Handlers \ {h} : pc'[g] = pc[g] /\ detached'[g] = detached[g]
          /\ ~detached'[h] /\ detached' \in [Handlers -> BOOLEAN]
          /\ pc'[h] = "answered" /\ req' = req /\ setting' = setting
          /\ todo' = [todo EXCEPT ![h] = <<>>]
          /\ pc' = [pc EXCEPT ![h] = "answered"]
      BY <2>1 DEF Control, Answer
    <3>2. <<>> \in Seq(Lines)
      OBVIOUS
    <3> QED BY <2>1, <2>4, <3>1, <3>2 DEF Control
  <2> QED BY <2>3, <2>5
\* The others read quantities: they are not in use, and no handler stands in one.
<1>4. ASSUME NEW b \in Purchases, NEW ls \in Orders, NEW final \in BOOLEAN
      PROVE  ~StartAddPurchase(h, b, ls) /\ ~StartUpdatePurchase(h, b, ls, final)
  BY DEF StartAddPurchase, StartUpdatePurchase, ADDITIVE
<1>5. /\ ~OpenPurchase(h) /\ ~ReplaceLines(h) /\ ~ReadLine(h)
      /\ ~WriteLine(h) /\ ~RecordPurchase(h) /\ ~CommitPurchase(h)
  BY DEF Control, OpenPurchase, ReplaceLines, ReadLine, WriteLine, RecordPurchase,
         CommitPurchase
<1>6. CASE ReverseTimeout(h)
  <2>1. Book'
    BY <1>6, QuietKeeps DEF ReverseTimeout, tables
  <2>2. Control'
    BY <1>6, NextLineKeeps DEF ReverseTimeout, tables
  <2> QED BY <2>1, <2>2
<1> QED
  BY <1>1, <1>2, <1>3, <1>4, <1>5, <1>6 DEF PurchaseStep

LEMMA AdjustStepKeeps ==
  ASSUME Book, Control, NEW h \in Handlers, AdjustStep(h)
  PROVE  Book' /\ Control'
<1>1. ASSUME NEW p \in Products, NEW n \in Changes, StartAdjust(h, p, n)
      PROVE  Book' /\ Control'
  <2> DEFINE l == [product |-> p, quantity |-> n]
             r == [op |-> "adjust", bill |-> Manual, lines |-> <<l>>, final |-> FALSE]
  <2>1. Book'
    BY <1>1, QuietKeeps DEF StartAdjust, tables, faults
  <2>2. n \in Int
    BY QuantitiesAssumption
  <2>3. l \in AnyLines
    BY <2>2 DEF AnyLines
  <2>4. Begin(h, "adjust", r, <<>>) /\ UNCHANGED <<setting, sale, purchase, detached>>
    BY <1>1 DEF StartAdjust, tables
  <2> HIDE DEF l
  <2>5. <<l>> \in Seq(AnyLines) /\ <<l>> # <<>> /\ <<>> \in Seq(Lines)
    BY <2>3
  <2>6. /\ r \in [op : {"none", "sale", "delete_draft", "delete_purchase", "adjust"},
                  bill : References, lines : Seq(AnyLines), final : BOOLEAN]
        /\ r.lines # <<>>
    BY <2>5 DEF References
  <2> HIDE DEF r
  <2>7. Control'
    BY <2>4, <2>5, <2>6, BeginKeeps
  <2> QED BY <2>1, <2>7
<1>2. CASE AdjustRead(h)
  <2>1. CASE Answer(h, "short")
    BY <1>2, <2>1, AnswerEnds, EndKeeps DEF AdjustRead, tables
  <2>2. CASE UNCHANGED <<setting, pc, req, mode, todo, snap, own, delta, shared, detached,
                         reply, faults>>
    <3>1. Book'
      BY <1>2, <2>2, QuietKeeps DEF AdjustRead, tables, faults
    <3>2. Control'
      BY <1>2, <2>2 DEF AdjustRead, tables, Control
    <3> QED BY <3>1, <3>2
  <2> QED BY <1>2, <2>1, <2>2 DEF AdjustRead
<1>3. CASE AdjustWrite(h)
  <2> DEFINE p == Adjustment(h).product
             n == Adjustment(h).quantity
  <2>1. p \in Products /\ n \in Int
    <3>1. req[h].lines \in Seq(AnyLines) /\ req[h].lines # <<>>
      BY <1>3 DEF Control, AdjustWrite
    <3>2. Adjustment(h) \in AnyLines
      BY <3>1 DEF Adjustment
    <3> QED BY <3>2 DEF AnyLines
  <2>2. /\ Free(h, p) /\ quantity[p] + n >= 0
        /\ quantity' = [quantity EXCEPT ![p] = @ + n]
        /\ moved' = [moved EXCEPT ![p] = @ + n]
    BY <1>3 DEF AdjustWrite
  <2>3. Control' /\ Ended(h)
    BY <1>3, AnswerEnds DEF AdjustWrite
  <2> HIDE DEF p, n
  <2>4. quantity[p] + n \in Nat
    <3>1. quantity[p] \in Nat
      BY <2>1 DEF Book, BookTypes
    <3> QED BY <2>1, <2>2, <3>1
  <2>5. Book'
    BY <2>1, <2>2, <2>3, <2>4, AddKeeps
  <2> QED BY <2>3, <2>5
<1> QED BY <1>1, <1>2, <1>3 DEF AdjustStep

LEMMA AnswerStepsKeep ==
  ASSUME Book, Control, NEW h \in Handlers, Abort(h) \/ Done(h)
  PROVE  Book' /\ Control'
<1>1. CASE Abort(h)
  BY <1>1, AnswerEnds, EndKeeps DEF Abort, tables
<1>2. CASE Done(h)
  <2>1. Book'
    BY <1>2, QuietKeeps DEF Done, tables, faults
  <2>2. NoRequest \in [op : {"none", "sale", "delete_draft", "delete_purchase", "adjust"},
                       bill : References, lines : Seq(AnyLines), final : BOOLEAN]
    BY DEF NoRequest, References
  <2>3. /\ pc' = [pc EXCEPT ![h] = "idle"] /\ req' = [req EXCEPT ![h] = NoRequest]
        /\ pc[h] = "answered"
        /\ UNCHANGED <<setting, todo, sale, purchase, detached>>
    BY <1>2 DEF Done, tables
  <2> HIDE DEF NoRequest
  <2>4. Control'
    BY <2>2, <2>3 DEF Control
  <2> QED BY <2>1, <2>4
<1> QED BY <1>1, <1>2

LEMMA OwnerStepKeeps ==
  ASSUME Ops \subseteq ADDITIVE, Book, Control, OwnerStep
  PROVE  Book' /\ Control'
<1>1. ASSUME NEW s \in Sales, NEW ls \in Orders, SaveDraft(s, ls)
      PROVE  Book' /\ Control'
  <2>1. Book'
    BY <1>1, QuietKeeps DEF SaveDraft, faults
  <2>2. ls \in Seq(Lines)
    BY OrdersAssumption
  <2>3. Control'
    BY <1>1, <2>2 DEF SaveDraft, Control
  <2> QED BY <2>1, <2>3
<1>2. ASSUME NEW p \in Products, NEW n \in Changes
      PROVE  ~UpdateProduct(p, n) /\ ~AddQuantity(p, n)
  BY DEF UpdateProduct, AddQuantity, ADDITIVE
<1>3. ASSUME NEW m \in Modes, ChangeSetting(m)
      PROVE  Book' /\ Control'
  <2>1. Book'
    BY <1>3, QuietKeeps DEF ChangeSetting, tables, faults
  <2>2. Control'
    BY <1>3, ModesAssumption DEF ChangeSetting, tables, Control
  <2> QED BY <2>1, <2>2
<1> QED BY <1>1, <1>2, <1>3 DEF OwnerStep
----------------------------------------------------------------------------
(* The theorems of the ledger *)

LEMMA InitBook == Init => Book /\ Control
<1> SUFFICES ASSUME Init PROVE Book /\ Control
  OBVIOUS
<1>1. /\ Untouched \in [Products -> Nat \cup {NoQuantity}]
      /\ Nothing \in [Products -> Int]
      /\ \A p \in Products : Untouched[p] = NoQuantity /\ Nothing[p] = 0
  BY DEF Untouched, Nothing
<1>2. BookTypes
  BY <1>1, QuantitiesAssumption DEF Init, BookTypes
<1>3. \A h \in Handlers : own[h] = Untouched /\ delta[h] = Nothing /\ ~detached[h]
  BY DEF Init
<1>4. Exclusive /\ OwnIsMoved /\ DetachedByDeadlock
  BY <1>1, <1>3 DEF Exclusive, OwnIsMoved, DetachedByDeadlock
<1>5. \A p \in Products : quantity[p] = Opening[p] + moved[p]
  BY <1>1, QuantitiesAssumption DEF Init
<1>6. ExactBeforeDeadlocks /\ NothingFromNowhere
  <2>1. \A p \in Products : quantity[p] \in Nat
    BY <1>2 DEF BookTypes
  <2> QED BY <1>5, <2>1 DEF ExactBeforeDeadlocks, QuantityIsLedger, NothingFromNowhere
<1>7. Control
  <2>1. <<>> \in Seq(Lines) /\ <<>> \in Seq(AnyLines)
    OBVIOUS
  <2>2. NoRequest \in [op : {"none", "sale", "delete_draft", "delete_purchase", "adjust"},
                       bill : References, lines : Seq(AnyLines), final : BOOLEAN]
    BY <2>1 DEF NoRequest, References
  <2>3. /\ pc = [h \in Handlers |-> "idle"] /\ req = [h \in Handlers |-> NoRequest]
        /\ todo = [h \in Handlers |-> <<>>] /\ detached = [h \in Handlers |-> FALSE]
        /\ setting \in Modes /\ sale = [s \in Sales |-> NoRow]
        /\ purchase = [b \in Purchases |->
                        IF b \in Received THEN [state |-> "final", lines |-> FirstOrder]
                                          ELSE NoRow]
    BY DEF Init
  <2> HIDE DEF NoRequest
  <2> QED BY <2>1, <2>2, <2>3, OrdersAssumption, ModesAssumption DEF Control, NoRow
<1> QED BY <1>2, <1>4, <1>6, <1>7 DEF Book

LEMMA NextBook ==
  ASSUME Ops \subseteq ADDITIVE, Book, Control, [Next]_vars
  PROVE  Book' /\ Control'
<1>1. ASSUME NEW h \in Handlers, Step(h)
      PROVE  Book' /\ Control'
  BY <1>1, SaleStepKeeps, PurchaseStepKeeps, AdjustStepKeeps, AnswerStepsKeep DEF Step
<1>2. CASE OwnerStep
  BY <1>2, OwnerStepKeeps
<1>3. CASE UNCHANGED vars
  <2>1. Book'
    BY <1>3, QuietKeeps DEF vars
  <2>2. Control'
    BY <1>3 DEF vars, Control
  <2> QED BY <2>1, <2>2
<1> QED BY <1>1, <1>2, <1>3 DEF Next

LEMMA BookHolds ==
  ASSUME Ops \subseteq ADDITIVE
  PROVE  Spec => [](Book /\ Control)
<1>1. Init => Book /\ Control
  BY InitBook
<1>2. (Book /\ Control) /\ [Next]_vars => (Book /\ Control)'
  BY NextBook
<1> QED BY <1>1, <1>2, PTL DEF Spec

\* Where only the additive commands run, a transaction holds what it wrote alone, wrote
\* what its movements say, and is detached only after a deadlock.
THEOREM LedgerTheorem ==
  ASSUME Ops \subseteq ADDITIVE
  PROVE  Spec => []LedgerInv
<1>1. Book /\ Control => LedgerInv
  BY DEF Book, Control, LedgerInv, Additive
<1> QED BY <1>1, BookHolds, PTL

\* No interleaving of the additive commands, no timeout and no deadlock lets a product
\* have more stock than its movements account for (stock.go).
THEOREM NothingFromNowhereTheorem ==
  ASSUME Ops \subseteq ADDITIVE
  PROVE  Spec => []NothingFromNowhere
<1>1. Book => NothingFromNowhere
  BY DEF Book
<1> QED BY <1>1, BookHolds, PTL

\* Without deadlocks, which can lose a movement but not its deduction, the quantity of a
\* product is exactly what it was and what its movements add up to (stock.go).
THEOREM QuantityTheorem ==
  ASSUME Ops \subseteq ADDITIVE, MaxDeadlocks = 0
  PROVE  Spec => []QuantityIsLedger
<1> DEFINE Calm == deadlocks = 0
<1>1. Init => Calm
  BY DEF Init
<1>2. Calm /\ [Next]_vars => Calm'
  <2> SUFFICES ASSUME Calm, [Next]_vars PROVE deadlocks' = deadlocks
    OBVIOUS
  <2>1. ASSUME NEW h \in Handlers, SaleStep(h)
        PROVE  deadlocks' = deadlocks
    <3>1. ~SellDeadlock(h)
      BY DEF SellDeadlock
    <3>2. CASE \E s \in Sales :
                 (\E ls \in Orders : StartSale(h, s, ls)) \/ StartDeleteDraft(h, s)
      BY <3>2 DEF StartSale, StartDeleteDraft, faults
    <3>3. CASE SellShort(h) \/ DetachedSellFails(h) \/ CommitSale(h) \/ DetachedCommit(h)
                 \/ CommitDeleteDraft(h)
      BY <3>3 DEF SellShort, DetachedSellFails, CommitSale, DetachedCommit,
                  CommitDeleteDraft, Answer, faults
    <3>4. CASE InsertLines(h) \/ SellLine(h) \/ SellTimeout(h) \/ DetachedSellLine(h)
                 \/ RestoreLine(h)
      BY <3>4 DEF InsertLines, SellLine, SellTimeout, DetachedSellLine, RestoreLine, faults
    <3> QED BY <2>1, <3>1, <3>2, <3>3, <3>4 DEF SaleStep
  <2>2. ASSUME NEW h \in Handlers, PurchaseStep(h)
        PROVE  deadlocks' = deadlocks
    BY <2>2 DEF PurchaseStep, StartAddPurchase, StartUpdatePurchase, StartDeletePurchase,
       OpenPurchase, ReverseLine, ReverseTimeout, ReplaceLines, ReadLine, WriteLine,
       RecordPurchase, CommitPurchase, CommitDeletePurchase, Answer, faults
  <2>3. ASSUME NEW h \in Handlers, AdjustStep(h) \/ Abort(h) \/ Done(h)
        PROVE  deadlocks' = deadlocks
    BY <2>3 DEF AdjustStep, StartAdjust, AdjustRead, AdjustWrite, Abort, Done, Answer, faults
  <2>4. CASE OwnerStep
    BY <2>4 DEF OwnerStep, SaveDraft, UpdateProduct, AddQuantity, Edit, ChangeSetting, faults
  <2>5. CASE UNCHANGED vars
    BY <2>5 DEF vars
  <2> QED BY <2>1, <2>2, <2>3, <2>4, <2>5 DEF Next, Step
<1>3. Book /\ Calm => QuantityIsLedger
  BY DEF Book, ExactBeforeDeadlocks
<1>4. Spec => []Calm
  BY <1>1, <1>2, PTL DEF Spec
<1> QED BY <1>3, <1>4, BookHolds, PTL
----------------------------------------------------------------------------
(* What lines ask for *)

LEMMA TotalOfLines ==
  ASSUME NEW ls \in Seq(Lines), NEW p
  PROVE  LET part == [i \in DOMAIN ls |-> IF ls[i].product = p THEN ls[i].quantity ELSE 0] IN
         IntegersOn(part, DOMAIN ls) /\ \A i \in DOMAIN ls : part[i] \in Nat
<1>1. DOMAIN ls = 1 .. Len(ls) /\ Len(ls) \in Nat
  OBVIOUS
<1>2. IsFiniteSet(DOMAIN ls)
  BY <1>1, FS_Interval
<1>3. ASSUME NEW i \in DOMAIN ls PROVE ls[i].quantity \in Nat
  <2>1. ls[i] \in Lines
    OBVIOUS
  <2> QED
    BY <2>1 DEF Lines
<1> QED
  BY <1>2, <1>3 DEF IntegersOn

LEMMA TotalNat == ASSUME NEW ls \in Seq(Lines), NEW p PROVE Total(ls, p) \in Nat
<1> DEFINE part == [i \in DOMAIN ls |-> IF ls[i].product = p THEN ls[i].quantity ELSE 0]
           none == [i \in DOMAIN ls |-> 0]
<1>1. IntegersOn(part, DOMAIN ls) /\ \A i \in DOMAIN ls : part[i] \in Nat
  BY TotalOfLines
<1>2. IntegersOn(none, DOMAIN ls) /\ (\A i \in DOMAIN ls : none[i] = 0)
      /\ \A i \in DOMAIN ls : none[i] <= part[i]
  BY <1>1 DEF IntegersOn
<1>3. IsFiniteSet(DOMAIN ls)
  BY <1>1 DEF IntegersOn
<1> HIDE DEF part, none
<1>4. SumFunctionOnSet(none, DOMAIN ls) = 0 * Cardinality(DOMAIN ls)
  BY <1>2, <1>3, SumConstant
<1>5. Cardinality(DOMAIN ls) \in Nat
  BY <1>3, FS_CardinalityType
<1>6. SumFunctionOnSet(none, DOMAIN ls) <= SumFunctionOnSet(part, DOMAIN ls)
  BY <1>1, <1>2, SumMonotone
<1>7. SumFunctionOnSet(part, DOMAIN ls) \in Int
  BY <1>1, SumInt
<1>8. SumFunctionOnSet(part, DOMAIN ls) \in Nat
  BY <1>4, <1>5, <1>6, <1>7
<1> QED
  BY <1>8 DEF Total, part

LEMMA TotalEmpty == ASSUME NEW p PROVE Total(<<>>, p) = 0
<1>1. DOMAIN <<>> = {}
  OBVIOUS
<1> QED
  BY <1>1, SumEmpty, Zenon DEF Total

\* The lines after the first ask for as much less as the first asks for.
LEMMA TotalTail ==
  ASSUME NEW ls \in Seq(Lines), ls # <<>>, NEW p
  PROVE  Total(ls, p) = (IF Head(ls).product = p THEN Head(ls).quantity ELSE 0) + Total(Tail(ls), p)
<1> DEFINE part == [i \in DOMAIN ls |-> IF ls[i].product = p THEN ls[i].quantity ELSE 0]
           rest == [i \in DOMAIN Tail(ls) |->
                      IF Tail(ls)[i].product = p THEN Tail(ls)[i].quantity ELSE 0]
           name == [i \in DOMAIN Tail(ls) |-> i + 1]
           Later == {name[i] : i \in DOMAIN Tail(ls)}
<1>1. Tail(ls) \in Seq(Lines)
  OBVIOUS
<1>2. /\ IntegersOn(part, DOMAIN ls) /\ IntegersOn(rest, DOMAIN Tail(ls))
  BY <1>1, TotalOfLines
<1>3. /\ DOMAIN ls = Later \cup {1} /\ 1 \notin Later /\ 1 \in DOMAIN ls /\ Head(ls) = ls[1]
      /\ \A i \in DOMAIN Tail(ls) : i \in Int /\ i + 1 \in DOMAIN ls /\ Tail(ls)[i] = ls[i + 1]
  <2>1. DOMAIN ls = 1 .. Len(ls) /\ DOMAIN Tail(ls) = 1 .. (Len(ls) - 1) /\ Len(ls) \in Nat /\ Len(ls) > 0
    OBVIOUS
  <2>2. ASSUME NEW j \in DOMAIN ls, j # 1 PROVE j \in Later
    <3>1. j - 1 \in DOMAIN Tail(ls) /\ name[j - 1] = j
      BY <2>1, <2>2
    <3> QED
      BY <3>1
  <2>3. ASSUME NEW i \in DOMAIN Tail(ls) PROVE i \in Int /\ i + 1 \in DOMAIN ls /\ i + 1 # 1 /\ Tail(ls)[i] = ls[i + 1]
    BY <2>1
  <2> QED
    BY <2>1, <2>2, <2>3
<1>4. \A i \in DOMAIN Tail(ls) : part[name[i]] = rest[i]
  BY <1>3
<1>5. name \in [DOMAIN Tail(ls) -> Later] /\ \A i, j \in DOMAIN Tail(ls) : name[i] = name[j] => i = j
  BY <1>3
<1>6. part[1] = IF Head(ls).product = p THEN Head(ls).quantity ELSE 0
  BY <1>3
<1>7. Total(ls, p) = SumFunctionOnSet(part, DOMAIN ls) /\ Total(Tail(ls), p) = SumFunctionOnSet(rest, DOMAIN Tail(ls))
  BY DEF Total
<1>8. SumFunctionOnSet(part, Later) = SumFunctionOnSet(rest, DOMAIN Tail(ls))
  <2>1. IsFiniteSet(DOMAIN Tail(ls)) /\ \A i \in DOMAIN Tail(ls) : rest[i] \in Int /\ part[name[i]] = rest[i]
    BY <1>2, <1>4 DEF IntegersOn
  <2>2. \A y \in Later : \E i \in DOMAIN Tail(ls) : name[i] = y
    OBVIOUS
  <2> HIDE DEF part, rest, name, Later
  <2> QED
    BY <1>5, <2>1, <2>2, SumRenamed
<1> HIDE DEF part, rest, Later
<1>9. SumFunctionOnSet(part, DOMAIN ls) = part[1] + SumFunctionOnSet(part, Later)
  <2>1. IntegersOn(part, Later \cup {1})
    BY <1>2, <1>3
  <2>2. SumFunctionOnSet(part, Later \cup {1}) = part[1] + SumFunctionOnSet(part, Later)
    BY <1>3, <2>1, SumAdd
  <2> QED
    BY <1>3, <2>2
<1> QED
  BY <1>6, <1>7, <1>8, <1>9
----------------------------------------------------------------------------
(* Types, and where the handlers of every command stand *)

States == {"none", "draft", "final", "deleted"}
Stages == {"idle", "insert", "sell", "restore", "wait", "reverse", "line", "write", "commit",
           "adjust", "answered"}
TablesTyped ==
  /\ quantity \in [Products -> Nat]
  /\ moved \in [Products -> Int]
  /\ traced \in [References -> [Products -> Int]]
  /\ setting \in {"disable", "warn", "enforce"}
  /\ sale \in [Sales -> [state : States, lines : Seq(Lines)]]
  /\ purchase \in [Purchases -> [state : States, lines : Seq(Lines)]]
WorkTyped ==
  /\ pc \in [Handlers -> Stages]
  /\ req \in [Handlers -> Requests]
  /\ mode \in [Handlers -> {"disable", "warn", "enforce"}]
  /\ todo \in [Handlers -> Seq(Lines)]
  /\ seen \in [Handlers -> Maybe(Nat)]
  /\ snap \in [Handlers -> [Products -> Maybe(Nat)]]
  /\ own \in [Handlers -> [Products -> Maybe(Nat)]]
  /\ delta \in [Handlers -> [Products -> Int]]
  /\ shared \in [Handlers -> SUBSET Products]
  /\ detached \in [Handlers -> BOOLEAN]
  /\ reply \in [Handlers -> {"none", "done", "short", "failed"}]
FaultsTyped == timeouts \in 0 .. MaxTimeouts /\ deadlocks \in 0 .. MaxDeadlocks

LEMMA TypeParts == TypeOK <=> TablesTyped /\ WorkTyped /\ FaultsTyped
BY DEF TypeOK, TablesTyped, WorkTyped, FaultsTyped, States, Stages

\* What a handler is at, at each stage, and what it has read and written by then.
InSale == {"insert", "sell"}
Writing == {"line", "write", "commit"}
Buying == {"wait", "reverse"} \cup Writing
Stand(h) ==
  /\ pc[h] \in InSale => req[h].op = "sale"
  /\ pc[h] = "restore" => req[h].op = "delete_draft"
  /\ pc[h] \in InSale \cup {"restore"} => req[h].bill \in Sales
  /\ pc[h] = "wait" => req[h].op = "update_purchase"
  /\ pc[h] = "reverse" => req[h].op \in {"update_purchase", "delete_purchase"}
  /\ pc[h] \in Writing => req[h].op \in {"add_purchase", "update_purchase"}
  /\ pc[h] \in Buying => req[h].bill \in Purchases
  /\ pc[h] \in InSale \cup Buying => req[h].lines \in Seq(Lines)
  /\ pc[h] = "adjust" => req[h].op = "adjust" /\ req[h].lines # <<>>
  /\ pc[h] = "write" => todo[h] # <<>> /\ seen[h] # NoQuantity
  /\ pc[h] = "commit" => todo[h] = <<>>
  /\ pc[h] \in Writing =>
       \A p \in ProductsOf(req[h].lines) : p \in ProductsOf(todo[h]) \/ own[h][p] # NoQuantity
  /\ snap[h] = Untouched \/ snap[h] \in [Products -> Nat]
  /\ detached[h] => pc[h] = "sell"
Stands == \A h \in Handlers : Stand(h)
Typed == TablesTyped /\ WorkTyped /\ FaultsTyped /\ Stands

\* The others stand where they stood.
OthersSame(h) ==
  \A g \in Handlers \ {h} :
    /\ pc'[g] = pc[g] /\ req'[g] = req[g] /\ todo'[g] = todo[g] /\ seen'[g] = seen[g]
    /\ snap'[g] = snap[g] /\ own'[g] = own[g] /\ detached'[g] = detached[g]

LEMMA OthersStand ==
  ASSUME Stands, NEW h \in Handlers, OthersSame(h), Stand(h)'
  PROVE  Stands'
<1>1. ASSUME NEW g \in Handlers \ {h} PROVE Stand(g)'
  <2>1. Stand(g)
    BY DEF Stands
  <2>2. /\ pc'[g] = pc[g] /\ req'[g] = req[g] /\ todo'[g] = todo[g] /\ seen'[g] = seen[g]
        /\ snap'[g] = snap[g] /\ own'[g] = own[g] /\ detached'[g] = detached[g]
    BY DEF OthersSame
  <2> QED
    BY <2>1, <2>2 DEF Stand, Untouched
<1> QED
  BY <1>1 DEF Stands

LEMMA Consts ==
  /\ Untouched \in [Products -> Maybe(Nat)] /\ \A p \in Products : Untouched[p] = NoQuantity
  /\ Nothing \in [Products -> Int] /\ \A p \in Products : Nothing[p] = 0
  /\ <<>> \in Seq(Lines) /\ NoRequest \in Requests
<1>1. <<>> \in Seq([product : Products, quantity : Int]) /\ <<>> \in Seq(Lines)
  OBVIOUS
<1> QED
  BY <1>1 DEF Untouched, Nothing, Maybe, NoRequest, Requests, References

LEMMA CurrentNat ==
  ASSUME TablesTyped, WorkTyped, NEW h \in Handlers, NEW p \in Products
  PROVE  Current(h, p) \in Nat
BY DEF TablesTyped, WorkTyped, Current, Maybe

LEMMA ReadNat ==
  ASSUME TablesTyped, WorkTyped, Stands, NEW h \in Handlers, NEW p \in Products
  PROVE  Read(h, p) \in Nat /\ Snapshot(h) \in [Products -> Nat]
<1>1. Snapshot(h) \in [Products -> Nat]
  BY DEF Stands, Stand, Snapshot, TablesTyped
<1> QED
  BY <1>1 DEF WorkTyped, Read, Maybe

LEMMA FirstLine ==
  ASSUME WorkTyped, NEW h \in Handlers, todo[h] # <<>>
  PROVE  /\ Head(todo[h]) \in Lines
         /\ Head(todo[h]).product \in Products /\ Head(todo[h]).quantity \in Nat \ {0}
         /\ Tail(todo[h]) \in Seq(Lines)
<1>1. todo[h] \in Seq(Lines)
  BY DEF WorkTyped
<1>2. Head(todo[h]) \in Lines /\ Tail(todo[h]) \in Seq(Lines)
  BY <1>1
<1> QED BY <1>2 DEF Lines

LEMMA BeginTyped ==
  ASSUME Typed, NEW h \in Handlers, NEW stage \in Stages, NEW r \in Requests,
         NEW lines \in Seq(Lines), Begin(h, stage, r, lines), Stand(h)',
         UNCHANGED <<tables, setting, seen, snap, own, delta, shared, detached, reply, faults>>
  PROVE  Typed'
<1>1. TablesTyped' /\ FaultsTyped'
  BY DEF Typed, TablesTyped, FaultsTyped, tables, faults
<1>2. WorkTyped'
  BY DEF Typed, WorkTyped, TablesTyped, Begin
<1>3. OthersSame(h)
  BY DEF Typed, WorkTyped, Begin, OthersSame
<1> QED
  BY <1>1, <1>2, <1>3, OthersStand DEF Typed

LEMMA AnswerTyped ==
  ASSUME Typed, NEW h \in Handlers, NEW kind \in {"done", "short", "failed"}, Answer(h, kind),
         TablesTyped'
  PROVE  Typed'
<1>1. FaultsTyped'
  BY DEF Typed, FaultsTyped, Answer, faults
<1>2. WorkTyped'
  BY Consts DEF Typed, WorkTyped, Answer, Stages, Maybe
<1>3. OthersSame(h)
  BY DEF Typed, WorkTyped, Answer, OthersSame
<1>4. Stand(h)'
  <2>1. /\ pc'[h] = "answered" /\ ~detached'[h] /\ snap'[h] = Untouched
        /\ req' = req
    BY DEF Typed, WorkTyped, Answer
  <2> QED
    BY <2>1 DEF Stand, InSale, Buying, Writing, Untouched
<1> QED
  BY <1>1, <1>2, <1>3, <1>4, OthersStand DEF Typed

\* A commit's tables.
LEMMA ApplyTyped ==
  ASSUME Typed, NEW h \in Handlers, NEW r \in References, Apply(h, r)
  PROVE  /\ quantity' \in [Products -> Nat] /\ moved' \in [Products -> Int]
         /\ traced' \in [References -> [Products -> Int]]
<1>1. quantity' \in [Products -> Nat]
  BY CurrentNat DEF Typed, Apply
<1>2. \A p \in Products : delta[h][p] \in Int /\ moved[p] \in Int /\ traced[r][p] \in Int
  BY DEF Typed, TablesTyped, WorkTyped
<1>3. moved' \in [Products -> Int]
  BY <1>2 DEF Apply
<1>4. [p \in Products |-> traced[r][p] + delta[h][p]] \in [Products -> Int]
  BY <1>2
<1>5. traced' = [traced EXCEPT ![r] = [p \in Products |-> traced[r][p] + delta[h][p]]]
  BY DEF Apply, Typed, TablesTyped
<1>6. traced' \in [References -> [Products -> Int]]
  BY <1>4, <1>5 DEF Typed, TablesTyped
<1> QED
  BY <1>1, <1>3, <1>6

\* A line is moved, and the next one comes.
LEMMA MoveTyped ==
  ASSUME Typed, NEW h \in Handlers, pc[h] \in {"sell", "restore", "reverse"}, todo[h] # <<>>,
         NEW p \in Products, NEW d \in Int, Current(h, p) + d \in Nat, Move(h, p, d), NextLine(h),
         UNCHANGED <<tables, setting, pc, req, mode, seen, snap, shared, detached, reply, faults>>
  PROVE  Typed'
<1>1. TablesTyped' /\ FaultsTyped'
  BY DEF Typed, TablesTyped, FaultsTyped, tables, faults
<1>2. WorkTyped'
  <2>1. own' \in [Handlers -> [Products -> Maybe(Nat)]]
    BY DEF Typed, WorkTyped, Move, Maybe
  <2>2. delta' \in [Handlers -> [Products -> Int]]
    BY DEF Typed, WorkTyped, Move
  <2>3. todo' \in [Handlers -> Seq(Lines)]
    BY FirstLine DEF Typed, WorkTyped, NextLine
  <2> QED
    BY <2>1, <2>2, <2>3 DEF Typed, WorkTyped
<1>3. OthersSame(h)
  BY DEF Typed, WorkTyped, Move, NextLine, OthersSame
<1>4. Stand(h)'
  <2>1. Stand(h)
    BY DEF Typed, Stands
  <2> QED
    BY <2>1 DEF Stand, InSale, Buying, Writing, Untouched
<1> QED
  BY <1>1, <1>2, <1>3, <1>4, OthersStand DEF Typed

LEMMA OrdersAreLines == Orders \subseteq Seq(Lines) /\ FirstOrder \in Seq(Lines)
BY OrdersAssumption

LEMMA ProductsAre == ASSUME NEW ls \in Seq(Lines) PROVE ProductsOf(ls) \in SUBSET Products
<1>1. ASSUME NEW i \in DOMAIN ls PROVE ls[i].product \in Products
  <2>1. ls[i] \in Lines
    OBVIOUS
  <2> QED
    BY <2>1 DEF Lines
<1> QED
  BY <1>1 DEF ProductsOf

\* The products of a sequence are that of its head and those of its tail.
LEMMA ProductsOfTail ==
  ASSUME NEW ls \in Seq(Lines), ls # <<>>
  PROVE  ProductsOf(ls) = {Head(ls).product} \cup ProductsOf(Tail(ls))
<1>1. ASSUME NEW i \in DOMAIN ls PROVE ls[i].product \in {Head(ls).product} \cup ProductsOf(Tail(ls))
  <2>1. CASE i = 1
    BY <2>1
  <2>2. CASE i # 1
    <3>1. i - 1 \in DOMAIN Tail(ls) /\ Tail(ls)[i - 1] = ls[i]
      BY <2>2
    <3> QED
      BY <3>1 DEF ProductsOf
  <2> QED
    BY <2>1, <2>2
<1>2. Head(ls) = ls[1] /\ 1 \in DOMAIN ls
  OBVIOUS
<1>3. ASSUME NEW i \in DOMAIN Tail(ls) PROVE Tail(ls)[i] = ls[i + 1] /\ i + 1 \in DOMAIN ls
  OBVIOUS
<1> QED
  BY <1>1, <1>2, <1>3 DEF ProductsOf

LEMMA RequestTyped ==
  ASSUME NEW op \in {"sale", "delete_draft", "add_purchase", "update_purchase", "delete_purchase"},
         NEW b \in Sales \cup Purchases, NEW ls \in Seq(Lines), NEW final \in BOOLEAN
  PROVE  [op |-> op, bill |-> b, lines |-> ls, final |-> final] \in Requests
<1>1. ls \in Seq([product : Products, quantity : Int])
  BY LinesAreLines DEF AnyLines
<1> QED
  BY <1>1 DEF Requests, References

LEMMA StartsTyped ==
  ASSUME Typed, NEW h \in Handlers,
         \/ \E s \in Sales : (\E ls \in Orders : StartSale(h, s, ls)) \/ StartDeleteDraft(h, s)
         \/ \E b \in Purchases :
              \/ \E ls \in Orders :
                   \/ StartAddPurchase(h, b, ls)
                   \/ \E final \in BOOLEAN : StartUpdatePurchase(h, b, ls, final)
              \/ StartDeletePurchase(h, b)
         \/ \E p \in Products, n \in Changes : StartAdjust(h, p, n)
  PROVE  Typed'
<1> DEFINE Rest == UNCHANGED <<tables, setting, seen, snap, own, delta, shared, detached, reply, faults>>
<1>1. ASSUME NEW stage \in Stages, NEW r \in Requests, NEW lines \in Seq(Lines),
             Begin(h, stage, r, lines), Rest
      PROVE  /\ pc'[h] = stage /\ req'[h] = r /\ todo'[h] = lines /\ pc[h] = "idle"
             /\ seen'[h] = seen[h] /\ snap'[h] = snap[h] /\ own'[h] = own[h] /\ ~detached'[h]
             /\ snap'[h] = Untouched \/ snap'[h] \in [Products -> Nat]
  BY <1>1 DEF Typed, WorkTyped, Stands, Stand, Begin
<1>2. ASSUME NEW s \in Sales, NEW ls \in Orders, StartSale(h, s, ls) PROVE Typed'
  <2> DEFINE r == [op |-> "sale", bill |-> s, lines |-> ls, final |-> TRUE]
  <2>1. ls \in Seq(Lines) /\ <<>> \in Seq(Lines) /\ r \in Requests
    BY OrdersAreLines, Consts, RequestTyped
  <2>2. Begin(h, "insert", r, <<>>) /\ Rest /\ "insert" \in Stages
    BY <1>2 DEF StartSale, Stages
  <2>3. r.op = "sale" /\ r.bill = s /\ r.lines = ls
    OBVIOUS
  <2> HIDE DEF r
  <2>4. Stand(h)'
    BY <1>1, <2>1, <2>2, <2>3 DEF Stand, InSale, Buying, Writing, Untouched
  <2> QED
    BY <2>1, <2>2, <2>4, BeginTyped
<1>3. ASSUME NEW s \in Sales, StartDeleteDraft(h, s) PROVE Typed'
  <2> DEFINE r == [op |-> "delete_draft", bill |-> s, lines |-> <<>>, final |-> FALSE]
             ls == IF setting = "disable" THEN <<>> ELSE sale[s].lines
  <2>1. ls \in Seq(Lines) /\ r \in Requests
    BY Consts, RequestTyped DEF Typed, TablesTyped
  <2>2. Begin(h, "restore", r, ls) /\ Rest /\ "restore" \in Stages
    BY <1>3 DEF StartDeleteDraft, Stages
  <2>3. r.op = "delete_draft" /\ r.bill = s
    OBVIOUS
  <2> HIDE DEF r, ls
  <2>4. Stand(h)'
    BY <1>1, <2>1, <2>2, <2>3 DEF Stand, InSale, Buying, Writing, Untouched
  <2> QED
    BY <2>1, <2>2, <2>4, BeginTyped
<1>4. ASSUME NEW b \in Purchases, NEW ls \in Orders, StartAddPurchase(h, b, ls) PROVE Typed'
  <2> DEFINE r == PurchaseRequest("add_purchase", b, ls, TRUE)
  <2>1. ls \in Seq(Lines) /\ r \in Requests
    BY OrdersAreLines, RequestTyped DEF PurchaseRequest
  <2>2. Begin(h, "line", r, ls) /\ Rest /\ "line" \in Stages
    BY <1>4 DEF StartAddPurchase, Stages
  <2>3. r.op = "add_purchase" /\ r.bill = b /\ r.lines = ls
    BY DEF PurchaseRequest
  <2> HIDE DEF r
  <2>4. Stand(h)'
    BY <1>1, <2>1, <2>2, <2>3 DEF Stand, InSale, Buying, Writing, Untouched, ProductsOf
  <2> QED
    BY <2>1, <2>2, <2>4, BeginTyped
<1>5. ASSUME NEW b \in Purchases, NEW ls \in Orders, NEW final \in BOOLEAN,
             StartUpdatePurchase(h, b, ls, final)
      PROVE  Typed'
  <2> DEFINE r == PurchaseRequest("update_purchase", b, ls, final)
  <2>1. ls \in Seq(Lines) /\ <<>> \in Seq(Lines) /\ r \in Requests
    BY OrdersAreLines, Consts, RequestTyped DEF PurchaseRequest
  <2>2. Begin(h, "wait", r, <<>>) /\ Rest /\ "wait" \in Stages
    BY <1>5 DEF StartUpdatePurchase, Stages
  <2>3. r.op = "update_purchase" /\ r.bill = b /\ r.lines = ls
    BY DEF PurchaseRequest
  <2> HIDE DEF r
  <2>4. Stand(h)'
    BY <1>1, <2>1, <2>2, <2>3 DEF Stand, InSale, Buying, Writing, Untouched
  <2> QED
    BY <2>1, <2>2, <2>4, BeginTyped
<1>6. ASSUME NEW b \in Purchases, StartDeletePurchase(h, b) PROVE Typed'
  <2> DEFINE r == PurchaseRequest("delete_purchase", b, <<>>, FALSE)
             ls == IF setting = "disable" THEN <<>> ELSE purchase[b].lines
  <2>1. ls \in Seq(Lines) /\ <<>> \in Seq(Lines) /\ r \in Requests
    BY Consts, RequestTyped DEF Typed, TablesTyped, PurchaseRequest
  <2>2. Begin(h, "reverse", r, ls) /\ Rest /\ "reverse" \in Stages
    BY <1>6 DEF StartDeletePurchase, Stages
  <2>3. r.op = "delete_purchase" /\ r.bill = b /\ r.lines = <<>>
    BY DEF PurchaseRequest
  <2> HIDE DEF r, ls
  <2>4. Stand(h)'
    BY <1>1, <2>1, <2>2, <2>3 DEF Stand, InSale, Buying, Writing, Untouched
  <2> QED
    BY <2>1, <2>2, <2>4, BeginTyped
<1>7. ASSUME NEW p \in Products, NEW n \in Changes, StartAdjust(h, p, n) PROVE Typed'
  <2> DEFINE l == [product |-> p, quantity |-> n]
             r == [op |-> "adjust", bill |-> Manual, lines |-> <<l>>, final |-> FALSE]
  <2>1. Begin(h, "adjust", r, <<>>) /\ Rest /\ "adjust" \in Stages
    BY <1>7 DEF StartAdjust, Stages
  <2>2. l \in [product : Products, quantity : Int]
    BY QuantitiesAssumption
  <2> HIDE DEF l
  <2>3. r \in Requests /\ r.op = "adjust" /\ r.lines # <<>>
    BY <2>2 DEF Requests, References
  <2> HIDE DEF r
  <2>4. Stand(h)'
    BY <1>1, <2>1, <2>3, Consts DEF Stand, InSale, Buying, Writing, Untouched
  <2> QED
    BY <2>1, <2>3, <2>4, Consts, BeginTyped
<1> QED
  BY <1>2, <1>3, <1>4, <1>5, <1>6, <1>7

\* The other steps of a sale, or of the deletion of a draft.
LEMMA SaleTyped ==
  ASSUME Typed, NEW h \in Handlers,
         \/ InsertLines(h) \/ SellLine(h) \/ SellShort(h) \/ SellTimeout(h) \/ SellDeadlock(h)
         \/ DetachedSellLine(h) \/ DetachedSellFails(h) \/ CommitSale(h) \/ DetachedCommit(h)
         \/ RestoreLine(h) \/ CommitDeleteDraft(h)
  PROVE  Typed'
<1>0. Stand(h) /\ req[h].bill \in References /\ req[h].lines \in Seq([product : Products, quantity : Int])
  BY DEF Typed, Stands, WorkTyped, Requests
<1>1. CASE InsertLines(h)
  <2>1. req[h].lines \in Seq(Lines) /\ req[h].op = "sale" /\ req[h].bill \in Sales
    BY <1>0, <1>1 DEF InsertLines, Stand, InSale
  <2>2. ProductsOf(req[h].lines) \in SUBSET Products
    BY <2>1, ProductsAre
  <2>3. TablesTyped' /\ FaultsTyped'
    BY <1>1 DEF InsertLines, Typed, TablesTyped, FaultsTyped, tables, faults
  <2>4. WorkTyped'
    BY <1>1, <2>1, <2>2, Consts DEF InsertLines, Typed, WorkTyped, TablesTyped, Stages
  <2>5. OthersSame(h)
    BY <1>1 DEF InsertLines, Typed, WorkTyped, OthersSame
  <2>6. Stand(h)'
    BY <1>0, <1>1, <2>1 DEF InsertLines, Typed, WorkTyped, Stand, InSale, Buying, Writing, Untouched
  <2> QED
    BY <2>3, <2>4, <2>5, <2>6, OthersStand DEF Typed
<1>2. CASE SellLine(h)
  <2> DEFINE p == Head(todo[h]).product
             n == Head(todo[h]).quantity
  <2>1. todo[h] # <<>> /\ pc[h] = "sell"
    BY <1>2 DEF SellLine, Selling
  <2>2. p \in Products /\ n \in Nat
    BY <2>1, FirstLine DEF Typed
  <2>3. /\ Current(h, p) >= n /\ Move(h, p, -n) /\ NextLine(h)
        /\ UNCHANGED <<tables, setting, pc, req, mode, seen, snap, shared, detached, reply, faults>>
    BY <1>2 DEF SellLine
  <2> HIDE DEF p, n
  <2>4. -n \in Int /\ Current(h, p) + (-n) \in Nat
    BY <2>2, <2>3, CurrentNat DEF Typed
  <2> QED
    BY <2>1, <2>2, <2>3, <2>4, MoveTyped
<1>3. CASE RestoreLine(h)
  <2> DEFINE p == Head(todo[h]).product
             n == Head(todo[h]).quantity
  <2>1. todo[h] # <<>> /\ pc[h] = "restore"
    BY <1>3 DEF RestoreLine
  <2>2. p \in Products /\ n \in Nat
    BY <2>1, FirstLine DEF Typed
  <2>3. /\ Move(h, p, n) /\ NextLine(h)
        /\ UNCHANGED <<tables, setting, pc, req, mode, seen, snap, shared, detached, reply, faults>>
    BY <1>3 DEF RestoreLine
  <2> HIDE DEF p, n
  <2>4. n \in Int /\ Current(h, p) + n \in Nat
    BY <2>2, CurrentNat DEF Typed
  <2> QED
    BY <2>1, <2>2, <2>3, <2>4, MoveTyped
<1>4. CASE SellShort(h)
  BY <1>4, AnswerTyped DEF SellShort, Typed, TablesTyped, tables, Answer
<1>5. CASE DetachedCommit(h)
  BY <1>5, AnswerTyped DEF DetachedCommit, Typed, TablesTyped, tables, Answer
<1>6. CASE DetachedSellFails(h)
  <2>1. todo[h] # <<>>
    BY <1>6 DEF DetachedSellFails, Selling
  <2>2. Head(todo[h]).product \in Products /\ Head(todo[h]).quantity \in Nat
    BY <2>1, FirstLine DEF Typed
  <2>3. TablesTyped'
    BY <1>6, <2>2 DEF DetachedSellFails, Typed, TablesTyped, Answer
  <2> QED
    BY <1>6, <2>3, AnswerTyped DEF DetachedSellFails
<1>7. CASE CommitSale(h)
  <2>1. NoBill \in References /\ Apply(h, NoBill)
    BY <1>7 DEF CommitSale, References
  <2>2. req[h].lines \in Seq(Lines) /\ req[h].bill \in Sales
    BY <1>0, <1>7 DEF CommitSale, Stand, InSale
  <2>3. sale' \in [Sales -> [state : States, lines : Seq(Lines)]]
    BY <1>7, <2>2 DEF CommitSale, Typed, TablesTyped, States
  <2>4. TablesTyped'
    BY <1>7, <2>1, <2>3, ApplyTyped DEF CommitSale, Typed, TablesTyped, Answer
  <2> QED
    BY <1>7, <2>4, AnswerTyped DEF CommitSale
<1>8. CASE CommitDeleteDraft(h)
  <2>1. Apply(h, req[h].bill)
    BY <1>8 DEF CommitDeleteDraft
  <2>3. sale' \in [Sales -> [state : States, lines : Seq(Lines)]]
    BY <1>8 DEF CommitDeleteDraft, Typed, TablesTyped, States
  <2>4. TablesTyped'
    BY <1>0, <1>8, <2>1, <2>3, ApplyTyped DEF CommitDeleteDraft, Typed, TablesTyped, Answer
  <2> QED
    BY <1>8, <2>4, AnswerTyped DEF CommitDeleteDraft
<1>9. CASE SellTimeout(h) \/ SellDeadlock(h) \/ DetachedSellLine(h)
  <2>1. todo[h] # <<>> /\ pc[h] = "sell" /\ NextLine(h)
    BY <1>9 DEF SellTimeout, SellDeadlock, DetachedSellLine, Waiting, Selling
  <2>2. Head(todo[h]).product \in Products /\ Head(todo[h]).quantity \in Nat /\ Tail(todo[h]) \in Seq(Lines)
    BY <2>1, FirstLine DEF Typed
  <2>3. todo' \in [Handlers -> Seq(Lines)]
    BY <2>1, <2>2 DEF NextLine, Typed, WorkTyped
  <2>4. TablesTyped'
    <3>1. CASE SellTimeout(h) \/ SellDeadlock(h)
      BY <3>1 DEF SellTimeout, SellDeadlock, Typed, TablesTyped, tables
    <3>2. CASE DetachedSellLine(h)
      <4>1. /\ quantity' = [quantity EXCEPT ![Head(todo[h]).product] = @ - Head(todo[h]).quantity]
            /\ moved' = [moved EXCEPT ![Head(todo[h]).product] = @ - Head(todo[h]).quantity]
            /\ traced' = [traced EXCEPT ![NoBill][Head(todo[h]).product] = @ - Head(todo[h]).quantity]
            /\ quantity[Head(todo[h]).product] >= Head(todo[h]).quantity
            /\ UNCHANGED <<setting, sale, purchase>>
        BY <3>2 DEF DetachedSellLine
      <4>2. NoBill \in References
        BY DEF References
      <4>3. quantity' \in [Products -> Nat] /\ moved' \in [Products -> Int]
        BY <4>1, <2>2 DEF Typed, TablesTyped
      <4>4. traced' \in [References -> [Products -> Int]]
        BY <4>1, <4>2, <2>2 DEF Typed, TablesTyped
      <4> QED
        BY <4>1, <4>3, <4>4 DEF Typed, TablesTyped
    <3> QED
      BY <1>9, <3>1, <3>2
  <2>5. FaultsTyped'
    BY <1>9, BoundsAssumption DEF SellTimeout, SellDeadlock, DetachedSellLine, Typed, FaultsTyped, faults
  <2>6. WorkTyped'
    <3>1. CASE SellTimeout(h) \/ DetachedSellLine(h)
      BY <3>1, <2>3 DEF SellTimeout, DetachedSellLine, Typed, WorkTyped
    <3>2. CASE SellDeadlock(h)
      <4>1. /\ own' \in [Handlers -> [Products -> Maybe(Nat)]] /\ delta' \in [Handlers -> [Products -> Int]]
            /\ shared' \in [Handlers -> SUBSET Products] /\ detached' \in [Handlers -> BOOLEAN]
        BY <3>2, Consts DEF SellDeadlock, Typed, WorkTyped
      <4> QED
        BY <3>2, <4>1, <2>3 DEF SellDeadlock, Typed, WorkTyped
    <3> QED
      BY <1>9, <3>1, <3>2
  <2>7. OthersSame(h)
    BY <1>9, <2>1 DEF SellTimeout, SellDeadlock, DetachedSellLine, NextLine, Typed, WorkTyped, OthersSame
  <2>8. Stand(h)'
    <3>1. pc' = pc /\ req' = req /\ snap' = snap
      BY <1>9 DEF SellTimeout, SellDeadlock, DetachedSellLine
    <3> QED
      BY <1>0, <2>1, <3>1 DEF Stand, InSale, Buying, Writing, Untouched
  <2> QED
    BY <2>4, <2>5, <2>6, <2>7, <2>8, OthersStand DEF Typed
<1> QED
  BY <1>1, <1>2, <1>3, <1>4, <1>5, <1>6, <1>7, <1>8, <1>9

\* The steps of a purchase bill after its request.
LEMMA PurchaseTyped ==
  ASSUME Typed, NEW h \in Handlers,
         \/ OpenPurchase(h) \/ ReverseLine(h) \/ ReverseTimeout(h) \/ ReplaceLines(h)
         \/ ReadLine(h) \/ WriteLine(h) \/ RecordPurchase(h) \/ CommitPurchase(h)
         \/ CommitDeletePurchase(h)
  PROVE  Typed'
<1>0. Stand(h) /\ req[h].bill \in References /\ todo[h] \in Seq(Lines)
  BY DEF Typed, Stands, WorkTyped, Requests
<1>1. CASE OpenPurchase(h)
  <2>1. req[h].op = "update_purchase" /\ req[h].bill \in Purchases /\ req[h].lines \in Seq(Lines) /\ ~detached[h]
    BY <1>0, <1>1 DEF OpenPurchase, Stand, Buying
  <2>2. /\ TablesTyped' /\ FaultsTyped'
    BY <1>1 DEF OpenPurchase, Typed, TablesTyped, FaultsTyped, tables, faults
  <2>3. purchase[req[h].bill].lines \in Seq(Lines)
    BY <2>1 DEF Typed, TablesTyped
  <2>4. [p \in Products |-> quantity[p]] = quantity /\ quantity \in [Products -> Maybe(Nat)]
    BY DEF Typed, TablesTyped, Maybe
  <2>5. /\ todo' \in [Handlers -> Seq(Lines)] /\ mode' \in [Handlers -> {"disable", "warn", "enforce"}]
        /\ snap' \in [Handlers -> [Products -> Maybe(Nat)]] /\ pc' \in [Handlers -> Stages]
    BY <1>1, <2>3, <2>4 DEF OpenPurchase, Typed, WorkTyped, TablesTyped, Stages
  <2>6. WorkTyped'
    BY <1>1, <2>5 DEF OpenPurchase, Typed, WorkTyped
  <2>7. OthersSame(h)
    BY <1>1 DEF OpenPurchase, Typed, WorkTyped, OthersSame
  <2>8. snap'[h] = snap[h] \/ snap'[h] = quantity
    BY <1>1 DEF OpenPurchase, Typed, WorkTyped
  <2>9. Stand(h)'
    <3>1. pc'[h] = "reverse" /\ req' = req /\ ~detached'[h]
          /\ (snap'[h] = Untouched \/ snap'[h] \in [Products -> Nat])
      BY <1>0, <1>1, <2>1, <2>8 DEF OpenPurchase, Typed, WorkTyped, TablesTyped, Stand
    <3> QED
      BY <2>1, <3>1 DEF Stand, InSale, Buying, Writing, Untouched
  <2> QED
    BY <2>2, <2>6, <2>7, <2>9, OthersStand DEF Typed
<1>2. CASE ReverseLine(h)
  <2> DEFINE p == Head(todo[h]).product
             n == Head(todo[h]).quantity
  <2>1. todo[h] # <<>> /\ pc[h] = "reverse"
    BY <1>2 DEF ReverseLine
  <2>2. p \in Products /\ n \in Nat
    BY <2>1, FirstLine DEF Typed
  <2>3. /\ Current(h, p) >= n /\ Move(h, p, -n) /\ NextLine(h)
        /\ UNCHANGED <<tables, setting, pc, req, mode, seen, snap, shared, detached, reply, faults>>
    BY <1>2 DEF ReverseLine
  <2> HIDE DEF p, n
  <2>4. -n \in Int /\ Current(h, p) + (-n) \in Nat
    BY <2>2, <2>3, CurrentNat DEF Typed
  <2> QED
    BY <2>1, <2>2, <2>3, <2>4, MoveTyped
<1>3. CASE ReverseTimeout(h)
  <2>1. todo[h] # <<>> /\ pc[h] = "reverse" /\ NextLine(h)
    BY <1>3 DEF ReverseTimeout
  <2>2. todo' \in [Handlers -> Seq(Lines)]
    BY <2>1, FirstLine DEF NextLine, Typed, WorkTyped
  <2>3. TablesTyped' /\ FaultsTyped'
    BY <1>3, BoundsAssumption DEF ReverseTimeout, Typed, TablesTyped, FaultsTyped, tables
  <2>4. WorkTyped'
    BY <1>3, <2>2 DEF ReverseTimeout, Typed, WorkTyped
  <2>5. OthersSame(h)
    BY <1>3 DEF ReverseTimeout, NextLine, Typed, WorkTyped, OthersSame
  <2>6. Stand(h)'
    <3>1. pc' = pc /\ req' = req /\ snap' = snap /\ detached' = detached
      BY <1>3 DEF ReverseTimeout
    <3> QED
      BY <1>0, <2>1, <3>1 DEF Stand, InSale, Buying, Writing, Untouched
  <2> QED
    BY <2>3, <2>4, <2>5, <2>6, OthersStand DEF Typed
<1>4. CASE ReplaceLines(h)
  <2>1. req[h].op = "update_purchase" /\ req[h].bill \in Purchases /\ req[h].lines \in Seq(Lines) /\ ~detached[h]
    BY <1>0, <1>4 DEF ReplaceLines, Stand, Buying
  <2>2. /\ TablesTyped' /\ FaultsTyped'
    BY <1>4 DEF ReplaceLines, Typed, TablesTyped, FaultsTyped, tables, faults
  <2>3. WorkTyped'
    BY <1>4, <2>1 DEF ReplaceLines, Typed, WorkTyped, Stages
  <2>4. OthersSame(h)
    BY <1>4 DEF ReplaceLines, Typed, WorkTyped, OthersSame
  <2>5. Stand(h)'
    <3>1. pc'[h] = "line" /\ req' = req /\ ~detached'[h] /\ snap' = snap /\ todo'[h] = req[h].lines
      BY <1>4, <2>1 DEF ReplaceLines, Typed, WorkTyped
    <3> QED
      BY <1>0, <2>1, <3>1 DEF Stand, InSale, Buying, Writing, Untouched
  <2> QED
    BY <2>2, <2>3, <2>4, <2>5, OthersStand DEF Typed
<1>5. CASE ReadLine(h)
  <2>1. /\ req[h].op \in {"add_purchase", "update_purchase"} /\ req[h].bill \in Purchases
        /\ req[h].lines \in Seq(Lines) /\ ~detached[h] /\ todo[h] # <<>> /\ pc[h] = "line"
    BY <1>0, <1>5 DEF ReadLine, Stand, Buying, Writing
  <2>2. Read(h, Head(todo[h]).product) \in Nat /\ Snapshot(h) \in [Products -> Nat]
    BY <2>1, FirstLine, ReadNat DEF Typed
  <2>3. Snapshot(h) \in [Products -> Maybe(Nat)]
    BY <2>2 DEF Maybe
  <2>4. /\ TablesTyped' /\ FaultsTyped'
    BY <1>5 DEF ReadLine, Typed, TablesTyped, FaultsTyped, tables, faults
  <2>5. WorkTyped'
    BY <1>5, <2>2, <2>3 DEF ReadLine, Typed, WorkTyped, Stages, Maybe
  <2>6. OthersSame(h)
    BY <1>5 DEF ReadLine, Typed, WorkTyped, OthersSame
  <2>7. Stand(h)'
    <3>1. /\ pc'[h] = "write" /\ req' = req /\ ~detached'[h] /\ snap'[h] \in [Products -> Nat]
          /\ todo' = todo /\ own' = own /\ seen'[h] \in Nat
      BY <1>5, <2>1, <2>2 DEF ReadLine, Typed, WorkTyped
    <3>2. seen'[h] # NoQuantity
      BY <3>1, NullsAssumption
    <3> QED
      BY <1>0, <2>1, <3>1, <3>2 DEF Stand, InSale, Buying, Writing
  <2> QED
    BY <2>4, <2>5, <2>6, <2>7, OthersStand DEF Typed
<1>6. CASE WriteLine(h)
  <2> DEFINE p == Head(todo[h]).product
             n == Head(todo[h]).quantity
             q == seen[h] + (IF Records(h) THEN 0 ELSE n)
  <2>1. /\ req[h].op \in {"add_purchase", "update_purchase"} /\ req[h].bill \in Purchases
        /\ req[h].lines \in Seq(Lines) /\ ~detached[h] /\ todo[h] # <<>> /\ pc[h] = "write"
        /\ seen[h] # NoQuantity
    BY <1>0, <1>6 DEF WriteLine, Stand, Buying, Writing
  <2>2. p \in Products /\ n \in Nat /\ Tail(todo[h]) \in Seq(Lines)
    BY <2>1, FirstLine DEF Typed
  <2>3. q \in Nat
    BY <2>1, <2>2 DEF Typed, WorkTyped, Maybe
  <2>4. /\ pc' = [pc EXCEPT ![h] = "line"] /\ own' = [own EXCEPT ![h][p] = q]
        /\ seen' = [seen EXCEPT ![h] = NoQuantity] /\ todo' = [todo EXCEPT ![h] = Tail(@)]
        /\ UNCHANGED <<tables, setting, req, mode, snap, delta, shared, detached, reply, faults>>
    BY <1>6 DEF WriteLine, NextLine
  <2> HIDE DEF q
  <2>5. /\ TablesTyped' /\ FaultsTyped'
    BY <2>4 DEF Typed, TablesTyped, FaultsTyped, tables, faults
  <2>6. WorkTyped'
    BY <2>2, <2>3, <2>4 DEF Typed, WorkTyped, Stages, Maybe
  <2>7. OthersSame(h)
    BY <2>4 DEF Typed, WorkTyped, OthersSame
  <2>8. Stand(h)'
    <3>1. /\ pc'[h] = "line" /\ req' = req /\ ~detached'[h] /\ snap' = snap
          /\ todo'[h] = Tail(todo[h]) /\ own'[h][p] # NoQuantity
          /\ \A r \in Products : own[h][r] # NoQuantity => own'[h][r] # NoQuantity
      BY <2>1, <2>2, <2>3, <2>4, NullsAssumption DEF Typed, WorkTyped
    <3>2. ProductsOf(todo[h]) = {p} \cup ProductsOf(Tail(todo[h]))
      BY <1>0, <2>1, ProductsOfTail
    <3>3. ProductsOf(req[h].lines) \subseteq Products
      BY <2>1, ProductsAre
    <3>4. \A r \in ProductsOf(req[h].lines) : r \in ProductsOf(todo[h]) \/ own[h][r] # NoQuantity
      BY <1>0, <2>1 DEF Stand, Writing
    <3>5. \A r \in ProductsOf(req[h].lines) : r \in ProductsOf(Tail(todo[h])) \/ own'[h][r] # NoQuantity
      <4> HIDE DEF p
      <4> QED
        BY <3>1, <3>2, <3>3, <3>4
    <3> HIDE DEF p
    <3> QED
      BY <1>0, <2>1, <3>1, <3>5 DEF Stand, InSale, Buying, Writing, Untouched
  <2> QED
    BY <2>5, <2>6, <2>7, <2>8, OthersStand DEF Typed
<1>7. CASE RecordPurchase(h)
  <2>1. /\ req[h].op \in {"add_purchase", "update_purchase"} /\ req[h].bill \in Purchases
        /\ req[h].lines \in Seq(Lines) /\ ~detached[h] /\ todo[h] = <<>> /\ pc[h] = "line"
    BY <1>0, <1>7 DEF RecordPurchase, Stand, Buying, Writing
  <2>2. \A p \in ProductsOf(req[h].lines) : own[h][p] # NoQuantity
    <3>1. ProductsOf(<<>>) = {}
      BY DEF ProductsOf
    <3> QED
      BY <1>0, <2>1, <3>1 DEF Stand, Writing
  <2>3. \A p \in Products : Total(req[h].lines, p) \in Nat
    BY <2>1, TotalNat
  <2> DEFINE mine == [p \in Products |-> IF p \in ProductsOf(req[h].lines)
                                         THEN own[h][p] + Total(req[h].lines, p) ELSE own[h][p]]
             sums == [p \in Products |-> delta[h][p] + Total(req[h].lines, p)]
  <2>4. mine \in [Products -> Maybe(Nat)] /\ sums \in [Products -> Int]
        /\ \A p \in ProductsOf(req[h].lines) : mine[p] # NoQuantity
    <3>1. \A p \in Products : own[h][p] \in Maybe(Nat) /\ delta[h][p] \in Int
      BY DEF Typed, WorkTyped
    <3>2. ProductsOf(req[h].lines) \subseteq Products
      BY <2>1, ProductsAre
    <3>3. ASSUME NEW p \in ProductsOf(req[h].lines) PROVE own[h][p] + Total(req[h].lines, p) \in Nat
      BY <2>2, <2>3, <3>1, <3>2 DEF Maybe
    <3>4. \A p \in Products : delta[h][p] + Total(req[h].lines, p) \in Int
      BY <2>3, <3>1
    <3> QED
      BY <3>1, <3>2, <3>3, <3>4, NullsAssumption DEF Maybe
  <2>5. \/ own' = own /\ delta' = delta
        \/ own' = [own EXCEPT ![h] = mine] /\ delta' = [delta EXCEPT ![h] = sums]
    BY <1>7 DEF RecordPurchase, Typed, WorkTyped
  <2>6. /\ pc' = [pc EXCEPT ![h] = "commit"]
        /\ UNCHANGED <<tables, setting, req, mode, todo, seen, snap, shared, detached, reply, faults>>
    BY <1>7 DEF RecordPurchase
  <2> HIDE DEF mine, sums
  <2>7. TablesTyped' /\ FaultsTyped'
    BY <2>6 DEF Typed, TablesTyped, FaultsTyped, tables, faults
  <2>8. own' \in [Handlers -> [Products -> Maybe(Nat)]] /\ delta' \in [Handlers -> [Products -> Int]]
    <3>1. own \in [Handlers -> [Products -> Maybe(Nat)]] /\ delta \in [Handlers -> [Products -> Int]]
      BY DEF Typed, WorkTyped
    <3> QED
      BY <2>4, <2>5, <3>1
  <2>9. WorkTyped'
    BY <2>6, <2>8 DEF Typed, WorkTyped, Stages
  <2>10. OthersSame(h)
    BY <2>5, <2>6 DEF Typed, WorkTyped, OthersSame
  <2>11. Stand(h)'
    <3>1. \A p \in ProductsOf(req[h].lines) : own'[h][p] # NoQuantity
      BY <2>2, <2>4, <2>5 DEF Typed, WorkTyped
    <3>2. pc'[h] = "commit" /\ req' = req /\ ~detached'[h] /\ snap' = snap /\ todo' = todo
      BY <2>1, <2>6 DEF Typed, WorkTyped
    <3> QED
      BY <1>0, <2>1, <3>1, <3>2 DEF Stand, InSale, Buying, Writing, Untouched
  <2> QED
    BY <2>7, <2>9, <2>10, <2>11, OthersStand DEF Typed
<1>8. CASE CommitPurchase(h)
  <2>1. req[h].lines \in Seq(Lines) /\ req[h].bill \in Purchases
    BY <1>0, <1>8 DEF CommitPurchase, Stand, Buying, Writing
  <2>2. purchase' \in [Purchases -> [state : States, lines : Seq(Lines)]]
    BY <1>8, <2>1 DEF CommitPurchase, Typed, TablesTyped, States
  <2>3. TablesTyped'
    BY <1>0, <1>8, <2>2, ApplyTyped DEF CommitPurchase, Typed, TablesTyped, Answer
  <2> QED
    BY <1>8, <2>3, AnswerTyped DEF CommitPurchase
<1>9. CASE CommitDeletePurchase(h)
  <2>1. Apply(h, req[h].bill) /\ Answer(h, "done") /\ UNCHANGED sale
    BY <1>9 DEF CommitDeletePurchase
  <2>2. purchase' \in [Purchases -> [state : States, lines : Seq(Lines)]]
    BY <1>9 DEF CommitDeletePurchase, Typed, TablesTyped, States
  <2>3. TablesTyped'
    BY <1>0, <2>1, <2>2, ApplyTyped DEF Typed, TablesTyped, Answer
  <2> QED
    BY <2>1, <2>3, AnswerTyped
<1> QED
  BY <1>1, <1>2, <1>3, <1>4, <1>5, <1>6, <1>7, <1>8, <1>9

\* The line of an adjustment.
LEMMA AdjustmentTyped ==
  ASSUME Typed, NEW h \in Handlers, pc[h] = "adjust"
  PROVE  Adjustment(h).product \in Products /\ Adjustment(h).quantity \in Int
<1>1. req[h].lines \in Seq(AnyLines) /\ req[h].lines # <<>>
  <2>1. req[h] \in Requests /\ Stand(h)
    BY DEF Typed, WorkTyped, Stands
  <2> QED
    BY <2>1 DEF Stand, Requests, AnyLines
<1>2. Adjustment(h) \in AnyLines
  <2> HIDE DEF AnyLines
  <2> QED
    BY <1>1 DEF Adjustment
<1> QED
  BY <1>2 DEF AnyLines

LEMMA OthersTyped ==
  ASSUME Typed, NEW h \in Handlers, AdjustRead(h) \/ AdjustWrite(h) \/ Abort(h) \/ Done(h)
  PROVE  Typed'
<1>0. Stand(h) /\ req[h] \in Requests
  BY DEF Typed, Stands, WorkTyped
<1>1. CASE AdjustRead(h)
  <2>1. pc[h] = "adjust" /\ UNCHANGED tables
    BY <1>1 DEF AdjustRead
  <2>2. Adjustment(h).product \in Products /\ Adjustment(h).quantity \in Int
    BY <2>1, AdjustmentTyped
  <2>3. CASE Answer(h, "short")
    <3>1. TablesTyped'
      BY <2>1, <2>3 DEF Answer, tables, Typed, TablesTyped
    <3> QED
      BY <2>3, <3>1, AnswerTyped
  <2>4. CASE /\ seen' = [seen EXCEPT ![h] = quantity[Adjustment(h).product]]
             /\ UNCHANGED <<setting, pc, req, mode, todo, snap, own, delta, shared, detached,
                            reply, faults>>
    <3>1. TablesTyped' /\ FaultsTyped'
      BY <2>1, <2>4 DEF Typed, TablesTyped, FaultsTyped, tables, faults
    <3>2. WorkTyped'
      BY <2>2, <2>4 DEF Typed, WorkTyped, TablesTyped, Maybe
    <3>3. OthersSame(h)
      BY <2>4 DEF Typed, WorkTyped, OthersSame
    <3>4. Stand(h)'
      BY <1>0, <2>1, <2>4 DEF Stand, InSale, Buying, Writing, Untouched
    <3> QED
      BY <3>1, <3>2, <3>3, <3>4, OthersStand DEF Typed
  <2> QED
    BY <1>1, <2>3, <2>4 DEF AdjustRead
<1>2. CASE AdjustWrite(h)
  <2> DEFINE p == Adjustment(h).product
             n == Adjustment(h).quantity
  <2>1. p \in Products /\ n \in Int
    BY <1>2, AdjustmentTyped DEF AdjustWrite
  <2>2. /\ quantity[p] + n >= 0
        /\ quantity' = [quantity EXCEPT ![p] = @ + n] /\ moved' = [moved EXCEPT ![p] = @ + n]
        /\ traced' = [traced EXCEPT ![Manual][p] = @ + n]
        /\ Answer(h, "done") /\ UNCHANGED <<sale, purchase>>
    BY <1>2 DEF AdjustWrite
  <2> HIDE DEF p, n
  <2>3. quantity' \in [Products -> Nat] /\ moved' \in [Products -> Int]
    BY <2>1, <2>2 DEF Typed, TablesTyped
  <2>4. traced' \in [References -> [Products -> Int]]
    <3>1. Manual \in References
      BY DEF References
    <3> QED
      BY <2>1, <2>2, <3>1 DEF Typed, TablesTyped
  <2>5. TablesTyped'
    BY <2>2, <2>3, <2>4 DEF Typed, TablesTyped, Answer
  <2> QED
    BY <2>2, <2>5, AnswerTyped
<1>3. CASE Abort(h)
  <2>1. TablesTyped'
    BY <1>3 DEF Abort, Answer, tables, Typed, TablesTyped
  <2> QED
    BY <1>3, <2>1, AnswerTyped DEF Abort
<1>4. CASE Done(h)
  <2>1. TablesTyped' /\ FaultsTyped'
    BY <1>4 DEF Done, Typed, TablesTyped, FaultsTyped, tables, faults
  <2>2. NoRequest \in Requests
    BY Consts
  <2>3. /\ pc' = [pc EXCEPT ![h] = "idle"] /\ req' = [req EXCEPT ![h] = NoRequest]
        /\ mode' = [mode EXCEPT ![h] = "disable"] /\ reply' = [reply EXCEPT ![h] = "none"]
        /\ UNCHANGED <<todo, seen, snap, own, delta, shared, detached>> /\ pc[h] = "answered"
    BY <1>4 DEF Done
  <2> HIDE DEF NoRequest
  <2>4. WorkTyped'
    BY <2>2, <2>3 DEF Typed, WorkTyped, Stages
  <2>5. OthersSame(h)
    BY <2>3 DEF Typed, WorkTyped, OthersSame
  <2>6. Stand(h)'
    <3>1. pc'[h] = "idle" /\ ~detached'[h] /\ snap' = snap
      BY <1>0, <2>3 DEF Typed, WorkTyped, Stand
    <3> QED
      BY <1>0, <3>1 DEF Stand, InSale, Buying, Writing, Untouched
  <2> QED
    BY <2>1, <2>4, <2>5, <2>6, OthersStand DEF Typed
<1> QED
  BY <1>1, <1>2, <1>3, <1>4

LEMMA OwnerTyped == ASSUME Typed, OwnerStep PROVE Typed'
<1>0. ASSUME TablesTyped', UNCHANGED <<pc, req, mode, todo, seen, snap, own, delta, shared, detached, reply, faults>>
      PROVE  Typed'
  <2>1. WorkTyped' /\ FaultsTyped'
    BY <1>0 DEF Typed, WorkTyped, FaultsTyped, faults
  <2>2. Stands'
    BY <1>0 DEF Typed, Stands, Stand, Untouched
  <2> QED
    BY <1>0, <2>1, <2>2 DEF Typed
<1>1. ASSUME NEW s \in Sales, NEW ls \in Orders, SaveDraft(s, ls) PROVE Typed'
  <2>1. sale' \in [Sales -> [state : States, lines : Seq(Lines)]]
    BY <1>1, OrdersAreLines DEF SaveDraft, Typed, TablesTyped, States
  <2>2. TablesTyped'
    BY <1>1, <2>1 DEF SaveDraft, Typed, TablesTyped
  <2> QED
    BY <1>0, <1>1, <2>2 DEF SaveDraft
<1>2. ASSUME NEW p \in Products, NEW n, Edit(p, n) PROVE Typed'
  <2>1. n \in Nat
    BY <1>2, BoundsAssumption DEF Edit
  <2>2. TablesTyped'
    BY <1>2, <2>1 DEF Edit, Typed, TablesTyped
  <2> QED
    BY <1>0, <1>2, <2>2 DEF Edit
<1>3. ASSUME NEW m \in Modes, ChangeSetting(m) PROVE Typed'
  <2>1. TablesTyped'
    BY <1>3, ModesAssumption DEF ChangeSetting, tables, Typed, TablesTyped
  <2> QED
    BY <1>0, <1>3, <2>1 DEF ChangeSetting
<1> QED
  BY <1>1, <1>2, <1>3 DEF OwnerStep, UpdateProduct, AddQuantity

LEMMA InitTyped == Init => Typed
<1> SUFFICES ASSUME Init PROVE Typed
  OBVIOUS
<1>1. \A p \in Products : Total(FirstOrder, p) \in Nat
  BY TotalNat, OrdersAreLines
<1>2. [p \in Products |-> Total(FirstOrder, p)] \in [Products -> Int]
  BY <1>1
<1>3. NoRow \in [state : States, lines : Seq(Lines)]
      /\ [state |-> "final", lines |-> FirstOrder] \in [state : States, lines : Seq(Lines)]
  BY OrdersAreLines, Consts DEF NoRow, States
<1>4. TablesTyped
  <2>1. quantity \in [Products -> Nat] /\ moved \in [Products -> Int] /\ setting \in {"disable", "warn", "enforce"}
    BY Consts, QuantitiesAssumption, ModesAssumption DEF Init
  <2>2. traced \in [References -> [Products -> Int]]
    BY <1>2, Consts DEF Init
  <2>3. sale \in [Sales -> [state : States, lines : Seq(Lines)]]
    BY <1>3 DEF Init
  <2>4. purchase \in [Purchases -> [state : States, lines : Seq(Lines)]]
    BY <1>3 DEF Init
  <2> QED
    BY <2>1, <2>2, <2>3, <2>4 DEF TablesTyped
<1>5. WorkTyped
  BY Consts DEF Init, WorkTyped, Stages, Maybe
<1>6. FaultsTyped
  BY BoundsAssumption DEF Init, FaultsTyped
<1>7. Stands
  <2>1. \A h \in Handlers : pc[h] = "idle" /\ snap[h] = Untouched /\ ~detached[h]
    BY DEF Init
  <2> QED
    BY <2>1 DEF Stands, Stand, InSale, Buying, Writing
<1> QED
  BY <1>4, <1>5, <1>6, <1>7 DEF Typed

LEMMA NextTyped == ASSUME Typed, [Next]_vars PROVE Typed'
<1>1. ASSUME NEW h \in Handlers, Step(h) PROVE Typed'
  BY <1>1, StartsTyped, SaleTyped, PurchaseTyped, OthersTyped DEF Step, SaleStep, PurchaseStep, AdjustStep
<1>2. CASE OwnerStep
  BY <1>2, OwnerTyped
<1>3. CASE UNCHANGED vars
  <2>1. TablesTyped' /\ WorkTyped' /\ FaultsTyped'
    BY <1>3 DEF vars, Typed, TablesTyped, WorkTyped, FaultsTyped
  <2>2. Stands'
    BY <1>3 DEF vars, Typed, Stands, Stand, Untouched
  <2> QED
    BY <2>1, <2>2 DEF Typed
<1> QED
  BY <1>1, <1>2, <1>3 DEF Next

LEMMA TypedHolds == Spec => []Typed
<1>1. Init => Typed
  BY InitTyped
<1>2. Typed /\ [Next]_vars => Typed'
  BY NextTyped
<1> QED
  BY <1>1, <1>2, PTL DEF Spec

\* Every variable of the ledger keeps its type, and no quantity is ever negative: the checks
\* of the handlers, and the one of the table, stand before every write (stock.go).
THEOREM StockTypesHold == Spec => []TypeOK
<1>1. Typed => TypeOK
  BY TypeParts DEF Typed
<1> QED
  BY <1>1, TypedHolds, PTL
----------------------------------------------------------------------------
(* The papers: what the bills and the movements say of each other *)

Enforced == "disable" \notin Modes
BillsAreFinite == IsFiniteSet(Sales) /\ IsFiniteSet(Purchases)

AtSale == {"insert", "sell", "restore"}
OpensBill(h) == pc[h] \in AtSale
OpensPurchase(h) == pc[h] \in {"reverse"} \cup Writing /\ req[h].op # "delete_purchase"
\* Two requests that change a bill, or a purchase bill other than by deleting it, have
\* different ones.
Owners ==
  \A h \in Handlers : \A g \in Handlers \ {h} :
    /\ OpensBill(h) /\ OpensBill(g) => req[h].bill # req[g].bill
    /\ OpensPurchase(h) /\ OpensPurchase(g) => req[h].bill # req[g].bill

\* The movements a handler has recorded, against the lines it has not come to.
Row(h) == purchase[req[h].bill]
Recording(h) ==
  /\ ~detached[h]
  /\ pc[h] # "idle" => mode[h] # "disable"
  /\ req[h].op \in {"delete_draft", "update_purchase"} => req[h].op \in Ops
  /\ pc[h] \in {"idle", "answered", "insert", "wait", "adjust"} =>
       \A p \in Products : delta[h][p] = 0
SaleDesk(h) ==
  /\ pc[h] \in AtSale => sale[req[h].bill].state # "final"
  /\ pc[h] = "sell" =>
       \A p \in Products : delta[h][p] = Total(todo[h], p) - Total(req[h].lines, p)
Reversing(h) ==
  /\ \A p \in Products : delta[h][p] <= 0
  /\ req[h].op = "update_purchase" \/ "update_purchase" \notin Ops =>
       \A p \in Products : delta[h][p] = Total(todo[h], p) - Total(Row(h).lines, p)
PurchaseDesk(h) ==
  /\ pc[h] \in {"wait", "reverse"} => Row(h).state # "none"
  /\ pc[h] = "reverse" => Reversing(h)
  /\ pc[h] \in {"line", "write"} => \A p \in Products : delta[h][p] = -Total(Row(h).lines, p)
  /\ pc[h] = "commit" =>
       \A p \in Products :
         delta[h][p] = (IF req[h].final THEN Total(req[h].lines, p) ELSE 0)
                         - Total(Row(h).lines, p)
  /\ pc[h] \in Writing /\ req[h].op = "add_purchase" => Row(h).state = "none" /\ req[h].final
Desk(h) == Recording(h) /\ SaleDesk(h) /\ PurchaseDesk(h)

\* The movements that refer to a bill, against its lines.
SalesBook == \A p \in Products : traced[NoBill][p] = -FinalLines(sale, Sales, p)
DraftsBook == "delete_draft" \notin Ops => \A s \in Sales : \A p \in Products : traced[s][p] = 0
RowsBook == \A b \in Purchases : purchase[b].state = "none" => purchase[b].lines = <<>>
AtMost(b, p) ==
  IF \/ purchase[b].state = "final"
     \/ purchase[b].state = "deleted" /\ "update_purchase" \in Ops
  THEN Total(purchase[b].lines, p) ELSE 0
CountedBook == \A b \in Purchases : \A p \in Products : traced[b][p] <= AtMost(b, p)
Brings(b, p) ==
  IF purchase[b].state \in {"draft", "final"} THEN Total(purchase[b].lines, p) ELSE 0
ExactBook ==
  "update_purchase" \notin Ops => \A b \in Purchases : \A p \in Products : traced[b][p] = Brings(b, p)
AtStart(p) == SumFunctionOnSet([b \in Received |-> Total(FirstOrder, p)], Received)
MovedBook ==
  \A p \in Products :
    moved[p] = SumFunctionOnSet([r \in References |-> traced[r][p]], References) - AtStart(p)

Books == SalesBook /\ DraftsBook /\ RowsBook /\ CountedBook /\ ExactBook /\ MovedBook
Papers == setting \in Modes /\ Owners /\ (\A h \in Handlers : Desk(h)) /\ Books
PapersKept == NothingPassedOver => Papers

(* Sums over bills *)

LEMMA SumChanged ==
  ASSUME NEW f, NEW g, NEW S, NEW x \in S, NEW d \in Int, IntegersOn(f, S),
         g[x] = f[x] + d, \A y \in S \ {x} : g[y] = f[y]
  PROVE  SumFunctionOnSet(g, S) = SumFunctionOnSet(f, S) + d
<1> DEFINE R == S \ {x}
<1>1. S = R \cup {x} /\ x \notin R /\ IsFiniteSet(R) /\ IntegersOn(f, R)
  <2>1. R \in SUBSET S /\ S = R \cup {x} /\ x \notin R
    OBVIOUS
  <2>2. IsFiniteSet(S) /\ \A y \in S : f[y] \in Int
    BY DEF IntegersOn
  <2> HIDE DEF R
  <2>3. IsFiniteSet(R)
    BY <2>1, <2>2, FS_Subset
  <2> QED
    BY <2>1, <2>2, <2>3 DEF IntegersOn
<1>2. \A y \in R : g[y] = f[y]
  OBVIOUS
<1>3. IntegersOn(g, R \cup {x}) /\ IntegersOn(f, R \cup {x}) /\ f[x] \in Int
  <2> HIDE DEF R
  <2>1. IsFiniteSet(R \cup {x}) /\ \A y \in R \cup {x} : f[y] \in Int
    BY <1>1 DEF IntegersOn
  <2>2. \A y \in R \cup {x} : g[y] \in Int
    BY <1>2, <2>1
  <2> QED
    BY <2>1, <2>2 DEF IntegersOn
<1> HIDE DEF R
<1>4. SumFunctionOnSet(f, R \cup {x}) = f[x] + SumFunctionOnSet(f, R)
  BY <1>1, <1>3, SumAdd
<1>5. SumFunctionOnSet(g, R \cup {x}) = g[x] + SumFunctionOnSet(g, R)
  BY <1>1, <1>3, SumAdd
<1>6. SumFunctionOnSet(g, R) = SumFunctionOnSet(f, R) /\ SumFunctionOnSet(f, R) \in Int
  BY <1>1, <1>2, SumSame, SumInt
<1>7. SumFunctionOnSet(g, R \cup {x}) = SumFunctionOnSet(f, R \cup {x}) + d
  BY <1>3, <1>4, <1>5, <1>6
<1> QED
  BY <1>1, <1>7, Zenon

BillRows == [state : States, lines : Seq(Lines)]

\* A bill that becomes final adds its lines to those of the final ones.
LEMMA FinalGrows ==
  ASSUME NEW S, IsFiniteSet(S), NEW table \in [S -> BillRows], NEW other \in [S -> BillRows],
         NEW x \in S, NEW ls, NEW p,
         table[x].state # "final", other[x].state = "final", other[x].lines = ls,
         \A b \in S \ {x} : other[b] = table[b]
  PROVE  FinalLines(other, S, p) = FinalLines(table, S, p) + Total(ls, p)
<1>0. /\ \A b \in S : table[b].lines \in Seq(Lines)
      /\ \A b \in S : other[b].lines \in Seq(Lines)
  BY DEF BillRows
<1> DEFINE F == {b \in S : table[b].state = "final"}
           G == {b \in S : other[b].state = "final"}
           f == [b \in F |-> Total(table[b].lines, p)]
           g == [b \in G |-> Total(other[b].lines, p)]
<1>1. G = F \cup {x} /\ x \notin F /\ F \in SUBSET S /\ G \in SUBSET S
  OBVIOUS
<1>2. IntegersOn(g, G) /\ IntegersOn(f, F)
  <2>1. IsFiniteSet(F) /\ IsFiniteSet(G)
    <3> HIDE DEF F, G
    <3> QED
      BY <1>1, FS_Subset
  <2>2. (\A b \in F : f[b] \in Int) /\ \A b \in G : g[b] \in Int
    BY <1>0, TotalNat
  <2> QED
    BY <2>1, <2>2 DEF IntegersOn
<1>3. \A b \in F : g[b] = f[b]
  BY <1>1
<1>4. g[x] = Total(other[x].lines, p)
  BY <1>1
<1>5. FinalLines(other, S, p) = SumFunctionOnSet(g, G) /\ FinalLines(table, S, p) = SumFunctionOnSet(f, F)
  BY DEF FinalLines, LinesOf
<1> HIDE DEF F, G, f, g
<1>6. SumFunctionOnSet(g, F \cup {x}) = g[x] + SumFunctionOnSet(g, F)
  BY <1>1, <1>2, SumAdd, Zenon
<1>7. SumFunctionOnSet(g, F) = SumFunctionOnSet(f, F)
  BY <1>2, <1>3, SumSame
<1>8. SumFunctionOnSet(f, F) \in Int /\ g[x] \in Int
  <2>1. x \in G
    BY <1>1
  <2> QED
    BY <1>2, <2>1, SumInt DEF IntegersOn
<1>9. SumFunctionOnSet(g, G) = SumFunctionOnSet(f, F) + g[x]
  <2>1. SumFunctionOnSet(g, G) = SumFunctionOnSet(g, F \cup {x})
    BY <1>1, Zenon
  <2> QED
    BY <2>1, <1>6, <1>7, <1>8
<1> QED
  BY <1>4, <1>5, <1>9

LEMMA FinalInt ==
  ASSUME NEW S, IsFiniteSet(S), NEW table, \A b \in S : table[b].lines \in Seq(Lines), NEW p
  PROVE  FinalLines(table, S, p) \in Int
<1> DEFINE F == {b \in S : table[b].state = "final"}
           f == [b \in F |-> Total(table[b].lines, p)]
<1>1. F \in SUBSET S
  OBVIOUS
<1>2. \A b \in F : f[b] \in Int
  BY TotalNat
<1> HIDE DEF F
<1>3. IntegersOn(f, F)
  BY <1>1, <1>2, FS_Subset DEF IntegersOn
<1> HIDE DEF f
<1>4. SumFunctionOnSet(f, F) \in Int
  BY <1>3, SumInt
<1> QED
  BY <1>4 DEF FinalLines, LinesOf, F, f

\* One that is final neither before nor after leaves them as they are.
LEMMA FinalStays ==
  ASSUME NEW S, IsFiniteSet(S), NEW table, NEW other, NEW x \in S, NEW p,
         table[x].state # "final", other[x].state # "final",
         \A b \in S \ {x} : other[b] = table[b]
  PROVE  FinalLines(other, S, p) = FinalLines(table, S, p)
<1>1. {b \in S : other[b].state = "final"} = {b \in S : table[b].state = "final"}
  OBVIOUS
<1> DEFINE F == {b \in S : table[b].state = "final"}
<1>2. [b \in F |-> Total(other[b].lines, p)] = [b \in F |-> Total(table[b].lines, p)]
  OBVIOUS
<1>3. LinesOf(other, F, p) = LinesOf(table, F, p)
  BY <1>2, Zenon DEF LinesOf
<1> HIDE DEF F
<1>4. F = {b \in S : other[b].state = "final"} /\ F = {b \in S : table[b].state = "final"}
  BY <1>1 DEF F
<1> QED
  BY <1>3, <1>4, Zenon DEF FinalLines

(* What keeps the desks and the owners *)

HandlersSame(h) ==
  \A g \in Handlers \ {h} :
    /\ pc'[g] = pc[g] /\ req'[g] = req[g] /\ mode'[g] = mode[g] /\ todo'[g] = todo[g]
    /\ delta'[g] = delta[g] /\ detached'[g] = detached[g]
\* What the others' bills may come to.
BillsFit(h) ==
  \A g \in Handlers \ {h} :
    /\ pc[g] \in AtSale => sale'[req[g].bill].state # "final"
    /\ pc[g] \in {"wait", "reverse"} => purchase'[req[g].bill].state # "none"
    /\ \/ pc[g] \in Writing
       \/ pc[g] = "reverse" /\ (req[g].op = "update_purchase" \/ "update_purchase" \notin Ops)
       => purchase'[req[g].bill].lines = purchase[req[g].bill].lines
    /\ pc[g] \in Writing /\ req[g].op = "add_purchase" =>
         purchase'[req[g].bill].state = purchase[req[g].bill].state

LEMMA OthersDesk ==
  ASSUME NEW h \in Handlers, NEW g \in Handlers \ {h}, Desk(g), HandlersSame(h), BillsFit(h)
  PROVE  Desk(g)'
<1>1. /\ pc'[g] = pc[g] /\ req'[g] = req[g] /\ mode'[g] = mode[g] /\ todo'[g] = todo[g]
      /\ delta'[g] = delta[g] /\ detached'[g] = detached[g]
  BY DEF HandlersSame
<1>2. Recording(g)'
  BY <1>1 DEF Desk, Recording
<1>3. SaleDesk(g)'
  BY <1>1 DEF Desk, SaleDesk, BillsFit
<1>4. PurchaseDesk(g)'
  <2>1. pc[g] \in {"wait", "reverse"} => Row(g)'.state # "none"
    BY <1>1 DEF BillsFit, Row
  <2>2. pc[g] = "reverse" => Reversing(g)'
    BY <1>1 DEF BillsFit, Row, Reversing, Desk, PurchaseDesk
  <2>3. pc[g] \in Writing => Row(g)'.lines = Row(g).lines
    BY <1>1 DEF BillsFit, Row
  <2>4. pc[g] \in Writing /\ req[g].op = "add_purchase" => Row(g)'.state = Row(g).state
    BY <1>1 DEF BillsFit, Row
  <2> QED
    BY <1>1, <2>1, <2>2, <2>3, <2>4 DEF Desk, PurchaseDesk, Writing
<1> QED
  BY <1>2, <1>3, <1>4 DEF Desk

\* The handler h opens no bill that another has open.
OpensAlone(h) ==
  \A g \in Handlers \ {h} :
    /\ OpensBill(h)' /\ OpensBill(g) => req'[h].bill # req[g].bill
    /\ OpensPurchase(h)' /\ OpensPurchase(g) => req'[h].bill # req[g].bill

LEMMA OwnersKept ==
  ASSUME Owners, NEW h \in Handlers, HandlersSame(h), OpensAlone(h)
  PROVE  Owners'
<1> SUFFICES ASSUME NEW f \in Handlers, NEW g \in Handlers \ {f}
             PROVE  /\ OpensBill(f)' /\ OpensBill(g)' => req'[f].bill # req'[g].bill
                    /\ OpensPurchase(f)' /\ OpensPurchase(g)' => req'[f].bill # req'[g].bill
  BY DEF Owners
<1>1. ASSUME NEW e \in Handlers \ {h}
      PROVE  /\ req'[e] = req[e] /\ (OpensBill(e)' <=> OpensBill(e))
             /\ (OpensPurchase(e)' <=> OpensPurchase(e))
  BY DEF HandlersSame, OpensBill, OpensPurchase
<1>2. CASE f # h /\ g # h
  BY <1>1, <1>2 DEF Owners
<1>3. CASE f = h
  BY <1>1, <1>3 DEF OpensAlone
<1>4. CASE g = h
  BY <1>1, <1>4 DEF OpensAlone
<1> QED
  BY <1>2, <1>3, <1>4

\* A handler that goes on with its bill still has it alone.
LEMMA StaysAlone ==
  ASSUME Owners, NEW h \in Handlers, req'[h] = req[h],
         OpensBill(h)' => OpensBill(h), OpensPurchase(h)' => OpensPurchase(h)
  PROVE  OpensAlone(h)
BY DEF Owners, OpensAlone

LEMMA PapersByStep ==
  ASSUME Papers, NEW h \in Handlers, HandlersSame(h), BillsFit(h), OpensAlone(h), Desk(h)',
         Books', setting' \in Modes
  PROVE  Papers'
<1>1. \A g \in Handlers \ {h} : Desk(g)'
  BY OthersDesk DEF Papers
<1>2. Owners'
  BY OwnersKept DEF Papers
<1> QED
  BY <1>1, <1>2 DEF Papers

LEMMA BooksSame == ASSUME Books, UNCHANGED tables PROVE Books'
BY DEF Books, SalesBook, DraftsBook, RowsBook, CountedBook, ExactBook, MovedBook, tables,
       AtMost, Brings, FinalLines, LinesOf

LEMMA BillsSame ==
  ASSUME Papers, NEW h \in Handlers, UNCHANGED <<sale, purchase>>
  PROVE  BillsFit(h)
<1> SUFFICES ASSUME NEW g \in Handlers \ {h}
             PROVE  /\ pc[g] \in AtSale => sale[req[g].bill].state # "final"
                    /\ pc[g] \in {"wait", "reverse"} => purchase[req[g].bill].state # "none"
  BY DEF BillsFit
<1> QED
  BY DEF Papers, Desk, SaleDesk, PurchaseDesk, Row

\* A step that leaves the tables alone.
LEMMA QuietPapers ==
  ASSUME Papers, NEW h \in Handlers, UNCHANGED tables, UNCHANGED setting, HandlersSame(h),
         OpensAlone(h), Desk(h)'
  PROVE  Papers'
<1>1. Books'
  BY BooksSame DEF Papers
<1>2. BillsFit(h)
  BY BillsSame DEF tables
<1> QED
  BY <1>1, <1>2, PapersByStep DEF Papers

LEMMA AnswerDesk ==
  ASSUME Typed, Papers, NEW h \in Handlers, NEW kind, Answer(h, kind), pc[h] # "idle"
  PROVE  HandlersSame(h) /\ OpensAlone(h) /\ Desk(h)' /\ setting' \in Modes
<1>1. /\ pc' = [pc EXCEPT ![h] = "answered"] /\ todo' = [todo EXCEPT ![h] = <<>>]
      /\ delta' = [delta EXCEPT ![h] = Nothing] /\ detached' = [detached EXCEPT ![h] = FALSE]
      /\ UNCHANGED <<setting, req, mode>>
  BY DEF Answer
<1>2. HandlersSame(h)
  BY <1>1 DEF HandlersSame, Typed, WorkTyped
<1>3. pc'[h] = "answered" /\ delta'[h] = Nothing /\ ~detached'[h]
  BY <1>1 DEF Typed, WorkTyped
<1>4. Desk(h)'
  <2>1. Recording(h)
    BY DEF Papers, Desk
  <2> QED
    BY <1>1, <1>3, <2>1, Consts DEF Desk, Recording, SaleDesk, PurchaseDesk, AtSale, Writing
<1>5. OpensAlone(h)
  BY <1>3 DEF OpensAlone, OpensBill, OpensPurchase, AtSale, Writing
<1> QED
  BY <1>1, <1>2, <1>4, <1>5 DEF Papers

LEMMA QuietAnswer ==
  ASSUME Typed, Papers, NEW h \in Handlers, NEW kind, Answer(h, kind), pc[h] # "idle",
         UNCHANGED tables
  PROVE  Papers'
<1>1. UNCHANGED setting
  BY DEF Answer
<1> QED
  BY <1>1, AnswerDesk, QuietPapers

(* What keeps the books *)

\* d is moved, and the movements refer to r.
Refers(r, d) ==
  /\ \A p \in Products : moved'[p] = moved[p] + d[p] /\ traced'[r][p] = traced[r][p] + d[p]
  /\ \A q \in References \ {r} : traced'[q] = traced[q]

LEMMA ReferencesFinite == ASSUME BillsAreFinite PROVE IsFiniteSet(References)
<1>1. IsFiniteSet({NoBill}) /\ {NoBill, Manual} = {NoBill} \cup {Manual}
  BY FS_Singleton
<1>2. IsFiniteSet({NoBill, Manual})
  BY <1>1, FS_AddElement
<1>3. References = (Sales \cup Purchases) \cup {NoBill, Manual}
  BY DEF References
<1> QED
  BY <1>2, <1>3, FS_Union DEF BillsAreFinite

LEMMA AtStartInt == ASSUME BillsAreFinite, NEW p PROVE AtStart(p) \in Int
<1> DEFINE start == [b \in Received |-> Total(FirstOrder, p)]
<1>1. IsFiniteSet(Received)
  BY OrdersAssumption, FS_Subset DEF BillsAreFinite
<1>2. IntegersOn(start, Received)
  BY <1>1, TotalNat, OrdersAssumption DEF IntegersOn
<1> HIDE DEF start
<1>3. SumFunctionOnSet(start, Received) \in Int
  BY <1>2, SumInt
<1> QED
  BY <1>3 DEF AtStart, start

LEMMA MovedKept ==
  ASSUME Typed, BillsAreFinite, MovedBook, NEW r \in References, NEW d \in [Products -> Int],
         Refers(r, d)
  PROVE  MovedBook'
<1> SUFFICES ASSUME NEW p \in Products
             PROVE  moved'[p] = SumFunctionOnSet([q \in References |-> traced'[q][p]], References)
                                  - AtStart(p)
  BY DEF MovedBook, AtStart
<1> DEFINE f == [q \in References |-> traced[q][p]]
           g == [q \in References |-> traced'[q][p]]
<1>1. IntegersOn(f, References)
  <2>1. IsFiniteSet(References)
    BY ReferencesFinite
  <2> QED
    BY <2>1 DEF IntegersOn, Typed, TablesTyped
<1>2. g[r] = f[r] + d[p] /\ \A q \in References \ {r} : g[q] = f[q]
  BY DEF Refers
<1>3. moved[p] = SumFunctionOnSet(f, References) - AtStart(p) /\ moved'[p] = moved[p] + d[p]
      /\ d[p] \in Int /\ moved[p] \in Int
  BY DEF MovedBook, Refers, Typed, TablesTyped
<1>4. AtStart(p) \in Int
  BY AtStartInt
<1> HIDE DEF f, g
<1>5. SumFunctionOnSet(g, References) = SumFunctionOnSet(f, References) + d[p]
  BY <1>1, <1>2, <1>3, SumChanged
<1>6. SumFunctionOnSet(f, References) \in Int
  BY <1>1, SumInt
<1>7. moved'[p] = SumFunctionOnSet(g, References) - AtStart(p)
  BY <1>3, <1>4, <1>5, <1>6
<1> QED
  BY <1>7 DEF g

LEMMA ApplyRefers ==
  ASSUME Typed, NEW h \in Handlers, NEW r \in References, Apply(h, r)
  PROVE  Refers(r, delta[h]) /\ delta[h] \in [Products -> Int]
BY DEF Apply, Refers, Typed, TablesTyped, WorkTyped

\* Movements that refer to no purchase bill leave the books of the purchases as they are.
LEMMA PurchasesKept ==
  ASSUME RowsBook, CountedBook, ExactBook, UNCHANGED purchase,
         \A b \in Purchases : traced'[b] = traced[b]
  PROVE  RowsBook' /\ CountedBook' /\ ExactBook'
<1>1. \A b \in Purchases : \A p \in Products : AtMost(b, p)' = AtMost(b, p) /\ Brings(b, p)' = Brings(b, p)
  BY DEF AtMost, Brings
<1>2. RowsBook'
  BY DEF RowsBook
<1>3. CountedBook'
  BY <1>1 DEF CountedBook
<1>4. ExactBook'
  BY <1>1 DEF ExactBook
<1> QED
  BY <1>2, <1>3, <1>4

LEMMA SalesKept ==
  ASSUME SalesBook, DraftsBook, UNCHANGED sale,
         \A r \in Sales \cup {NoBill} : traced'[r] = traced[r]
  PROVE  SalesBook' /\ DraftsBook'
BY DEF SalesBook, DraftsBook, FinalLines, LinesOf

(* The steps *)

LEMMA BeginPapers ==
  ASSUME Typed, Papers, Enforced, NEW h \in Handlers, NEW r, NEW lines \in Seq(Lines),
         NEW stage \in {"insert", "restore", "wait", "reverse", "line", "adjust"},
         Begin(h, stage, r, lines),
         UNCHANGED <<tables, setting, seen, snap, own, delta, shared, detached, reply, faults>>,
         r.op \in {"delete_draft", "update_purchase"} => r.op \in Ops,
         stage \in AtSale => sale[r.bill].state # "final",
         stage \in {"wait", "reverse"} => purchase[r.bill].state # "none",
         stage = "reverse" => lines = purchase[r.bill].lines,
         stage = "line" => /\ r.op = "add_purchase" /\ r.final
                           /\ purchase[r.bill] = NoRow,
         \A g \in Handlers \ {h} :
           /\ stage \in AtSale /\ OpensBill(g) => r.bill # req[g].bill
           /\ stage \in {"reverse", "line"} /\ r.op # "delete_purchase" /\ OpensPurchase(g)
                => r.bill # req[g].bill
  PROVE  Papers'
<1>1. /\ pc[h] = "idle" /\ pc' = [pc EXCEPT ![h] = stage] /\ req' = [req EXCEPT ![h] = r]
      /\ mode' = [mode EXCEPT ![h] = setting] /\ todo' = [todo EXCEPT ![h] = lines]
  BY DEF Begin
<1>2. HandlersSame(h)
  BY <1>1 DEF HandlersSame, Typed, WorkTyped
<1>3. /\ pc'[h] = stage /\ req'[h] = r /\ mode'[h] = setting /\ todo'[h] = lines
      /\ delta' = delta /\ detached' = detached /\ sale' = sale /\ purchase' = purchase
  BY <1>1 DEF Typed, WorkTyped, tables
<1>4. OpensAlone(h)
  BY <1>3 DEF OpensAlone, OpensBill, OpensPurchase, AtSale, Writing
<1>5. setting # "disable" /\ Recording(h)
  BY DEF Papers, Enforced, Desk
<1>6. \A p \in Products : delta'[h][p] = 0
  BY <1>1, <1>3, <1>5 DEF Recording
<1>7. Recording(h)'
  BY <1>3, <1>5, <1>6 DEF Recording
<1>8. SaleDesk(h)'
  BY <1>3 DEF SaleDesk, AtSale
<1>9. PurchaseDesk(h)'
  <2>1. CASE stage = "reverse"
    <3>1. \A p \in Products : Total(lines, p) \in Nat
      BY TotalNat
    <3> QED
      BY <1>3, <1>6, <2>1, <3>1 DEF PurchaseDesk, Row, Reversing, Writing
  <2>2. CASE stage = "line"
    <3>1. \A p \in Products : Total(Row(h)'.lines, p) = 0
      BY <1>3, <2>2, TotalEmpty DEF Row, NoRow
    <3> QED
      BY <1>3, <1>6, <2>2, <3>1 DEF PurchaseDesk, Row, Writing, NoRow
  <2>3. CASE stage \notin {"reverse", "line"}
    BY <1>3, <2>3 DEF PurchaseDesk, Row, Writing
  <2> QED
    BY <2>1, <2>2, <2>3
<1>10. Desk(h)'
  BY <1>7, <1>8, <1>9 DEF Desk
<1> QED
  BY <1>2, <1>4, <1>10, QuietPapers

\* A bill that is free is open to nobody.
LEMMA FreeBills ==
  ASSUME Typed, Papers, NEW b, NEW h \in Handlers
  PROVE  /\ SaleFree(b) => \A g \in Handlers : OpensBill(g) => b # req[g].bill
         /\ PurchaseFree(h, b) =>
              \A g \in Handlers \ {h} : OpensPurchase(g) => b # req[g].bill
<1>1. ASSUME NEW g \in Handlers
      PROVE  ~detached[g] /\ (OpensBill(g) \/ OpensPurchase(g) => Open(g))
  BY DEF Papers, Desk, Recording, OpensBill, OpensPurchase, AtSale, Writing, Open
<1> QED
  BY <1>1 DEF SaleFree, PurchaseFree, OpensPurchase

\* A line taken out: as much less is left to come to.
LEMMA TakenOut ==
  ASSUME Typed, NEW h \in Handlers, todo[h] # <<>>, NextLine(h),
         Move(h, Head(todo[h]).product, -Head(todo[h]).quantity)
  PROVE  \A p \in Products :
           /\ delta'[h][p] \in Int /\ delta[h][p] \in Int /\ delta'[h][p] <= delta[h][p]
           /\ Total(todo'[h], p) \in Nat /\ Total(todo[h], p) \in Nat
           /\ delta'[h][p] - Total(todo'[h], p) = delta[h][p] - Total(todo[h], p)
<1> SUFFICES ASSUME NEW p \in Products
             PROVE  /\ delta'[h][p] \in Int /\ delta[h][p] \in Int /\ delta'[h][p] <= delta[h][p]
                    /\ Total(todo'[h], p) \in Nat /\ Total(todo[h], p) \in Nat
                    /\ delta'[h][p] - Total(todo'[h], p) = delta[h][p] - Total(todo[h], p)
  OBVIOUS
<1> DEFINE q == Head(todo[h]).quantity
           mine == Head(todo[h]).product = p
<1>1. /\ todo[h] \in Seq(Lines) /\ delta[h] \in [Products -> Int] /\ todo'[h] = Tail(todo[h])
      /\ q \in Nat /\ Head(todo[h]).product \in Products /\ Tail(todo[h]) \in Seq(Lines)
  BY FirstLine DEF Typed, WorkTyped, NextLine
<1>2. delta'[h][p] = IF mine THEN delta[h][p] - q ELSE delta[h][p]
  BY <1>1 DEF Move, Typed, WorkTyped
<1>3. Total(todo[h], p) = (IF mine THEN q ELSE 0) + Total(Tail(todo[h]), p)
  BY <1>1, TotalTail
<1>4. Total(todo[h], p) \in Nat /\ Total(Tail(todo[h]), p) \in Nat /\ delta[h][p] \in Int
  BY <1>1, TotalNat
<1> HIDE DEF q, mine
<1>5. delta'[h][p] \in Int /\ delta'[h][p] <= delta[h][p]
  BY <1>1, <1>2, <1>4
<1>6. delta'[h][p] - Total(Tail(todo[h]), p) = delta[h][p] - Total(todo[h], p)
  BY <1>1, <1>2, <1>3, <1>4
<1> QED
  BY <1>1, <1>4, <1>5, <1>6

LEMMA SaleStarts ==
  ASSUME Typed, Papers, Enforced, NEW h \in Handlers, NEW s \in Sales,
         (\E ls \in Orders : StartSale(h, s, ls)) \/ StartDeleteDraft(h, s)
  PROVE  Papers'
<1>1. ASSUME NEW ls \in Orders, StartSale(h, s, ls) PROVE Papers'
  <2> DEFINE r == [op |-> "sale", bill |-> s, lines |-> ls, final |-> TRUE]
             lines == <<>>
  <2>1. /\ SaleFree(s) /\ sale[s].state # "final" /\ Begin(h, "insert", r, lines)
        /\ UNCHANGED <<tables, setting, seen, snap, own, delta, shared, detached, reply, faults>>
    BY <1>1 DEF StartSale
  <2>2. r.op = "sale" /\ r.bill = s /\ lines \in Seq(Lines)
    OBVIOUS
  <2>3. \A g \in Handlers \ {h} : OpensBill(g) => s # req[g].bill
    BY <2>1, FreeBills
  <2> HIDE DEF r, lines
  <2> QED
    BY <2>1, <2>2, <2>3, BeginPapers
<1>2. CASE StartDeleteDraft(h, s)
  <2> DEFINE r == [op |-> "delete_draft", bill |-> s, lines |-> <<>>, final |-> FALSE]
             lines == IF setting = "disable" THEN <<>> ELSE sale[s].lines
  <2>1. /\ SaleFree(s) /\ sale[s].state # "final" /\ Begin(h, "restore", r, lines)
        /\ "delete_draft" \in Ops
        /\ UNCHANGED <<tables, setting, seen, snap, own, delta, shared, detached, reply, faults>>
    BY <1>2 DEF StartDeleteDraft
  <2>2. r.op = "delete_draft" /\ r.bill = s
    OBVIOUS
  <2>3. lines \in Seq(Lines)
    BY DEF Typed, TablesTyped
  <2> HIDE DEF r, lines
  <2> QED
    BY <2>1, <2>2, <2>3, FreeBills, BeginPapers
<1> QED
  BY <1>1, <1>2

\* The steps of a sale that leave its bill alone.
LEMMA SaleLines ==
  ASSUME Typed, Papers, Enforced, NEW h \in Handlers, InsertLines(h) \/ SellLine(h) \/ RestoreLine(h)
  PROVE  Papers'
<1>0. Desk(h) /\ pc[h] \in AtSale /\ Stand(h)
  BY DEF Papers, InsertLines, SellLine, RestoreLine, AtSale, Selling, Typed, Stands
<1>1. CASE InsertLines(h)
  <2>1. /\ pc[h] = "insert" /\ setting # "disable"
        /\ pc' = [pc EXCEPT ![h] = "sell"] /\ mode' = [mode EXCEPT ![h] = setting]
        /\ todo' = [todo EXCEPT ![h] = req[h].lines]
        /\ UNCHANGED <<tables, setting, req, delta, detached>>
    BY <1>1 DEF InsertLines, Papers, Enforced
  <2>2. /\ pc'[h] = "sell" /\ todo'[h] = req[h].lines /\ mode'[h] = setting /\ HandlersSame(h)
    BY <2>1 DEF Typed, WorkTyped, HandlersSame
  <2>3. \A p \in Products : delta[h][p] = 0 /\ Total(req[h].lines, p) \in Nat
    BY <1>0, <2>1, TotalNat DEF Desk, Recording, Stand, InSale
  <2>4. Desk(h)'
    BY <1>0, <2>1, <2>2, <2>3 DEF Desk, Recording, SaleDesk, PurchaseDesk, AtSale, Writing, tables
  <2>5. OpensAlone(h)
    BY <1>0, <2>1, <2>2, StaysAlone DEF Papers, OpensBill, OpensPurchase, Writing
  <2> QED
    BY <2>1, <2>2, <2>4, <2>5, QuietPapers
<1>2. CASE SellLine(h)
  <2>1. /\ pc[h] = "sell" /\ todo[h] # <<>> /\ NextLine(h)
        /\ Move(h, Head(todo[h]).product, -Head(todo[h]).quantity)
        /\ UNCHANGED <<tables, setting, pc, req, mode, detached>>
    BY <1>2 DEF SellLine, Selling
  <2>2. HandlersSame(h)
    BY <2>1 DEF Typed, WorkTyped, HandlersSame, NextLine, Move
  <2>3. \A p \in Products : delta'[h][p] = Total(todo'[h], p) - Total(req[h].lines, p)
    <3>1. \A p \in Products : delta[h][p] = Total(todo[h], p) - Total(req[h].lines, p)
      BY <1>0, <2>1 DEF Desk, SaleDesk
    <3>2. \A p \in Products : Total(req[h].lines, p) \in Nat
      BY <1>0, <2>1, TotalNat DEF Stand, InSale
    <3> QED
      BY <2>1, <3>1, <3>2, TakenOut
  <2>4. Desk(h)'
    BY <1>0, <2>1, <2>3 DEF Desk, Recording, SaleDesk, PurchaseDesk, AtSale, Writing, tables
  <2>5. OpensAlone(h)
    BY <1>0, <2>1, StaysAlone DEF Papers, OpensBill, OpensPurchase, Writing
  <2> QED
    BY <2>1, <2>2, <2>4, <2>5, QuietPapers
<1>3. CASE RestoreLine(h)
  <2>1. /\ pc[h] = "restore" /\ NextLine(h)
        /\ Move(h, Head(todo[h]).product, Head(todo[h]).quantity)
        /\ UNCHANGED <<tables, setting, pc, req, mode, detached>>
    BY <1>3 DEF RestoreLine
  <2>2. HandlersSame(h)
    BY <2>1 DEF Typed, WorkTyped, HandlersSame, NextLine, Move
  <2>4. Desk(h)'
    BY <1>0, <2>1 DEF Desk, Recording, SaleDesk, PurchaseDesk, AtSale, Writing, tables
  <2>5. OpensAlone(h)
    BY <1>0, <2>1, StaysAlone DEF Papers, OpensBill, OpensPurchase, Writing
  <2> QED
    BY <2>1, <2>2, <2>4, <2>5, QuietPapers
<1> QED
  BY <1>1, <1>2, <1>3

\* The bill of a sale, or of a draft, reaches its table.
LEMMA SaleBillsFit ==
  ASSUME Typed, Papers, NEW h \in Handlers, OpensBill(h), UNCHANGED purchase,
         \A s \in Sales \ {req[h].bill} : sale'[s] = sale[s]
  PROVE  BillsFit(h)
<1> SUFFICES ASSUME NEW g \in Handlers \ {h}
             PROVE  /\ pc[g] \in AtSale => sale'[req[g].bill].state # "final"
                    /\ pc[g] \in {"wait", "reverse"} => purchase[req[g].bill].state # "none"
  BY DEF BillsFit
<1>1. Desk(g) /\ Stand(g)
  BY DEF Papers, Typed, Stands
<1>2. pc[g] \in AtSale => req[g].bill # req[h].bill /\ req[g].bill \in Sales
  BY <1>1 DEF Papers, Owners, OpensBill, Stand, InSale, AtSale
<1> QED
  BY <1>1, <1>2 DEF Desk, SaleDesk, PurchaseDesk, Row

LEMMA CommitSalePapers ==
  ASSUME Typed, Typed', Papers, BillsAreFinite, NEW h \in Handlers, CommitSale(h)
  PROVE  Papers'
<1> DEFINE s == req[h].bill
<1>1. /\ pc[h] = "sell" /\ todo[h] = <<>> /\ Apply(h, NoBill) /\ Answer(h, "done")
      /\ sale' = [sale EXCEPT ![s] = [state |-> "final", lines |-> req[h].lines]]
      /\ UNCHANGED purchase
  BY DEF CommitSale
<1>2. s \in Sales /\ req[h].lines \in Seq(Lines) /\ sale[s].state # "final"
  <2>1. Stand(h) /\ SaleDesk(h)
    BY DEF Typed, Stands, Papers, Desk
  <2> QED
    BY <1>1, <2>1 DEF Stand, InSale, SaleDesk, AtSale
<1>3. /\ sale'[s].state = "final" /\ sale'[s].lines = req[h].lines
      /\ \A t \in Sales \ {s} : sale'[t] = sale[t]
  BY <1>1, <1>2 DEF Typed, TablesTyped
<1>4. BillsFit(h)
  BY <1>1, <1>3, SaleBillsFit DEF OpensBill, AtSale
<1>5. \A p \in Products : delta[h][p] = -Total(req[h].lines, p) /\ Total(req[h].lines, p) \in Nat
  BY <1>1, <1>2, TotalNat, TotalEmpty DEF Papers, Desk, SaleDesk
<1>6. NoBill \in References /\ Refers(NoBill, delta[h]) /\ delta[h] \in [Products -> Int]
  BY <1>1, ApplyRefers DEF References
<1>7. \A b \in Sales \cup Purchases : traced'[b] = traced[b]
  BY <1>6, NullsAssumption DEF Refers, References
<1>8. SalesBook'
  <2> SUFFICES ASSUME NEW p \in Products PROVE traced'[NoBill][p] = -FinalLines(sale', Sales, p)
    BY DEF SalesBook
  <2>1. FinalLines(sale', Sales, p) = FinalLines(sale, Sales, p) + Total(req[h].lines, p)
    <3> HIDE DEF s
    <3>1. IsFiniteSet(Sales) /\ sale \in [Sales -> BillRows] /\ sale' \in [Sales -> BillRows]
      BY DEF BillsAreFinite, Typed, TablesTyped, BillRows
    <3> QED
      BY <1>2, <1>3, <3>1, FinalGrows
  <2>2. traced'[NoBill][p] = traced[NoBill][p] + delta[h][p] /\ traced[NoBill][p] \in Int
    BY <1>6 DEF Refers, Typed, TablesTyped
  <2>3. traced[NoBill][p] = -FinalLines(sale, Sales, p)
    BY DEF Papers, Books, SalesBook
  <2>4. FinalLines(sale, Sales, p) \in Int
    BY FinalInt DEF Typed, TablesTyped, BillsAreFinite
  <2> QED
    BY <1>3, <1>5, <2>1, <2>2, <2>3, <2>4
<1>9. DraftsBook'
  BY <1>7 DEF Papers, Books, DraftsBook
<1>10. Books'
  BY <1>1, <1>6, <1>7, <1>8, <1>9, PurchasesKept, MovedKept DEF Papers, Books
<1> QED
  BY <1>1, <1>4, <1>10, AnswerDesk, PapersByStep

LEMMA CommitDeleteDraftPapers ==
  ASSUME Typed, Typed', Papers, BillsAreFinite, NEW h \in Handlers, CommitDeleteDraft(h)
  PROVE  Papers'
<1> DEFINE s == req[h].bill
<1>1. /\ pc[h] = "restore" /\ Apply(h, s) /\ Answer(h, "done")
      /\ sale' = [sale EXCEPT ![s].state = "deleted"]
      /\ UNCHANGED purchase
  BY DEF CommitDeleteDraft
<1>2. s \in Sales /\ sale[s].state # "final" /\ "delete_draft" \in Ops
  <2>1. Stand(h) /\ SaleDesk(h) /\ Recording(h)
    BY DEF Typed, Stands, Papers, Desk
  <2> QED
    BY <1>1, <2>1 DEF Stand, SaleDesk, AtSale, Recording
<1>3. sale'[s].state = "deleted" /\ \A t \in Sales \ {s} : sale'[t] = sale[t]
  BY <1>1, <1>2 DEF Typed, TablesTyped
<1>4. BillsFit(h)
  BY <1>1, <1>3, SaleBillsFit DEF OpensBill, AtSale
<1>5. s \in References /\ Refers(s, delta[h]) /\ delta[h] \in [Products -> Int]
  BY <1>1, <1>2, ApplyRefers DEF References
<1>6. \A b \in {NoBill} \cup Purchases : traced'[b] = traced[b]
  BY <1>2, <1>5, NullsAssumption DEF Refers, References
<1>7. SalesBook'
  <2> SUFFICES ASSUME NEW p \in Products PROVE traced'[NoBill][p] = -FinalLines(sale', Sales, p)
    BY DEF SalesBook
  <2>1. FinalLines(sale', Sales, p) = FinalLines(sale, Sales, p)
    <3> HIDE DEF s
    <3> QED
      BY <1>2, <1>3, FinalStays DEF BillsAreFinite
  <2> QED
    BY <1>6, <2>1 DEF Papers, Books, SalesBook
<1>8. DraftsBook'
  BY <1>2 DEF DraftsBook
<1>9. Books'
  BY <1>1, <1>5, <1>6, <1>7, <1>8, PurchasesKept, MovedKept DEF Papers, Books
<1> QED
  BY <1>1, <1>4, <1>9, AnswerDesk, PapersByStep

LEMMA PurchaseStarts ==
  ASSUME Typed, Papers, Enforced, NEW h \in Handlers, NEW b \in Purchases,
         \/ \E ls \in Orders : \/ StartAddPurchase(h, b, ls)
                               \/ \E final \in BOOLEAN : StartUpdatePurchase(h, b, ls, final)
         \/ StartDeletePurchase(h, b)
  PROVE  Papers'
<1>1. ASSUME NEW ls \in Orders, StartAddPurchase(h, b, ls) PROVE Papers'
  <2> DEFINE r == PurchaseRequest("add_purchase", b, ls, TRUE)
  <2>1. /\ purchase[b].state = "none" /\ PurchaseFree(h, b) /\ Begin(h, "line", r, ls)
        /\ UNCHANGED <<tables, setting, seen, snap, own, delta, shared, detached, reply, faults>>
    BY <1>1 DEF StartAddPurchase
  <2>2. r.op = "add_purchase" /\ r.bill = b /\ r.final /\ ls \in Seq(Lines)
    BY OrdersAreLines DEF PurchaseRequest
  <2>3. \A g \in Handlers \ {h} : OpensPurchase(g) => b # req[g].bill
    BY <2>1, FreeBills
  <2>4. purchase[b] = NoRow
    <3>1. purchase[b] \in [state : States, lines : Seq(Lines)] /\ purchase[b].lines = <<>>
      BY <2>1 DEF Papers, Books, RowsBook, Typed, TablesTyped
    <3> QED
      BY <2>1, <3>1 DEF NoRow
  <2> HIDE DEF r
  <2> QED
    BY <2>1, <2>2, <2>3, <2>4, BeginPapers DEF AtSale
<1>2. ASSUME NEW ls \in Orders, NEW final \in BOOLEAN, StartUpdatePurchase(h, b, ls, final)
      PROVE  Papers'
  <2> DEFINE r == PurchaseRequest("update_purchase", b, ls, final)
             lines == <<>>
  <2>1. /\ purchase[b].state # "none" /\ "update_purchase" \in Ops /\ Begin(h, "wait", r, lines)
        /\ UNCHANGED <<tables, setting, seen, snap, own, delta, shared, detached, reply, faults>>
    BY <1>2 DEF StartUpdatePurchase
  <2>2. r.op = "update_purchase" /\ r.bill = b /\ lines \in Seq(Lines)
    BY DEF PurchaseRequest
  <2> HIDE DEF r, lines
  <2> QED
    BY <2>1, <2>2, BeginPapers DEF AtSale
<1>3. CASE StartDeletePurchase(h, b)
  <2> DEFINE r == PurchaseRequest("delete_purchase", b, <<>>, FALSE)
             lines == purchase[b].lines
  <2>1. setting # "disable"
    BY DEF Papers, Enforced
  <2>2. /\ purchase[b].state # "none" /\ Begin(h, "reverse", r, lines)
        /\ UNCHANGED <<tables, setting, seen, snap, own, delta, shared, detached, reply, faults>>
    BY <1>3, <2>1 DEF StartDeletePurchase
  <2>3. r.op = "delete_purchase" /\ r.bill = b /\ lines \in Seq(Lines)
    BY DEF PurchaseRequest, Typed, TablesTyped
  <2>4. lines = purchase[b].lines
    OBVIOUS
  <2> HIDE DEF r, lines
  <2> QED
    BY <2>2, <2>3, <2>4, BeginPapers DEF AtSale
<1> QED
  BY <1>1, <1>2, <1>3

\* The steps of a purchase bill that leave the table alone.
LEMMA PurchaseLines ==
  ASSUME Typed, Papers, Enforced, NEW h \in Handlers,
         \/ OpenPurchase(h) \/ ReverseLine(h) \/ ReplaceLines(h) \/ ReadLine(h) \/ WriteLine(h)
         \/ RecordPurchase(h)
  PROVE  Papers'
<1>0. Recording(h) /\ PurchaseDesk(h) /\ Stand(h) /\ Owners /\ setting # "disable"
  BY DEF Papers, Desk, Typed, Stands, Enforced
<1>1. CASE OpenPurchase(h)
  <2>1. /\ pc[h] = "wait" /\ PurchaseFree(h, req[h].bill) /\ mode[h] # "disable"
        /\ pc' = [pc EXCEPT ![h] = "reverse"] /\ mode' = [mode EXCEPT ![h] = setting]
        /\ todo' = [todo EXCEPT ![h] = Row(h).lines]
        /\ UNCHANGED <<tables, setting, req, delta, detached>>
    BY <1>0, <1>1 DEF OpenPurchase, Recording, Row
  <2>2. /\ pc'[h] = "reverse" /\ todo'[h] = Row(h).lines /\ mode'[h] = setting /\ HandlersSame(h)
    BY <2>1 DEF Typed, WorkTyped, HandlersSame
  <2>3. \A p \in Products : delta[h][p] = 0 /\ Total(Row(h).lines, p) \in Nat
    <3>1. Row(h).lines \in Seq(Lines)
      BY <1>0, <2>1 DEF Stand, Buying, Row, Typed, TablesTyped
    <3> QED
      BY <1>0, <2>1, <3>1, TotalNat DEF Recording
  <2>4. Row(h)' = Row(h) /\ Row(h).state # "none"
    BY <1>0, <2>1 DEF Row, PurchaseDesk, tables
  <2>5. Reversing(h)'
    BY <2>1, <2>2, <2>3, <2>4 DEF Reversing
  <2>6. Desk(h)'
    BY <1>0, <2>1, <2>2, <2>4, <2>5 DEF Desk, Recording, SaleDesk, PurchaseDesk, AtSale, Writing
  <2>7. OpensAlone(h)
    <3>1. \A g \in Handlers \ {h} : OpensPurchase(g) => req[h].bill # req[g].bill
      BY <2>1, FreeBills
    <3> QED
      BY <2>1, <2>2, <3>1 DEF OpensAlone, OpensBill, AtSale
  <2> QED
    BY <2>1, <2>2, <2>6, <2>7, QuietPapers
<1>2. CASE ReverseLine(h)
  <2>1. /\ pc[h] = "reverse" /\ todo[h] # <<>> /\ NextLine(h)
        /\ Move(h, Head(todo[h]).product, -Head(todo[h]).quantity)
        /\ UNCHANGED <<tables, setting, pc, req, mode, detached>>
    BY <1>2 DEF ReverseLine
  <2>2. HandlersSame(h)
    BY <2>1 DEF Typed, WorkTyped, HandlersSame, NextLine, Move
  <2>3. Row(h)' = Row(h) /\ Row(h).state # "none" /\ Row(h).lines \in Seq(Lines)
    BY <1>0, <2>1 DEF Row, PurchaseDesk, tables, Stand, Buying, Typed, TablesTyped
  <2>4. Reversing(h)'
    <3>1. Reversing(h)
      BY <1>0, <2>1 DEF PurchaseDesk
    <3>2. \A p \in Products : Total(Row(h).lines, p) \in Nat
      BY <2>3, TotalNat
    <3>3. \A p \in Products : delta'[h][p] <= 0
      BY <2>1, <3>1, TakenOut DEF Reversing
    <3>4. ASSUME req[h].op = "update_purchase" \/ "update_purchase" \notin Ops, NEW p \in Products
          PROVE  delta'[h][p] = Total(todo'[h], p) - Total(Row(h).lines, p)
      <4>1. delta[h][p] = Total(todo[h], p) - Total(Row(h).lines, p)
        BY <3>1, <3>4 DEF Reversing
      <4> QED
        BY <2>1, <3>2, <4>1, TakenOut
    <3> QED
      BY <2>1, <2>3, <3>3, <3>4 DEF Reversing
  <2>5. Desk(h)'
    BY <1>0, <2>1, <2>3, <2>4 DEF Desk, Recording, SaleDesk, PurchaseDesk, AtSale, Writing
  <2>6. OpensAlone(h)
    BY <1>0, <2>1, StaysAlone DEF OpensBill, OpensPurchase
  <2> QED
    BY <2>1, <2>2, <2>5, <2>6, QuietPapers
<1>3. CASE ReplaceLines(h)
  <2>1. /\ pc[h] = "reverse" /\ todo[h] = <<>> /\ req[h].op = "update_purchase"
        /\ pc' = [pc EXCEPT ![h] = "line"] /\ todo' = [todo EXCEPT ![h] = req[h].lines]
        /\ UNCHANGED <<tables, setting, req, mode, delta, detached>>
    BY <1>3 DEF ReplaceLines
  <2>2. pc'[h] = "line" /\ HandlersSame(h)
    BY <2>1 DEF Typed, WorkTyped, HandlersSame
  <2>3. \A p \in Products : delta[h][p] = -Total(Row(h).lines, p)
    <3>1. Row(h).lines \in Seq(Lines)
      BY <1>0, <2>1 DEF Row, Stand, Buying, Typed, TablesTyped
    <3>2. \A p \in Products : Total(Row(h).lines, p) \in Nat
      BY <3>1, TotalNat
    <3>3. \A p \in Products : delta[h][p] = Total(todo[h], p) - Total(Row(h).lines, p)
      BY <1>0, <2>1 DEF PurchaseDesk, Reversing
    <3> QED
      BY <2>1, <3>2, <3>3, TotalEmpty
  <2>4. Row(h)' = Row(h)
    BY <2>1 DEF Row, tables
  <2>5. Desk(h)'
    BY <1>0, <2>1, <2>2, <2>3, <2>4 DEF Desk, Recording, SaleDesk, PurchaseDesk, AtSale, Writing
  <2>6. OpensAlone(h)
    BY <1>0, <2>1, <2>2, StaysAlone DEF OpensBill, OpensPurchase, Writing, AtSale
  <2> QED
    BY <2>1, <2>2, <2>5, <2>6, QuietPapers
<1>4. CASE ReadLine(h) \/ WriteLine(h)
  <2>1. /\ pc[h] \in {"line", "write"} /\ UNCHANGED <<tables, setting, req, mode, delta, detached>>
        /\ pc' = [pc EXCEPT ![h] = "line"] \/ pc' = [pc EXCEPT ![h] = "write"]
        /\ todo' = todo \/ NextLine(h)
    BY <1>4 DEF ReadLine, WriteLine
  <2>2. pc'[h] \in {"line", "write"} /\ HandlersSame(h)
    BY <2>1 DEF Typed, WorkTyped, HandlersSame, NextLine
  <2>3. Row(h)' = Row(h)
    BY <2>1 DEF Row, tables
  <2>4. Desk(h)'
    BY <1>0, <2>1, <2>2, <2>3 DEF Desk, Recording, SaleDesk, PurchaseDesk, AtSale, Writing
  <2>5. OpensAlone(h)
    BY <1>0, <2>1, <2>2, StaysAlone DEF OpensBill, OpensPurchase, Writing, AtSale
  <2> QED
    BY <2>1, <2>2, <2>4, <2>5, QuietPapers
<1>5. CASE RecordPurchase(h)
  <2> DEFINE sums == [p \in Products |-> delta[h][p] + Total(req[h].lines, p)]
  <2>1. /\ pc[h] = "line" /\ pc' = [pc EXCEPT ![h] = "commit"]
        /\ delta' = IF req[h].final THEN [delta EXCEPT ![h] = sums] ELSE delta
        /\ UNCHANGED <<tables, setting, req, mode, todo, detached>>
    <3>1. /\ pc[h] = "line" /\ pc' = [pc EXCEPT ![h] = "commit"]
          /\ UNCHANGED <<tables, setting, req, mode, todo, detached>>
      BY <1>5 DEF RecordPurchase
    <3>2. Records(h) <=> req[h].final
      BY <1>0, <3>1 DEF Records, Recording
    <3>3. delta' = IF req[h].final THEN [delta EXCEPT ![h] = sums] ELSE delta
      BY <1>5, <3>2 DEF RecordPurchase, Typed, WorkTyped
    <3> QED
      BY <3>1, <3>3
  <2>2. pc'[h] = "commit" /\ HandlersSame(h)
    BY <2>1 DEF Typed, WorkTyped, HandlersSame
  <2>3. Row(h)' = Row(h)
    BY <2>1 DEF Row, tables
  <2>4. ASSUME NEW p \in Products
        PROVE  delta'[h][p] = (IF req[h].final THEN Total(req[h].lines, p) ELSE 0)
                                - Total(Row(h).lines, p)
    <3>1. delta'[h][p] = delta[h][p] + (IF req[h].final THEN Total(req[h].lines, p) ELSE 0)
          /\ delta[h][p] \in Int
      BY <2>1 DEF Typed, WorkTyped
    <3>2. delta[h][p] = -Total(Row(h).lines, p)
      BY <1>0, <2>1 DEF PurchaseDesk
    <3>3. Row(h).lines \in Seq(Lines) /\ req[h].lines \in Seq(Lines)
      BY <1>0, <2>1 DEF Row, Stand, Buying, Writing, Typed, TablesTyped
    <3>4. Total(Row(h).lines, p) \in Nat /\ Total(req[h].lines, p) \in Nat
      BY <3>3, TotalNat
    <3> QED
      BY <3>1, <3>2, <3>4
  <2> HIDE DEF sums
  <2>5. Desk(h)'
    BY <1>0, <2>1, <2>2, <2>3, <2>4 DEF Desk, Recording, SaleDesk, PurchaseDesk, AtSale, Writing
  <2>6. OpensAlone(h)
    BY <1>0, <2>1, <2>2, StaysAlone DEF OpensBill, OpensPurchase, Writing, AtSale
  <2> QED
    BY <2>1, <2>2, <2>5, <2>6, QuietPapers
<1> QED
  BY <1>1, <1>2, <1>3, <1>4, <1>5

LEMMA CommitPurchasePapers ==
  ASSUME Typed, Typed', Papers, BillsAreFinite, NEW h \in Handlers, CommitPurchase(h)
  PROVE  Papers'
<1>0. PICK b \in Purchases : b = req[h].bill
  <2>1. Stand(h)
    BY DEF Typed, Stands
  <2> QED
    BY <2>1 DEF Stand, Writing, Buying, CommitPurchase
<1> DEFINE state == IF req[h].final THEN "final" ELSE "draft"
<1>1. /\ pc[h] = "commit" /\ Apply(h, b) /\ Answer(h, "done")
      /\ purchase' = [purchase EXCEPT ![b] = [state |-> state, lines |-> req[h].lines]]
      /\ UNCHANGED sale
  BY <1>0 DEF CommitPurchase
<1>2. /\ b \in Purchases /\ req[h].lines \in Seq(Lines)
      /\ req[h].op \in {"add_purchase", "update_purchase"}
      /\ req[h].op = "update_purchase" => "update_purchase" \in Ops
      /\ req[h].op = "add_purchase" => Row(h).state = "none" /\ req[h].final
  <2>1. Stand(h) /\ PurchaseDesk(h) /\ Recording(h)
    BY DEF Typed, Stands, Papers, Desk
  <2> QED
    BY <1>1, <2>1 DEF Stand, Writing, Buying, PurchaseDesk, Recording
<1>3. /\ purchase'[b].state = state /\ purchase'[b].lines = req[h].lines
      /\ \A c \in Purchases \ {b} : purchase'[c] = purchase[c]
  BY <1>1, <1>2 DEF Typed, TablesTyped
<1>4. BillsFit(h)
  <2> SUFFICES ASSUME NEW g \in Handlers \ {h}
               PROVE  /\ pc[g] \in AtSale => sale[req[g].bill].state # "final"
                      /\ pc[g] \in {"wait", "reverse"} => purchase'[req[g].bill].state # "none"
                      /\ \/ pc[g] \in Writing
                         \/ pc[g] = "reverse" /\ (req[g].op = "update_purchase" \/ "update_purchase" \notin Ops)
                         => purchase'[req[g].bill] = purchase[req[g].bill]
    BY <1>1 DEF BillsFit
  <2>1. Desk(g) /\ Stand(g)
    BY DEF Papers, Typed, Stands
  <2>2. pc[g] \in AtSale => sale[req[g].bill].state # "final"
    BY <2>1 DEF Desk, SaleDesk
  <2>3. pc[g] \in Buying => req[g].bill \in Purchases
    BY <2>1 DEF Stand
  <2>4. pc[g] \in {"wait", "reverse"} => purchase[req[g].bill].state # "none"
    BY <2>1 DEF Desk, PurchaseDesk, Row
  <2>5. pc[g] \in {"wait", "reverse"} => purchase'[req[g].bill].state # "none"
    BY <1>3, <2>3, <2>4 DEF Buying
  <2>6. OpensPurchase(g) => req[g].bill # b
    BY <1>0, <1>1, <1>2 DEF Papers, Owners, OpensPurchase, Writing
  <2>7. pc[g] \in Writing => OpensPurchase(g)
    BY <2>1 DEF Stand, OpensPurchase, Writing
  <2>8. pc[g] = "reverse" /\ (req[g].op = "update_purchase" \/ "update_purchase" \notin Ops)
          => req[g].bill # b
    BY <1>0, <1>2, <2>4, <2>6 DEF OpensPurchase, Row
  <2> QED
    BY <1>3, <2>2, <2>3, <2>5, <2>6, <2>7, <2>8 DEF Buying
<1>5. b \in References /\ Refers(b, delta[h]) /\ delta[h] \in [Products -> Int]
  BY <1>1, <1>2, ApplyRefers DEF References
<1>6. \A r \in Sales \cup {NoBill} : traced'[r] = traced[r]
  BY <1>2, <1>5, NullsAssumption DEF Refers, References
<1>7. \A c \in Purchases \ {b} : traced'[c] = traced[c]
  BY <1>5 DEF Refers, References
<1>8. \A p \in Products :
        /\ traced'[b][p] = traced[b][p] + (IF req[h].final THEN Total(req[h].lines, p) ELSE 0)
                             - Total(purchase[b].lines, p)
        /\ traced[b][p] \in Int /\ Total(purchase[b].lines, p) \in Nat /\ Total(req[h].lines, p) \in Nat
  <2> SUFFICES ASSUME NEW p \in Products
               PROVE  /\ traced'[b][p] = traced[b][p]
                           + (IF req[h].final THEN Total(req[h].lines, p) ELSE 0)
                             - Total(purchase[b].lines, p)
                      /\ traced[b][p] \in Int /\ Total(purchase[b].lines, p) \in Nat
                      /\ Total(req[h].lines, p) \in Nat
    OBVIOUS
  <2>1. delta[h][p] = (IF req[h].final THEN Total(req[h].lines, p) ELSE 0)
                        - Total(purchase[b].lines, p)
    BY <1>0, <1>1 DEF Papers, Desk, PurchaseDesk, Row
  <2>2. purchase[b].lines \in Seq(Lines)
    BY <1>2 DEF Typed, TablesTyped
  <2>3. traced[b][p] \in Int /\ Total(purchase[b].lines, p) \in Nat /\ Total(req[h].lines, p) \in Nat
    BY <1>2, <1>5, <2>2, TotalNat DEF Typed, TablesTyped
  <2>4. traced'[b][p] = traced[b][p] + delta[h][p]
    BY <1>5 DEF Refers
  <2> QED
    BY <2>1, <2>3, <2>4
<1> HIDE DEF state
<1>9. RowsBook'
  BY <1>2, <1>3 DEF RowsBook, Papers, Books, state
<1>10. CountedBook'
  <2> SUFFICES ASSUME NEW c \in Purchases, NEW p \in Products PROVE traced'[c][p] <= AtMost(c, p)'
    BY DEF CountedBook
  <2>1. traced[c][p] <= AtMost(c, p)
    BY DEF Papers, Books, CountedBook
  <2>2. CASE c # b
    BY <1>3, <1>7, <2>1, <2>2 DEF AtMost
  <2>3. CASE c = b
    <3>1. traced[b][p] <= Total(purchase[b].lines, p)
      BY <1>8, <2>1, <2>3 DEF AtMost
    <3>2. AtMost(b, p)' = IF req[h].final THEN Total(req[h].lines, p) ELSE 0
      BY <1>2, <1>3 DEF AtMost, state
    <3> QED
      BY <1>8, <2>3, <3>1, <3>2
  <2> QED
    BY <2>2, <2>3
<1>11. ExactBook'
  <2> SUFFICES ASSUME "update_purchase" \notin Ops, NEW c \in Purchases, NEW p \in Products
               PROVE  traced'[c][p] = Brings(c, p)'
    BY DEF ExactBook
  <2>1. traced[c][p] = Brings(c, p)
    BY DEF Papers, Books, ExactBook
  <2>2. CASE c # b
    BY <1>3, <1>7, <2>1, <2>2 DEF Brings
  <2>3. CASE c = b
    <3>1. purchase[b].state = "none" /\ req[h].final /\ purchase[b].lines = <<>>
      BY <1>0, <1>2 DEF Row, Papers, Books, RowsBook
    <3>2. traced[b][p] = 0 /\ Total(purchase[b].lines, p) = 0
      BY <2>1, <2>3, <3>1, TotalEmpty DEF Brings
    <3>3. Brings(b, p)' = Total(req[h].lines, p)
      BY <1>3, <3>1 DEF Brings, state
    <3> QED
      BY <1>8, <2>3, <3>1, <3>2, <3>3
  <2> QED
    BY <2>2, <2>3
<1>12. Books'
  BY <1>1, <1>5, <1>6, <1>9, <1>10, <1>11, SalesKept, MovedKept DEF Papers, Books
<1> QED
  BY <1>1, <1>4, <1>12, AnswerDesk, PapersByStep

LEMMA CommitDeletePurchasePapers ==
  ASSUME Typed, Typed', Papers, BillsAreFinite, NEW h \in Handlers, CommitDeletePurchase(h)
  PROVE  Papers'
<1>0. PICK b \in Purchases : b = req[h].bill
  <2>1. Stand(h)
    BY DEF Typed, Stands
  <2> QED
    BY <2>1 DEF Stand, Writing, Buying, CommitDeletePurchase
<1>1. /\ pc[h] = "reverse" /\ todo[h] = <<>> /\ req[h].op = "delete_purchase"
      /\ PurchaseFree(h, b) /\ purchase[b].state # "deleted" /\ Apply(h, b) /\ Answer(h, "done")
      /\ purchase' = [purchase EXCEPT ![b].state = "deleted"]
      /\ UNCHANGED sale
  BY <1>0 DEF CommitDeletePurchase
<1>2. b \in Purchases /\ Reversing(h) /\ purchase[b].state # "none"
  <2>1. Stand(h) /\ PurchaseDesk(h)
    BY DEF Typed, Stands, Papers, Desk
  <2> QED
    BY <1>0, <1>1, <2>1 DEF PurchaseDesk, Row
<1>3. /\ purchase'[b].state = "deleted" /\ purchase'[b].lines = purchase[b].lines
      /\ \A c \in Purchases \ {b} : purchase'[c] = purchase[c]
  BY <1>1, <1>2 DEF Typed, TablesTyped
<1>4. BillsFit(h)
  <2> SUFFICES ASSUME NEW g \in Handlers \ {h}
               PROVE  /\ pc[g] \in AtSale => sale[req[g].bill].state # "final"
                      /\ pc[g] \in {"wait", "reverse"} => purchase'[req[g].bill].state # "none"
                      /\ pc[g] \in Buying =>
                           purchase'[req[g].bill].lines = purchase[req[g].bill].lines
                      /\ pc[g] \in Writing => purchase'[req[g].bill] = purchase[req[g].bill]
    BY <1>1 DEF BillsFit, Buying
  <2>1. Desk(g) /\ Stand(g)
    BY DEF Papers, Typed, Stands
  <2>2. pc[g] \in AtSale => sale[req[g].bill].state # "final"
    BY <2>1 DEF Desk, SaleDesk
  <2>3. pc[g] \in Buying => req[g].bill \in Purchases
    BY <2>1 DEF Stand
  <2>4. pc[g] \in {"wait", "reverse"} => purchase[req[g].bill].state # "none"
    BY <2>1 DEF Desk, PurchaseDesk, Row
  <2>5. pc[g] \in {"wait", "reverse"} => purchase'[req[g].bill].state # "none"
    BY <1>3, <2>3, <2>4 DEF Buying
  <2>6. pc[g] \in Writing => req[g].bill # b
    <3>1. pc[g] \in Writing => OpensPurchase(g)
      BY <2>1 DEF Stand, OpensPurchase, Writing
    <3>2. OpensPurchase(g) => req[g].bill # b
      BY <1>1, FreeBills
    <3> QED
      BY <3>1, <3>2
  <2>7. pc[g] \in Writing => purchase'[req[g].bill] = purchase[req[g].bill]
    BY <1>3, <2>3, <2>6 DEF Buying
  <2> QED
    BY <1>3, <2>2, <2>3, <2>5, <2>7
<1>5. b \in References /\ Refers(b, delta[h]) /\ delta[h] \in [Products -> Int]
  BY <1>1, <1>2, ApplyRefers DEF References
<1>6. \A r \in Sales \cup {NoBill} : traced'[r] = traced[r]
  BY <1>2, <1>5, NullsAssumption DEF Refers, References
<1>7. \A c \in Purchases \ {b} : traced'[c] = traced[c]
  BY <1>5 DEF Refers, References
<1>8. \A p \in Products :
        /\ traced'[b][p] = traced[b][p] + delta[h][p] /\ delta[h][p] \in Int /\ delta[h][p] <= 0
        /\ "update_purchase" \notin Ops => delta[h][p] = -Total(purchase[b].lines, p)
        /\ traced[b][p] \in Int /\ Total(purchase[b].lines, p) \in Nat
  <2> SUFFICES ASSUME NEW p \in Products
               PROVE  /\ traced'[b][p] = traced[b][p] + delta[h][p]
                      /\ delta[h][p] \in Int /\ delta[h][p] <= 0
                      /\ "update_purchase" \notin Ops => delta[h][p] = -Total(purchase[b].lines, p)
                      /\ traced[b][p] \in Int /\ Total(purchase[b].lines, p) \in Nat
    OBVIOUS
  <2>1. purchase[b].lines \in Seq(Lines)
    BY <1>2 DEF Typed, TablesTyped
  <2>2. traced[b][p] \in Int /\ Total(purchase[b].lines, p) \in Nat
    BY <1>2, <1>5, <2>1, TotalNat DEF Typed, TablesTyped
  <2>3. "update_purchase" \notin Ops => delta[h][p] = Total(todo[h], p) - Total(purchase[b].lines, p)
    BY <1>0, <1>2 DEF Reversing, Row
  <2>4. Total(todo[h], p) = 0
    BY <1>1, TotalEmpty
  <2>5. "update_purchase" \notin Ops => delta[h][p] = -Total(purchase[b].lines, p)
    BY <2>2, <2>3, <2>4
  <2> QED
    BY <1>2, <1>5, <2>2, <2>5 DEF Refers, Reversing
<1>9. RowsBook'
  BY <1>2, <1>3 DEF RowsBook, Papers, Books
<1>10. CountedBook'
  <2> SUFFICES ASSUME NEW c \in Purchases, NEW p \in Products PROVE traced'[c][p] <= AtMost(c, p)'
    BY DEF CountedBook
  <2>1. traced[c][p] <= AtMost(c, p)
    BY DEF Papers, Books, CountedBook
  <2>2. CASE c # b
    BY <1>3, <1>7, <2>1, <2>2 DEF AtMost
  <2>3. CASE c = b
    <3>1. traced[b][p] <= Total(purchase[b].lines, p)
      BY <1>8, <2>1, <2>3 DEF AtMost
    <3>2. AtMost(b, p)' = IF "update_purchase" \in Ops THEN Total(purchase[b].lines, p) ELSE 0
      BY <1>2, <1>3 DEF AtMost
    <3> QED
      BY <1>8, <2>3, <3>1, <3>2
  <2> QED
    BY <2>2, <2>3
<1>11. ExactBook'
  <2> SUFFICES ASSUME "update_purchase" \notin Ops, NEW c \in Purchases, NEW p \in Products
               PROVE  traced'[c][p] = Brings(c, p)'
    BY DEF ExactBook
  <2>1. traced[c][p] = Brings(c, p)
    BY DEF Papers, Books, ExactBook
  <2>2. CASE c # b
    BY <1>3, <1>7, <2>1, <2>2 DEF Brings
  <2>3. CASE c = b
    <3>1. purchase[b].state \in {"draft", "final"}
      BY <1>1, <1>2 DEF Typed, TablesTyped, States
    <3>2. traced[b][p] = Total(purchase[b].lines, p)
      BY <2>1, <2>3, <3>1 DEF Brings
    <3>3. Brings(b, p)' = 0
      BY <1>3 DEF Brings
    <3> QED
      BY <1>8, <2>3, <3>2, <3>3
  <2> QED
    BY <2>2, <2>3
<1>12. Books'
  BY <1>1, <1>5, <1>6, <1>9, <1>10, <1>11, SalesKept, MovedKept DEF Papers, Books
<1> QED
  BY <1>1, <1>4, <1>12, AnswerDesk, PapersByStep

LEMMA OtherPapers ==
  ASSUME Typed, Typed', Papers, Enforced, BillsAreFinite, NEW h \in Handlers,
         \/ \E p \in Products, n \in Changes : StartAdjust(h, p, n)
         \/ AdjustRead(h) \/ AdjustWrite(h) \/ Abort(h) \/ Done(h)
  PROVE  Papers'
<1>1. ASSUME NEW p \in Products, NEW n \in Changes, StartAdjust(h, p, n) PROVE Papers'
  <2> DEFINE r == [op |-> "adjust", bill |-> Manual,
                   lines |-> <<[product |-> p, quantity |-> n]>>, final |-> FALSE]
             lines == <<>>
  <2>1. /\ Begin(h, "adjust", r, lines)
        /\ UNCHANGED <<tables, setting, seen, snap, own, delta, shared, detached, reply, faults>>
    BY <1>1 DEF StartAdjust
  <2>2. r.op = "adjust" /\ lines \in Seq(Lines)
    OBVIOUS
  <2> HIDE DEF r, lines
  <2> QED
    BY <2>1, <2>2, BeginPapers DEF AtSale
<1>2. CASE AdjustRead(h)
  <2>1. pc[h] = "adjust" /\ UNCHANGED tables
    BY <1>2 DEF AdjustRead
  <2>2. CASE Answer(h, "short")
    BY <2>1, <2>2, QuietAnswer
  <2>3. CASE UNCHANGED <<setting, pc, req, mode, todo, delta, detached>>
    <3>1. Desk(h) /\ HandlersSame(h)
      BY <2>3 DEF HandlersSame, Papers
    <3>2. Desk(h)'
      BY <2>1, <2>3, <3>1 DEF Desk, Recording, SaleDesk, PurchaseDesk, AtSale, Writing
    <3>3. OpensAlone(h)
      BY <2>3, StaysAlone DEF Papers, OpensBill, OpensPurchase
    <3> QED
      BY <2>1, <2>3, <3>1, <3>2, <3>3, QuietPapers
  <2> QED
    BY <1>2, <2>2, <2>3 DEF AdjustRead
<1>3. CASE AdjustWrite(h)
  <2> DEFINE p == Adjustment(h).product
             n == Adjustment(h).quantity
             d == [q \in Products |-> IF q = p THEN n ELSE 0]
  <2>1. pc[h] = "adjust" /\ p \in Products /\ n \in Int
    BY <1>3, AdjustmentTyped DEF AdjustWrite
  <2>2. /\ moved' = [moved EXCEPT ![p] = @ + n] /\ traced' = [traced EXCEPT ![Manual][p] = @ + n]
        /\ Answer(h, "done") /\ UNCHANGED <<sale, purchase>>
    BY <1>3 DEF AdjustWrite
  <2> HIDE DEF p, n
  <2>3. Manual \in References /\ d \in [Products -> Int]
    BY <2>1 DEF References
  <2>4. Refers(Manual, d)
    <3>1. \A q \in Products : moved'[q] = moved[q] + d[q]
      BY <2>1, <2>2 DEF Typed, TablesTyped
    <3>2. \A q \in Products : traced'[Manual][q] = traced[Manual][q] + d[q]
      BY <2>1, <2>2, <2>3 DEF Typed, TablesTyped
    <3>3. \A r \in References \ {Manual} : traced'[r] = traced[r]
      BY <2>2 DEF Typed, TablesTyped
    <3> QED
      BY <3>1, <3>2, <3>3 DEF Refers
  <2>5. \A r \in Sales \cup Purchases \cup {NoBill} : traced'[r] = traced[r]
    BY <2>4, NullsAssumption DEF Refers, References
  <2> HIDE DEF d
  <2>6. Books'
    BY <2>2, <2>3, <2>4, <2>5, SalesKept, PurchasesKept, MovedKept DEF Papers, Books
  <2>7. BillsFit(h)
    BY <2>2, BillsSame
  <2> QED
    BY <2>1, <2>2, <2>6, <2>7, AnswerDesk, PapersByStep
<1>4. CASE Abort(h)
  BY <1>4, QuietAnswer DEF Abort
<1>5. CASE Done(h)
  <2>1. /\ pc[h] = "answered" /\ pc' = [pc EXCEPT ![h] = "idle"]
        /\ req' = [req EXCEPT ![h] = NoRequest] /\ mode' = [mode EXCEPT ![h] = "disable"]
        /\ UNCHANGED <<tables, setting, todo, delta, detached>>
    BY <1>5 DEF Done
  <2>2. /\ pc'[h] = "idle" /\ req'[h] = NoRequest /\ HandlersSame(h)
    BY <2>1 DEF Typed, WorkTyped, HandlersSame
  <2>3. Recording(h)
    BY DEF Papers, Desk
  <2>4. Desk(h)'
    BY <2>1, <2>2, <2>3 DEF Desk, Recording, SaleDesk, PurchaseDesk, AtSale, Writing, NoRequest
  <2>5. OpensAlone(h)
    BY <2>2 DEF OpensAlone, OpensBill, OpensPurchase, AtSale, Writing
  <2> QED
    BY <2>1, <2>2, <2>4, <2>5, QuietPapers
<1> QED
  BY <1>1, <1>2, <1>3, <1>4, <1>5

\* Steps of no handler.
LEMMA DesksStand ==
  ASSUME Typed, Papers, UNCHANGED <<pc, req, mode, todo, delta, detached, purchase>>,
         \A s \in Sales : sale[s].state # "final" => sale'[s].state # "final"
  PROVE  Owners' /\ \A h \in Handlers : Desk(h)'
<1>1. Owners'
  BY DEF Papers, Owners, OpensBill, OpensPurchase
<1>2. ASSUME NEW h \in Handlers PROVE Desk(h)'
  <2>1. Desk(h) /\ Stand(h)
    BY DEF Papers, Typed, Stands
  <2>2. Recording(h)' /\ PurchaseDesk(h)'
    BY <2>1 DEF Desk, Recording, PurchaseDesk, Row, Reversing
  <2>3. SaleDesk(h)'
    BY <2>1 DEF Desk, SaleDesk, Stand, AtSale, InSale
  <2> QED
    BY <2>2, <2>3 DEF Desk
<1> QED
  BY <1>1, <1>2

LEMMA OwnerPapers ==
  ASSUME Typed, Papers, BillsAreFinite, OwnerStep \/ UNCHANGED vars
  PROVE  Papers'
<1>1. ASSUME NEW s \in Sales, NEW ls \in Orders, SaveDraft(s, ls) PROVE Papers'
  <2>1. /\ sale[s].state # "final"
        /\ sale' = [sale EXCEPT ![s] = [state |-> "draft", lines |-> ls]]
        /\ UNCHANGED <<moved, traced, setting, purchase, pc, req, mode, todo, delta, detached>>
    BY <1>1 DEF SaveDraft
  <2>2. sale'[s].state = "draft" /\ \A t \in Sales \ {s} : sale'[t] = sale[t]
    BY <2>1 DEF Typed, TablesTyped
  <2>3. \A t \in Sales : sale[t].state # "final" => sale'[t].state # "final"
    BY <2>2
  <2>4. SalesBook'
    <3> SUFFICES ASSUME NEW p \in Products PROVE traced'[NoBill][p] = -FinalLines(sale', Sales, p)
      BY DEF SalesBook
    <3>1. FinalLines(sale', Sales, p) = FinalLines(sale, Sales, p)
      <4>1. sale[s].state # "final" /\ sale'[s].state # "final"
        BY <2>1, <2>2
      <4>2. \A t \in Sales \ {s} : sale'[t] = sale[t]
        BY <2>2
      <4> QED
        BY <4>1, <4>2, FinalStays DEF BillsAreFinite
    <3> QED
      BY <2>1, <3>1 DEF Papers, Books, SalesBook
  <2>5. DraftsBook'
    BY <2>1 DEF Papers, Books, DraftsBook
  <2>6. RowsBook' /\ CountedBook' /\ ExactBook'
    BY <2>1, PurchasesKept DEF Papers, Books
  <2>7. MovedBook'
    BY <2>1 DEF Papers, Books, MovedBook
  <2> QED
    BY <2>1, <2>3, <2>4, <2>5, <2>6, <2>7, DesksStand DEF Papers, Books
<1>2. CASE UNCHANGED <<moved, traced, sale, purchase, pc, req, mode, todo, delta, detached>>
           /\ setting' \in Modes
  <2>1. Books'
    BY <1>2 DEF Papers, Books, SalesBook, DraftsBook, RowsBook, CountedBook, ExactBook, MovedBook,
                AtMost, Brings, FinalLines, LinesOf
  <2> QED
    BY <1>2, <2>1, DesksStand DEF Papers
<1>3. ASSUME NEW p \in Products, NEW n, UpdateProduct(p, n) \/ AddQuantity(p, n) PROVE Papers'
  <2>1. UNCHANGED <<moved, traced, sale, purchase, pc, req, mode, todo, delta, detached, setting>>
    BY <1>3 DEF UpdateProduct, AddQuantity, Edit
  <2> QED
    BY <1>2, <2>1 DEF Papers
<1>4. ASSUME NEW m \in Modes, ChangeSetting(m) PROVE Papers'
  BY <1>2, <1>4 DEF ChangeSetting, tables
<1>5. CASE UNCHANGED vars
  BY <1>2, <1>5 DEF vars, Papers
<1> QED
  BY <1>1, <1>3, <1>4, <1>5 DEF OwnerStep

\* Errors that were passed over stay counted.
LEMMA FaultsStay ==
  ASSUME FaultsTyped, [Next]_vars, NothingPassedOver'
  PROVE  /\ NothingPassedOver
         /\ \A h \in Handlers : ~SellTimeout(h) /\ ~SellDeadlock(h) /\ ~ReverseTimeout(h)
<1>0. timeouts \in Nat /\ deadlocks \in Nat /\ timeouts' = 0 /\ deadlocks' = 0
  BY DEF FaultsTyped, NothingPassedOver
<1>1. ASSUME NEW h \in Handlers PROVE ~SellTimeout(h) /\ ~SellDeadlock(h) /\ ~ReverseTimeout(h)
  BY <1>0 DEF SellTimeout, SellDeadlock, ReverseTimeout
<1>2. ASSUME NEW h \in Handlers, SaleStep(h) PROVE UNCHANGED faults
  <2>1. CASE \E s \in Sales : (\E ls \in Orders : StartSale(h, s, ls)) \/ StartDeleteDraft(h, s)
    BY <2>1 DEF StartSale, StartDeleteDraft
  <2>2. CASE SellShort(h) \/ DetachedSellFails(h) \/ CommitSale(h) \/ DetachedCommit(h)
               \/ CommitDeleteDraft(h)
    BY <2>2 DEF SellShort, DetachedSellFails, CommitSale, DetachedCommit, CommitDeleteDraft, Answer
  <2>3. CASE InsertLines(h) \/ SellLine(h) \/ DetachedSellLine(h) \/ RestoreLine(h)
    BY <2>3 DEF InsertLines, SellLine, DetachedSellLine, RestoreLine
  <2> QED
    BY <1>1, <1>2, <2>1, <2>2, <2>3 DEF SaleStep
<1>3. ASSUME NEW h \in Handlers, PurchaseStep(h) PROVE UNCHANGED faults
  <2>1. CASE \E b \in Purchases :
               \/ \E ls \in Orders : \/ StartAddPurchase(h, b, ls)
                                     \/ \E final \in BOOLEAN : StartUpdatePurchase(h, b, ls, final)
               \/ StartDeletePurchase(h, b)
    BY <2>1 DEF StartAddPurchase, StartUpdatePurchase, StartDeletePurchase
  <2>2. CASE \/ OpenPurchase(h) \/ ReverseLine(h) \/ ReplaceLines(h) \/ ReadLine(h)
             \/ WriteLine(h) \/ RecordPurchase(h)
    BY <2>2 DEF OpenPurchase, ReverseLine, ReplaceLines, ReadLine, WriteLine, RecordPurchase
  <2>3. CASE CommitPurchase(h) \/ CommitDeletePurchase(h)
    BY <2>3 DEF CommitPurchase, CommitDeletePurchase, Answer
  <2> QED
    BY <1>1, <1>3, <2>1, <2>2, <2>3 DEF PurchaseStep
<1>4. ASSUME NEW h \in Handlers, AdjustStep(h) \/ Abort(h) \/ Done(h) PROVE UNCHANGED faults
  BY <1>4 DEF AdjustStep, StartAdjust, AdjustRead, AdjustWrite, Abort, Done, Answer
<1>5. CASE OwnerStep \/ UNCHANGED vars
  BY <1>0, <1>1, <1>5 DEF OwnerStep, SaveDraft, UpdateProduct, AddQuantity, Edit, ChangeSetting, vars,
                    faults, NothingPassedOver
<1> QED
  BY <1>0, <1>1, <1>2, <1>3, <1>4, <1>5 DEF Next, Step, faults, NothingPassedOver

LEMMA NextPapers ==
  ASSUME Typed, Typed', PapersKept, Enforced, BillsAreFinite, [Next]_vars
  PROVE  PapersKept'
<1> SUFFICES ASSUME NothingPassedOver' PROVE Papers'
  BY DEF PapersKept
<1>1. Papers /\ \A h \in Handlers : ~SellTimeout(h) /\ ~SellDeadlock(h) /\ ~ReverseTimeout(h)
  BY FaultsStay DEF Typed, PapersKept
<1>2. ASSUME NEW h \in Handlers, SaleStep(h) PROVE Papers'
  <2>1. ~detached[h]
    BY <1>1 DEF Papers, Desk, Recording
  <2>2. ~DetachedSellLine(h) /\ ~DetachedSellFails(h) /\ ~DetachedCommit(h)
    BY <2>1 DEF DetachedSellLine, DetachedSellFails, DetachedCommit
  <2>3. CASE SellShort(h)
    <3>1. pc[h] # "idle" /\ Answer(h, "short") /\ UNCHANGED tables
      BY <2>3 DEF SellShort, Selling
    <3> QED
      BY <1>1, <3>1, QuietAnswer
  <2> QED
    BY <1>1, <1>2, <2>2, <2>3, SaleStarts, SaleLines, CommitSalePapers, CommitDeleteDraftPapers DEF SaleStep
<1>3. ASSUME NEW h \in Handlers, PurchaseStep(h) PROVE Papers'
  BY <1>1, <1>3, PurchaseStarts, PurchaseLines, CommitPurchasePapers, CommitDeletePurchasePapers
     DEF PurchaseStep
<1>4. ASSUME NEW h \in Handlers, AdjustStep(h) \/ Abort(h) \/ Done(h) PROVE Papers'
  BY <1>1, <1>4, OtherPapers DEF AdjustStep
<1>5. CASE OwnerStep \/ UNCHANGED vars
  BY <1>1, <1>5, OwnerPapers
<1> QED
  BY <1>2, <1>3, <1>4, <1>5 DEF Next, Step

(* The start *)

LEMMA SumZeros ==
  ASSUME NEW f, NEW S, IsFiniteSet(S), \A x \in S : f[x] = 0
  PROVE  SumFunctionOnSet(f, S) = 0
<1>1. SumFunctionOnSet(f, S) = 0 * Cardinality(S)
  BY SumConstant
<1>2. Cardinality(S) \in Nat
  BY FS_CardinalityType
<1> QED
  BY <1>1, <1>2

\* What is zero adds nothing.
LEMMA SumOfSome ==
  ASSUME NEW f, NEW S, NEW T \in SUBSET S, IntegersOn(f, S), \A x \in S \ T : f[x] = 0
  PROVE  SumFunctionOnSet(f, S) = SumFunctionOnSet(f, T)
<1> DEFINE R == S \ T
<1>1. S = T \cup R /\ T \cap R = {} /\ R \in SUBSET S
  OBVIOUS
<1>2. \A x \in R : f[x] = 0
  OBVIOUS
<1> HIDE DEF R
<1>3. IsFiniteSet(R) /\ IntegersOn(f, T) /\ IntegersOn(f, T \cup R)
  BY <1>1, FS_Subset, FewerNumbers DEF IntegersOn
<1>4. SumFunctionOnSet(f, T \cup R) = SumFunctionOnSet(f, T) + SumFunctionOnSet(f, R)
  BY <1>1, <1>3, SumUnion
<1>5. SumFunctionOnSet(f, R) = 0 /\ SumFunctionOnSet(f, T) \in Int
  BY <1>2, <1>3, SumZeros, SumInt
<1>6. SumFunctionOnSet(f, T \cup R) = SumFunctionOnSet(f, T)
  BY <1>4, <1>5
<1> QED
  BY <1>1, <1>6, Zenon

LEMMA InitPapers == ASSUME Init, BillsAreFinite PROVE Papers
<1>1. /\ pc = [h \in Handlers |-> "idle"] /\ req = [h \in Handlers |-> NoRequest]
      /\ delta = [h \in Handlers |-> Nothing] /\ detached = [h \in Handlers |-> FALSE]
      /\ setting \in Modes
  BY DEF Init
<1>2. Owners
  BY <1>1 DEF Owners, OpensBill, OpensPurchase, AtSale, Writing
<1>3. ASSUME NEW h \in Handlers PROVE Desk(h)
  BY <1>1, Consts DEF Desk, Recording, SaleDesk, PurchaseDesk, AtSale, Writing, NoRequest
<1>4. /\ moved = Nothing /\ sale = [s \in Sales |-> NoRow]
      /\ traced = [r \in References |-> IF r \in Received THEN [p \in Products |-> Total(FirstOrder, p)]
                                                          ELSE Nothing]
      /\ purchase = [b \in Purchases |-> IF b \in Received
                                         THEN [state |-> "final", lines |-> FirstOrder] ELSE NoRow]
  BY DEF Init
<1>5. Received \subseteq Purchases /\ Purchases \subseteq References /\ NoBill \in References
      /\ Sales \subseteq References /\ NoBill \notin Received /\ Sales \cap Received = {}
  BY OrdersAssumption, NullsAssumption DEF References
<1>6. \A r \in References : \A p \in Products :
        traced[r][p] = IF r \in Received THEN Total(FirstOrder, p) ELSE 0
  BY <1>4, Consts
<1>7. SalesBook
  <2> SUFFICES ASSUME NEW p \in Products PROVE traced[NoBill][p] = -FinalLines(sale, Sales, p)
    BY DEF SalesBook
  <2> DEFINE F == {s \in Sales : sale[s].state = "final"}
             f == [s \in F |-> Total(sale[s].lines, p)]
  <2>1. F = {}
    BY <1>4 DEF NoRow
  <2>2. FinalLines(sale, Sales, p) = SumFunctionOnSet(f, F)
    BY DEF FinalLines, LinesOf
  <2> HIDE DEF F, f
  <2>3. SumFunctionOnSet(f, F) = 0
    BY <2>1, SumEmpty, Zenon
  <2>4. traced[NoBill][p] = 0
    BY <1>5, <1>6
  <2>5. FinalLines(sale, Sales, p) = 0
    BY <2>2, <2>3
  <2>6. \A m, n \in Int : m + n = 0 => m = -n
    OBVIOUS
  <2>7. traced[NoBill][p] + FinalLines(sale, Sales, p) = 0
        /\ traced[NoBill][p] \in Int /\ FinalLines(sale, Sales, p) \in Int
    BY <2>4, <2>5
  <2> QED
    BY <2>6, <2>7, Zenon
<1>8. DraftsBook
  <2>1. \A s \in Sales : \A p \in Products : traced[s][p] = 0
    BY <1>5, <1>6
  <2> QED
    BY <2>1 DEF DraftsBook
<1>9. \A b \in Purchases :
        /\ b \in Received => purchase[b].state = "final" /\ purchase[b].lines = FirstOrder
        /\ b \notin Received => purchase[b].state = "none" /\ purchase[b].lines = <<>>
  BY <1>4 DEF NoRow
<1>10. RowsBook
  BY <1>9 DEF RowsBook
<1>11. CountedBook /\ ExactBook
  <2> SUFFICES ASSUME NEW b \in Purchases, NEW p \in Products
               PROVE  traced[b][p] <= AtMost(b, p) /\ traced[b][p] = Brings(b, p)
    BY DEF CountedBook, ExactBook
  <2>1. traced[b][p] = IF b \in Received THEN Total(FirstOrder, p) ELSE 0
    BY <1>5, <1>6
  <2>2. Total(FirstOrder, p) \in Nat
    BY OrdersAreLines, TotalNat
  <2> QED
    BY <1>9, <2>1, <2>2 DEF AtMost, Brings
<1>12. MovedBook
  <2> SUFFICES ASSUME NEW p \in Products
               PROVE  moved[p] = SumFunctionOnSet([r \in References |-> traced[r][p]], References)
                                   - AtStart(p)
    BY DEF MovedBook
  <2> DEFINE f == [r \in References |-> traced[r][p]]
             g == [b \in Received |-> Total(FirstOrder, p)]
  <2>1. Total(FirstOrder, p) \in Nat
    BY OrdersAreLines, TotalNat
  <2>2. \A r \in References : f[r] = IF r \in Received THEN Total(FirstOrder, p) ELSE 0
    BY <1>6
  <2>3. \A b \in Received : g[b] = f[b]
    BY <1>5, <2>2
  <2>4. Received \in SUBSET References
    BY <1>5
  <2>5. AtStart(p) = SumFunctionOnSet(g, Received)
    BY DEF AtStart
  <2> HIDE DEF f, g
  <2>6. IntegersOn(f, References)
    BY <2>1, <2>2, ReferencesFinite DEF IntegersOn
  <2>7. SumFunctionOnSet(f, References) = SumFunctionOnSet(f, Received)
    BY <2>2, <2>4, <2>6, SumOfSome
  <2>8. IntegersOn(f, Received)
    BY <2>4, <2>6, FewerNumbers
  <2>9. SumFunctionOnSet(g, Received) = SumFunctionOnSet(f, Received)
        /\ SumFunctionOnSet(f, Received) \in Int
    BY <2>3, <2>8, SumSame, SumInt
  <2>10. moved[p] = 0
    BY <1>4, Consts
  <2>11. moved[p] = SumFunctionOnSet(f, References) - AtStart(p)
    BY <2>5, <2>7, <2>9, <2>10
  <2> QED
    BY <2>11 DEF f
<1> QED
  BY <1>1, <1>2, <1>3, <1>7, <1>8, <1>10, <1>11, <1>12 DEF Papers, Books

LEMMA PapersHold ==
  ASSUME Enforced, BillsAreFinite
  PROVE  Spec => [](PapersKept /\ Typed)
<1>1. Init => PapersKept
  BY InitPapers DEF PapersKept
<1>2. PapersKept /\ Typed /\ Typed' /\ [Next]_vars => PapersKept'
  BY NextPapers
<1>3. Spec => []Typed
  BY TypedHolds
<1>4. Spec => []PapersKept
  BY <1>1, <1>2, <1>3, PTL DEF Spec
<1> QED
  BY <1>3, <1>4, PTL

\* While no error of a locking read is passed over, the movements of sales are the lines of the
\* final bills, however sales, drafts, deletions, purchases and adjustments interleave: each
\* final bill counts once, and nothing that failed counts (stock.go).
THEOREM SalesLedgerTheorem ==
  ASSUME "disable" \notin Modes, IsFiniteSet(Sales), IsFiniteSet(Purchases)
  PROVE  Spec => []SalesLedger
<1>1. PapersKept => SalesLedger
  BY DEF PapersKept, SalesLedger, Papers, Books, SalesBook
<1>2. Spec => [](PapersKept /\ Typed)
  BY PapersHold DEF Enforced, BillsAreFinite
<1> QED
  BY <1>1, <1>2, PTL

\* Nor is a purchase bill counted twice, whatever updates and deletions of it run beside each
\* other (purchase_bill.go).
THEOREM CountedOnceTheorem ==
  ASSUME "disable" \notin Modes, IsFiniteSet(Sales), IsFiniteSet(Purchases)
  PROVE  Spec => []CountedOnce
<1>1. PapersKept => CountedOnce
  BY DEF PapersKept, CountedOnce, Papers, Books, CountedBook, AtMost
<1>2. Spec => [](PapersKept /\ Typed)
  BY PapersHold DEF Enforced, BillsAreFinite
<1> QED
  BY <1>1, <1>2, PTL

\* The movements by what they refer to add up to what was moved.
LEMMA PapersAddUp ==
  ASSUME Typed, Papers, BillsAreFinite, Ops \cap {"update_purchase", "delete_draft"} = {},
         NEW p \in Products
  PROVE  /\ moved[p] = traced[Manual][p] + traced[NoBill][p] + LinesOf(purchase, Standing, p)
                         - AtStart(p)
         /\ LinesOf(purchase, Standing, p) \in Int
<1> DEFINE f == [r \in References |-> traced[r][p]]
           g == [b \in Standing |-> Total(purchase[b].lines, p)]
           Some == Standing \cup {NoBill, Manual}
<1>1. IntegersOn(f, References)
  BY ReferencesFinite DEF IntegersOn, Typed, TablesTyped
<1>2. /\ Standing \subseteq Purchases /\ Purchases \subseteq References /\ Sales \subseteq References
      /\ NoBill \in References /\ Manual \in References /\ Manual # NoBill
      /\ NoBill \notin Standing /\ Manual \notin Standing
  BY NullsAssumption DEF Standing, References
<1>3. \A r \in References \ Some : f[r] = 0
  <2>1. ASSUME NEW r \in References \ Some PROVE traced[r][p] = 0
    <3>1. CASE r \in Sales
      BY <3>1 DEF Papers, Books, DraftsBook
    <3>2. CASE r \in Purchases
      <4>1. r \notin Standing
        OBVIOUS
      <4> QED
        BY <3>2, <4>1 DEF Papers, Books, ExactBook, Brings, Standing
    <3> QED
      BY <3>1, <3>2 DEF References
  <2> QED
    BY <2>1
<1>4. \A b \in Standing : g[b] = f[b]
  BY <1>2 DEF Papers, Books, ExactBook, Brings, Standing
<1>5. f[NoBill] = traced[NoBill][p] /\ f[Manual] = traced[Manual][p]
  BY <1>2
<1>6. LinesOf(purchase, Standing, p) = SumFunctionOnSet(g, Standing)
  BY DEF LinesOf
<1>7. moved[p] = SumFunctionOnSet(f, References) - AtStart(p)
  BY DEF Papers, Books, MovedBook
<1>8. Some = (Standing \cup {NoBill}) \cup {Manual} /\ Some \in SUBSET References
      /\ Standing \in SUBSET References /\ Standing \cup {NoBill} \in SUBSET References
      /\ Manual \notin Standing \cup {NoBill}
  BY <1>2
<1> HIDE DEF f, g, Some
<1>9. SumFunctionOnSet(f, References) = SumFunctionOnSet(f, Some)
  BY <1>1, <1>3, <1>8, SumOfSome
<1>10. /\ IntegersOn(f, (Standing \cup {NoBill}) \cup {Manual}) /\ IntegersOn(f, Standing \cup {NoBill})
       /\ IntegersOn(f, Standing)
  <2>1. IntegersOn(f, Some) /\ IntegersOn(f, Standing \cup {NoBill}) /\ IntegersOn(f, Standing)
    BY <1>1, <1>8, FewerNumbers
  <2> QED
    BY <1>8, <2>1
<1>11. SumFunctionOnSet(f, (Standing \cup {NoBill}) \cup {Manual})
         = f[Manual] + SumFunctionOnSet(f, Standing \cup {NoBill})
  BY <1>8, <1>10, SumAdd
<1>12. SumFunctionOnSet(f, Standing \cup {NoBill}) = f[NoBill] + SumFunctionOnSet(f, Standing)
  BY <1>2, <1>10, SumAdd
<1>13. SumFunctionOnSet(g, Standing) = SumFunctionOnSet(f, Standing)
       /\ SumFunctionOnSet(f, Standing) \in Int
  BY <1>4, <1>10, SumSame, SumInt
<1>14. f[NoBill] \in Int /\ f[Manual] \in Int
  BY <1>1, <1>2 DEF IntegersOn
<1>15. AtStart(p) \in Int
  BY AtStartInt
<1>16. SumFunctionOnSet(f, Some) = f[Manual] + (f[NoBill] + SumFunctionOnSet(f, Standing))
  BY <1>8, <1>11, <1>12
<1> QED
  BY <1>5, <1>6, <1>7, <1>9, <1>13, <1>14, <1>15, <1>16

\* Without updates of purchase bills and deletions of drafts, and while no error of a locking
\* read is passed over, the quantity of a product is what the papers say: what there was, the
\* purchases that stand, the sales and the adjustments (stock.go, purchase_bill.go).
THEOREM StockExplainedTheorem ==
  ASSUME "disable" \notin Modes, IsFiniteSet(Sales), IsFiniteSet(Purchases),
         Ops \subseteq {"draft", "sale", "adjust", "delete_purchase"}
  PROVE  Spec => []StockExplained
<1>1. PapersKept /\ Typed /\ LedgerInv => StockExplained
  <2> SUFFICES ASSUME PapersKept, Typed, LedgerInv, NothingPassedOver, NEW p \in Products
               PROVE  quantity[p] = Opening[p] + traced[Manual][p] + LinesOf(purchase, Standing, p)
                                      - AtStart(p) - FinalLines(sale, Sales, p)
    BY DEF StockExplained, AtStart
  <2>1. Papers /\ BillsAreFinite
    BY DEF PapersKept, BillsAreFinite
  <2>2. quantity[p] = Opening[p] + moved[p]
    BY DEF LedgerInv, ExactBeforeDeadlocks, NothingPassedOver, QuantityIsLedger
  <2>3. /\ moved[p] = traced[Manual][p] + traced[NoBill][p] + LinesOf(purchase, Standing, p)
                        - AtStart(p)
        /\ LinesOf(purchase, Standing, p) \in Int
    BY <2>1, PapersAddUp
  <2>4. traced[NoBill][p] = -FinalLines(sale, Sales, p)
    BY <2>1 DEF Papers, Books, SalesBook
  <2>5. FinalLines(sale, Sales, p) \in Int
    BY <2>1, FinalInt DEF Typed, TablesTyped, BillsAreFinite
  <2>6. AtStart(p) \in Int
    BY <2>1, AtStartInt
  <2>7. Opening[p] \in Int /\ traced[Manual][p] \in Int
    BY QuantitiesAssumption DEF Typed, TablesTyped, References
  <2> QED
    BY <2>2, <2>3, <2>4, <2>5, <2>6, <2>7
<1>2. Spec => [](PapersKept /\ Typed)
  BY PapersHold DEF Enforced, BillsAreFinite
<1>3. Spec => []LedgerInv
  BY LedgerTheorem DEF ADDITIVE
<1> QED
  BY <1>1, <1>2, <1>3, PTL
=============================================================================
