--------------------------- MODULE ServicesProofs ---------------------------
(***************************************************************************)
(* The properties that the run of MCServices checks, proved of its         *)
(* instances from the theorems that the proof modules state for any        *)
(* constants. Two instances of a module with the same constants have the   *)
(* same behaviours (the lemmas ...Same), and a behaviour of MCServices is  *)
(* one of the instance that its focus names (StepsRun).                    *)
(***************************************************************************)
EXTENDS MCServices, FiniteSetTheorems, TLAPS


(* Each behaviour is one of the instance that its focus names *)

LEMMA InitRuns ==
  Init =>
    /\ focus = "sessions" => SignIns!Init
    /\ focus = "resets" => Recovery!Init
    /\ focus = "admins" => Administration!Init
    /\ focus = "failed reads" => Unread!Init
    /\ focus = "files" => Uploads!Init
    /\ focus = "branch links" => BranchLinks!Init
    /\ focus = "store links" => StoreLinks!Init
    /\ focus = "onboarding" => Onboarding!Init
    /\ focus = "clearance" => Clearance!Init
    /\ focus = "orders" => OrderDesk!Init
    /\ focus = "lists" => Walk!Init
    /\ focus = "token" => TokenForms!Init
    /\ focus = "forms" => Forms!Init
    /\ focus = "ledger" => Ledger!Init
    /\ focus = "reports" => SupplierReports!Init
    /\ focus = "dashboard" => Figures!Init
    /\ focus = "vehicles" => Garage!Init
    /\ focus = "failed lookups" => Roadside!Init
    /\ focus = "stock papers" => Warehouse!Init
    /\ focus = "stock edits" => Workshop!Init
    /\ focus = "stock drafts" => Counter!Init
  BY DEF Init

LEMMA NextRuns ==
  Next =>
    /\ focus' = focus
    /\ focus = "sessions" => SignIns!Next
    /\ focus = "resets" => Recovery!Next
    /\ focus = "admins" => Administration!Next
    /\ focus = "failed reads" => Unread!Next
    /\ focus = "files" => Uploads!Next
    /\ focus = "branch links" => BranchLinks!Next
    /\ focus = "store links" => StoreLinks!Next
    /\ focus = "onboarding" => Onboarding!Next
    /\ focus = "clearance" => Clearance!Next
    /\ focus = "orders" => OrderDesk!Next
    /\ focus = "lists" => Walk!Next
    /\ focus = "token" => TokenForms!Next
    /\ focus = "forms" => Forms!Next
    /\ focus = "ledger" => Ledger!Next
    /\ focus = "reports" => SupplierReports!Next
    /\ focus = "dashboard" => Figures!Next
    /\ focus = "vehicles" => Garage!Next
    /\ focus = "failed lookups" => Roadside!Next
    /\ focus = "stock papers" => Warehouse!Next
    /\ focus = "stock edits" => Workshop!Next
    /\ focus = "stock drafts" => Counter!Next
  BY DEF Next, SignInsNext, RecoveryNext, AdministrationNext, UnreadNext, SignupsNext,
         UploadsNext, BranchLinksNext, StoreLinksNext, ClearanceNext, BranchBookNext,
         OnboardingNext, ContactsNext, OrderDeskNext, WalkNext, TokenFormsNext, FormsNext,
         LedgerNext, SupplierReportsNext, FiguresNext, WarehouseNext, WorkshopNext, CounterNext,
         GarageNext, RoadsideNext

LEMMA VarsRun ==
  UNCHANGED vars =>
    /\ focus' = focus
    /\ UNCHANGED SignIns!vars
    /\ UNCHANGED Recovery!vars
    /\ UNCHANGED Administration!vars
    /\ UNCHANGED Unread!vars
    /\ UNCHANGED Uploads!vars
    /\ UNCHANGED BranchLinks!vars
    /\ UNCHANGED StoreLinks!vars
    /\ UNCHANGED Onboarding!vars
    /\ UNCHANGED Clearance!vars
    /\ UNCHANGED OrderDesk!vars
    /\ UNCHANGED Walk!vars
    /\ UNCHANGED TokenForms!vars
    /\ UNCHANGED Forms!vars
    /\ UNCHANGED Ledger!vars
    /\ UNCHANGED SupplierReports!vars
    /\ UNCHANGED Figures!vars
    /\ UNCHANGED Garage!vars
    /\ UNCHANGED Roadside!vars
    /\ UNCHANGED Warehouse!vars
    /\ UNCHANGED Workshop!vars
    /\ UNCHANGED Counter!vars
  BY DEF vars, SignIns!vars, Recovery!vars, Administration!vars, Unread!vars, Uploads!vars,
         BranchLinks!vars, StoreLinks!vars, Onboarding!vars, Clearance!vars, OrderDesk!vars,
         Walk!vars, TokenForms!vars, Forms!vars, Ledger!vars, SupplierReports!vars, Figures!vars,
         Garage!vars, Roadside!vars, Warehouse!vars, Workshop!vars, Counter!vars

LEMMA StepsRun ==
  [Next]_vars =>
    /\ focus = "sessions" <=> (focus = "sessions")'
    /\ focus = "resets" <=> (focus = "resets")'
    /\ focus = "admins" <=> (focus = "admins")'
    /\ focus = "failed reads" <=> (focus = "failed reads")'
    /\ focus = "files" <=> (focus = "files")'
    /\ focus = "branch links" <=> (focus = "branch links")'
    /\ focus = "store links" <=> (focus = "store links")'
    /\ focus = "onboarding" <=> (focus = "onboarding")'
    /\ focus = "clearance" <=> (focus = "clearance")'
    /\ focus = "orders" <=> (focus = "orders")'
    /\ focus = "lists" <=> (focus = "lists")'
    /\ focus = "token" <=> (focus = "token")'
    /\ focus = "forms" <=> (focus = "forms")'
    /\ focus = "ledger" <=> (focus = "ledger")'
    /\ focus = "reports" <=> (focus = "reports")'
    /\ focus = "dashboard" <=> (focus = "dashboard")'
    /\ focus = "vehicles" <=> (focus = "vehicles")'
    /\ focus = "failed lookups" <=> (focus = "failed lookups")'
    /\ focus = "stock papers" <=> (focus = "stock papers")'
    /\ focus = "stock edits" <=> (focus = "stock edits")'
    /\ focus = "stock drafts" <=> (focus = "stock drafts")'
    /\ focus = "sessions" => [SignIns!Next]_(SignIns!vars)
    /\ focus = "resets" => [Recovery!Next]_(Recovery!vars)
    /\ focus = "admins" => [Administration!Next]_(Administration!vars)
    /\ focus = "failed reads" => [Unread!Next]_(Unread!vars)
    /\ focus = "files" => [Uploads!Next]_(Uploads!vars)
    /\ focus = "branch links" => [BranchLinks!Next]_(BranchLinks!vars)
    /\ focus = "store links" => [StoreLinks!Next]_(StoreLinks!vars)
    /\ focus = "onboarding" => [Onboarding!Next]_(Onboarding!vars)
    /\ focus = "clearance" => [Clearance!Next]_(Clearance!vars)
    /\ focus = "orders" => [OrderDesk!Next]_(OrderDesk!vars)
    /\ focus = "lists" => [Walk!Next]_(Walk!vars)
    /\ focus = "token" => [TokenForms!Next]_(TokenForms!vars)
    /\ focus = "forms" => [Forms!Next]_(Forms!vars)
    /\ focus = "ledger" => [Ledger!Next]_(Ledger!vars)
    /\ focus = "reports" => [SupplierReports!Next]_(SupplierReports!vars)
    /\ focus = "dashboard" => [Figures!Next]_(Figures!vars)
    /\ focus = "vehicles" => [Garage!Next]_(Garage!vars)
    /\ focus = "failed lookups" => [Roadside!Next]_(Roadside!vars)
    /\ focus = "stock papers" => [Warehouse!Next]_(Warehouse!vars)
    /\ focus = "stock edits" => [Workshop!Next]_(Workshop!vars)
    /\ focus = "stock drafts" => [Counter!Next]_(Counter!vars)
  BY NextRuns, VarsRun

\* One request at a time, and no failure.
LEMMA Alone == (\A g, h \in {"h"} : g = h) /\ 0 = 0
  OBVIOUS

-----------------------------------------------------------------------------
(* Stock *)

LEMMA FewBills == IsFiniteSet({"s1"}) /\ IsFiniteSet({"s1", "s2"}) /\ IsFiniteSet({"b1"})
<1>1. IsFiniteSet({"s1"}) /\ IsFiniteSet({"b1"}) /\ {"s1", "s2"} = {"s1"} \cup {"s2"}
  BY FS_Singleton
<1> QED
  BY <1>1, FS_AddElement

WarehouseP == INSTANCE StockProofs WITH Products <- {"p1"}, Sales <- {"s1", "s2"},
    Purchases <- {"b1"}, Received <- {"b1"}, Orders <- {<<OnePiece>>},
    FirstOrder <- <<OnePiece>>, Opening <- [p \in {"p1"} |-> 2], Changes <- {1, -1},
    Modes <- {"enforce"}, Ops <- {"draft", "sale", "adjust", "delete_purchase"},
    NoBill <- "no bill", Manual <- "manual", MaxQuantity <- 3, MaxTimeouts <- 1,
    MaxDeadlocks <- 0

LEMMA WarehouseSame == WarehouseP!Spec <=> Warehouse!Spec
<1>1. WarehouseP!Init <=> Warehouse!Init
  BY DEF Warehouse!SumFunctionOnSet, Warehouse!FoldFunctionOnSet, Warehouse!MapThenFoldSet,
         Warehouse!Init, Warehouse!References, Warehouse!NoRow, Warehouse!NoRequest,
         Warehouse!Untouched, Warehouse!Nothing, Warehouse!Total, WarehouseP!SumFunctionOnSet,
         WarehouseP!FoldFunctionOnSet, WarehouseP!MapThenFoldSet, WarehouseP!Init,
         WarehouseP!References, WarehouseP!NoRow, WarehouseP!NoRequest, WarehouseP!Untouched,
         WarehouseP!Nothing, WarehouseP!Total
<1>2. WarehouseP!Next <=> Warehouse!Next
  <2>1. \A h : WarehouseP!SaleStep(h) <=> Warehouse!SaleStep(h)
    BY DEF Warehouse!tables, Warehouse!faults, Warehouse!References, Warehouse!Untouched,
         Warehouse!Nothing, Warehouse!ProductsOf, Warehouse!Unwritten, Warehouse!Free,
         Warehouse!Open, Warehouse!SaleFree, Warehouse!Current, Warehouse!Move,
         Warehouse!NextLine, Warehouse!Begin, Warehouse!Answer, Warehouse!WithinBound,
         Warehouse!Apply, Warehouse!StartSale, Warehouse!InsertLines, Warehouse!Selling,
         Warehouse!SellLine, Warehouse!SellShort, Warehouse!Waiting, Warehouse!SellTimeout,
         Warehouse!SellDeadlock, Warehouse!DetachedSellLine, Warehouse!DetachedSellFails,
         Warehouse!CommitSale, Warehouse!DetachedCommit, Warehouse!StartDeleteDraft,
         Warehouse!RestoreLine, Warehouse!CommitDeleteDraft, Warehouse!SaleStep,
         WarehouseP!tables, WarehouseP!faults, WarehouseP!References, WarehouseP!Untouched,
         WarehouseP!Nothing, WarehouseP!ProductsOf, WarehouseP!Unwritten, WarehouseP!Free,
         WarehouseP!Open, WarehouseP!SaleFree, WarehouseP!Current, WarehouseP!Move,
         WarehouseP!NextLine, WarehouseP!Begin, WarehouseP!Answer, WarehouseP!WithinBound,
         WarehouseP!Apply, WarehouseP!StartSale, WarehouseP!InsertLines, WarehouseP!Selling,
         WarehouseP!SellLine, WarehouseP!SellShort, WarehouseP!Waiting, WarehouseP!SellTimeout,
         WarehouseP!SellDeadlock, WarehouseP!DetachedSellLine, WarehouseP!DetachedSellFails,
         WarehouseP!CommitSale, WarehouseP!DetachedCommit, WarehouseP!StartDeleteDraft,
         WarehouseP!RestoreLine, WarehouseP!CommitDeleteDraft, WarehouseP!SaleStep
  <2>2. \A h : WarehouseP!PurchaseStep(h) <=> Warehouse!PurchaseStep(h)
    BY DEF Warehouse!SumFunctionOnSet, Warehouse!FoldFunctionOnSet, Warehouse!MapThenFoldSet,
         Warehouse!tables, Warehouse!faults, Warehouse!References, Warehouse!Untouched,
         Warehouse!Nothing, Warehouse!Total, Warehouse!ProductsOf, Warehouse!Unwritten,
         Warehouse!Free, Warehouse!Open, Warehouse!PurchaseFree, Warehouse!Current,
         Warehouse!Snapshot, Warehouse!Read, Warehouse!Records, Warehouse!Move,
         Warehouse!NextLine, Warehouse!Begin, Warehouse!Answer, Warehouse!WithinBound,
         Warehouse!Apply, Warehouse!PurchaseRequest, Warehouse!StartAddPurchase,
         Warehouse!StartUpdatePurchase, Warehouse!OpenPurchase, Warehouse!ReverseLine,
         Warehouse!ReverseTimeout, Warehouse!ReplaceLines, Warehouse!ReadLine,
         Warehouse!WriteLine, Warehouse!RecordPurchase, Warehouse!CommitPurchase,
         Warehouse!StartDeletePurchase, Warehouse!CommitDeletePurchase, Warehouse!PurchaseStep,
         WarehouseP!SumFunctionOnSet, WarehouseP!FoldFunctionOnSet, WarehouseP!MapThenFoldSet,
         WarehouseP!tables, WarehouseP!faults, WarehouseP!References, WarehouseP!Untouched,
         WarehouseP!Nothing, WarehouseP!Total, WarehouseP!ProductsOf, WarehouseP!Unwritten,
         WarehouseP!Free, WarehouseP!Open, WarehouseP!PurchaseFree, WarehouseP!Current,
         WarehouseP!Snapshot, WarehouseP!Read, WarehouseP!Records, WarehouseP!Move,
         WarehouseP!NextLine, WarehouseP!Begin, WarehouseP!Answer, WarehouseP!WithinBound,
         WarehouseP!Apply, WarehouseP!PurchaseRequest, WarehouseP!StartAddPurchase,
         WarehouseP!StartUpdatePurchase, WarehouseP!OpenPurchase, WarehouseP!ReverseLine,
         WarehouseP!ReverseTimeout, WarehouseP!ReplaceLines, WarehouseP!ReadLine,
         WarehouseP!WriteLine, WarehouseP!RecordPurchase, WarehouseP!CommitPurchase,
         WarehouseP!StartDeletePurchase, WarehouseP!CommitDeletePurchase,
         WarehouseP!PurchaseStep
  <2>3. \A h : WarehouseP!AdjustStep(h) <=> Warehouse!AdjustStep(h)
    BY DEF Warehouse!tables, Warehouse!faults, Warehouse!References, Warehouse!Untouched,
         Warehouse!Nothing, Warehouse!Unwritten, Warehouse!Free, Warehouse!Begin,
         Warehouse!Answer, Warehouse!WithinBound, Warehouse!StartAdjust, Warehouse!Adjustment,
         Warehouse!AdjustRead, Warehouse!AdjustWrite, Warehouse!AdjustStep, WarehouseP!tables,
         WarehouseP!faults, WarehouseP!References, WarehouseP!Untouched, WarehouseP!Nothing,
         WarehouseP!Unwritten, WarehouseP!Free, WarehouseP!Begin, WarehouseP!Answer,
         WarehouseP!WithinBound, WarehouseP!StartAdjust, WarehouseP!Adjustment,
         WarehouseP!AdjustRead, WarehouseP!AdjustWrite, WarehouseP!AdjustStep
  <2>4. \A h : WarehouseP!Abort(h) <=> Warehouse!Abort(h)
    BY DEF Warehouse!tables, Warehouse!faults, Warehouse!Untouched, Warehouse!Nothing,
         Warehouse!Answer, Warehouse!Abort, WarehouseP!tables, WarehouseP!faults,
         WarehouseP!Untouched, WarehouseP!Nothing, WarehouseP!Answer, WarehouseP!Abort
  <2>5. \A h : WarehouseP!Done(h) <=> Warehouse!Done(h)
    BY DEF Warehouse!tables, Warehouse!faults, Warehouse!NoRequest, Warehouse!Done,
         WarehouseP!tables, WarehouseP!faults, WarehouseP!NoRequest, WarehouseP!Done
  <2>6. WarehouseP!OwnerStep <=> Warehouse!OwnerStep
    BY DEF Warehouse!tables, Warehouse!faults, Warehouse!ProductsOf, Warehouse!Open,
         Warehouse!SaleFree, Warehouse!SaveDraft, Warehouse!Edit, Warehouse!UpdateProduct,
         Warehouse!AddQuantity, Warehouse!ChangeSetting, Warehouse!OwnerStep, WarehouseP!tables,
         WarehouseP!faults, WarehouseP!ProductsOf, WarehouseP!Open, WarehouseP!SaleFree,
         WarehouseP!SaveDraft, WarehouseP!Edit, WarehouseP!UpdateProduct,
         WarehouseP!AddQuantity, WarehouseP!ChangeSetting, WarehouseP!OwnerStep
  <2> QED
    BY <2>1, <2>2, <2>3, <2>4, <2>5, <2>6 DEF Warehouse!Step, Warehouse!Next, WarehouseP!Step,
           WarehouseP!Next
<1>3. [WarehouseP!Next]_(WarehouseP!vars) <=> [Warehouse!Next]_(Warehouse!vars)
  BY <1>2 DEF Warehouse!vars, Warehouse!tables, Warehouse!faults, WarehouseP!vars,
         WarehouseP!tables,
         WarehouseP!faults
<1> QED
  BY <1>1, <1>3, PTL DEF WarehouseP!Spec, Warehouse!Spec

LEMMA WarehouseAssumed ==
  /\ "no bill" \notin {"s1", "s2"} \cup {"b1"}
  /\ "manual" \notin {"s1", "s2"} \cup {"b1"} \cup {"no bill"}
  /\ {"s1", "s2"} \cap {"b1"} = {}
  /\ {<<OnePiece>>} \subseteq Seq(WarehouseP!Lines) /\ <<OnePiece>> \in Seq(WarehouseP!Lines)
  /\ {"b1"} \subseteq {"b1"}
  /\ [p \in {"p1"} |-> 2] \in [{"p1"} -> Nat] /\ {1, -1} \subseteq Int
  /\ {"enforce"} \subseteq {"disable", "warn", "enforce"}
<1>1. OnePiece \in WarehouseP!Lines /\ TwoPieces \in WarehouseP!Lines
  BY DEF OnePiece, TwoPieces, WarehouseP!Lines
<1> QED
  BY <1>1

LEMMA WarehouseHolds == Warehouse!Spec => []Warehouse!StockExplained /\ []Warehouse!QuantityIsLedger
<1>1. WarehouseP!Spec => []WarehouseP!StockExplained
  BY WarehouseP!StockExplainedTheorem, FewBills, WarehouseAssumed, NoQuantityAssumption
     DEF WarehouseP!IsFiniteSet, IsFiniteSet
<1>2. WarehouseP!Spec => []WarehouseP!QuantityIsLedger
  BY WarehouseP!QuantityTheorem, WarehouseAssumed, NoQuantityAssumption DEF WarehouseP!ADDITIVE
<1> QED
  BY <1>1, <1>2, WarehouseSame, PTL DEF WarehouseP!Total, WarehouseP!QuantityIsLedger,
     WarehouseP!LinesOf, WarehouseP!FinalLines, WarehouseP!NothingPassedOver,
     WarehouseP!Standing, WarehouseP!StockExplained, WarehouseP!SumFunctionOnSet,
     WarehouseP!FoldFunctionOnSet, WarehouseP!MapThenFoldSet, Warehouse!Total,
     Warehouse!QuantityIsLedger, Warehouse!LinesOf, Warehouse!FinalLines,
     Warehouse!NothingPassedOver, Warehouse!Standing, Warehouse!StockExplained,
     Warehouse!SumFunctionOnSet, Warehouse!FoldFunctionOnSet, Warehouse!MapThenFoldSet

WorkshopP == INSTANCE StockProofs WITH Products <- {"p1"}, Sales <- {"s1"}, Purchases <- {"b1"},
    Received <- {}, Orders <- {<<OnePiece>>}, FirstOrder <- <<OnePiece>>,
    Opening <- [p \in {"p1"} |-> 1], Changes <- {1}, Modes <- {"enforce"},
    Ops <- {"sale", "adjust", "add_purchase", "update_purchase", "delete_purchase", "update_product", "add_quantity"},
    NoBill <- "no bill", Manual <- "manual", MaxQuantity <- 2, MaxTimeouts <- 0,
    MaxDeadlocks <- 0

LEMMA WorkshopSame == WorkshopP!Spec <=> Workshop!Spec
<1>1. WorkshopP!Init <=> Workshop!Init
  BY DEF Workshop!SumFunctionOnSet, Workshop!FoldFunctionOnSet, Workshop!MapThenFoldSet,
         Workshop!Init, Workshop!References, Workshop!NoRow, Workshop!NoRequest,
         Workshop!Untouched, Workshop!Nothing, Workshop!Total, WorkshopP!SumFunctionOnSet,
         WorkshopP!FoldFunctionOnSet, WorkshopP!MapThenFoldSet, WorkshopP!Init,
         WorkshopP!References, WorkshopP!NoRow, WorkshopP!NoRequest, WorkshopP!Untouched,
         WorkshopP!Nothing, WorkshopP!Total
<1>2. WorkshopP!Next <=> Workshop!Next
  <2>1. \A h : WorkshopP!SaleStep(h) <=> Workshop!SaleStep(h)
    BY DEF Workshop!tables, Workshop!faults, Workshop!References, Workshop!Untouched,
         Workshop!Nothing, Workshop!ProductsOf, Workshop!Unwritten, Workshop!Free,
         Workshop!Open, Workshop!SaleFree, Workshop!Current, Workshop!Move, Workshop!NextLine,
         Workshop!Begin, Workshop!Answer, Workshop!WithinBound, Workshop!Apply,
         Workshop!StartSale, Workshop!InsertLines, Workshop!Selling, Workshop!SellLine,
         Workshop!SellShort, Workshop!Waiting, Workshop!SellTimeout, Workshop!SellDeadlock,
         Workshop!DetachedSellLine, Workshop!DetachedSellFails, Workshop!CommitSale,
         Workshop!DetachedCommit, Workshop!StartDeleteDraft, Workshop!RestoreLine,
         Workshop!CommitDeleteDraft, Workshop!SaleStep, WorkshopP!tables, WorkshopP!faults,
         WorkshopP!References, WorkshopP!Untouched, WorkshopP!Nothing, WorkshopP!ProductsOf,
         WorkshopP!Unwritten, WorkshopP!Free, WorkshopP!Open, WorkshopP!SaleFree,
         WorkshopP!Current, WorkshopP!Move, WorkshopP!NextLine, WorkshopP!Begin,
         WorkshopP!Answer, WorkshopP!WithinBound, WorkshopP!Apply, WorkshopP!StartSale,
         WorkshopP!InsertLines, WorkshopP!Selling, WorkshopP!SellLine, WorkshopP!SellShort,
         WorkshopP!Waiting, WorkshopP!SellTimeout, WorkshopP!SellDeadlock,
         WorkshopP!DetachedSellLine, WorkshopP!DetachedSellFails, WorkshopP!CommitSale,
         WorkshopP!DetachedCommit, WorkshopP!StartDeleteDraft, WorkshopP!RestoreLine,
         WorkshopP!CommitDeleteDraft, WorkshopP!SaleStep
  <2>2. \A h : WorkshopP!PurchaseStep(h) <=> Workshop!PurchaseStep(h)
    BY DEF Workshop!SumFunctionOnSet, Workshop!FoldFunctionOnSet, Workshop!MapThenFoldSet,
         Workshop!tables, Workshop!faults, Workshop!References, Workshop!Untouched,
         Workshop!Nothing, Workshop!Total, Workshop!ProductsOf, Workshop!Unwritten,
         Workshop!Free, Workshop!Open, Workshop!PurchaseFree, Workshop!Current,
         Workshop!Snapshot, Workshop!Read, Workshop!Records, Workshop!Move, Workshop!NextLine,
         Workshop!Begin, Workshop!Answer, Workshop!WithinBound, Workshop!Apply,
         Workshop!PurchaseRequest, Workshop!StartAddPurchase, Workshop!StartUpdatePurchase,
         Workshop!OpenPurchase, Workshop!ReverseLine, Workshop!ReverseTimeout,
         Workshop!ReplaceLines, Workshop!ReadLine, Workshop!WriteLine, Workshop!RecordPurchase,
         Workshop!CommitPurchase, Workshop!StartDeletePurchase, Workshop!CommitDeletePurchase,
         Workshop!PurchaseStep, WorkshopP!SumFunctionOnSet, WorkshopP!FoldFunctionOnSet,
         WorkshopP!MapThenFoldSet, WorkshopP!tables, WorkshopP!faults, WorkshopP!References,
         WorkshopP!Untouched, WorkshopP!Nothing, WorkshopP!Total, WorkshopP!ProductsOf,
         WorkshopP!Unwritten, WorkshopP!Free, WorkshopP!Open, WorkshopP!PurchaseFree,
         WorkshopP!Current, WorkshopP!Snapshot, WorkshopP!Read, WorkshopP!Records,
         WorkshopP!Move, WorkshopP!NextLine, WorkshopP!Begin, WorkshopP!Answer,
         WorkshopP!WithinBound, WorkshopP!Apply, WorkshopP!PurchaseRequest,
         WorkshopP!StartAddPurchase, WorkshopP!StartUpdatePurchase, WorkshopP!OpenPurchase,
         WorkshopP!ReverseLine, WorkshopP!ReverseTimeout, WorkshopP!ReplaceLines,
         WorkshopP!ReadLine, WorkshopP!WriteLine, WorkshopP!RecordPurchase,
         WorkshopP!CommitPurchase, WorkshopP!StartDeletePurchase,
         WorkshopP!CommitDeletePurchase, WorkshopP!PurchaseStep
  <2>3. \A h : WorkshopP!AdjustStep(h) <=> Workshop!AdjustStep(h)
    BY DEF Workshop!tables, Workshop!faults, Workshop!References, Workshop!Untouched,
         Workshop!Nothing, Workshop!Unwritten, Workshop!Free, Workshop!Begin, Workshop!Answer,
         Workshop!WithinBound, Workshop!StartAdjust, Workshop!Adjustment, Workshop!AdjustRead,
         Workshop!AdjustWrite, Workshop!AdjustStep, WorkshopP!tables, WorkshopP!faults,
         WorkshopP!References, WorkshopP!Untouched, WorkshopP!Nothing, WorkshopP!Unwritten,
         WorkshopP!Free, WorkshopP!Begin, WorkshopP!Answer, WorkshopP!WithinBound,
         WorkshopP!StartAdjust, WorkshopP!Adjustment, WorkshopP!AdjustRead,
         WorkshopP!AdjustWrite, WorkshopP!AdjustStep
  <2>4. \A h : WorkshopP!Abort(h) <=> Workshop!Abort(h)
    BY DEF Workshop!tables, Workshop!faults, Workshop!Untouched, Workshop!Nothing,
         Workshop!Answer, Workshop!Abort, WorkshopP!tables, WorkshopP!faults,
         WorkshopP!Untouched, WorkshopP!Nothing, WorkshopP!Answer, WorkshopP!Abort
  <2>5. \A h : WorkshopP!Done(h) <=> Workshop!Done(h)
    BY DEF Workshop!tables, Workshop!faults, Workshop!NoRequest, Workshop!Done, WorkshopP!tables,
         WorkshopP!faults, WorkshopP!NoRequest, WorkshopP!Done
  <2>6. WorkshopP!OwnerStep <=> Workshop!OwnerStep
    BY DEF Workshop!tables, Workshop!faults, Workshop!ProductsOf, Workshop!Open,
         Workshop!SaleFree, Workshop!SaveDraft, Workshop!Edit, Workshop!UpdateProduct,
         Workshop!AddQuantity, Workshop!ChangeSetting, Workshop!OwnerStep, WorkshopP!tables,
         WorkshopP!faults, WorkshopP!ProductsOf, WorkshopP!Open, WorkshopP!SaleFree,
         WorkshopP!SaveDraft, WorkshopP!Edit, WorkshopP!UpdateProduct, WorkshopP!AddQuantity,
         WorkshopP!ChangeSetting, WorkshopP!OwnerStep
  <2> QED
    BY <2>1, <2>2, <2>3, <2>4, <2>5, <2>6 DEF Workshop!Step, Workshop!Next, WorkshopP!Step,
           WorkshopP!Next
<1>3. [WorkshopP!Next]_(WorkshopP!vars) <=> [Workshop!Next]_(Workshop!vars)
  BY <1>2 DEF Workshop!vars, Workshop!tables, Workshop!faults, WorkshopP!vars, WorkshopP!tables,
         WorkshopP!faults
<1> QED
  BY <1>1, <1>3, PTL DEF WorkshopP!Spec, Workshop!Spec

LEMMA WorkshopAssumed ==
  /\ "no bill" \notin {"s1"} \cup {"b1"}
  /\ "manual" \notin {"s1"} \cup {"b1"} \cup {"no bill"}
  /\ {"s1"} \cap {"b1"} = {}
  /\ {<<OnePiece>>} \subseteq Seq(WorkshopP!Lines) /\ <<OnePiece>> \in Seq(WorkshopP!Lines)
  /\ {} \subseteq {"b1"}
  /\ [p \in {"p1"} |-> 1] \in [{"p1"} -> Nat] /\ {1} \subseteq Int
  /\ {"enforce"} \subseteq {"disable", "warn", "enforce"}
<1>1. OnePiece \in WorkshopP!Lines /\ TwoPieces \in WorkshopP!Lines
  BY DEF OnePiece, TwoPieces, WorkshopP!Lines
<1> QED
  BY <1>1

LEMMA WorkshopHolds == Workshop!Spec => []Workshop!SalesLedger /\ []Workshop!CountedOnce
<1>1. WorkshopP!Spec => []WorkshopP!SalesLedger
  BY WorkshopP!SalesLedgerTheorem, FewBills, WorkshopAssumed, NoQuantityAssumption
     DEF WorkshopP!IsFiniteSet, IsFiniteSet
<1>2. WorkshopP!Spec => []WorkshopP!CountedOnce
  BY WorkshopP!CountedOnceTheorem, FewBills, WorkshopAssumed, NoQuantityAssumption
     DEF WorkshopP!IsFiniteSet, IsFiniteSet
<1> QED
  BY <1>1, <1>2, WorkshopSame, PTL DEF WorkshopP!Total, WorkshopP!LinesOf, WorkshopP!FinalLines,
     WorkshopP!NothingPassedOver, WorkshopP!SalesLedger, WorkshopP!CountedOnce,
     WorkshopP!SumFunctionOnSet, WorkshopP!FoldFunctionOnSet, WorkshopP!MapThenFoldSet,
     Workshop!Total, Workshop!LinesOf, Workshop!FinalLines, Workshop!NothingPassedOver,
     Workshop!SalesLedger, Workshop!CountedOnce, Workshop!SumFunctionOnSet,
     Workshop!FoldFunctionOnSet, Workshop!MapThenFoldSet

CounterP == INSTANCE StockProofs WITH Products <- {"p1"}, Sales <- {"s1"}, Purchases <- {"b1"},
    Received <- {}, Orders <- {<<OnePiece>>, <<TwoPieces>>}, FirstOrder <- <<OnePiece>>,
    Opening <- [p \in {"p1"} |-> 1], Changes <- {}, Modes <- {"enforce"},
    Ops <- {"draft", "sale", "delete_draft", "add_purchase", "update_purchase", "delete_purchase"},
    NoBill <- "no bill", Manual <- "manual", MaxQuantity <- 2, MaxTimeouts <- 0,
    MaxDeadlocks <- 0

LEMMA CounterSame == CounterP!Spec <=> Counter!Spec
<1>1. CounterP!Init <=> Counter!Init
  BY DEF Counter!SumFunctionOnSet, Counter!FoldFunctionOnSet, Counter!MapThenFoldSet,
         Counter!Init, Counter!References, Counter!NoRow, Counter!NoRequest, Counter!Untouched,
         Counter!Nothing, Counter!Total, CounterP!SumFunctionOnSet, CounterP!FoldFunctionOnSet,
         CounterP!MapThenFoldSet, CounterP!Init, CounterP!References, CounterP!NoRow,
         CounterP!NoRequest, CounterP!Untouched, CounterP!Nothing, CounterP!Total
<1>2. CounterP!Next <=> Counter!Next
  <2>1. \A h : CounterP!SaleStep(h) <=> Counter!SaleStep(h)
    BY DEF Counter!tables, Counter!faults, Counter!References, Counter!Untouched,
           Counter!Nothing, Counter!ProductsOf, Counter!Unwritten, Counter!Free, Counter!Open,
           Counter!SaleFree, Counter!Current, Counter!Move, Counter!NextLine, Counter!Begin,
           Counter!Answer, Counter!WithinBound, Counter!Apply, Counter!StartSale,
           Counter!InsertLines, Counter!Selling, Counter!SellLine, Counter!SellShort,
           Counter!Waiting, Counter!SellTimeout, Counter!SellDeadlock, Counter!DetachedSellLine,
           Counter!DetachedSellFails, Counter!CommitSale, Counter!DetachedCommit,
           Counter!StartDeleteDraft, Counter!RestoreLine, Counter!CommitDeleteDraft,
           Counter!SaleStep, CounterP!tables, CounterP!faults, CounterP!References,
           CounterP!Untouched, CounterP!Nothing, CounterP!ProductsOf, CounterP!Unwritten,
           CounterP!Free, CounterP!Open, CounterP!SaleFree, CounterP!Current, CounterP!Move,
           CounterP!NextLine, CounterP!Begin, CounterP!Answer, CounterP!WithinBound,
           CounterP!Apply, CounterP!StartSale, CounterP!InsertLines, CounterP!Selling,
           CounterP!SellLine, CounterP!SellShort, CounterP!Waiting, CounterP!SellTimeout,
           CounterP!SellDeadlock, CounterP!DetachedSellLine, CounterP!DetachedSellFails,
           CounterP!CommitSale, CounterP!DetachedCommit, CounterP!StartDeleteDraft,
           CounterP!RestoreLine, CounterP!CommitDeleteDraft, CounterP!SaleStep
  <2>2. \A h : CounterP!PurchaseStep(h) <=> Counter!PurchaseStep(h)
    BY DEF Counter!SumFunctionOnSet, Counter!FoldFunctionOnSet, Counter!MapThenFoldSet,
         Counter!tables, Counter!faults, Counter!References, Counter!Untouched, Counter!Nothing,
         Counter!Total, Counter!ProductsOf, Counter!Unwritten, Counter!Free, Counter!Open,
         Counter!PurchaseFree, Counter!Current, Counter!Snapshot, Counter!Read, Counter!Records,
         Counter!Move, Counter!NextLine, Counter!Begin, Counter!Answer, Counter!WithinBound,
         Counter!Apply, Counter!PurchaseRequest, Counter!StartAddPurchase,
         Counter!StartUpdatePurchase, Counter!OpenPurchase, Counter!ReverseLine,
         Counter!ReverseTimeout, Counter!ReplaceLines, Counter!ReadLine, Counter!WriteLine,
         Counter!RecordPurchase, Counter!CommitPurchase, Counter!StartDeletePurchase,
         Counter!CommitDeletePurchase, Counter!PurchaseStep, CounterP!SumFunctionOnSet,
         CounterP!FoldFunctionOnSet, CounterP!MapThenFoldSet, CounterP!tables, CounterP!faults,
         CounterP!References, CounterP!Untouched, CounterP!Nothing, CounterP!Total,
         CounterP!ProductsOf, CounterP!Unwritten, CounterP!Free, CounterP!Open,
         CounterP!PurchaseFree, CounterP!Current, CounterP!Snapshot, CounterP!Read,
         CounterP!Records, CounterP!Move, CounterP!NextLine, CounterP!Begin, CounterP!Answer,
         CounterP!WithinBound, CounterP!Apply, CounterP!PurchaseRequest,
         CounterP!StartAddPurchase, CounterP!StartUpdatePurchase, CounterP!OpenPurchase,
         CounterP!ReverseLine, CounterP!ReverseTimeout, CounterP!ReplaceLines,
         CounterP!ReadLine, CounterP!WriteLine, CounterP!RecordPurchase,
         CounterP!CommitPurchase, CounterP!StartDeletePurchase, CounterP!CommitDeletePurchase,
         CounterP!PurchaseStep
  <2>3. \A h : CounterP!AdjustStep(h) <=> Counter!AdjustStep(h)
    BY DEF Counter!tables, Counter!faults, Counter!References, Counter!Untouched,
           Counter!Nothing, Counter!Unwritten, Counter!Free, Counter!Begin, Counter!Answer,
           Counter!WithinBound, Counter!StartAdjust, Counter!Adjustment, Counter!AdjustRead,
           Counter!AdjustWrite, Counter!AdjustStep, CounterP!tables, CounterP!faults,
           CounterP!References, CounterP!Untouched, CounterP!Nothing, CounterP!Unwritten,
           CounterP!Free, CounterP!Begin, CounterP!Answer, CounterP!WithinBound,
           CounterP!StartAdjust, CounterP!Adjustment, CounterP!AdjustRead, CounterP!AdjustWrite,
           CounterP!AdjustStep
  <2>4. \A h : CounterP!Abort(h) <=> Counter!Abort(h)
    BY DEF Counter!tables, Counter!faults, Counter!Untouched, Counter!Nothing, Counter!Answer,
         Counter!Abort, CounterP!tables, CounterP!faults, CounterP!Untouched, CounterP!Nothing,
         CounterP!Answer, CounterP!Abort
  <2>5. \A h : CounterP!Done(h) <=> Counter!Done(h)
    BY DEF Counter!tables, Counter!faults, Counter!NoRequest, Counter!Done, CounterP!tables,
         CounterP!faults, CounterP!NoRequest, CounterP!Done
  <2>6. CounterP!OwnerStep <=> Counter!OwnerStep
    BY DEF Counter!tables, Counter!faults, Counter!ProductsOf, Counter!Open, Counter!SaleFree,
         Counter!SaveDraft, Counter!Edit, Counter!UpdateProduct, Counter!AddQuantity,
         Counter!ChangeSetting, Counter!OwnerStep, CounterP!tables, CounterP!faults,
         CounterP!ProductsOf, CounterP!Open, CounterP!SaleFree, CounterP!SaveDraft,
         CounterP!Edit, CounterP!UpdateProduct, CounterP!AddQuantity, CounterP!ChangeSetting,
         CounterP!OwnerStep
  <2> QED
    BY <2>1, <2>2, <2>3, <2>4, <2>5, <2>6 DEF Counter!Step, Counter!Next, CounterP!Step,
           CounterP!Next
<1>3. [CounterP!Next]_(CounterP!vars) <=> [Counter!Next]_(Counter!vars)
  BY <1>2 DEF Counter!vars, Counter!tables, Counter!faults, CounterP!vars, CounterP!tables,
         CounterP!faults
<1> QED
  BY <1>1, <1>3, PTL DEF CounterP!Spec, Counter!Spec

LEMMA CounterAssumed ==
  /\ "no bill" \notin {"s1"} \cup {"b1"}
  /\ "manual" \notin {"s1"} \cup {"b1"} \cup {"no bill"}
  /\ {"s1"} \cap {"b1"} = {}
  /\ {<<OnePiece>>, <<TwoPieces>>} \subseteq Seq(CounterP!Lines) /\ <<OnePiece>> \in Seq(CounterP!Lines)
  /\ {} \subseteq {"b1"}
  /\ [p \in {"p1"} |-> 1] \in [{"p1"} -> Nat] /\ {} \subseteq Int
  /\ {"enforce"} \subseteq {"disable", "warn", "enforce"}
<1>1. OnePiece \in CounterP!Lines /\ TwoPieces \in CounterP!Lines
  BY DEF OnePiece, TwoPieces, CounterP!Lines
<1> QED
  BY <1>1

LEMMA CounterHolds == Counter!Spec => []Counter!SalesLedger /\ []Counter!CountedOnce
<1>1. CounterP!Spec => []CounterP!SalesLedger
  BY CounterP!SalesLedgerTheorem, FewBills, CounterAssumed, NoQuantityAssumption
     DEF CounterP!IsFiniteSet, IsFiniteSet
<1>2. CounterP!Spec => []CounterP!CountedOnce
  BY CounterP!CountedOnceTheorem, FewBills, CounterAssumed, NoQuantityAssumption
     DEF CounterP!IsFiniteSet, IsFiniteSet
<1> QED
  BY <1>1, <1>2, CounterSame, PTL DEF CounterP!Total, CounterP!LinesOf, CounterP!FinalLines,
     CounterP!NothingPassedOver, CounterP!SalesLedger, CounterP!CountedOnce,
     CounterP!SumFunctionOnSet, CounterP!FoldFunctionOnSet, CounterP!MapThenFoldSet,
     Counter!Total, Counter!LinesOf, Counter!FinalLines, Counter!NothingPassedOver,
     Counter!SalesLedger, Counter!CountedOnce, Counter!SumFunctionOnSet,
     Counter!FoldFunctionOnSet, Counter!MapThenFoldSet

\* The quantity of a product is what its movements say and what the papers say, while bills are
\* deleted beside sales (stock.go).
THEOREM PapersHold == Spec => []PapersExplain
  BY WarehouseHolds, InitRuns, StepsRun, PTL DEF Spec, PapersExplain, Warehouse!Spec

\* The movements of sales are the lines of the final sales (stock.go).
THEOREM SalesHold == Spec => []LedgerOfSales
  BY WorkshopHolds, CounterHolds, InitRuns, StepsRun, PTL DEF Spec, LedgerOfSales,
     Workshop!Spec, Counter!Spec

\* No purchase bill is counted twice (stock.go, purchase_bill.go).
THEOREM CountsHold == Spec => []OnceCounted
  BY WorkshopHolds, CounterHolds, InitRuns, StepsRun, PTL DEF Spec, OnceCounted, Workshop!Spec,
     Counter!Spec

-----------------------------------------------------------------------------
(* Files, directory, settings, vehicles, orders, lists, reports: the constants of RecordsProofs,
   as most instances give them *)
Keys == {"k1", "k2"}
Bills == {"b1"}
PdfSettings == {"required", "optional"}
Ops == {"delete branch", "create store", "update store"}
Branches == {"b1", "b2"}
Stores == {"s1", "s2"}
Papers == {}
Parties == {}
Names == {"n1", "n2"}
MaxBreaks == 1
Saves == {"save", "send"}
FormKeys == {"whatsapp_access_token"}
Tokens == {"t1", "t2"}
Users == {"u1"}
MaxNotes == 0
MaxSent == 2
Vins == {<<1, 2>>, <<1, 3>>, <<1, 31>>}
YearAt == 2
Parts == <<"p1", "p2", "p3">>
Pages == {OnePage}
MaxMisses == 0
Ids == {1, 2}
Numbers == {"n1"}
Carts == {<<>>, <<OneFive, OneFive>>}
Views == {"dashboard", "analytics", "compare"}
MonthLengths == <<31, 28, 31>>
Dates == {31, 60}
Todays == {80, 90}
Spans == {3}
Accounts == Balances
MaxChanges == 1
MaxFaults == 1
Lists == {"users", "products", "vouchers", "bills", "clients"}
RowIds == 1..3
RowDates == {1, 2}
Sizes == {<<1, 0>>, <<0, 2>>, <<0, 0>>, <<4, 0>>, <<0, 4>>}
DefaultLimit == 2
MaxLimit == 3
MaxMoves == 1
Clerks == {"h"}
Sheets == {"ledger", "report"}
Suppliers == {1, 2}
NoSupplier == 0
Slips == {1}
Instants == {2, 5}
Now == 5
MaxSlips == 3
MaxLost == 1

R == INSTANCE RecordsProofs

LEMMA UploadsSame == R!F!Spec <=> Uploads!Spec
  BY PTL DEF Keys, Bills, PdfSettings, Ops, Branches, Stores, Papers, Parties, Names, MaxBreaks, Saves,
         FormKeys, Tokens, Users, MaxNotes, MaxSent, Vins, YearAt, Parts, Pages, MaxMisses, Ids,
         Numbers, Carts, Views, MonthLengths, Dates, Todays, Spans, Accounts, MaxChanges,
         MaxFaults, Uploads!vars, Uploads!tables, Uploads!Idle, Uploads!NoBill, Uploads!Init,
         Uploads!Learn, Uploads!Goto, Uploads!Answer, Uploads!At, Uploads!Fail,
         Uploads!Requests, Uploads!Receive, Uploads!ChangeSetting, Uploads!Crash,
         Uploads!CreateOnDisk, Uploads!Copy, Uploads!InsertFile, Uploads!DownloadRow,
         Uploads!Serve, Uploads!DropRow, Uploads!Unlink, Uploads!PdfRequired, Uploads!CheckPdf,
         Uploads!StoreBill, Uploads!VerifyPdf, Uploads!LinkPdf, Uploads!Attach, Uploads!Next,
         Uploads!Spec, R!F!vars, R!F!tables, R!F!Idle, R!F!NoBill, R!F!Init, R!F!Learn,
         R!F!Goto, R!F!Answer, R!F!At, R!F!Fail, R!F!Requests, R!F!Receive, R!F!ChangeSetting,
         R!F!Crash, R!F!CreateOnDisk, R!F!Copy, R!F!InsertFile, R!F!DownloadRow, R!F!Serve,
         R!F!DropRow, R!F!Unlink, R!F!PdfRequired, R!F!CheckPdf, R!F!StoreBill, R!F!VerifyPdf,
         R!F!LinkPdf, R!F!Attach, R!F!Next, R!F!Spec

LEMMA UploadsHolds == Uploads!Spec => []Uploads!RowsHaveWholeFiles
  BY R!WholeFiles, UploadsSame, PTL DEF R!F!At, R!F!RowsHaveWholeFiles, Uploads!At,
     Uploads!RowsHaveWholeFiles

LEMMA BranchLinksSame == R!D!Spec <=> BranchLinks!Spec
  BY PTL DEF Keys, Bills, PdfSettings, Ops, Branches, Stores, Papers, Parties, Names, MaxBreaks, Saves,
         FormKeys, Tokens, Users, MaxNotes, MaxSent, Vins, YearAt, Parts, Pages, MaxMisses, Ids,
         Numbers, Carts, Views, MonthLengths, Dates, Todays, Spans, Accounts, MaxChanges,
         MaxFaults, BranchLinks!vars, BranchLinks!places, BranchLinks!partners, BranchLinks!Idle,
         BranchLinks!NoConfig, BranchLinks!Init, BranchLinks!Goto, BranchLinks!Answer,
         BranchLinks!At, BranchLinks!Fail, BranchLinks!Put, BranchLinks!Without,
         BranchLinks!Kinds, BranchLinks!Requests, BranchLinks!Checked, BranchLinks!FirstPlace,
         BranchLinks!Receive, BranchLinks!CreateBranch, BranchLinks!UpdateBranch,
         BranchLinks!GetBranch, BranchLinks!StoresOf, BranchLinks!OfKind, BranchLinks!Counted,
         BranchLinks!CountLinks, BranchLinks!DeleteBranch, BranchLinks!DeleteStore,
         BranchLinks!CheckBranch, BranchLinks!WriteStore, BranchLinks!CheckStore,
         BranchLinks!WritePaper, BranchLinks!SaveConfig, BranchLinks!AskDaemon,
         BranchLinks!DaemonAnswers, BranchLinks!OnboardAnswer, BranchLinks!WriteClient,
         BranchLinks!WriteSupplier, BranchLinks!DeletePartner, BranchLinks!UpdateCompany,
         BranchLinks!Next, BranchLinks!Spec, R!D!vars, R!D!places, R!D!partners, R!D!Idle,
         R!D!NoConfig, R!D!Init, R!D!Goto, R!D!Answer, R!D!At, R!D!Fail, R!D!Put, R!D!Without,
         R!D!Kinds, R!D!Requests, R!D!Checked, R!D!FirstPlace, R!D!Receive, R!D!CreateBranch,
         R!D!UpdateBranch, R!D!GetBranch, R!D!StoresOf, R!D!OfKind, R!D!Counted, R!D!CountLinks,
         R!D!DeleteBranch, R!D!DeleteStore, R!D!CheckBranch, R!D!WriteStore, R!D!CheckStore,
         R!D!WritePaper, R!D!SaveConfig, R!D!AskDaemon, R!D!DaemonAnswers, R!D!OnboardAnswer,
         R!D!WriteClient, R!D!WriteSupplier, R!D!DeletePartner, R!D!UpdateCompany, R!D!Next,
         R!D!Spec

LEMMA BranchLinksHolds == BranchLinks!Spec => []BranchLinks!ReferencesHold
  BY R!ReferencesKept, BranchLinksSame, PTL DEF R!D!ReferencesHold, BranchLinks!ReferencesHold

LEMMA OrderDeskSame == R!O!Spec <=> OrderDesk!Spec
  BY PTL DEF Keys, Bills, PdfSettings, Ops, Branches, Stores, Papers, Parties, Names, MaxBreaks, Saves,
         FormKeys, Tokens, Users, MaxNotes, MaxSent, Vins, YearAt, Parts, Pages, MaxMisses, Ids,
         Numbers, Carts, Views, MonthLengths, Dates, Todays, Spans, Accounts, MaxChanges,
         MaxFaults, OrderDesk!SumFunctionOnSet, OrderDesk!FoldFunctionOnSet,
         OrderDesk!MapThenFoldSet, OrderDesk!vars, OrderDesk!tables, OrderDesk!Idle,
         OrderDesk!NoWork, OrderDesk!Init, OrderDesk!Learn, OrderDesk!Goto, OrderDesk!Answer,
         OrderDesk!Fail, OrderDesk!Put, OrderDesk!Without, OrderDesk!Round, OrderDesk!Value,
         OrderDesk!Sum, OrderDesk!OrderTotal, OrderDesk!LineTotals, OrderDesk!Receive,
         OrderDesk!CheckKnown, OrderDesk!CheckNumber, OrderDesk!Open, OrderDesk!LockedIds,
         OrderDesk!LockedNumbers, OrderDesk!UpdateRow, OrderDesk!WriteRow,
         OrderDesk!LinesCleared, OrderDesk!ClearLines, OrderDesk!InsertLines, OrderDesk!Commit,
         OrderDesk!Delete, OrderDesk!Get, OrderDesk!StoreGone, OrderDesk!Next, OrderDesk!Spec,
         R!O!SumFunctionOnSet, R!O!FoldFunctionOnSet, R!O!MapThenFoldSet, R!O!vars, R!O!tables,
         R!O!Idle, R!O!NoWork, R!O!Init, R!O!Learn, R!O!Goto, R!O!Answer, R!O!Fail, R!O!Put,
         R!O!Without, R!O!Round, R!O!Value, R!O!Sum, R!O!OrderTotal, R!O!LineTotals, R!O!Receive,
         R!O!CheckKnown, R!O!CheckNumber, R!O!Open, R!O!LockedIds, R!O!LockedNumbers,
         R!O!UpdateRow, R!O!WriteRow, R!O!LinesCleared, R!O!ClearLines, R!O!InsertLines,
         R!O!Commit, R!O!Delete, R!O!Get, R!O!StoreGone, R!O!Next, R!O!Spec

LEMMA OrderDeskHolds == OrderDesk!Spec => []OrderDesk!OrdersWhole
<1>1. R!O!Spec => []R!O!OrdersWhole
  <2>1. OneFive \in [quantity : Int, price : Int]
    BY DEF OneFive
  <2> QED
    BY <2>1, R!WholeOrders, R!SmallCarts DEF Carts
<1> QED
  BY <1>1, OrderDeskSame, PTL DEF Carts, R!O!Round, R!O!Value, R!O!Sum, R!O!OrderTotal,
     R!O!LineTotals, R!O!OrdersWhole, R!O!SumFunctionOnSet, R!O!FoldFunctionOnSet,
     R!O!MapThenFoldSet, OrderDesk!Round, OrderDesk!Value, OrderDesk!Sum, OrderDesk!OrderTotal,
     OrderDesk!LineTotals, OrderDesk!OrdersWhole, OrderDesk!SumFunctionOnSet,
     OrderDesk!FoldFunctionOnSet, OrderDesk!MapThenFoldSet

LEMMA TokenFormsSame == R!W!Spec <=> TokenForms!Spec
  BY PTL DEF Keys, Bills, PdfSettings, Ops, Branches, Stores, Papers, Parties, Names, MaxBreaks, Saves,
         FormKeys, Tokens, Users, MaxNotes, MaxSent, Vins, YearAt, Parts, Pages, MaxMisses, Ids,
         Numbers, Carts, Views, MonthLengths, Dates, Todays, Spans, Accounts, MaxChanges,
         MaxFaults, TokenForms!Cardinality, TokenForms!vars, TokenForms!tables,
         TokenForms!whatsapp, TokenForms!history, TokenForms!Mask, TokenForms!Token,
         TokenForms!Enabled, TokenForms!Other, TokenForms!Keys, TokenForms!settingCategories,
         TokenForms!Values, TokenForms!Idle, TokenForms!Defaults, TokenForms!Init,
         TokenForms!Learn, TokenForms!Answer, TokenForms!At, TokenForms!Fail, TokenForms!Forms,
         TokenForms!Requests, TokenForms!Receive, TokenForms!Allowed, TokenForms!Rest,
         TokenForms!Continue, TokenForms!Preserves, TokenForms!SaveDone, TokenForms!SaveKey,
         TokenForms!ReadToken, TokenForms!WriteTokenBack, TokenForms!SavePreferences,
         TokenForms!MarkRead, TokenForms!SendCheck, TokenForms!Upload, TokenForms!SendMessage,
         TokenForms!MessageRefused, TokenForms!Next, TokenForms!Spec, R!W!Cardinality, R!W!vars,
         R!W!tables, R!W!whatsapp, R!W!history, R!W!Mask, R!W!Token, R!W!Enabled, R!W!Other,
         R!W!Keys, R!W!settingCategories, R!W!Values, R!W!Idle, R!W!Defaults, R!W!Init,
         R!W!Learn, R!W!Answer, R!W!At, R!W!Fail, R!W!Forms, R!W!Requests, R!W!Receive,
         R!W!Allowed, R!W!Rest, R!W!Continue, R!W!Preserves, R!W!SaveDone, R!W!SaveKey,
         R!W!ReadToken, R!W!WriteTokenBack, R!W!SavePreferences, R!W!MarkRead, R!W!SendCheck,
         R!W!Upload, R!W!SendMessage, R!W!MessageRefused, R!W!Next, R!W!Spec

LEMMA TokenFormsHolds == TokenForms!Spec => []TokenForms!TokenKept /\ []TokenForms!SentWithTypedToken
  BY R!TokenStays, R!SentTyped, TokenFormsSame, PTL DEF Tokens, R!W!Token, R!W!TokenKept,
     R!W!SentWithTypedToken, TokenForms!Token, TokenForms!TokenKept,
     TokenForms!SentWithTypedToken

LEMMA GarageSame == R!V!Spec <=> Garage!Spec
  BY PTL DEF Keys, Bills, PdfSettings, Ops, Branches, Stores, Papers, Parties, Names, MaxBreaks, Saves,
         FormKeys, Tokens, Users, MaxNotes, MaxSent, Vins, YearAt, Parts, Pages, MaxMisses, Ids,
         Numbers, Carts, Views, MonthLengths, Dates, Todays, Spans, Accounts, MaxChanges,
         MaxFaults, Garage!vars, Garage!Idle, Garage!NoAnswer, Garage!Init, Garage!Learn,
         Garage!Reply, Garage!Fail, Garage!Works, Garage!Receive, Garage!AnyOne, Garage!AnyMany,
         Garage!Wild, Garage!Like, Garage!Matches, Garage!ReadCache, Garage!AskService,
         Garage!SaveRequest, Garage!getYear, Garage!Decode, Garage!Limit, Garage!Offset,
         Garage!ReadParts, Garage!Next, Garage!Spec,          R!V!vars, R!V!Idle, R!V!NoAnswer,
         R!V!Init, R!V!Learn, R!V!Reply, R!V!Fail, R!V!Works, R!V!Receive, R!V!AnyOne,
         R!V!AnyMany, R!V!Wild, R!V!Like, R!V!Matches, R!V!ReadCache, R!V!AskService,
         R!V!SaveRequest, R!V!getYear, R!V!Decode, R!V!Limit, R!V!Offset, R!V!ReadParts,
         R!V!Next, R!V!Spec

LEMMA GarageHolds == Garage!Spec => []Garage!VehicleIsAsked
<1>1. R!NumbersHaveYears
  BY DEF R!NumbersHaveYears, Vins, YearAt
<1>2. R!V!Spec => []R!V!VehicleIsAsked
  BY <1>1, R!AskedVehicle
<1> QED
  BY <1>2, GarageSame, PTL DEF Vins, YearAt, R!V!AnyOne, R!V!AnyMany, R!V!Wild, R!V!BeginsAs,
         R!V!Whole, R!V!getYear, R!V!VehicleIsAsked, Garage!AnyOne, Garage!AnyMany, Garage!Wild,
         Garage!BeginsAs, Garage!Whole, Garage!getYear, Garage!VehicleIsAsked

\* What a page is put together from.
LEMMA PagePartsSame ==
  /\ \A l, rs, after, n : R!P!Query(l, rs, after, n) = Walk!Query(l, rs, after, n)
  /\ \A found : R!P!InStock(found) = Walk!InStock(found)
  /\ \A found, limit : R!P!Envelope(found, limit) = Walk!Envelope(found, limit)
  /\ \A r : R!P!EffectiveLimit(r) = Walk!EffectiveLimit(r)
  /\ \A l, c : R!P!Position(l, c) = Walk!Position(l, c)
  /\ \A l, r : R!P!Validate(l, r) <=> Walk!Validate(l, r)
  /\ \A l : R!P!Sort(l) = Walk!Sort(l)
<1>1. /\ \A l, e : R!P!Key(l, e) = Walk!Key(l, e)
      /\ \A l, rs : R!P!Entries(l, rs) = Walk!Entries(l, rs)
      /\ \A l, a, b : R!P!Seek(l, a, b) <=> Walk!Seek(l, a, b)
  BY Zenon DEF R!P!Sort, R!P!Dated, R!P!Key, R!P!Entries, R!P!Before, R!P!Comes, R!P!Seek,
         Walk!Sort, Walk!Dated, Walk!Key, Walk!Entries, Walk!Before, Walk!Comes, Walk!Seek
<1>2. \A l, rs, after, n : R!P!Query(l, rs, after, n) = Walk!Query(l, rs, after, n)
  <2> TAKE l, rs, after, n
  <2> DEFINE behind == {e \in R!P!Entries(l, rs) : R!P!Seek(l, after, R!P!Key(l, e))}
             ahead == {e \in Walk!Entries(l, rs) : Walk!Seek(l, after, Walk!Key(l, e))}
             first(B) == [p \in 1..(IF n < R!P!Cardinality(B) THEN n ELSE R!P!Cardinality(B)) |->
                            CHOOSE e \in B : 1 + R!P!Cardinality(
                              {d \in B : R!P!Comes(l, R!P!Key(l, d), R!P!Key(l, e))}) = p]
             same(B) == [p \in 1..(IF n < Walk!Cardinality(B) THEN n ELSE Walk!Cardinality(B)) |->
                           CHOOSE e \in B : 1 + Walk!Cardinality(
                             {d \in B : Walk!Comes(l, Walk!Key(l, d), Walk!Key(l, e))}) = p]
  <2>1. behind = ahead
    BY <1>1
  <2>2. \A B : first(B) = same(B)
    BY Zenon DEF R!P!Cardinality, R!P!Sort, R!P!Dated, R!P!Key, R!P!Before, R!P!Comes,
           Walk!Cardinality, Walk!Sort, Walk!Dated, Walk!Key, Walk!Before, Walk!Comes
  <2>3. R!P!Query(l, rs, after, n) = first(behind)
    BY Zenon DEF R!P!Query
  <2>4. Walk!Query(l, rs, after, n) = same(ahead)
    BY Zenon DEF Walk!Query
  <2> HIDE DEF behind, ahead, first, same
  <2> QED
    BY <2>1, <2>2, <2>3, <2>4, Zenon
<1>3. /\ \A found : R!P!InStock(found) = Walk!InStock(found)
      /\ \A found, limit : R!P!Envelope(found, limit) = Walk!Envelope(found, limit)
      /\ \A r : R!P!EffectiveLimit(r) = Walk!EffectiveLimit(r)
      /\ \A l, c : R!P!Position(l, c) = Walk!Position(l, c)
      /\ \A l, r : R!P!Validate(l, r) <=> Walk!Validate(l, r)
      /\ \A l : R!P!Sort(l) = Walk!Sort(l)
  BY Zenon DEF DefaultLimit, MaxLimit, R!P!FoldLeft, R!P!MapThenFoldSet, R!P!Max, R!P!Sort,
         R!P!Dated, R!P!Key, R!P!EffectiveLimit, R!P!Validate, R!P!After, R!P!Refused,
         R!P!LastID, R!P!cursorIDOnly, R!P!cursorDateAndID, R!P!decodeBillCursor, R!P!Position,
         R!P!InStock, R!P!Envelope, Walk!FoldLeft, Walk!MapThenFoldSet, Walk!Max, Walk!Sort,
         Walk!Dated, Walk!Key, Walk!EffectiveLimit, Walk!Validate, Walk!After, Walk!Refused,
         Walk!LastID, Walk!cursorIDOnly, Walk!cursorDateAndID, Walk!decodeBillCursor,
         Walk!Position, Walk!InStock, Walk!Envelope
<1> QED
  BY <1>2, <1>3

LEMMA WalkSame == R!P!Spec <=> Walk!Spec
<1>1. \A r : R!P!Page(r) = Walk!Page(r)
  BY PagePartsSame, Zenon DEF R!P!Page, Walk!Page
<1>2. R!P!NextPage <=> Walk!NextPage
  BY <1>1, PagePartsSame, ZenonT(60) DEF Sizes, R!P!NextPage, Walk!NextPage
<1>3. [R!P!Next]_(R!P!vars) <=> [Walk!Next]_(Walk!vars)
  BY <1>2, Zenon DEF Lists, RowIds, RowDates, Sizes, DefaultLimit, MaxLimit, MaxMoves, R!P!vars,
         R!P!Sort, R!P!Dated, R!P!Entries, R!P!Change, R!P!NewDates, R!P!Insert, R!P!Delete,
         R!P!Redate, R!P!CreditNote, R!P!Next, Walk!vars, Walk!Sort, Walk!Dated, Walk!Entries,
         Walk!Change, Walk!NewDates, Walk!Insert, Walk!Delete, Walk!Redate, Walk!CreditNote,
         Walk!Next
<1>4. R!P!Init <=> Walk!Init
  BY Zenon DEF Lists, RowIds, RowDates, R!P!Sort, R!P!Dated, R!P!Entries, R!P!Init, Walk!Sort,
         Walk!Dated, Walk!Entries, Walk!Init
<1> QED
  BY <1>3, <1>4, PTL DEF R!P!Spec, Walk!Spec

LEMMA WalkHolds == Walk!Spec => []Walk!EachRowOnce
<1>1. R!PagesAreBounded
  <2>1. IsFiniteSet(1..3)
    BY FS_Interval, 1 \in Int, 3 \in Int
  <2>2. /\ RowIds \subseteq Nat \ {0} /\ RowDates \subseteq Int /\ Sizes \subseteq Int \X Int
        /\ \E d \in RowDates : \A x \in RowDates : x <= d
    BY DEF RowIds, RowDates, Sizes
  <2> QED
    BY <2>1, <2>2 DEF R!PagesAreBounded, R!IsFiniteSet, IsFiniteSet, RowIds, DefaultLimit,
                      MaxLimit
<1>2. R!P!Spec => []R!P!EachRowOnce
  BY <1>1, R!WalkOnce
<1> QED
  BY <1>2, WalkSame, PTL DEF R!P!Cardinality, R!P!Times, R!P!EachRowOnce, Walk!Cardinality,
     Walk!Times, Walk!EachRowOnce

LEMMA SupplierReportsSame == R!G!Spec <=> SupplierReports!Spec
  BY PTL DEF Clerks, Sheets, Suppliers, NoSupplier, Slips, Instants, Now, MaxSlips, MaxLost,
         SupplierReports!Cardinality, SupplierReports!SumFunctionOnSet, SupplierReports!ToSet,
         SupplierReports!FoldLeft, SupplierReports!FoldFunctionOnSet,
         SupplierReports!MapThenFoldSet, SupplierReports!Max, SupplierReports!SumSet,
         SupplierReports!FoldSet, SupplierReports!vars, SupplierReports!tables,
         SupplierReports!NoReading, SupplierReports!NoAnswer, SupplierReports!Idle,
         SupplierReports!Init, SupplierReports!To, SupplierReports!Reply,
         SupplierReports!Refused, SupplierReports!Works, SupplierReports!Fails,
         SupplierReports!At, SupplierReports!NoDate, SupplierReports!BadDate,
         SupplierReports!DateParams, SupplierReports!parseDateRange,
         SupplierReports!SupplierLists, SupplierReports!parseSupplierIDList,
         SupplierReports!Everyone, SupplierReports!Receive, SupplierReports!InRange,
         SupplierReports!Bills, SupplierReports!Payments, SupplierReports!With,
         SupplierReports!LedgerBills, SupplierReports!LedgerPayments, SupplierReports!Entry,
         SupplierReports!EntriesOf, SupplierReports!Feeds, SupplierReports!Net,
         SupplierReports!withRunningBalance, SupplierReports!Debit, SupplierReports!Credit,
         SupplierReports!Breakdowns, SupplierReports!LedgerBuild, SupplierReports!Total,
         SupplierReports!Next1, SupplierReports!Skip, SupplierReports!Current,
         SupplierReports!ReportSupplier, SupplierReports!ReportSummary,
         SupplierReports!ReportPaid, SupplierReports!ReportBills,
         SupplierReports!ReportPayments, SupplierReports!Change,
         SupplierReports!MarkBillReceived, SupplierReports!UnmarkBillReceived,
         SupplierReports!Bought, SupplierReports!Paid, SupplierReports!Removed,
         SupplierReports!Next, SupplierReports!Spec, R!G!Cardinality, R!G!SumFunctionOnSet,
         R!G!ToSet, R!G!FoldLeft, R!G!FoldFunctionOnSet, R!G!MapThenFoldSet, R!G!Max,
         R!G!SumSet, R!G!FoldSet, R!G!vars, R!G!tables, R!G!NoReading, R!G!NoAnswer, R!G!Idle,
         R!G!Init, R!G!To, R!G!Reply, R!G!Refused, R!G!Works, R!G!Fails, R!G!At, R!G!NoDate,
         R!G!BadDate, R!G!DateParams, R!G!parseDateRange, R!G!SupplierLists,
         R!G!parseSupplierIDList, R!G!Everyone, R!G!Receive, R!G!InRange, R!G!Bills,
         R!G!Payments, R!G!With, R!G!LedgerBills, R!G!LedgerPayments, R!G!Entry, R!G!EntriesOf,
         R!G!Feeds, R!G!Net, R!G!withRunningBalance, R!G!Debit, R!G!Credit, R!G!Breakdowns,
         R!G!LedgerBuild, R!G!Total, R!G!Next1, R!G!Skip, R!G!Current, R!G!ReportSupplier,
         R!G!ReportSummary, R!G!ReportPaid, R!G!ReportBills, R!G!ReportPayments, R!G!Change,
         R!G!MarkBillReceived, R!G!UnmarkBillReceived, R!G!Bought, R!G!Paid, R!G!Removed,
         R!G!Next, R!G!Spec

LEMMA SupplierReportsHolds ==
  SupplierReports!Spec => [](SupplierReports!LedgerAddsUp /\ SupplierReports!ReportsOfThoseAsked)
<1>1. R!G!Spec => [](R!G!LedgerAddsUp /\ R!G!ReportsOfThoseAsked)
  BY R!StatementsHold DEF R!SlipsAreNumbers, Slips
<1> QED
  BY <1>1, SupplierReportsSame, PTL DEF Clerks, R!G!Cardinality, R!G!SumFunctionOnSet,
     R!G!FoldFunctionOnSet, R!G!MapThenFoldSet, R!G!SumSet, R!G!FoldSet, R!G!LedgerAddsUp,
     R!G!ReportsOfThoseAsked, SupplierReports!Cardinality, SupplierReports!SumFunctionOnSet,
     SupplierReports!FoldFunctionOnSet, SupplierReports!MapThenFoldSet, SupplierReports!SumSet,
     SupplierReports!FoldSet, SupplierReports!LedgerAddsUp, SupplierReports!ReportsOfThoseAsked

\* A row of uploaded_files stands for a file that is whole (file.go).
THEOREM FilesHold == Spec => []WholeFiles
  BY UploadsHolds, InitRuns, StepsRun, PTL DEF Spec, WholeFiles, Uploads!Spec

\* The lines of an order are those of one request, and its total is theirs (order.go).
THEOREM OrdersHold == Spec => []WholeOrders
  BY OrderDeskHolds, InitRuns, StepsRun, PTL DEF Spec, WholeOrders, OrderDesk!Spec

\* A walk shows a row that does not change once and never twice, whatever other rows come, go
\* and move between its pages (pkg/pagination).
THEOREM RowsHold == Spec => []RowsOnce
  BY WalkHolds, InitRuns, StepsRun, PTL DEF Spec, RowsOnce, Walk!Spec

-----------------------------------------------------------------------------
(* Accounts *)

SignInP == INSTANCE AccountsProofs WITH Ops <- {"login", "refresh", "logout", "password"},
    Users <- {"u1"}, Admins <- {"u1"}, Staff <- {}, Names <- {"n1"}, Emails <- {"e1"},
    Passwords <- {"p1"}, Sessions <- {"s1", "s2"}, Resets <- {"r1"}, MaxSecond <- 1,
    MaxFaults <- 0

LEMMA SignInsSame == SignInP!Spec <=> SignIns!Spec
  BY PTL DEF SignIns!Cardinality, SignIns!vars, SignIns!tables, SignIns!history, SignIns!Roles,
         SignIns!Row, SignIns!Nothing, SignIns!Idle, SignIns!ActiveAdmins, SignIns!Init,
         SignIns!Learn, SignIns!Goto, SignIns!Answer, SignIns!At, SignIns!Fail, SignIns!Tick,
         SignIns!Requests, SignIns!FirstPlace, SignIns!Legal, SignIns!Receive, SignIns!Rows,
         SignIns!Stored, SignIns!LoginCheck, SignIns!LoginStore, SignIns!RefreshLookup,
         SignIns!RefreshUser, SignIns!Rotated, SignIns!RefreshRotate, SignIns!Revoke,
         SignIns!Forgot, SignIns!ResetLookup, SignIns!SetPassword, SignIns!MarkUsed,
         SignIns!DeleteSessions, SignIns!CheckTaken, SignIns!Insert, SignIns!SeedPermissions,
         SignIns!Demotes, SignIns!ReadRole, SignIns!LastAdmin, SignIns!CountAdmins,
         SignIns!WriteUser, SignIns!Next, SignIns!Spec, SignInP!Cardinality, SignInP!vars,
         SignInP!tables, SignInP!history, SignInP!Roles, SignInP!Row, SignInP!Nothing,
         SignInP!Idle, SignInP!ActiveAdmins, SignInP!Init, SignInP!Learn, SignInP!Goto,
         SignInP!Answer, SignInP!At, SignInP!Fail, SignInP!Tick, SignInP!Requests,
         SignInP!FirstPlace, SignInP!Legal, SignInP!Receive, SignInP!Rows, SignInP!Stored,
         SignInP!LoginCheck, SignInP!LoginStore, SignInP!RefreshLookup, SignInP!RefreshUser,
         SignInP!Rotated, SignInP!RefreshRotate, SignInP!Revoke, SignInP!Forgot,
         SignInP!ResetLookup, SignInP!SetPassword, SignInP!MarkUsed, SignInP!DeleteSessions,
         SignInP!CheckTaken, SignInP!Insert, SignInP!SeedPermissions, SignInP!Demotes,
         SignInP!ReadRole, SignInP!LastAdmin, SignInP!CountAdmins, SignInP!WriteUser,
         SignInP!Next, SignInP!Spec

LEMMA SignInsHolds == SignIns!Spec => []SignIns!SessionsStayEnded /\ []SignIns!OneSessionPerToken
  BY SignInP!SessionsEnd, SignInP!TokensUnique, SignInsSame, PTL DEF SignInP!SessionsStayEnded,
     SignInP!OneSessionPerToken, SignIns!SessionsStayEnded, SignIns!OneSessionPerToken

RecoveryP == INSTANCE AccountsProofs WITH Ops <- {"forgot", "reset", "refresh", "login", "logout"},
    Users <- {"u1"}, Admins <- {"u1"}, Staff <- {}, Names <- {"n1"}, Emails <- {"e1"},
    Passwords <- {"p1", "p2"}, Sessions <- {"s1", "s2"}, Resets <- {"r1"}, MaxSecond <- 0,
    MaxFaults <- 1

LEMMA RecoverySame == RecoveryP!Spec <=> Recovery!Spec
  BY PTL DEF Recovery!Cardinality, Recovery!vars, Recovery!tables, Recovery!history,
         Recovery!Roles, Recovery!Row, Recovery!Nothing, Recovery!Idle, Recovery!ActiveAdmins,
         Recovery!Init, Recovery!Learn, Recovery!Goto, Recovery!Answer, Recovery!At,
         Recovery!Fail, Recovery!Tick, Recovery!Requests, Recovery!FirstPlace, Recovery!Legal,
         Recovery!Receive, Recovery!Rows, Recovery!Stored, Recovery!LoginCheck,
         Recovery!LoginStore, Recovery!RefreshLookup, Recovery!RefreshUser, Recovery!Rotated,
         Recovery!RefreshRotate, Recovery!Revoke, Recovery!Forgot, Recovery!ResetLookup,
         Recovery!SetPassword, Recovery!MarkUsed, Recovery!DeleteSessions, Recovery!CheckTaken,
         Recovery!Insert, Recovery!SeedPermissions, Recovery!Demotes, Recovery!ReadRole,
         Recovery!LastAdmin, Recovery!CountAdmins, Recovery!WriteUser, Recovery!Next,
         Recovery!Spec, RecoveryP!Cardinality, RecoveryP!vars, RecoveryP!tables,
         RecoveryP!history, RecoveryP!Roles, RecoveryP!Row, RecoveryP!Nothing, RecoveryP!Idle,
         RecoveryP!ActiveAdmins, RecoveryP!Init, RecoveryP!Learn, RecoveryP!Goto,
         RecoveryP!Answer, RecoveryP!At, RecoveryP!Fail, RecoveryP!Tick, RecoveryP!Requests,
         RecoveryP!FirstPlace, RecoveryP!Legal, RecoveryP!Receive, RecoveryP!Rows,
         RecoveryP!Stored, RecoveryP!LoginCheck, RecoveryP!LoginStore, RecoveryP!RefreshLookup,
         RecoveryP!RefreshUser, RecoveryP!Rotated, RecoveryP!RefreshRotate, RecoveryP!Revoke,
         RecoveryP!Forgot, RecoveryP!ResetLookup, RecoveryP!SetPassword, RecoveryP!MarkUsed,
         RecoveryP!DeleteSessions, RecoveryP!CheckTaken, RecoveryP!Insert,
         RecoveryP!SeedPermissions, RecoveryP!Demotes, RecoveryP!ReadRole, RecoveryP!LastAdmin,
         RecoveryP!CountAdmins, RecoveryP!WriteUser, RecoveryP!Next, RecoveryP!Spec

LEMMA RecoveryHolds == Recovery!Spec => []Recovery!SessionsStayEnded /\ []Recovery!OneSessionPerToken
  BY RecoveryP!SessionsEnd, RecoveryP!TokensUnique, RecoverySame, PTL DEF
     RecoveryP!SessionsStayEnded, RecoveryP!OneSessionPerToken, Recovery!SessionsStayEnded,
     Recovery!OneSessionPerToken

AdminP == INSTANCE AccountsProofs WITH Ops <- {"update", "delete"},
    Users <- {"u1", "u2"}, Admins <- {"u1", "u2"}, Staff <- {}, Names <- {"n1", "n2"},
    Emails <- {"e1"}, Passwords <- {"p1"}, Sessions <- {}, Resets <- {}, MaxSecond <- 0,
    MaxFaults <- 0

LEMMA AdministrationSame == AdminP!Spec <=> Administration!Spec
  BY PTL DEF Administration!Cardinality, Administration!vars, Administration!tables,
         Administration!history, Administration!Roles, Administration!Row,
         Administration!Nothing, Administration!Idle, Administration!ActiveAdmins,
         Administration!Init, Administration!Learn, Administration!Goto, Administration!Answer,
         Administration!At, Administration!Fail, Administration!Tick, Administration!Requests,
         Administration!FirstPlace, Administration!Legal, Administration!Receive,
         Administration!Rows, Administration!Stored, Administration!LoginCheck,
         Administration!LoginStore, Administration!RefreshLookup, Administration!RefreshUser,
         Administration!Rotated, Administration!RefreshRotate, Administration!Revoke,
         Administration!Forgot, Administration!ResetLookup, Administration!SetPassword,
         Administration!MarkUsed, Administration!DeleteSessions, Administration!CheckTaken,
         Administration!Insert, Administration!SeedPermissions, Administration!Demotes,
         Administration!ReadRole, Administration!LastAdmin, Administration!CountAdmins,
         Administration!WriteUser, Administration!Next, Administration!Spec, AdminP!Cardinality,
         AdminP!vars, AdminP!tables, AdminP!history, AdminP!Roles, AdminP!Row, AdminP!Nothing,
         AdminP!Idle, AdminP!ActiveAdmins, AdminP!Init, AdminP!Learn, AdminP!Goto, AdminP!Answer,
         AdminP!At, AdminP!Fail, AdminP!Tick, AdminP!Requests, AdminP!FirstPlace, AdminP!Legal,
         AdminP!Receive, AdminP!Rows, AdminP!Stored, AdminP!LoginCheck, AdminP!LoginStore,
         AdminP!RefreshLookup, AdminP!RefreshUser, AdminP!Rotated, AdminP!RefreshRotate,
         AdminP!Revoke, AdminP!Forgot, AdminP!ResetLookup, AdminP!SetPassword, AdminP!MarkUsed,
         AdminP!DeleteSessions, AdminP!CheckTaken, AdminP!Insert, AdminP!SeedPermissions,
         AdminP!Demotes, AdminP!ReadRole, AdminP!LastAdmin, AdminP!CountAdmins, AdminP!WriteUser,
         AdminP!Next, AdminP!Spec

LEMMA AdministrationHolds == Administration!Spec => []Administration!LastAdminGuarded
<1>1. AdminP!Spec => []AdminP!LastAdminGuarded
  BY AdminP!GuardHolds, AdminP!TwoUsers
<1> QED
  BY <1>1, AdministrationSame, PTL DEF AdminP!ActiveAdmins, AdminP!LastAdminGuarded,
     Administration!ActiveAdmins, Administration!LastAdminGuarded

UnreadP == INSTANCE AccountsProofs WITH Handlers <- {"h"}, Ops <- {"update", "delete"},
    Users <- {"u1", "u2"}, Admins <- {"u1", "u2"}, Staff <- {}, Names <- {"n1", "n2"},
    Emails <- {"e1"}, Passwords <- {"p1"}, Sessions <- {}, Resets <- {}, MaxSecond <- 0,
    MaxFaults <- 1

LEMMA UnreadSame == UnreadP!Spec <=> Unread!Spec
  BY PTL DEF Unread!Cardinality, Unread!vars, Unread!tables, Unread!history, Unread!Roles,
         Unread!Row, Unread!Nothing, Unread!Idle, Unread!ActiveAdmins, Unread!Init, Unread!Learn,
         Unread!Goto, Unread!Answer, Unread!At, Unread!Fail, Unread!Tick, Unread!Requests,
         Unread!FirstPlace, Unread!Legal, Unread!Receive, Unread!Rows, Unread!Stored,
         Unread!LoginCheck, Unread!LoginStore, Unread!RefreshLookup, Unread!RefreshUser,
         Unread!Rotated, Unread!RefreshRotate, Unread!Revoke, Unread!Forgot, Unread!ResetLookup,
         Unread!SetPassword, Unread!MarkUsed, Unread!DeleteSessions, Unread!CheckTaken,
         Unread!Insert, Unread!SeedPermissions, Unread!Demotes, Unread!ReadRole,
         Unread!LastAdmin, Unread!CountAdmins, Unread!WriteUser, Unread!Next, Unread!Spec,
         UnreadP!Cardinality, UnreadP!vars, UnreadP!tables, UnreadP!history, UnreadP!Roles,
         UnreadP!Row, UnreadP!Nothing, UnreadP!Idle, UnreadP!ActiveAdmins, UnreadP!Init,
         UnreadP!Learn, UnreadP!Goto, UnreadP!Answer, UnreadP!At, UnreadP!Fail, UnreadP!Tick,
         UnreadP!Requests, UnreadP!FirstPlace, UnreadP!Legal, UnreadP!Receive, UnreadP!Rows,
         UnreadP!Stored, UnreadP!LoginCheck, UnreadP!LoginStore, UnreadP!RefreshLookup,
         UnreadP!RefreshUser, UnreadP!Rotated, UnreadP!RefreshRotate, UnreadP!Revoke,
         UnreadP!Forgot, UnreadP!ResetLookup, UnreadP!SetPassword, UnreadP!MarkUsed,
         UnreadP!DeleteSessions, UnreadP!CheckTaken, UnreadP!Insert, UnreadP!SeedPermissions,
         UnreadP!Demotes, UnreadP!ReadRole, UnreadP!LastAdmin, UnreadP!CountAdmins,
         UnreadP!WriteUser, UnreadP!Next, UnreadP!Spec

LEMMA UnreadHolds == Unread!Spec => []Unread!LastAdminGuarded
<1>1. UnreadP!Spec => []UnreadP!LastAdminGuarded
  BY UnreadP!GuardHolds, UnreadP!TwoUsers, Zenon
<1> QED
  BY <1>1, UnreadSame, PTL DEF UnreadP!ActiveAdmins, UnreadP!LastAdminGuarded,
     Unread!ActiveAdmins, Unread!LastAdminGuarded

\* In both runs of the sign-ins, what a logout or a reset ended stays ended, and no two
\* sessions share a token (auth.go).
THEOREM SessionsHold == Spec => []SessionsEnded
  BY SignInsHolds, RecoveryHolds, InitRuns, StepsRun, PTL DEF Spec, SessionsEnded, SignIns!Spec,
     Recovery!Spec

\* The guard of the last admin holds among two admins, and when reads fail (user_admin.go).
THEOREM AdminGuardHolds == Spec => []LastAdminGuard
  BY AdministrationHolds, UnreadHolds, InitRuns, StepsRun, PTL DEF Spec, LastAdminGuard,
     Administration!Spec, Unread!Spec

-----------------------------------------------------------------------------
(* One request at a time: stores, settings, vehicles, the dashboard and the ledger *)

LoneR == INSTANCE RecordsProofs WITH Handlers <- {"h"}, Saves <- {"save", "preferences", "read"},
    Ops <- {"delete branch", "delete store", "create store", "update store", "paper", "drop product"},
    Papers <- {"p1", "p2"}, MaxBreaks <- 0,
    FormKeys <- {"whatsapp_access_token", "whatsapp_enabled", "theme"}, MaxNotes <- 1,
    MaxMisses <- 1, Vins <- {<<1>>, <<1, 2>>, <<1, 3>>, <<32, 2>>}, Sheets <- {"ledger"},
    Slips <- {1, 2}, MaxLost <- 0

LEMMA ClearanceSame == LoneR!D!Spec <=> Clearance!Spec
  BY PTL DEF Keys, Bills, PdfSettings, Ops, Branches, Stores, Papers, Parties, Names, MaxBreaks, Saves,
         FormKeys, Tokens, Users, MaxNotes, MaxSent, Vins, YearAt, Parts, Pages, MaxMisses, Ids,
         Numbers, Carts, Views, MonthLengths, Dates, Todays, Spans, Accounts, MaxChanges,
         MaxFaults, Clearance!vars, Clearance!places, Clearance!partners, Clearance!Idle,
         Clearance!NoConfig, Clearance!Init, Clearance!Goto, Clearance!Answer, Clearance!At,
         Clearance!Fail, Clearance!Put, Clearance!Without, Clearance!Kinds, Clearance!Requests,
         Clearance!Checked, Clearance!FirstPlace, Clearance!Receive, Clearance!CreateBranch,
         Clearance!UpdateBranch, Clearance!GetBranch, Clearance!StoresOf, Clearance!OfKind,
         Clearance!Counted, Clearance!CountLinks, Clearance!DeleteBranch, Clearance!DeleteStore,
         Clearance!CheckBranch, Clearance!WriteStore, Clearance!CheckStore, Clearance!WritePaper,
         Clearance!SaveConfig, Clearance!AskDaemon, Clearance!DaemonAnswers,
         Clearance!OnboardAnswer, Clearance!WriteClient, Clearance!WriteSupplier,
         Clearance!DeletePartner, Clearance!UpdateCompany, Clearance!Next, Clearance!Spec,
         LoneR!D!vars, LoneR!D!places, LoneR!D!partners, LoneR!D!Idle, LoneR!D!NoConfig,
         LoneR!D!Init, LoneR!D!Goto, LoneR!D!Answer, LoneR!D!At, LoneR!D!Fail, LoneR!D!Put,
         LoneR!D!Without, LoneR!D!Kinds, LoneR!D!Requests, LoneR!D!Checked,
         LoneR!D!FirstPlace, LoneR!D!Receive, LoneR!D!CreateBranch, LoneR!D!UpdateBranch,
         LoneR!D!GetBranch, LoneR!D!StoresOf, LoneR!D!OfKind, LoneR!D!Counted,
         LoneR!D!CountLinks, LoneR!D!DeleteBranch, LoneR!D!DeleteStore, LoneR!D!CheckBranch,
         LoneR!D!WriteStore, LoneR!D!CheckStore, LoneR!D!WritePaper, LoneR!D!SaveConfig,
         LoneR!D!AskDaemon, LoneR!D!DaemonAnswers, LoneR!D!OnboardAnswer,
         LoneR!D!WriteClient, LoneR!D!WriteSupplier, LoneR!D!DeletePartner,
         LoneR!D!UpdateCompany, LoneR!D!Next, LoneR!D!Spec

LEMMA ClearanceHolds == Clearance!Spec => [](Clearance!ReferencesHold /\ Clearance!DeletionTakesNothing)
<1>1. LoneR!D!Spec => [](LoneR!D!ReferencesHold /\ LoneR!D!DeletionTakesNothing)
  BY Alone, LoneR!ReferencesKept, LoneR!DeletionsTakeNothing, PTL DEF LoneR!OneAtATime
<1> QED
  BY <1>1, ClearanceSame, PTL DEF LoneR!D!At, LoneR!D!StoresOf, LoneR!D!ReferencesHold,
         LoneR!D!DeletionTakesNothing, Clearance!At, Clearance!StoresOf,
         Clearance!ReferencesHold, Clearance!DeletionTakesNothing

LEMMA FormsSame == LoneR!W!Spec <=> Forms!Spec
  BY PTL DEF Keys, Bills, PdfSettings, Ops, Branches, Stores, Papers, Parties, Names, MaxBreaks, Saves,
         FormKeys, Tokens, Users, MaxNotes, MaxSent, Vins, YearAt, Parts, Pages, MaxMisses, Ids,
         Numbers, Carts, Views, MonthLengths, Dates, Todays, Spans, Accounts, MaxChanges,
         MaxFaults, Forms!Cardinality, Forms!vars, Forms!tables, Forms!whatsapp, Forms!history,
         Forms!Mask, Forms!Token, Forms!Enabled, Forms!Other, Forms!Keys,
         Forms!settingCategories, Forms!Values, Forms!Idle, Forms!Defaults, Forms!Init,
         Forms!Learn, Forms!Answer, Forms!At, Forms!Fail, Forms!Forms, Forms!Requests,
         Forms!Receive, Forms!Allowed, Forms!Rest, Forms!Continue, Forms!Preserves,
         Forms!SaveDone, Forms!SaveKey, Forms!ReadToken, Forms!WriteTokenBack,
         Forms!SavePreferences, Forms!MarkRead, Forms!SendCheck, Forms!Upload,
         Forms!SendMessage, Forms!MessageRefused, Forms!Next, Forms!Spec, LoneR!W!Cardinality,
         LoneR!W!vars, LoneR!W!tables, LoneR!W!whatsapp, LoneR!W!history, LoneR!W!Mask,
         LoneR!W!Token, LoneR!W!Enabled, LoneR!W!Other, LoneR!W!Keys, LoneR!W!settingCategories,
         LoneR!W!Values, LoneR!W!Idle, LoneR!W!Defaults, LoneR!W!Init, LoneR!W!Learn,
         LoneR!W!Answer, LoneR!W!At, LoneR!W!Fail, LoneR!W!Forms, LoneR!W!Requests,
         LoneR!W!Receive, LoneR!W!Allowed, LoneR!W!Rest, LoneR!W!Continue, LoneR!W!Preserves,
         LoneR!W!SaveDone, LoneR!W!SaveKey, LoneR!W!ReadToken, LoneR!W!WriteTokenBack,
         LoneR!W!SavePreferences, LoneR!W!MarkRead, LoneR!W!SendCheck, LoneR!W!Upload,
         LoneR!W!SendMessage, LoneR!W!MessageRefused, LoneR!W!Next, LoneR!W!Spec

LEMMA FormsHolds == Forms!Spec => []Forms!TokenKept /\ []Forms!SentWithTypedToken
  BY LoneR!TokenStays, LoneR!SentTyped, FormsSame, PTL DEF Tokens, LoneR!W!Token,
     LoneR!W!TokenKept, LoneR!W!SentWithTypedToken, Forms!Token, Forms!TokenKept,
     Forms!SentWithTypedToken

LEMMA FiguresSame == LoneR!B!Spec <=> Figures!Spec
  BY PTL DEF Keys, Bills, PdfSettings, Ops, Branches, Stores, Papers, Parties, Names, MaxBreaks, Saves,
         FormKeys, Tokens, Users, MaxNotes, MaxSent, Vins, YearAt, Parts, Pages, MaxMisses, Ids,
         Numbers, Carts, Views, MonthLengths, Dates, Todays, Spans, Accounts, MaxChanges,
         MaxFaults, Figures!SumFunctionOnSet, Figures!FoldFunctionOnSet, Figures!MapThenFoldSet,
         Figures!vars, Figures!tables, Figures!Idle, Figures!NoAnswer, Figures!Nothing,
         Figures!Init, Figures!LastDay, Figures!MonthOf, Figures!DayOf, Figures!MonthBack,
         Figures!buildMonthLabels, Figures!Period, Figures!Total, Figures!Monthly,
         Figures!ByLabel, Figures!SumOf, Figures!DashboardQueries, Figures!AnalyticsQueries,
         Figures!CompareQueries, Figures!Launch, Figures!Reply, Figures!TrendPeriods,
         Figures!GetDashboard, Figures!GetDashboardAnalytics, Figures!GetDashboardCompare,
         Figures!Give, Figures!Asked, Figures!Turn, Figures!Answered, Figures!Failed,
         Figures!Query, Figures!Figure, Figures!Rows, Figures!RowSet, Figures!Waited,
         Figures!pct, Figures!concentrationRisk, Figures!makeTrend, Figures!AnswerDashboard,
         Figures!Net, Figures!BalanceSheet, Figures!Liquidity, Figures!AnswerAnalytics,
         Figures!NoError, Figures!Compared, Figures!AnswerCompare, Figures!Record, Figures!Next,
         Figures!Spec, LoneR!B!SumFunctionOnSet, LoneR!B!FoldFunctionOnSet,
         LoneR!B!MapThenFoldSet, LoneR!B!vars, LoneR!B!tables, LoneR!B!Idle, LoneR!B!NoAnswer,
         LoneR!B!Nothing, LoneR!B!Init, LoneR!B!LastDay, LoneR!B!MonthOf, LoneR!B!DayOf,
         LoneR!B!MonthBack, LoneR!B!buildMonthLabels, LoneR!B!Period, LoneR!B!Total,
         LoneR!B!Monthly, LoneR!B!ByLabel, LoneR!B!SumOf, LoneR!B!DashboardQueries,
         LoneR!B!AnalyticsQueries, LoneR!B!CompareQueries, LoneR!B!Launch, LoneR!B!Reply,
         LoneR!B!TrendPeriods, LoneR!B!GetDashboard, LoneR!B!GetDashboardAnalytics,
         LoneR!B!GetDashboardCompare, LoneR!B!Give, LoneR!B!Asked, LoneR!B!Turn,
         LoneR!B!Answered, LoneR!B!Failed, LoneR!B!Query, LoneR!B!Figure, LoneR!B!Rows,
         LoneR!B!RowSet, LoneR!B!Waited, LoneR!B!pct, LoneR!B!concentrationRisk,
         LoneR!B!makeTrend, LoneR!B!AnswerDashboard, LoneR!B!Net, LoneR!B!BalanceSheet,
         LoneR!B!Liquidity, LoneR!B!AnswerAnalytics, LoneR!B!NoError, LoneR!B!Compared,
         LoneR!B!AnswerCompare, LoneR!B!Record, LoneR!B!Next, LoneR!B!Spec

LEMMA FiguresHolds == Figures!Spec => []Figures!ComparedFromStore /\ []Figures!MonthsTrail
<1>1. LoneR!B!Spec => []LoneR!B!ComparedFromStore
  BY LoneR!ComparisonHolds, LoneR!TwoDates DEF Dates
<1>2. LoneR!B!Spec => []LoneR!B!MonthsTrail
  BY LoneR!ChartsTrail, LoneR!FirstQuarter DEF MonthLengths, Todays, Spans
<1> QED
  BY <1>1, <1>2, FiguresSame, PTL DEF MonthLengths, LoneR!B!LastDay, LoneR!B!MonthOf,
     LoneR!B!DayOf, LoneR!B!Total, LoneR!B!ComparedFromStore, LoneR!B!MonthsTrail,
     LoneR!B!SumFunctionOnSet, LoneR!B!FoldFunctionOnSet, LoneR!B!MapThenFoldSet,
     Figures!LastDay, Figures!MonthOf, Figures!DayOf, Figures!Total, Figures!ComparedFromStore,
     Figures!MonthsTrail, Figures!SumFunctionOnSet, Figures!FoldFunctionOnSet,
     Figures!MapThenFoldSet

LEMMA RoadsideSame == LoneR!V!Spec <=> Roadside!Spec
  BY PTL DEF Keys, Bills, PdfSettings, Ops, Branches, Stores, Papers, Parties, Names, MaxBreaks, Saves,
         FormKeys, Tokens, Users, MaxNotes, MaxSent, Vins, YearAt, Parts, Pages, MaxMisses, Ids,
         Numbers, Carts, Views, MonthLengths, Dates, Todays, Spans, Accounts, MaxChanges,
         MaxFaults, Roadside!vars, Roadside!Idle, Roadside!NoAnswer, Roadside!Init,
         Roadside!Learn, Roadside!Reply, Roadside!Fail, Roadside!Works, Roadside!Receive,
         Roadside!AnyOne, Roadside!AnyMany, Roadside!Wild, Roadside!Like, Roadside!Matches,
         Roadside!ReadCache, Roadside!AskService, Roadside!SaveRequest, Roadside!getYear,
         Roadside!Decode, Roadside!Limit, Roadside!Offset, Roadside!ReadParts, Roadside!Next,
         Roadside!Spec,          LoneR!V!vars, LoneR!V!Idle, LoneR!V!NoAnswer, LoneR!V!Init,
         LoneR!V!Learn, LoneR!V!Reply, LoneR!V!Fail, LoneR!V!Works, LoneR!V!Receive,
         LoneR!V!AnyOne, LoneR!V!AnyMany, LoneR!V!Wild, LoneR!V!Like, LoneR!V!Matches,
         LoneR!V!ReadCache, LoneR!V!AskService, LoneR!V!SaveRequest, LoneR!V!getYear,
         LoneR!V!Decode, LoneR!V!Limit, LoneR!V!Offset, LoneR!V!ReadParts, LoneR!V!Next,
         LoneR!V!Spec

LEMMA RoadsideHolds == Roadside!Spec => []Roadside!VehicleIsAsked
<1>1. LoneR!NumbersHaveYears
  BY DEF LoneR!NumbersHaveYears, Vins, YearAt
<1>2. LoneR!V!Spec => []LoneR!V!VehicleIsAsked
  BY <1>1, LoneR!AskedVehicle
<1> QED
  BY <1>2, RoadsideSame, PTL DEF Vins, YearAt, LoneR!V!AnyOne, LoneR!V!AnyMany, LoneR!V!Wild,
         LoneR!V!BeginsAs, LoneR!V!Whole, LoneR!V!getYear, LoneR!V!VehicleIsAsked,
         Roadside!AnyOne, Roadside!AnyMany, Roadside!Wild, Roadside!BeginsAs, Roadside!Whole,
         Roadside!getYear, Roadside!VehicleIsAsked

LEMMA LedgerSame == LoneR!G!Spec <=> Ledger!Spec
  BY PTL DEF Clerks, Sheets, Suppliers, NoSupplier, Slips, Instants, Now, MaxSlips, MaxLost,
         Ledger!Cardinality, Ledger!SumFunctionOnSet, Ledger!ToSet, Ledger!FoldLeft,
         Ledger!FoldFunctionOnSet, Ledger!MapThenFoldSet, Ledger!Max, Ledger!SumSet,
         Ledger!FoldSet, Ledger!vars, Ledger!tables, Ledger!NoReading, Ledger!NoAnswer,
         Ledger!Idle, Ledger!Init, Ledger!To, Ledger!Reply, Ledger!Refused, Ledger!Works,
         Ledger!Fails, Ledger!At, Ledger!NoDate, Ledger!BadDate, Ledger!DateParams,
         Ledger!parseDateRange, Ledger!SupplierLists, Ledger!parseSupplierIDList,
         Ledger!Everyone, Ledger!Receive, Ledger!InRange, Ledger!Bills, Ledger!Payments,
         Ledger!With, Ledger!LedgerBills, Ledger!LedgerPayments, Ledger!Entry, Ledger!EntriesOf,
         Ledger!Feeds, Ledger!Net, Ledger!withRunningBalance, Ledger!Debit, Ledger!Credit,
         Ledger!Breakdowns, Ledger!LedgerBuild, Ledger!Total, Ledger!Next1, Ledger!Skip,
         Ledger!Current, Ledger!ReportSupplier, Ledger!ReportSummary, Ledger!ReportPaid,
         Ledger!ReportBills, Ledger!ReportPayments, Ledger!Change, Ledger!MarkBillReceived,
         Ledger!UnmarkBillReceived, Ledger!Bought, Ledger!Paid, Ledger!Removed, Ledger!Next,
         Ledger!Spec, LoneR!G!Cardinality, LoneR!G!SumFunctionOnSet, LoneR!G!ToSet,
         LoneR!G!FoldLeft, LoneR!G!FoldFunctionOnSet, LoneR!G!MapThenFoldSet, LoneR!G!Max,
         LoneR!G!SumSet, LoneR!G!FoldSet, LoneR!G!vars, LoneR!G!tables, LoneR!G!NoReading,
         LoneR!G!NoAnswer, LoneR!G!Idle, LoneR!G!Init, LoneR!G!To, LoneR!G!Reply,
         LoneR!G!Refused, LoneR!G!Works, LoneR!G!Fails, LoneR!G!At, LoneR!G!NoDate,
         LoneR!G!BadDate, LoneR!G!DateParams, LoneR!G!parseDateRange, LoneR!G!SupplierLists,
         LoneR!G!parseSupplierIDList, LoneR!G!Everyone, LoneR!G!Receive, LoneR!G!InRange,
         LoneR!G!Bills, LoneR!G!Payments, LoneR!G!With, LoneR!G!LedgerBills,
         LoneR!G!LedgerPayments, LoneR!G!Entry, LoneR!G!EntriesOf, LoneR!G!Feeds, LoneR!G!Net,
         LoneR!G!withRunningBalance, LoneR!G!Debit, LoneR!G!Credit, LoneR!G!Breakdowns,
         LoneR!G!LedgerBuild, LoneR!G!Total, LoneR!G!Next1, LoneR!G!Skip, LoneR!G!Current,
         LoneR!G!ReportSupplier, LoneR!G!ReportSummary, LoneR!G!ReportPaid, LoneR!G!ReportBills,
         LoneR!G!ReportPayments, LoneR!G!Change, LoneR!G!MarkBillReceived,
         LoneR!G!UnmarkBillReceived, LoneR!G!Bought, LoneR!G!Paid, LoneR!G!Removed,
         LoneR!G!Next, LoneR!G!Spec

LEMMA LedgerHolds ==
  Ledger!Spec => [](Ledger!LedgerAddsUp /\ Ledger!ReportsOfThoseAsked)
<1>1. LoneR!G!Spec => [](LoneR!G!LedgerAddsUp /\ LoneR!G!ReportsOfThoseAsked)
  BY LoneR!StatementsHold DEF LoneR!SlipsAreNumbers
<1> QED
  BY <1>1, LedgerSame, PTL DEF Clerks, LoneR!G!Cardinality, LoneR!G!SumFunctionOnSet,
     LoneR!G!FoldFunctionOnSet, LoneR!G!MapThenFoldSet, LoneR!G!SumSet, LoneR!G!FoldSet,
     LoneR!G!LedgerAddsUp, LoneR!G!ReportsOfThoseAsked, Ledger!Cardinality,
     Ledger!SumFunctionOnSet, Ledger!FoldFunctionOnSet, Ledger!MapThenFoldSet, Ledger!SumSet,
     Ledger!FoldSet, Ledger!LedgerAddsUp, Ledger!ReportsOfThoseAsked

\* A form that shows the mask keeps the access token, and messages are sent with a token
\* that was typed (setting.go, whatsapp.go).
THEOREM TokenHolds == Spec => []TokenStays
  BY TokenFormsHolds, FormsHolds, InitRuns, StepsRun, PTL DEF Spec, TokenStays, TokenForms!Spec,
     Forms!Spec

\* A comparison shows no failed query as a zero, and the charts show the last months
\* (dashboard.go).
THEOREM FiguresShown == Spec => []FiguresHold
  BY FiguresHolds, InitRuns, StepsRun, PTL DEF Spec, FiguresHold, Figures!Spec

\* The running balances, the suppliers' balances and the closing balance agree, and the reports
\* of suppliers are those asked for, in that order (supplier_ledger.go, supplier_report.go).
THEOREM SumsHold == Spec => []LedgerSums
  BY LedgerHolds, SupplierReportsHolds, InitRuns, StepsRun, PTL DEF Spec, LedgerSums,
     Ledger!Spec, SupplierReports!Spec

\* What was said of one vehicle never answers for another (vin.go).
THEOREM VehiclesHold == Spec => []VehiclesAsked
  BY GarageHolds, RoadsideHolds, InitRuns, StepsRun, PTL DEF Spec, VehiclesAsked, Garage!Spec,
     Roadside!Spec

-----------------------------------------------------------------------------
(* A store, and what names it *)

StoreR == INSTANCE RecordsProofs WITH Ops <- {"delete store", "paper", "drop product"},
    Stores <- {"s1"}, Papers <- {"p1", "p2"}

LEMMA StoreLinksSame == StoreR!D!Spec <=> StoreLinks!Spec
  BY PTL DEF Keys, Bills, PdfSettings, Ops, Branches, Stores, Papers, Parties, Names, MaxBreaks, Saves,
         FormKeys, Tokens, Users, MaxNotes, MaxSent, Vins, YearAt, Parts, Pages, MaxMisses, Ids,
         Numbers, Carts, Views, MonthLengths, Dates, Todays, Spans, Accounts, MaxChanges,
         MaxFaults, StoreLinks!vars, StoreLinks!places, StoreLinks!partners, StoreLinks!Idle,
         StoreLinks!NoConfig, StoreLinks!Init, StoreLinks!Goto, StoreLinks!Answer, StoreLinks!At,
         StoreLinks!Fail, StoreLinks!Put, StoreLinks!Without, StoreLinks!Kinds,
         StoreLinks!Requests, StoreLinks!Checked, StoreLinks!FirstPlace, StoreLinks!Receive,
         StoreLinks!CreateBranch, StoreLinks!UpdateBranch, StoreLinks!GetBranch,
         StoreLinks!StoresOf, StoreLinks!OfKind, StoreLinks!Counted, StoreLinks!CountLinks,
         StoreLinks!DeleteBranch, StoreLinks!DeleteStore, StoreLinks!CheckBranch,
         StoreLinks!WriteStore, StoreLinks!CheckStore, StoreLinks!WritePaper,
         StoreLinks!SaveConfig, StoreLinks!AskDaemon, StoreLinks!DaemonAnswers,
         StoreLinks!OnboardAnswer, StoreLinks!WriteClient, StoreLinks!WriteSupplier,
         StoreLinks!DeletePartner, StoreLinks!UpdateCompany, StoreLinks!Next, StoreLinks!Spec,
         StoreR!D!vars, StoreR!D!places, StoreR!D!partners, StoreR!D!Idle, StoreR!D!NoConfig,
         StoreR!D!Init, StoreR!D!Goto, StoreR!D!Answer, StoreR!D!At, StoreR!D!Fail, StoreR!D!Put,
         StoreR!D!Without, StoreR!D!Kinds, StoreR!D!Requests, StoreR!D!Checked,
         StoreR!D!FirstPlace, StoreR!D!Receive, StoreR!D!CreateBranch, StoreR!D!UpdateBranch,
         StoreR!D!GetBranch, StoreR!D!StoresOf, StoreR!D!OfKind, StoreR!D!Counted,
         StoreR!D!CountLinks, StoreR!D!DeleteBranch, StoreR!D!DeleteStore, StoreR!D!CheckBranch,
         StoreR!D!WriteStore, StoreR!D!CheckStore, StoreR!D!WritePaper, StoreR!D!SaveConfig,
         StoreR!D!AskDaemon, StoreR!D!DaemonAnswers, StoreR!D!OnboardAnswer,
         StoreR!D!WriteClient, StoreR!D!WriteSupplier, StoreR!D!DeletePartner,
         StoreR!D!UpdateCompany, StoreR!D!Next, StoreR!D!Spec

LEMMA StoreLinksHolds == StoreLinks!Spec => []StoreLinks!ReferencesHold
  BY StoreR!ReferencesKept, StoreLinksSame, PTL DEF StoreR!D!ReferencesHold,
         StoreLinks!ReferencesHold

OnboardR == INSTANCE RecordsProofs WITH Ops <- {"zatca", "onboard", "delete branch"},
    Stores <- {"s1"}

LEMMA OnboardingSame == OnboardR!D!Spec <=> Onboarding!Spec
  BY PTL DEF Keys, Bills, PdfSettings, Ops, Branches, Stores, Papers, Parties, Names, MaxBreaks, Saves,
         FormKeys, Tokens, Users, MaxNotes, MaxSent, Vins, YearAt, Parts, Pages, MaxMisses, Ids,
         Numbers, Carts, Views, MonthLengths, Dates, Todays, Spans, Accounts, MaxChanges,
         MaxFaults, Onboarding!vars, Onboarding!places, Onboarding!partners, Onboarding!Idle,
         Onboarding!NoConfig, Onboarding!Init, Onboarding!Goto, Onboarding!Answer, Onboarding!At,
         Onboarding!Fail, Onboarding!Put, Onboarding!Without, Onboarding!Kinds,
         Onboarding!Requests, Onboarding!Checked, Onboarding!FirstPlace, Onboarding!Receive,
         Onboarding!CreateBranch, Onboarding!UpdateBranch, Onboarding!GetBranch,
         Onboarding!StoresOf, Onboarding!OfKind, Onboarding!Counted, Onboarding!CountLinks,
         Onboarding!DeleteBranch, Onboarding!DeleteStore, Onboarding!CheckBranch,
         Onboarding!WriteStore, Onboarding!CheckStore, Onboarding!WritePaper,
         Onboarding!SaveConfig, Onboarding!AskDaemon, Onboarding!DaemonAnswers,
         Onboarding!OnboardAnswer, Onboarding!WriteClient, Onboarding!WriteSupplier,
         Onboarding!DeletePartner, Onboarding!UpdateCompany, Onboarding!Next, Onboarding!Spec,
         OnboardR!D!vars, OnboardR!D!places, OnboardR!D!partners, OnboardR!D!Idle,
         OnboardR!D!NoConfig, OnboardR!D!Init, OnboardR!D!Goto, OnboardR!D!Answer, OnboardR!D!At,
         OnboardR!D!Fail, OnboardR!D!Put, OnboardR!D!Without, OnboardR!D!Kinds,
         OnboardR!D!Requests, OnboardR!D!Checked, OnboardR!D!FirstPlace, OnboardR!D!Receive,
         OnboardR!D!CreateBranch, OnboardR!D!UpdateBranch, OnboardR!D!GetBranch,
         OnboardR!D!StoresOf, OnboardR!D!OfKind, OnboardR!D!Counted, OnboardR!D!CountLinks,
         OnboardR!D!DeleteBranch, OnboardR!D!DeleteStore, OnboardR!D!CheckBranch,
         OnboardR!D!WriteStore, OnboardR!D!CheckStore, OnboardR!D!WritePaper,
         OnboardR!D!SaveConfig, OnboardR!D!AskDaemon, OnboardR!D!DaemonAnswers,
         OnboardR!D!OnboardAnswer, OnboardR!D!WriteClient, OnboardR!D!WriteSupplier,
         OnboardR!D!DeletePartner, OnboardR!D!UpdateCompany, OnboardR!D!Next, OnboardR!D!Spec

LEMMA OnboardingHolds == Onboarding!Spec => []Onboarding!ReferencesHold
  BY OnboardR!ReferencesKept, OnboardingSame, PTL DEF OnboardR!D!ReferencesHold,
         Onboarding!ReferencesHold

\* What names a branch or a store through a foreign key names one that is there; one request
\* at a time, the deletion of a store takes it from no bill and no product (branch.go, store.go).
THEOREM LinksHold == Spec => []LinksKept
  BY BranchLinksHolds, StoreLinksHolds, OnboardingHolds, ClearanceHolds, InitRuns, StepsRun, PTL
     DEF Spec, LinksKept, BranchLinks!Spec, StoreLinks!Spec, Onboarding!Spec, Clearance!Spec

=============================================================================
