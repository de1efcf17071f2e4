----------------------------- MODULE MCServices -----------------------------
(***************************************************************************)
(* One run for the services that share no state with one another here:     *)
(* focus chooses, at the start, which instance of which module runs.       *)
(* A variable that the instance does not have keeps the value Unused.      *)
(***************************************************************************)
EXTENDS Integers, Sequences, FiniteSets, TLC

CONSTANTS Handlers, Foci, NoQuantity

ASSUME NoQuantityAssumption == NoQuantity \notin Int

VARIABLES
  focus, user, refresh_token, reset_token, user_permission, clock, access, issued, pc, req,
  got, faults, ended, unguarded, uploaded_files, disk, purchase_bill, attachments, setting,
  known, lost, branches, store, papers, zatca, client, supplier, company_name, mail, given,
  orders, order_items, work, list, stock, rows, cursor, shown, walk, quiet, changes,
  settings, notification_settings, notifications, media, sent, typed, stale, cash_voucher,
  answer, today, sold, bought, pending, asked, quantity, moved, traced, sale, purchase,
  mode, todo, seen, snap, own, delta, shared, detached, reply, timeouts, deadlocks, vin_cache

Unused == 0
OneFive == [quantity |-> 1, price |-> 5]
OnePage == [number |-> 1, size |-> 2]
OnePiece == [product |-> "p1", quantity |-> 1]
TwoPieces == [product |-> "p1", quantity |-> 2]
Balances ==
  {[type |-> "asset", subtype |-> "cash", net |-> 3],
   [type |-> "asset", subtype |-> "inventory", net |-> 2],
   [type |-> "liability", subtype |-> "long_term_debt", net |-> -2],
   [type |-> "equity", subtype |-> "other", net |-> -3]}
----------------------------------------------------------------------------
\* One user with two sessions, over two seconds.
SignIns == INSTANCE Accounts WITH Ops <- {"login", "refresh", "logout", "password"},
    Users <- {"u1"}, Admins <- {"u1"}, Staff <- {}, Names <- {"n1"}, Emails <- {"e1"},
    Passwords <- {"p1"}, Sessions <- {"s1", "s2"}, Resets <- {"r1"}, MaxSecond <- 1,
    MaxFaults <- 0
\* A password that is forgotten and reset, beside sessions that are refreshed and logged out.
Recovery == INSTANCE Accounts WITH Ops <- {"forgot", "reset", "refresh", "login", "logout"},
    Users <- {"u1"}, Admins <- {"u1"}, Staff <- {}, Names <- {"n1"}, Emails <- {"e1"},
    Passwords <- {"p1", "p2"}, Sessions <- {"s1", "s2"}, Resets <- {"r1"}, MaxSecond <- 0,
    MaxFaults <- 1
\* Two admins, each of whom may be demoted or removed.
Administration == INSTANCE Accounts WITH Ops <- {"update", "delete"},
    Users <- {"u1", "u2"}, Admins <- {"u1", "u2"}, Staff <- {}, Names <- {"n1", "n2"},
    Emails <- {"e1"}, Passwords <- {"p1"}, Sessions <- {}, Resets <- {}, MaxSecond <- 0,
    MaxFaults <- 0
\* One request at a time, whose statements may fail.
Unread == INSTANCE Accounts WITH Handlers <- {"h"}, Ops <- {"update", "delete"},
    Users <- {"u1", "u2"}, Admins <- {"u1", "u2"}, Staff <- {}, Names <- {"n1", "n2"},
    Emails <- {"e1"}, Passwords <- {"p1"}, Sessions <- {}, Resets <- {}, MaxSecond <- 0,
    MaxFaults <- 1
\* Users who register, and users an admin creates, with the same names.
Signups == INSTANCE Accounts WITH Ops <- {"register", "create"},
    Users <- {"u1", "u2", "u3"}, Admins <- {"u1"}, Staff <- {}, Names <- {"n1", "n2"},
    Emails <- {"e1", "e2"}, Passwords <- {"p1"}, Sessions <- {}, Resets <- {},
    MaxSecond <- 0, MaxFaults <- 1
\* Two uploads, and the PDF of one bill.
Uploads == INSTANCE Files WITH Keys <- {"k1", "k2"}, Bills <- {"b1"},
    PdfSettings <- {"required", "optional"}, MaxFaults <- 1
\* A branch deleted while stores come to it.
BranchLinks == INSTANCE Directory WITH
    Ops <- {"delete branch", "create store", "update store"}, Branches <- {"b1", "b2"},
    Stores <- {"s1", "s2"}, Papers <- {}, Parties <- {}, Names <- {"n1", "n2"},
    MaxFaults <- 1
\* A store deleted while papers come to it.
StoreLinks == INSTANCE Directory WITH Ops <- {"delete store", "paper", "drop product"},
    Branches <- {"b1", "b2"}, Stores <- {"s1"}, Papers <- {"p1", "p2"}, Parties <- {},
    Names <- {"n1", "n2"}, MaxFaults <- 1
\* One request at a time: branches and stores deleted among the papers that name them.
Clearance == INSTANCE Directory WITH Handlers <- {"h"},
    Ops <- {"delete branch", "delete store", "create store", "update store", "paper", "drop product"},
    Branches <- {"b1", "b2"}, Stores <- {"s1", "s2"}, Papers <- {"p1", "p2"}, Parties <- {},
    Names <- {"n1", "n2"}, MaxFaults <- 0
\* Branches created, renamed and deleted.
BranchBook == INSTANCE Directory WITH
    Ops <- {"create branch", "update branch", "delete branch", "get branch"},
    Branches <- {"b1", "b2", "b3"}, Stores <- {"s1"}, Papers <- {}, Parties <- {},
    Names <- {"n1", "n2"}, MaxFaults <- 1
\* The ZATCA form and the onboarding of a branch that may be deleted.
Onboarding == INSTANCE Directory WITH Ops <- {"zatca", "onboard", "delete branch"},
    Branches <- {"b1", "b2"}, Stores <- {"s1"}, Papers <- {}, Parties <- {},
    Names <- {"n1", "n2"}, MaxFaults <- 1
\* Clients, suppliers and the company.
Contacts == INSTANCE Directory WITH Handlers <- {"h"},
    Ops <- {"client", "supplier", "delete client", "delete supplier", "company"},
    Branches <- {"b1", "b2"}, Stores <- {"s1"}, Papers <- {}, Parties <- {1, 2},
    Names <- {"n1", "n2"}, MaxFaults <- 1
\* Two orders, with no lines or with two.
OrderDesk == INSTANCE Orders WITH Ids <- {1, 2}, Numbers <- {"n1"},
    Carts <- {<<>>, <<OneFive, OneFive>>}, MaxFaults <- 1
\* A list of three rows, walked while rows come, go and move.
Walk == INSTANCE Listing WITH
    Lists <- {"users", "products", "vouchers", "bills", "clients"}, Ids <- 1..3,
    Dates <- {1, 2}, Sizes <- {<<1, 0>>, <<0, 2>>, <<0, 0>>, <<4, 0>>, <<0, 4>>},
    DefaultLimit <- 2, MaxLimit <- 3, MaxChanges <- 1
\* Two forms that save the access token, and messages sent with it.
TokenForms == INSTANCE Settings WITH Ops <- {"save", "send"},
    FormKeys <- {"whatsapp_access_token"}, Tokens <- {"t1", "t2"}, Users <- {"u1"},
    MaxNotes <- 0, MaxSent <- 2, MaxFaults <- 1
\* Forms of several keys, preferences and notifications.
Forms == INSTANCE Settings WITH Handlers <- {"h"}, Ops <- {"save", "preferences", "read"},
    FormKeys <- {"whatsapp_access_token", "whatsapp_enabled", "theme"},
    Tokens <- {"t1", "t2"}, Users <- {"u1"}, MaxNotes <- 1, MaxSent <- 2, MaxFaults <- 1
\* The ledger of two suppliers.
Ledger == INSTANCE Statements WITH Handlers <- {"h"}, Ops <- {"ledger"},
    Suppliers <- {1, 2}, NoSupplier <- 0, Papers <- {1, 2}, Instants <- {2, 5}, Now <- 5,
    MaxChanges <- 3, MaxFaults <- 0
\* The reports of two suppliers, and the ledger, when a query may fail.
SupplierReports == INSTANCE Statements WITH Handlers <- {"h"}, Ops <- {"ledger", "report"},
    Suppliers <- {1, 2}, NoSupplier <- 0, Papers <- {1}, Instants <- {2, 5}, Now <- 5,
    MaxChanges <- 3, MaxFaults <- 1
\* The dashboard on the 21st and on the last day of March.
Figures == INSTANCE Dashboard WITH Handlers <- {"h"},
    Ops <- {"dashboard", "analytics", "compare"}, MonthLengths <- <<31, 28, 31>>,
    Dates <- {31, 60}, Todays <- {80, 90}, Spans <- {3}, Accounts <- Balances,
    MaxChanges <- 1, MaxFaults <- 1
\* Two vehicles whose numbers begin alike, and a number with a wildcard that fits both.
Garage == INSTANCE Vehicles WITH Numbers <- {<<1, 2>>, <<1, 3>>, <<1, 31>>}, YearAt <- 2,
    Parts <- <<"p1", "p2", "p3">>, Pages <- {OnePage}, MaxFaults <- 0
\* One lookup at a time, also by what two numbers begin with and by a percent sign, whose
\* statements and requests may fail.
Roadside == INSTANCE Vehicles WITH Handlers <- {"h"},
    Numbers <- {<<1>>, <<1, 2>>, <<1, 3>>, <<32, 2>>}, YearAt <- 2,
    Parts <- <<"p1", "p2", "p3">>, Pages <- {OnePage}, MaxFaults <- 1
\* Sales, adjustments and deletions of a purchase bill, with a lock wait that times out.
Warehouse == INSTANCE Stock WITH Products <- {"p1"}, Sales <- {"s1", "s2"},
    Purchases <- {"b1"}, Received <- {"b1"}, Orders <- {<<OnePiece>>},
    FirstOrder <- <<OnePiece>>, Opening <- [p \in {"p1"} |-> 2], Changes <- {1, -1},
    Modes <- {"enforce"}, Ops <- {"draft", "sale", "adjust", "delete_purchase"},
    NoBill <- "no bill", Manual <- "manual", MaxQuantity <- 3, MaxTimeouts <- 1,
    MaxDeadlocks <- 0
\* Sales and purchases beside the edits that leave no movement.
Workshop == INSTANCE Stock WITH Products <- {"p1"}, Sales <- {"s1"}, Purchases <- {"b1"},
    Received <- {}, Orders <- {<<OnePiece>>}, FirstOrder <- <<OnePiece>>,
    Opening <- [p \in {"p1"} |-> 1], Changes <- {1}, Modes <- {"enforce"},
    Ops <- {"sale", "adjust", "add_purchase", "update_purchase", "delete_purchase", "update_product", "add_quantity"},
    NoBill <- "no bill", Manual <- "manual", MaxQuantity <- 2, MaxTimeouts <- 0,
    MaxDeadlocks <- 0
\* Drafts that are completed or deleted, beside purchases whose lines change.
Counter == INSTANCE Stock WITH Products <- {"p1"}, Sales <- {"s1"}, Purchases <- {"b1"},
    Received <- {}, Orders <- {<<OnePiece>>, <<TwoPieces>>}, FirstOrder <- <<OnePiece>>,
    Opening <- [p \in {"p1"} |-> 1], Changes <- {}, Modes <- {"enforce"},
    Ops <- {"draft", "sale", "delete_draft", "add_purchase", "update_purchase", "delete_purchase"},
    NoBill <- "no bill", Manual <- "manual", MaxQuantity <- 2, MaxTimeouts <- 0,
    MaxDeadlocks <- 0
----------------------------------------------------------------------------
AccountsFoci == {"sessions", "resets", "admins", "failed reads", "signups"}
FilesFoci == {"files"}
DirectoryFoci == {"branch links", "store links", "clearance", "branches", "onboarding", "parties"}
OrdersFoci == {"orders"}
ListingFoci == {"lists"}
SettingsFoci == {"token", "forms"}
StatementsFoci == {"ledger", "reports"}
DashboardFoci == {"dashboard"}
VehiclesFoci == {"vehicles", "failed lookups"}
StockFoci == {"stock papers", "stock edits", "stock drafts"}

(* The variables by the modules that have them *)

OfAccounts == <<user, refresh_token, reset_token, user_permission, clock, access, issued,
    ended, unguarded>>
OfHandlers == <<pc, req>>
OfFiles == <<uploaded_files, disk, attachments, known, lost>>
OfDirectory == <<branches, store, papers, zatca, client, company_name, mail>>
OfOrders == <<orders, order_items>>
OfListing == <<list, stock, rows, cursor, shown, walk, quiet>>
OfSettings == <<settings, notification_settings, notifications, media, sent, typed, stale>>
OfDashboard == <<today, sold, bought, pending, asked>>
OfStock == <<quantity, moved, traced, sale, purchase, mode, todo, seen, snap, own, delta,
    shared, detached, reply, timeouts, deadlocks>>

NoAccounts == <<OfFiles, purchase_bill, setting, OfDirectory, supplier, given, OfOrders,
    work, OfListing, changes, OfSettings, cash_voucher, answer, OfDashboard, OfStock, vin_cache>>
NoFiles == <<OfAccounts, got, OfDirectory, supplier, given, OfOrders, work, OfListing,
    changes, OfSettings, cash_voucher, answer, OfDashboard, OfStock, vin_cache>>
NoDirectory == <<OfAccounts, got, OfFiles, purchase_bill, setting, OfOrders, work,
    OfListing, changes, OfSettings, cash_voucher, answer, OfDashboard, OfStock, vin_cache>>
NoOrders == <<OfAccounts, got, OfFiles, purchase_bill, setting, OfDirectory, supplier,
    OfListing, changes, OfSettings, cash_voucher, answer, OfDashboard, OfStock, vin_cache>>
NoListing == <<OfAccounts, OfHandlers, got, faults, OfFiles, purchase_bill, setting,
    OfDirectory, supplier, given, OfOrders, work, OfSettings, cash_voucher, answer,
    OfDashboard, OfStock, vin_cache>>
NoSettings == <<OfAccounts, OfFiles, purchase_bill, setting, OfDirectory, supplier, given,
    OfOrders, work, OfListing, changes, cash_voucher, answer, OfDashboard, OfStock, vin_cache>>
NoStatements == <<OfAccounts, got, OfFiles, setting, OfDirectory, given, OfOrders,
    OfListing, OfSettings, OfDashboard, OfStock, vin_cache>>
NoDashboard == <<OfAccounts, got, OfFiles, purchase_bill, setting, OfDirectory, supplier,
    given, OfOrders, OfListing, OfSettings, cash_voucher, OfStock, vin_cache>>
NoStock == <<OfAccounts, got, faults, OfFiles, purchase_bill, OfDirectory, supplier, given,
    OfOrders, work, OfListing, changes, OfSettings, cash_voucher, answer, OfDashboard, vin_cache>>
NoVehicles == <<OfAccounts, OfFiles, purchase_bill, setting, OfDirectory, supplier, given,
    OfOrders, work, OfListing, changes, OfSettings, cash_voucher, OfDashboard, OfStock>>

\* The variables of the modules that do not run.
Rest ==
  /\ focus \notin AccountsFoci =>
       user = Unused /\ refresh_token = Unused /\
       reset_token = Unused /\ user_permission = Unused /\ clock = Unused /\
       access = Unused /\ issued = Unused /\ ended = Unused /\ unguarded = Unused
  /\ focus \in ListingFoci =>
       pc = Unused /\ req = Unused
  /\ focus \notin AccountsFoci \cup SettingsFoci \cup VehiclesFoci =>
       got = Unused
  /\ focus \in ListingFoci \cup StockFoci =>
       faults = Unused
  /\ focus \notin FilesFoci =>
       uploaded_files = Unused /\ disk = Unused /\
       attachments = Unused /\ known = Unused /\ lost = Unused
  /\ focus \notin FilesFoci \cup StatementsFoci =>
       purchase_bill = Unused
  /\ focus \notin FilesFoci \cup StockFoci =>
       setting = Unused
  /\ focus \notin DirectoryFoci =>
       branches = Unused /\ store = Unused /\
       papers = Unused /\ zatca = Unused /\ client = Unused /\ company_name = Unused /\
       mail = Unused
  /\ focus \notin DirectoryFoci \cup StatementsFoci =>
       supplier = Unused
  /\ focus \notin DirectoryFoci \cup OrdersFoci =>
       given = Unused
  /\ focus \notin OrdersFoci =>
       orders = Unused /\ order_items = Unused
  /\ focus \notin OrdersFoci \cup StatementsFoci \cup DashboardFoci =>
       work = Unused
  /\ focus \notin ListingFoci =>
       list = Unused /\ stock = Unused /\ rows = Unused /\
       cursor = Unused /\ shown = Unused /\ walk = Unused /\ quiet = Unused
  /\ focus \notin ListingFoci \cup StatementsFoci \cup DashboardFoci =>
       changes = Unused
  /\ focus \notin SettingsFoci =>
       settings = Unused /\
       notification_settings = Unused /\ notifications = Unused /\ media = Unused /\
       sent = Unused /\ typed = Unused /\ stale = Unused
  /\ focus \notin StatementsFoci =>
       cash_voucher = Unused
  /\ focus \notin StatementsFoci \cup DashboardFoci \cup VehiclesFoci =>
       answer = Unused
  /\ focus \notin DashboardFoci =>
       today = Unused /\ sold = Unused /\
       bought = Unused /\ pending = Unused /\ asked = Unused
  /\ focus \notin StockFoci =>
       quantity = Unused /\ moved = Unused /\
       traced = Unused /\ sale = Unused /\ purchase = Unused /\ mode = Unused /\
       todo = Unused /\ seen = Unused /\ snap = Unused /\ own = Unused /\ delta = Unused /\
       shared = Unused /\ detached = Unused /\ reply = Unused /\ timeouts = Unused /\
       deadlocks = Unused
  /\ focus \notin VehiclesFoci =>
       vin_cache = Unused

Init ==
  /\ focus \in Foci
  /\ \/ focus = "sessions" /\ SignIns!Init
     \/ focus = "resets" /\ Recovery!Init
     \/ focus = "admins" /\ Administration!Init
     \/ focus = "failed reads" /\ Unread!Init
     \/ focus = "signups" /\ Signups!Init
     \/ focus = "files" /\ Uploads!Init
     \/ focus = "branch links" /\ BranchLinks!Init
     \/ focus = "store links" /\ StoreLinks!Init
     \/ focus = "clearance" /\ Clearance!Init
     \/ focus = "branches" /\ BranchBook!Init
     \/ focus = "onboarding" /\ Onboarding!Init
     \/ focus = "parties" /\ Contacts!Init
     \/ focus = "orders" /\ OrderDesk!Init
     \/ focus = "lists" /\ Walk!Init
     \/ focus = "token" /\ TokenForms!Init
     \/ focus = "forms" /\ Forms!Init
     \/ focus = "ledger" /\ Ledger!Init
     \/ focus = "reports" /\ SupplierReports!Init
     \/ focus = "dashboard" /\ Figures!Init
     \/ focus = "vehicles" /\ Garage!Init
     \/ focus = "failed lookups" /\ Roadside!Init
     \/ focus = "stock papers" /\ Warehouse!Init
     \/ focus = "stock edits" /\ Workshop!Init
     \/ focus = "stock drafts" /\ Counter!Init
  /\ Rest

SignInsNext == focus = "sessions" /\ SignIns!Next /\ UNCHANGED <<focus, NoAccounts>>
RecoveryNext == focus = "resets" /\ Recovery!Next /\ UNCHANGED <<focus, NoAccounts>>
AdministrationNext == focus = "admins" /\ Administration!Next /\ UNCHANGED <<focus, NoAccounts>>
UnreadNext == focus = "failed reads" /\ Unread!Next /\ UNCHANGED <<focus, NoAccounts>>
SignupsNext == focus = "signups" /\ Signups!Next /\ UNCHANGED <<focus, NoAccounts>>
UploadsNext == focus = "files" /\ Uploads!Next /\ UNCHANGED <<focus, NoFiles>>
BranchLinksNext ==
  focus = "branch links" /\ BranchLinks!Next /\ UNCHANGED <<focus, NoDirectory>>
StoreLinksNext == focus = "store links" /\ StoreLinks!Next /\ UNCHANGED <<focus, NoDirectory>>
ClearanceNext == focus = "clearance" /\ Clearance!Next /\ UNCHANGED <<focus, NoDirectory>>
BranchBookNext == focus = "branches" /\ BranchBook!Next /\ UNCHANGED <<focus, NoDirectory>>
OnboardingNext == focus = "onboarding" /\ Onboarding!Next /\ UNCHANGED <<focus, NoDirectory>>
ContactsNext == focus = "parties" /\ Contacts!Next /\ UNCHANGED <<focus, NoDirectory>>
OrderDeskNext == focus = "orders" /\ OrderDesk!Next /\ UNCHANGED <<focus, NoOrders>>
WalkNext == focus = "lists" /\ Walk!Next /\ UNCHANGED <<focus, NoListing>>
TokenFormsNext == focus = "token" /\ TokenForms!Next /\ UNCHANGED <<focus, NoSettings>>
FormsNext == focus = "forms" /\ Forms!Next /\ UNCHANGED <<focus, NoSettings>>
LedgerNext == focus = "ledger" /\ Ledger!Next /\ UNCHANGED <<focus, NoStatements>>
SupplierReportsNext ==
  focus = "reports" /\ SupplierReports!Next /\ UNCHANGED <<focus, NoStatements>>
FiguresNext == focus = "dashboard" /\ Figures!Next /\ UNCHANGED <<focus, NoDashboard>>
GarageNext == focus = "vehicles" /\ Garage!Next /\ UNCHANGED <<focus, NoVehicles>>
RoadsideNext == focus = "failed lookups" /\ Roadside!Next /\ UNCHANGED <<focus, NoVehicles>>
WarehouseNext == focus = "stock papers" /\ Warehouse!Next /\ UNCHANGED <<focus, NoStock>>
WorkshopNext == focus = "stock edits" /\ Workshop!Next /\ UNCHANGED <<focus, NoStock>>
CounterNext == focus = "stock drafts" /\ Counter!Next /\ UNCHANGED <<focus, NoStock>>

Next ==
  \/ SignInsNext \/ RecoveryNext \/ AdministrationNext \/ UnreadNext
  \/ SignupsNext \/ UploadsNext \/ BranchLinksNext \/ StoreLinksNext
  \/ BranchBookNext \/ OnboardingNext \/ ContactsNext \/ OrderDeskNext
  \/ WalkNext \/ TokenFormsNext \/ FormsNext \/ LedgerNext
  \/ SupplierReportsNext \/ FiguresNext \/ WarehouseNext \/ WorkshopNext
  \/ CounterNext \/ ClearanceNext \/ GarageNext \/ RoadsideNext

vars == <<focus, user, refresh_token, reset_token, user_permission, clock, access, issued,
    pc, req, got, faults, ended, unguarded, uploaded_files, disk, purchase_bill,
    attachments, setting, known, lost, branches, store, papers, zatca, client, supplier,
    company_name, mail, given, orders, order_items, work, list, stock, rows, cursor,
    shown, walk, quiet, changes, settings, notification_settings, notifications, media,
    sent, typed, stale, cash_voucher, answer, today, sold, bought, pending, asked,
    quantity, moved, traced, sale, purchase, mode, todo, seen, snap, own, delta, shared,
    detached, reply, timeouts, deadlocks, vin_cache>>

Spec == Init /\ [][Next]_vars

HandlerSymmetry == Permutations(Handlers)
----------------------------------------------------------------------------
(* Properties: each says of every instance what its module states *)

\* A session that a logout or an administrator's password reset ended is not put back, and no
\* two sessions share a token (auth.go); a reset by mail ends none: see Accounts.
SessionsEnded ==
  /\ focus = "sessions" => SignIns!SessionsStayEnded /\ SignIns!OneSessionPerToken
  /\ focus = "resets" => Recovery!SessionsStayEnded /\ Recovery!OneSessionPerToken

\* The guard of the last admin looks at what holds, and is not left out (user_admin.go).
LastAdminGuard ==
  /\ focus = "admins" => Administration!LastAdminGuarded
  /\ focus = "failed reads" => Unread!LastAdminGuarded

\* A row of uploaded_files stands for a file that is whole (file.go): see Files.
WholeFiles == focus = "files" => Uploads!RowsHaveWholeFiles

\* What names a branch or a store through a foreign key names one that is there, also when
\* the two come and go side by side; where requests come one at a time, the deletion of a store
\* takes it from no bill and no product (branch.go, store.go): see Directory.
LinksKept ==
  /\ focus = "branch links" => BranchLinks!ReferencesHold
  /\ focus = "store links" => StoreLinks!ReferencesHold
  /\ focus = "onboarding" => Onboarding!ReferencesHold
  /\ focus = "clearance" => Clearance!ReferencesHold /\ Clearance!DeletionTakesNothing

\* The lines of an order are those of one request, and its total is theirs (order.go).
WholeOrders == focus = "orders" => OrderDesk!OrdersWhole

\* A walk shows a row that does not change once and never twice (pkg/pagination).
RowsOnce == focus = "lists" => Walk!EachRowOnce

\* Saving a form that shows the mask does not lose the access token, and no message is sent
\* with anything but a token (setting.go, whatsapp.go).
TokenStays ==
  /\ focus = "token" => TokenForms!TokenKept /\ TokenForms!SentWithTypedToken
  /\ focus = "forms" => Forms!TokenKept /\ Forms!SentWithTypedToken

\* The running balances, the suppliers' balances and the closing balance agree,
\* and no report is out of place (supplier_ledger.go, supplier_report.go).
LedgerSums ==
  /\ focus = "ledger" => Ledger!LedgerAddsUp /\ Ledger!ReportsOfThoseAsked
  /\ focus = "reports" => SupplierReports!LedgerAddsUp /\ SupplierReports!ReportsOfThoseAsked

\* A comparison shows no failed query as a zero, and the charts show the last months
\* (dashboard.go).
FiguresHold == focus = "dashboard" => Figures!ComparedFromStore /\ Figures!MonthsTrail

\* The quantity of a product is what its movements say and what the papers say: its opening, the
\* adjustments, the purchase bills that still count and the final sales, while bills are
\* deleted beside sales (stock.go).
PapersExplain == focus = "stock papers" => Warehouse!StockExplained /\ Warehouse!QuantityIsLedger

\* The movements of sales are the lines of the final sales (stock.go), also when drafts are
\* completed or deleted and other edits leave no movement.
LedgerOfSales ==
  /\ focus = "stock edits" => Workshop!SalesLedger
  /\ focus = "stock drafts" => Counter!SalesLedger

\* No purchase bill is counted twice, whatever updates and deletions it went through
\* (stock.go, purchase_bill.go): see Stock.
OnceCounted ==
  /\ focus = "stock edits" => Workshop!CountedOnce
  /\ focus = "stock drafts" => Counter!CountedOnce

\* A whole number is answered with its own vehicle, and any other with one that begins as it
\* says up to its first wildcard, whichever lookups filled the cache (vin.go:87): see Vehicles.
VehiclesAsked ==
  /\ focus = "vehicles" => Garage!VehicleIsAsked
  /\ focus = "failed lookups" => Roadside!VehicleIsAsked

\* "Prevent the only admin from being demoted or deactivated by mistake." (user_admin.go:304),
\* "Refuse to deactivate the last active admin." (user_admin.go:392): an active admin remains.
SomeAdmin == focus = "admins" => Administration!SomeAdminRemains
=============================================================================
