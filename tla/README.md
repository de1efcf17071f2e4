# Verification of the ifritah backend

This directory holds TLA+ models of the ifritah backend (a Go web service for the sales of
auto parts, `src/main.go` and `src/pkg`), the configurations that check them with TLC, and
the theorems about them that TLAPS proves. It is kept beside the code: every definition that
models code is tied to its lines by the `map` of `PROJECT.json`.

## The system

A gin server keeps everything in one MySQL (InnoDB) database. Each HTTP request runs in a
goroutine of its own, over a pool of at most 50 connections; there may be several server
processes. Beside the request handlers each process runs one outbox drainer, which sends the
events that sales leave in the database to NATS JetStream, from where the ZATCA daemon (the
tax authority's interface, a program outside this repository) takes them. There is no state
in memory that two requests share: whatever interacts does so through the database, its locks
and its unique keys. That is where the models look.

| Component | State | Operations | What is hard | What makes it correct |
|---|---|---|---|---|
| Transactional outbox (`pkg/outbox`) | `outbox` rows: status, attempts, due time, lease | `Append`, `DrainOnce` (claim, publish, record), `Run` | several drainers, crashes, leases that run out, lost acknowledgements | an event leaves the table only when the stream has it or its attempts are used up; one holder at a time; every event settles |
| Sale command (`bill_sale.go`, `sale.go`, `bill.go`) | `bill`, `bill_product`, `bill_payment`, `branch_sequence` | `AddBill`, `SubmitDraftBill`, `DeleteBillDetail` | retries of the same sale, races for a number or a draft, rollbacks, commits whose answer is lost | an invoice series without gap or double; one invoice for a request identity; event if and only if sale; an issued invoice never changes |
| Stock ledger (`stock.go`) | `product.quantity`, `stock_movements` | sale, purchase and deletion movements, `StockAdjust` | read-then-write, three enforcement modes read outside the transaction | the quantity is the sum of the movements and never negative; the papers that stand explain it |
| Purchase bills (`purchase_bill.go`) | `purchase_bill`, its lines, PDF, attachments | add, update, delete | absolute writes of quantities, reversal of what was recorded, a PDF that goes meanwhile | what a bill recorded is reversed once |
| Products (`product.go`) | `product` | add (upsert), update, delete, list | quantities set without a movement | as the stock ledger |
| Cash vouchers (`cash_vouchar.go`) | `cash_voucher` | create, update, delete, approve, post, summary | check-then-write without a transaction, `MAX + 1` numbers | draft, approved, posted in this order; a posted voucher never changes; numbers unique |
| Orders (`order.go`) | `orders`, `order_items` | create, update, delete, get | checks outside the transaction, lines replaced beside a deletion | unique sequence numbers; the lines and the total of an order are those of one request |
| Branches and onboarding (`branch.go`, `pub.go`) | `branches`, `branch_zatca_config` | create, update, delete, ZATCA form, onboard | counts before a deletion, a daemon that may answer late | no store names a branch that is gone; a configuration goes with its branch |
| Stores, clients, suppliers, company | their rows | create, update, delete (soft, except stores) | counts before a deletion, foreign keys that refuse or clear, a unique key that spans deleted rows | no order or voucher names a store that is gone; by itself a deletion takes a store from no bill and no product |
| Accounts and sessions (`auth.go`, `user_admin.go`) | `user`, `refresh_token`, `password_reset_tokens`, `user_permission` | register, login, refresh, logout, reset; administration | no transactions at all; best-effort writes that are logged and passed over | a session that was ended stays ended; an admin remains |
| Files (`file.go`) | uploads on disk, `uploaded_files`, attachments | upload, download, delete, attach | two stores that fail separately, interrupted requests | a row stands for a whole file |
| Settings, WhatsApp, notifications | `settings`, `notification_settings`, `notifications`; documents and messages at WhatsApp | update, send, mark read | masked values sent back, upserts whose errors are passed over | the token typed last is the one stored and sent |
| Pagination (`pkg/pagination`, `list_helpers.go`) | none (cursor in the request) | next page | rows inserted, deleted or moved between pages, equal dates | no row shown twice, none skipped |
| Supplier ledger and report | none | ledger, report of one or several | several statements without a transaction, sorting by equal dates | the balances add up; each supplier once, in order |
| Dashboard (`dashboard.go`) | none | dashboard, analytics, comparison | concurrent queries under one time limit, the calendar | no failed query is shown as a figure; each month once |
| VIN and parts (`vin.go`, `part.go`) | `vin_cache` | lookup of a vehicle, its parts | a cache asked by patterns, two services that fail, rows that nothing replaces | a whole number is answered with its own vehicle, a pattern with one that fits |
| Credit notes | none: both handlers answer 501 | — | — | — |

`PROJECT.json` lists every component with its status, and every hazard at the line where it
bites with the properties that would catch it.

## Plan

Done, in this order: `Outbox` (with `EventDelivery`), `Sale` (with `InvoiceBook`), `Stock`,
`CashVoucher` (with `VoucherBook`), then the services `Accounts`, `Files`, `Directory`,
`Orders`, `Listing`, `Settings`, `Statements`, `Dashboard` and `Vehicles`, which `MCServices`
checks; and the proofs of all of them: each in the proof module of its component, and in
`ServicesProofs` what the run of `MCServices` checks.

Left:

1. `SaleToStream`: `Sale` composed with `Outbox`, from the commit of a sale to the stream.
   Today the two are joined by `EventIffSale` on one side and `ImplementsDelivery` on the
   other: the event of a final sale is the row that `Append` makes.
2. `Pool`: handlers that hold a transaction and ask the pool for a second connection.

## Modules

### Outbox

`Outbox` models the table `outbox`, the drainers and the stream. The columns are functions
of the event (`status`, `attemptCount`, `nextAttemptAt`, `leaseOwner`, `leaseExpiresAt`). A
drainer has the local variables of `DrainOnce`: the clock reading it takes once (`now`), the
rows it claimed and has not tried (`todo`), what it read of their attempts before the lease
(`attemptRead`), the failure it is about to record (`failed`) and what it sent and will mark
(`sent`). `pc` says which statement comes next. The statements of a claim are one action
each, so two claims interleave; `FOR UPDATE SKIP LOCKED` is the set `Locked` of rows that
another open claim has listed, which `Unlocked` leaves out and which writers wait for.

| Action | Code |
|---|---|
| `Append` | the commit of a transaction that called `Append` |
| `StartDrain`, `ListDuePending`, `ListExpired`, `LeaseBatch` | `DrainOnce` to the end of `claim` |
| `PublishAcked`, `PublishFailed`, `Arrive` | one round of the publish loop; a publish reported failed may still arrive |
| `RecordFailed` | `recordFailure`: retry with `Backoff`, or dead letter |
| `FinishDrain` | `MarkPublished` for the whole batch |
| `LeaseUnanswered`, `RecordUnanswered`, `Abandon` | a statement takes effect and its answer is lost; the process dies or a statement fails |
| `Tick` | time |

Times are relative to the present: `Tick` lowers all of them by one and no variable counts
up. The columns hold whole seconds and the model whole ticks; what matters is the order of a
clock reading and a stored time. `RetryBackoff` is the loop of `backoff`, as a recursive
function.

`EventDelivery` is what the package comment promises: an event whose transaction commits is
open until it is settled; it may reach the stream any number of times; it is published only
if the stream has it; a settled event stays so. The refinement `ImplementsDelivery` maps
`pending` and `in_flight` to open and the copies on the stream to themselves.

### Sale

`Sale` models the handlers of the sale command as concurrent transactions. `work[h]` and
`num[h]` are what transaction `h` has written to its bill and to the counter; they reach the
tables when it commits (`Apply`). The locks follow from where the handlers stand:
`RowLocked` (`SELECT ... FOR UPDATE` on the bill, or the row it inserted), `CounterLocked`
(the increment of `branch_sequence`), `KeyLocked` (the entry in `uq_bill_pos_request`). The
stages are those of the code: look up the identity, open the bill, number it, write its
columns, complete it (lines, payment), commit. An update that the unique key refuses leads to
`LoseRace` and `AnswerLostRace`, a draft that is already final to `AnswerFinal`.

| Action | Code |
|---|---|
| `Receive`, `Done` | a request arrives; its answer is read |
| `Lookup` | `requestRecord` of a new sale |
| `CreateBill`, `OpenDraft`, `AnswerFinal` | `openSaleBill`, `answerFinalDraft` |
| `NumberSale` | `numberSale` with `allocateBillNumber` |
| `UpdateBill`, `LoseRace`, `AnswerLostRace` | `updateSaleBill` and the three ways it ends |
| `CompleteSale` | `finishSale` before its commit |
| `DeleteDraft` | `DeleteBillDetail` |
| `Commit`, `CommitUnanswered`, `Abort` | commit; commit whose answer is lost; any failure before it |
| `StockDeadlock`, `Detached...` | the error that `recordSaleMovements` passes over, and what the handler does after it |

Contents stand for what the fingerprint of a request hashes: two requests with one content
are the same to the code. A request with `State <= 0` is a draft; the model has one such
state. The checks at the head of `saveSale` that read nothing a sale writes are taken as
passed. `uq_bill_branch_seq`, the unique key on branch and number, is not in the model:
`NumbersGapless` shows that it is never needed.

`InvoiceBook` is the abstract promise: a book with at most one invoice for an identity, each
numbered next in the series of its branch and never changed. `ImplementsBook` maps the final
bills to it.

### Stock

`Stock` models `product.quantity`, `stock_movements` and the commands that write them. Of the
movements it keeps two sums per product: of all of them (`moved`) and of those with one
reference (`traced`: a bill, a purchase bill, an adjustment, or none). A transaction's writes
are `own[h]` and `delta[h]` until it commits (`Apply`). Who wrote a product holds its row; a
sale that inserted its lines holds the rows of their products shared, because of the foreign
key `fk_product_id`; `Free` is what a locking read or an update waits for. A plain `SELECT` in
a transaction reads its snapshot (`Read`), the others read what is current (`Current`).

| Action | Code |
|---|---|
| `SaveDraft` | a draft is saved: lines, no stock |
| `StartSale`, `InsertLines`, `SellLine`, `SellShort`, `CommitSale` | a final sale: its bill is opened, `completeSale`, one round of the loop of `recordSaleMovements`, its refusal, commit |
| `SellTimeout`, `SellDeadlock`, `Detached...` | the errors which that loop passes over; after a deadlock every statement commits by itself |
| `StartDeleteDraft`, `RestoreLine`, `CommitDeleteDraft` | `DeleteBillDetail` with `reverseSaleMovements` |
| `StartAddPurchase`, `ReadLine`, `WriteLine`, `RecordPurchase`, `CommitPurchase` | `AddPurchaseBill`: per line `updatePurchaseInventoryProduct`, then `recordPurchaseMovements` |
| `StartUpdatePurchase`, `OpenPurchase`, `ReverseLine`, `ReplaceLines` | `UpdatePurchaseBill` up to its new lines, with `reversePurchaseMovements`, which reads the setting anew (`OpenPurchase`) |
| `ReverseTimeout` | in enforce mode, the error of a locking read that `reversePurchaseMovements` passes over |
| `StartDeletePurchase`, `ReverseLine`, `CommitDeletePurchase` | `DeletePurchaseBillDetail` |
| `StartAdjust`, `AdjustRead`, `AdjustWrite` | `StockAdjust` |
| `UpdateProduct`, `AddQuantity`, `ChangeSetting` | the form of a product, the import of products, `UpdateSettings` |
| `Abort`, `Done` | any failure or refusal; the answer is read |

The stages before a sale comes to its lines are those of `Sale` and appear here only as the
lock on its bill (`SaleFree`). A read of the setting that fails leaves the handler in mode
`disable`; so does a setting that is changed to it for a moment, which `ChangeSetting` allows.
Quantities are whole numbers; the code's are decimals with three places, added and compared
exactly. All products are tracked and exist; lines without a product are left out.

`Ops` says which commands a run admits, because the disagreements below break the ledger:
the additive commands (`ADDITIVE` in `StockProofs`) keep it exactly, and so does the deletion of
purchase bills; with the other commands `SalesLedger` and `CountedOnce` still hold, while no error
of a locking read is passed over (`NothingPassedOver`).

### CashVoucher

`CashVoucher` models the table `cash_voucher` and the handlers over it. None of them but the
creation uses a transaction. An update, a deletion, an approval and a posting first read the
state (`Check`) and then write in a statement that asks for the state again (`Write`, with
`Store`); the handler does not look at the number of rows and answers success. `Matches` is the
condition both share. `merchant_id` and `created_by` are the id of the session's user
(`getMerchantID`, `getUserID`), so a voucher is seen by the user who created it and by no other
(`Mine`), and only a manager's voucher is ever approved.

| Action | Code |
|---|---|
| `Receive`, `Done` | a request passes its route's role; its answer is read |
| `ReadNumber`, `Insert` | `CreateCashVoucher`: `MAX + 1`, then the row and its commit, whose answer may be lost |
| `Check`, `Write` | `UpdateCashVoucher`, `DeleteCashVoucher`, `ApproveCashVoucher`, `PostCashVoucher` |
| `ReadTotal` | one statement of `GetCashVoucherSummary`, or its error, which leaves zero |
| `Fail` | a statement or commit fails without effect |

A content stands for the fields of a voucher, of which the model tells apart the type; amounts
are left out, and a total is the set of vouchers that it adds up. A vanished row and an id that
was never given are the same to the code; the model tells them apart, for ids are not reused.
Roles do not change.

`VoucherBook` is the workflow that the header of the file promises. `ImplementsVoucherBook`
maps each row to its entry, without the number.

### Accounts

`Accounts` models the tables of users, sessions and reset tokens and the handlers over them.
No handler opens a transaction, so each statement is an action. A token is the user and the
second it was made in, as the code signs no more than that and a lifetime; two tokens of one
user in one second are therefore one string, which the unique key of `refresh_token` refuses.
`ended` and `unguarded` are history: the sessions whose row was deleted, and that an admin
was removed by a handler which had not read the role, or had read what no longer held.
`DeleteSessions` changes nothing: it clears the table `sessions`, in which no handler puts a row.

| Action | Code |
|---|---|
| `LoginCheck`, `LoginStore` | `Login`: the user, then the tokens; a refused insert does not stop it |
| `RefreshLookup`, `RefreshUser`, `RefreshRotate` | `Refresh`: the session, the user's role, `RotateRefreshToken` |
| `Revoke` | `Logout`, and the end of `AdminResetUserPassword` |
| `Forgot`, `ResetLookup`, `SetPassword`, `MarkUsed`, `DeleteSessions` | `ForgotPassword`, `ResetPassword`, `AdminResetUserPassword` |
| `CheckTaken` (the name, then the address), `Insert`, `SeedPermissions` | `Register`, `CreateUser` |
| `ReadRole`, `CountAdmins`, `WriteUser` | `UpdateUser`, `DeleteUser` with the guard of the last admin |
| `Tick` | the clock |

### Files

`Files` models a file as two things that no transaction covers together: a row of
`uploaded_files` and what is on disk under its key (nothing, a part, the whole). A purchase
bill holds the address of its PDF in a column, later the key, and its attachments in a table
whose foreign key follows the rows. `Crash` ends every request where it stands; disk and
tables stay. `lost` remembers keys whose insert was reported to have failed although it took
effect: the handler removes such a file, and the row stays.

| Action | Code |
|---|---|
| `CreateOnDisk`, `Copy`, `InsertFile` | `UploadFile`, with the removal after each failure |
| `DownloadRow`, `Serve` | `DownloadFile` |
| `DropRow`, `Unlink` | `DeleteFile` |
| `CheckPdf`, `StoreBill`, `VerifyPdf`, `LinkPdf`, `Attach` | `AddPurchaseBill` as far as files go, `SavePurchaseBillAttachments` |
| `ChangeSetting` | an admin changes `pb_pdf_required` |

### Directory

`Directory` models branches with their ZATCA configuration, stores, clients, suppliers and the
company. A store names its branch through a foreign key that a deletion sets to null. What names
a store is a paper (`papers`), of five kinds by what the schema does when the store goes: bills,
products and purchase bills name it in a plain column, an order through a foreign key that sets
it to null, a voucher through one that refuses the deletion, as expenses, journal entries and
stock movements do. The handlers that delete first count what names the row, in statements of
their own; a store's are the bills and then the products, and no other kind. All else about
papers is in the other modules: here one comes, after a look at its store, and a product goes.

| Action | Code |
|---|---|
| `CreateBranch`, `UpdateBranch`, `GetBranch` | their handlers, one statement each, and the stores of `GetBranch` |
| `CountLinks`, `DeleteBranch`, `DeleteStore` | the counts, whose errors are passed over, and the deletion |
| `CheckBranch`, `WriteStore`, `SaveConfig` | `CreateStore`, `UpdateStore`, `UpdateBranchZatcaConfig` |
| `CheckStore`, `WritePaper` | a paper comes: is its store there (`getStoreIds`), then the insert; a product goes |
| `AskDaemon`, `DaemonAnswers`, `OnboardAnswer` | `OnboardBranchZatca`: the request over NATS, the daemon (external), the answer or the time limit |
| `WriteClient`, `WriteSupplier`, `DeletePartner`, `UpdateCompany` | one statement each |

### Orders

`Orders` models the checks (`CheckKnown`, `CheckNumber`), which run before the transaction,
and the transaction itself (`WriteRow`, `ClearLines`, `InsertLines`, `Commit`) with the locks
on the order's row and on its number in the unique key. `Delete` is one statement; the lines
follow by their foreign key. `Get` reads the order and its lines in two statements.
`StoreGone` is the foreign key to a store that was deleted. Prices are in thousandths and what
is stored in hundredths, so that rounding is what the columns do.

### Listing

`Listing` walks one list by its cursors while the table changes: `NextPage` is a request with
any of the sizes and sorts a client may send, through `EffectiveLimit`, `Validate`, the three
decodings of a cursor, the query (`Query`, with the seek predicate `Seek`), the stock filter
that is applied to the page, and `BuildEnvelope` (`Envelope`). `Insert`, `Delete`, `Redate` and
`CreditNote` are what other handlers do to the rows; `quiet` is history and holds the entries
that nothing changed since the walk began.

### Settings

`Settings` models `UpdateSettings` key by key (`SaveKey`, `SaveDone`), with the token that a form
shows masked: the mask or a blank sends the handler to read what is stored (`ReadToken`) and
write it back (`WriteTokenBack`). `SavePreferences` and `MarkRead` are the notification
handlers. `SendCheck`, `Upload`, `SendMessage` and `MessageRefused` are `SendWhatsAppInvoice`
over the service (external), which may refuse, or act and not be heard. `typed` and `stale` are
history: the token typed last, and that an older one was written over it.

### Statements

`Statements` models the supplier ledger (`LedgerBills`, `LedgerPayments`, `LedgerBuild`) and the
reports of one or several suppliers (`ReportSupplier`, `ReportSummary`, `ReportPaid`,
`ReportBills`, `ReportPayments`), whose statements see bills and vouchers that change in between
(`Bought`, `Paid`, `MarkBillReceived`, `UnmarkBillReceived`, `Removed`). An amount is the id of
its row, so that no two sums agree by chance. Entries of equal date come in any order: the
running balance (`withRunningBalance`) of an entry is the sum of what those up to it add (`Net`).
The answer of a report keeps who was asked for and by which of the two routes (`asked`, `many`).

### Dashboard

`Dashboard` models a request as its concurrent queries: a handler launches them
(`GetDashboard`, `GetDashboardAnalytics`, `GetDashboardCompare`), each ends by itself or fails
(`Query`), and when none is pending the figures are put together (`AnswerDashboard`,
`AnswerAnalytics`, `AnswerCompare`). The ten-second limit is the failure of whatever has not
ended. Days are numbers and months their lengths, so that a date one month back is computed as
`AddDate` does. Only figures that relate several queries or months are kept.

### Vehicles

`Vehicles` models a lookup by a vehicle's number: the cache (`ReadCache`, with `Matches` for the
`LIKE` of its query), the two services (`AskService`; both are external and may answer, refuse or
fail), the row that is kept (`SaveRequest`), the answer (`Decode`) and the query on the parts
catalogue (`ReadParts`, with the `Limit` and `Offset` that the handlers give it). A number is a
sequence of characters, two of which are wildcards of `LIKE` (`AnyOne`, `AnyMany`): the handler
puts the number into the pattern as it came. What a service says carries the number it was asked
for, so that the property can compare the two. A percent sign before two hexadecimal digits, by
which a service would be asked for another number than is kept, is left out.

### MCServices

These nine modules and `Stock` with all its commands share no state with one another here, so
one run checks them: `focus` chooses at the start which instance of which module runs, and the
variables that the instance does not have keep the value `Unused`. Each instance is a named
`INSTANCE` with its bounds, and its next-state relation is an action of its own.

## Runs

Each `.cfg` is a run. All bounds are constants of the module; each is named in its comment.

| Run | Shows |
|---|---|
| `OutboxRace` | the invariants and action properties with two drainers, two events, a batch of two, a lease that one stalled drain outlasts, one fault; and that `Outbox` implements `EventDelivery` |
| `OutboxSettles` | two events, a batch of one, two faults: due events and expired leases share the batch and none starves; every event settles, in at most `MaxAttempts + faults` leases; and `Backoff` doubles up to its cap, for the cap of the code and a small one, over attempts beyond those that reach it |
| `SaleRace` | two requests over two bills, two identities and one branch, one deadlock: the inductive invariant, numbers without gap or double, and no retry taken for another request |
| `SaleBook` | two branches and one identity, no tracked stock: what hangs from a bill, the event, immutability; an identity is sold once, and the sale that loses the race finds the record; every request is answered; `Sale` implements `InvoiceBook` |
| `StockLedger` | sales of two products in opposite orders beside adjustments, while the mode changes, a lock wait times out and a deadlock happens: stock may be lost, never invented, and is exact without the deadlock. `FloorSpec` is `Spec` without the disjuncts that `Ops` disables here |
| `VoucherProtocol` | two commands at a time over two vouchers, of a manager and a clerk: `CashVoucher` implements `VoucherBook`, an approver is there from the approval on, a posting that is answered happened, a summary counts no voucher twice |
| `Services` | one property for each service, below |
| `SaleDeleted`, `SaleDeadlock`, `StockLostUpdate`, `VoucherNumbers`, `LastAdmin` | the disagreements below |

What `Services` checks, each in the instances named in `MCServices`:

| Property | Says |
|---|---|
| `SessionsEnded` | a session that a logout or an administrator's reset ended does not come back, and no two sessions share a token, while refreshes, logouts, resets by mail or by an administrator and logins interleave |
| `LastAdminGuard` | an active admin is left unless a change overtook the guard or a read failed |
| `WholeFiles` | a row stands for a whole file through uploads, deletions, failed statements and a crash |
| `LinksKept` | while deletions, checks and writes interleave and fail: no store or ZATCA configuration is of a branch that is gone, no order or voucher of a store that is gone; and where requests come one at a time without failures ("clearance"), the deletion of a store takes it from no bill and no product, that of a branch from no store |
| `WholeOrders` | lines and total of an order are those of one request; numbers are unique |
| `RowsOnce` | a walk by cursors shows what did not change once, and never twice |
| `TokenStays` | the token typed last is stored, unless a form wrote an older one back; messages carry a typed token |
| `LedgerSums` | running balances, breakdown and totals agree; reports come in the order asked |
| `VehiclesAsked` | a vehicle that is answered has a number that begins as the one sent up to its first wildcard, is that very vehicle when the number is whole, and has its own year, whichever lookups filled the cache |
| `FiguresHold` | a comparison shows no failed query; charts show the last months |
| `PapersExplain` | opening, adjustments, purchase bills that stand and final sales explain the quantity, while purchase bills are deleted and until a timeout is passed over; the movements always do |
| `LedgerOfSales` | the movements of sales are the lines of the final sales, in two instances that together have all commands |
| `OnceCounted` | the movements of a purchase bill add up to no more than its lines; of a deleted bill nothing is left, or at most its last lines where bills are updated; in the same instances |

Two drainers and two requests are enough for every race these components have: each lock or
lease is contended by two holders, and the third adds a waiter that behaves as the second.
Two events make a batch that is partly tried when its lease runs out. `MaxLeases`, `MaxStall`
and `MaxFaults` bound the outbox: a row leased `MaxLeases` times is no longer looked at (in
`OutboxSettles` the bound is above what `LeasesBounded` allows, so it is
never met), a drain lasts at most `MaxStall` ticks (longer than the lease in `OutboxRace`, so
that it is lost), at most `MaxFaults` crashes or database errors happen. Two bills let a sale
and its retry meet, or two submits of one draft beside another bill; ids are never reused, and
a sale that finds none left fails (`NoMoreBills`). In `Stock` two handlers meet on one product,
or cross on two; lines ask for one piece or two of an opening stock of one or two, so that both "enough"
and "short" happen, and stock runs out within the run. `MaxQuantity` cuts off behaviours that
only pile up stock or movements (a commit beyond it does not happen), `MaxTimeouts` and
`MaxDeadlocks` bound the faults, `Sales` and `Purchases` the papers. Two vouchers let a voucher
of each type, or two of one user, be counted and numbered together; `Numbers` is larger than the
highest number they can get. Model values that are interchangeable are
declared symmetric in the runs without liveness properties.

The stock of `Services` is in three instances: in one, purchase bills are deleted beside sales
while a lock wait may time out; in another all edits run, those that leave no movement too; in
the third a request may ask for one piece or for two, so that an update beside a deletion leaves
lines behind. `PapersExplain` (in part), `LedgerOfSales` and `OnceCounted` speak of the states
in which no error of a locking read was passed over (`NothingPassedOver`).

In `Services` the instances are small and many rather than few and large. Two handlers make
every race there is between a check and a write; one handler is enough where only failures
matter ("failed reads", "failed lookups", "parties", "forms"), where a race is what is left out
("clearance"), or where the other party is a row that changes by an action of its own ("ledger",
"reports", "dashboard", "lists"). Two sessions and two seconds let
one token be made twice; two admins are the fewest that can be removed together; two orders share
a number; three rows with two dates let a page end inside a date. `MaxFaults` is one wherever a
single failure already reaches every error path, `MaxChanges` one to three. Two lines of
5 thousandths make the total of an order differ from the sum of its rounded lines. Two vehicles
with a common beginning are the fewest a lookup can confuse: beside them one instance asks for a
pattern that fits both, the other for the common beginning and for a number with a percent sign.
Two stores and two papers let a store go while a paper of each kind names it or the other.

### Fairness

`Outbox!FairSpec`: `Run` calls `DrainOnce` on a ticker for as long as the process lives, so a
drainer that can step does (weak fairness per drainer), and time passes. A publish may fail
every time: the event is then dead-lettered, which is settling. Crashes are not fair, and are
bounded: under endless crashes nothing settles. `Sale!FairSpec`: a goroutine that is not
waiting runs, and InnoDB grants a lock to its waiters in turn, so a handler that can step
again and again does (strong fairness per handler).

## Disagreements found

- `SaleDeleted`: `openSaleBill` asks only whether the state is above 0. A draft that was
  deleted has state -1, so a later submit numbers it, makes it final and reports it.
- `SaleDeadlock`: `recordSaleMovements` continues after any error of the row lock it takes on
  a product. If the error is a deadlock, InnoDB has rolled the transaction back; `database/sql`
  does not know, and each later statement of the handler commits by itself. The ZATCA event is
  written, the sale is not, and the handler reports success. `MaxDeadlocks = 0` stands for a
  shop that does not track stock, where this cannot happen; `SaleBook` is checked there,
  `SaleRace` with a deadlock. Two sales of one product are
  enough for it: each holds the product shared since it inserted its line, and asks for it
  exclusively.
- `StockLostUpdate`: `updatePurchaseInventoryProduct` reads the quantity without a lock and
  writes it back as an absolute value. What was sold or corrected in between is undone, while
  its movement stays.
- `VoucherNumbers`: the next voucher number is read with a plain `SELECT MAX + 1`; the
  transaction around it makes it atomic in name only, and no key refuses the double.
- `LastAdmin`: the guard of the last admin counts in one statement and changes the user in a
  later one, without a lock. Two requests that each remove one of two admins both count two,
  and none is left. (One request alone cannot: `LastAdminGuard`, `GuardHolds`.)

Seen while modelling, without a run of their own. In `Stock`, where they are the reason why a
property is checked without a command:

- `recordSaleMovements` takes the error of a lock wait that times out for a product that does
  not exist, and the sale commits without this line's deduction (`SellTimeout`).
  `reversePurchaseMovements` does the same in enforce mode: the line stays in stock, and an
  update of the bill counts it again (`ReverseTimeout`). `NothingPassedOver` is therefore a
  hypothesis of `StockExplained`, `SalesLedger` and `CountedOnce`.
- Deleting a draft returns its lines to stock, from where a draft never took them
  (`RestoreLine`; `PapersExplain` is checked without `delete_draft`).
- An update of a purchase bill reverses its lines whatever its state; those of a deleted bill
  are taken out a second time (`OpenPurchase`; `PapersExplain` is checked without
  `update_purchase`, and `OnceCounted` asks only that nothing is counted twice).
- A deletion of a purchase bill that has read the lines takes these back, although an update
  replaced them before the deletion marks the bill: some of the new lines stay in stock, with
  the bill deleted (`CountedOnce` bounds them by the lines of the bill).
- In warn mode a comment promises that a short sale goes through with a warning; the check on
  `product.quantity` refuses the update, and the sale is answered as in enforce mode
  (`SellShort`).
- A comment says that the movements of a sale can be traced by the bill's id; the id is not
  written (`NoBill`).

In the services:

- `Files`: an unknown value of `pb_pdf_required` makes the PDF optional, although
  `purchase_bill.go:178` speaks of failing closed. An insert whose answer was lost leaves a
  row without its file (`file.go:271`; `WholeFiles` excepts it).
- `Accounts`: `ResetPassword` says "Invalidate all sessions for this user (force re-login)"
  (`auth.go:533`) and clears the table `sessions` (`users.sql:60`), which no handler fills. The
  rows of `refresh_token` stay, and so does every session: who was signed in before the reset
  goes on refreshing (`DeleteSessions`, which changes nothing; nothing enters `ended`).
  `AdminResetUserPassword` does delete them, "so they have to log in again" (`user_admin.go:460`);
  but a login that has checked the old password stores its session after that (`LoginStore`).
  `SessionsEnded` therefore speaks of the sessions that a logout or an administrator's reset did
  delete. Two users who register at once may get one address: it is counted before the insert,
  and `user.email` has no unique key.
- `CashVoucher`: a voucher that is posted between the statements of a summary may be counted in no total (`cash_vouchar.go:697`; `CountedInOneTotal` asks that none is
  counted twice). The look at the store of a new voucher passes its error over; a refusal there is
  a `Fail` of the model.
- `Directory`: "Deletes a store. Prevents deletion if it has linked bills or products."
  (`store.go:331`), "Deletes a branch. Prevents deletion if it has linked stores." (`branch.go:325`).
  The counts take no lock, and their errors are passed over (`branch.go:337`, `store.go:343`,
  `store.go:353`): a bill or a product that comes between count and deletion, or whose count
  failed, goes on naming a store that is gone, a store loses its branch. `DeletionTakesNothing`
  therefore asks for it where requests come one at a time and nothing fails. Purchase bills are
  never counted and go on naming the store in any case; orders lose it (`fk_order_store`,
  `00001_baseline.sql:1261`); vouchers (line 651), expenses (839), journal entries (889) and stock
  movements (1519) are not counted either, but their foreign keys refuse the deletion with an
  internal error. `UpdateBranchZatcaConfig`
  writes the branch of the body, not that of the address (`branch.go:387`). `EditSupplier` has
  its nil test inverted: a limit that is given becomes zero, and none ends in a panic.
- `Orders`: `GetOrder` may read an order and the lines of its next update.
- `Listing`: a cursor made under another sort is accepted when the request names no sort or the
  list's own, against the comment at `cursor.go:39`. The stock filter of products is applied to
  a page after the query cut it, so that a filtered list can end early (`product.go:217`;
  `EachRowOnce` asks there only that nothing comes twice). `ListCashVouchers` leaves out a row
  that it cannot scan.
- `Settings`: a form that shows the mask may write an older token over a newer one (`stale`).
  `UpdateNotificationConfig` resets what the form leaves out.
- `Statements`: a payment without `recipient_id` counts in `payment_count` and has no line in
  the ledger (`supplier_ledger.go:8`). The date `to` of a ledger or a report is its midnight. The
  ledger takes vouchers of any type. A payment summary that fails is shown as no payments.
- `Dashboard`: on the last days of a month the labels name a month twice and leave one out
  (`dashboard.go:858`), where `dashboard.sql:194` speaks of the trailing months; `MonthsTrail` is
  therefore stated up to the 28th. The dashboard and the analytics show a failed query as
  zero with status 200, as the comparison does not. With both dates given, the period before
  lacks its first day.
- `Vehicles`: the number that the client sends goes into `LIKE` as it is, followed by a percent
  sign (`vin.go:88`). A beginning is answered with any vehicle of the cache that begins so, and a
  number with `_` or `%` with any that fits the pattern, whose year is then read in the pattern
  (`vin.go:152`). `VehiclesAsked` therefore asks for the very vehicle of whole numbers alone, and
  of others for what they say up to their first wildcard. A row of `vin_cache` is never replaced; a lookup past the cache answers afresh and
  its insert is refused. The details of parts have limit and offset exchanged (`vin.go:326`), so
  that page 0 is empty, and the page number is the offset of its first part (`vin.go:398`), so
  that pages overlap. A number of fewer than ten characters panics after its lookup. When both
  services refuse, the answer is an empty vehicle with status 200.

## Proofs

The theorems hold for every value of the constants that satisfies the modules' assumptions:
any number of drainers, events, requests, bills, branches and identities.

`OutboxProofs`. The invariant `IndInv` ties the rows to the drains: a row has an owner
exactly while it is in flight (`OwnedIffInFlight`); an open claim's rows are free and no other
claim's (`ClaimInv`); while `now + Lease` lies ahead, a drainer owns what it has in hand, and
what it still owns is as it leased it (`HolderInv`); what it sent has reached the stream
(`SentInv`). None of the properties is inductive alone: that a published row is on the stream
needs that a sent event is, that a dead letter has used its attempts needs that the count the
drainer read is the row's, which holds only while it owns the row. From `IndInv` follow
`Exclusive`, `PublishedIsStored`, `DeadLetterExhausted`, `SettledStays`, `LeasesRespected`,
and, with an invariant of their own, `SendsBounded` and `CostBounded`. `Implements` proves the
refinement step by step. The assumptions are that the settings are positive and the drainers
finitely many, which `DrainOnce` and the operating system see to.

`SaleProofs`. `IndInv` says where a request and its target may stand (`StageInv`), that two
open transactions share neither bill nor counter nor identity (`LockInv`), and that what a
transaction has read and written stays true of the tables until it ends (`WorkInv`): its
number is one above the counter, its identity is on no bill. Hence a commit extends the series
of its branch by one (`Gapless`) and the record by one (`Once`). The bills of the instance are
finitely many (`BillsAssumption`); nothing else is assumed but that null values are not values
and that contents have a branch.

The second part of the module builds on it. `AnswerOf` says what a handler with an answer knows of the
tables, and gives `LoserFindsRecord` and `ConflictsAreReal`, with any number of deadlocks.
`SaleInv` adds, where no deadlock rolls a transaction back behind the handler's back
(`MaxDeadlocks = 0`, as in `SaleBook`), what hangs from each bill: lines, payment and event of a
committed bill are those of its last request (`BillOf`, `WholeRow`), and what an open
transaction wrote for its bill follows its stage (`SaleOf`). From it follow `Whole`,
`EventWithSale`, `SuccessRecorded` and `Immutable`. `Implements` needs neither: the book is a
function of the final bills, a commit that makes a bill final enters exactly one identity or
none, and the number is one above the entries of its branch because those are as many as the
counter says (`SeriesSize`, a bijection between the entries of a branch and the numbers up to it).

`StockProofs`, the ledger. Its theorems `LedgerTheorem`, `NothingFromNowhereTheorem` and
`QuantityTheorem` assume that only the commands run that add to a quantity (sales,
drafts, deletions, adjustments: `ADDITIVE`); the other commands refute them, as the runs show.
The invariant says that a product which a transaction wrote is held by no other transaction
(`Exclusive`), that what it wrote is the committed quantity and what it recorded on top
(`OwnIsMoved`), and that a handler without its transaction has written nothing
(`DetachedByDeadlock`); the committed quantity is then untouched by others for as long as it
matters, and a commit adds the same to quantity and movements. The proof has one lemma for
each effect on the ledger (a move, a commit, an end, a deadlock, a statement outside a
transaction, a loss) and shows of every action which effect it has. `NothingFromNowhere` holds
with any number of deadlocks, `QuantityIsLedger` where none happens.

`StockProofs`, the types. `StockTypesHold` needs no hypothesis: whatever commands run, and
whatever settings, timeouts and deadlocks happen, each variable keeps its type, and no quantity
is negative. What makes it inductive (`Typed`) is what a handler has at each stage (`Stand`): who writes
a line has read its quantity, who records the movements of a purchase has written all its
products, and only a sale that came to its lines loses its transaction.

`StockProofs`, the papers. `SalesLedgerTheorem`, `CountedOnceTheorem` and `StockExplainedTheorem`
rest on `PapersKept`: while no error was passed over, two requests never change one bill, except
to delete a purchase bill (`Owners`); what a transaction has recorded is, at each of its stages,
the difference between the lines it has gone through and those it replaces (`Desk`); and what is
committed for a bill is what its lines say (`Books`), exactly where bills are not updated and
otherwise at most. None of the three holds by itself: a commit adds what the handler recorded
to what the tables say, and only `Desk` knows what that is. A line is taken from a sum over a
sequence (`Total`), a bill from a sum over bills (`FinalLines`), a reference from a sum over
references (`MovedBook`, by which `QuantityIsLedger` becomes `StockExplained`); the lemmas are in
`Induction`. The hypotheses: enforcement is never disabled (a bill that was recorded while it was
leaves no movements, by design of the code), there are finitely many bills, and, for
`StockExplained`, the commands are those of the instance `Warehouse`; the others break it, as said above.

`CashVoucherProofs`. The heart is that a posted voucher is never written and an approved one
only posted (`Forward`): what a handler has read of them stays true. `IndInv` adds what each
handler knows at its stage (`PostOf`: between check and write of a posting the voucher is
approved or posted; `TotalOf`: what a summary counted is posted). From it follow the approver,
the answer of a posting, the totals of the summary, and that every write is one step of
`VoucherBook` or none (`Implements`). Nothing is assumed but that null values are not values,
managers are users, and numbers positive.

`Induction`. The library's theorems on induction take a predicate, which the provers cannot
instantiate. The lemmas here take a set in its place: the numbers, or the finite subsets, that
have the property (`NatInduct`, and the least element of a set of numbers, `LeastNat`, from a
well-founded relation). From them follow that `SumFunctionOnSet`, which is a recursion that
`CHOOSE` guides, adds an element to a sum whichever it picks, and the laws the other modules
cite: sums of equal functions, of sums, over renamed and over disjoint sets (`SumAdd`, `SumSame`,
`SumRenamed`); and that a recursive function on the naturals satisfies its equation; that a fold over places
takes the last one last (`FoldAt`); and that in a finite set that is strictly ordered the places
are the numbers up to its size (`Places`). What speaks of sequences is at the start of
`RecordsProofs`, because `Append` of `Outbox` has the name of the operator on sequences: a fold
over a sequence exists (`FoldExists`), and what it keeps of the sequence is in its order (`KeptAll`).
`BackoffDoubles` of `OutboxProofs` is such an induction: the loop of `backoff` doubles the wait
until the cap, for every cap and every attempt.

`RecordsProofs` instantiates the services that keep records; each has its own invariant.

- Files. A handler that is uploading owns its key: no client knows it, no row has it, no
  other upload uses it, and at the insert its file is whole (`UploadInv`). A row is of a key that
  a client was told or of one that was reported lost (`RowInv`), a file that a client knows is
  whole or gone (`DiskInv`), and a handler unlinks a file only after its row has gone
  (`KnownInv`). A crash keeps all of it: what it ends is memory.
- Directory. `ReferencesKept`: what names a row through a foreign key names one that is there
  (`RefInv`), action by action, for any number of requests and failures. `DeletionsTakeNothing`
  needs that the counts still hold when the row is deleted (`Checking`): the store has no bill
  after the first count and no product after the second, the store of a paper is there after its
  check, the branch has no store. One request at a time and no failures (`OneAtATime`) keep it.
- Settings. What is stored as the token is blank or was typed, and what a handler has read of
  it, to write it back or to send with it, was typed (`TokenInv`); the values of a form that is
  being saved are values of their keys (`FormInv`), so that what it writes is known. Nothing is
  assumed.
- Vehicles. Each row of the cache is of its own number (`CacheInv`), and what a handler holds of a
  vehicle fits the number it was asked for, and is of that very number when it goes into the cache
  (`BodyInv`). That a row which `LIKE` finds fits is an induction over the pattern: up to its first
  wildcard the row is cut at every character (`LikeBegins`), and a number that is no shorter than
  any other is the row (`MatchFits`). Numbers are sequences of integers, and the year has a place
  in them (`NumbersHaveYears`).
- Orders. What a transaction will commit is the row of its request and no lines but those
  (`WorkOf`); two transactions hold different orders and different numbers, and nobody has the
  number that one will write (`LocksOf`); hence every row and its lines are of one cart
  (`RowsInv`). Carts are sequences of lines with integer quantities and prices (`CartsAreLines`).
- Lists. `ListInv` says of a walk that is on that an entry which nothing changed was shown once
  when the cursor has passed it and not at all otherwise (`ShownInv`), and that the cursor is the
  first page's or the key of a row, in all its columns (`CursorInv`). The seek predicates are a
  strict total order of the keys (`KeysInOrder`), keys are of one entry each, and so a query is
  the entries behind the cursor, each at its place in that order (`QueryIs`); what the stock
  filter and `BuildEnvelope` keep of it is a beginning that ends at the next cursor, or all of it
  (`PageFits`). Ids are finitely many positive numbers, dates are integers with a greatest, and
  the limits are positive (`PagesAreBounded`); how often the table changes is not bounded.
- Ledger and reports. `ClerkInv` is what a handler has read at its stage: rows with an id each
  (`ReadingFits`), so that there are as many lines as bills and no more than payments; and the
  reports it has so far, which stand for suppliers in an increasing order of places, all before
  those left (`ReportFits`). From it follows what is answered (`AnswerHolds`): that the balances
  add up is a sum over a sequence taken apart at its last entry, that the suppliers' balances sum
  to the closing balance a sum over the classes of a partition. The ids of bills and vouchers are
  integers (`SlipsAreNumbers`); rows may change between any two statements.
- Dashboard. `CompareInv`: bills are only added (`Before`), and what a query of a comparison gave
  lies between the store at the request and the store now (`GivenOf`), as a sum over days lies
  between the sums of a smaller and of a larger function; dates are finitely many integers
  (`DatesAreDays`). `ChartsTrail` is arithmetic of the calendar: one month back from a day up to
  the 28th is in the month before (`MonthsBack`); months have 28 to 31 days, and the calendar
  reaches as far back as the charts (`CalendarReaches`).

`AccountsProofs`. `SessionInv` says of every stored session that it was issued, is not among the
ended, and shares its token with none, and of a refresh under way that the session it found is
either stored or ended (`FoundInv`): a rotation matches a row by its id, and so cannot bring an
ended one back. `GuardHolds` is of another kind: a handler that counted at least two active
admins and was overtaken by no change leaves one when it removes one; it needs that the set of
admins is finite.

`ServicesProofs` states the theorems of the properties that `Services` checks. A behaviour of
`MCServices` never changes its `focus` and is a behaviour of the instance that it names
(`InitRuns`, `StepsRun`); the instance and the one of the proof module with the same constants
have the same behaviours (the lemmas `...Same`); and its constants satisfy the hypotheses of
the theorems, among them that the null quantity is no number (`NoQuantityAssumption`). Thus
`FilesHold`, `OrdersHold`, `SessionsHold`, `AdminGuardHolds`, `TokenHolds`, `FiguresShown`,
`VehiclesHold`, `LinksHold`, `PapersHold`, `SalesHold`, `CountsHold`, `RowsHold` and `SumsHold`.

Model-checked only: the liveness properties `EveryEventSettles` and `EveryRequestAnswered`
(fairness and `ENABLED` are out of the prover's reach); and the properties that the code
violates, of course. Every invariant and every action property that a passing run checks is proved.

## Not modelled

The contents of invoices and events (amounts, QR codes, JSON), the HTTP layer, authorisation
beyond the role that a route asks for; in `Sale` the locks on product rows, except for the
deadlock they may end in; in `Stock` lines that create a product, deadlocks other than those a sale passes over (they are an
`Abort`, also where `reversePurchaseMovements` would pass over one), and the lock waits between the lines a sale
inserts (`InsertLines` inserts them in one step). Connections are not counted: a handler that
holds a transaction and asks the pool for a setting may wait for a connection for ever when all
are held, which is a hazard of the list and of the plan.

The parts catalogue is only read. Credit notes are switched off. `CleanupOrphanFiles` and what it uses in `file.go`, and `CheckAndNotifyLowStock` in
`notification.go`, are called by nothing. Figures of the dashboard that are one query's answer,
contact fields, prices and texts of products, and the filters of lists are left out. Lifetimes of
tokens are beyond the clock of `Accounts`; the daemon, the stream, WhatsApp and MySQL are
external and appear only as what the code can observe of them.
