# Formal model of Invenzo

TLA+ models, TLC runs and TLAPS proofs for the backend of Invenzo, an inventory and
sales system for spare-part shops: a FastAPI application over PostgreSQL, with Redis
for sessions. Paths below are relative to the repository; `app/` is `backend/app/`.

## 1. The system

### Components, state, operations

| component | state | operations | what makes it correct |
|---|---|---|---|
| Stock ledger, cache, cost layers (`app/utils/ledger.py`, `app/utils/fifo.py`) | `inventory_movement_ledger` (append-only), `stock_status_cache` (one row per part and location), `cost_layers` | `record_inventory_movement`, `consume_fifo_layers` | the cache row is the sum of the ledger; no oversell; the layers hold what is in stock |
| Manual adjustment (`app/routers/stock.py`) | the same tables | `adjust_stock` | as above |
| Reconciliation (`app/services/reconciliation_service.py`) | the cache rows | `reconcile_stock` | corrects drift, makes none (it may: section 3) |
| Transfers (`app/services/transfer_service.py`) | `transfers`: status, `consumed_layer_details` | create, approve, receive, cancel | units leave once, arrive once or come back once |
| Sales (`app/services/sales_service.py`, `app/routers/sales.py`) | `sales`, `sale_items`, the invoice sequence | create, edit, cancel, confirm, return, supplier acceptance | one confirmation, unique invoices, no more returned than sold |
| Credit ledger (`app/services/credit_ledger_service.py`, `app/routers/credit.py`) | `customer_credit_ledger` | debit, payment, adjustment | balance within the limit; a sale is charged once |
| Purchasing (`app/services/purchase_service.py`) | `purchase_orders`, their lines, `goods_receipt_notes` | create, approve, receive, cancel | lines, notes, status and debt agree |
| Supplier ledger (`app/services/supplier_service.py`, `app/routers/suppliers.py`) | `supplier_ledger` | receipts, payments, returns, aging, payment schedule | payments posted once and within the balance; the reports add up to it |
| Audits (`app/services/audit_service.py`) | `audit_sessions`, snapshot, counts | initiate, count, complete | each variance is applied once, and makes the books what is on the shelf |
| Catalogue (`app/services/inventory_service.py`, `barcode_service.py`) | `spare_parts`, `categories` | create, renumber, label, price, dismiss, delete | a number or barcode finds one part; the review flag says whether the margin is thin |
| Authentication (`app/services/auth_service.py`, `session_service.py`) | `users`, the session registry in Redis | login, refresh, logout, reset, forced and own change | single-use tokens, revoked sessions stay revoked, lockout |
| Permissions (`app/services/permission_service.py`) | `role_permissions`, a copy in each process | check, update | no process grants by what was replaced |
| Jobs (`app/services/background_jobs.py`) | the ARQ queue, mails sent | enqueue, run, retry | a mail is sent once if the worker hears of it |
| Startup (`app/initial_admin.py`, `initial_data.py`, `main.py`, `routers/business_settings.py`) | the first user, category tree, permissions, settings | create what is missing | created once, by any number of processes |
| Documents (`app/services/invoice_service.py`, `app/routers/invoices.py`) | `invoices` | generate, regenerate, credit note | one stored invoice per format; a credit note is for what came back |
| Reports (`app/services/report_service.py`, `dashboard_service.py`) | none | sales report, financial summary, profit, KPIs | they agree with each other and with the books |
| Notifications (`app/services/notification_service.py`, the notifications page) | `notifications`, the page's list | triggers, list, mark one or all | the page shows what the table holds |
| Frontend session (`frontend/src/lib/api.ts`, `hooks/useAuth.ts`) | the cookie, each tab's access token and queue of calls | mount, refresh, call, log in and out | no call hangs, the session is kept |
| Not modelled | see "Not modelled" below | | |

### How they interact

An HTTP request is a handler in `app/routers`, which calls a service, which calls
the two stock utilities. `get_async_session` (`app/database.py:42`) gives a request one
SQLAlchemy session and one transaction; an exception rolls it back, so whatever a
service flushed before the exception goes. Components share state through the database
only: there are no in-process locks and no callbacks. Uvicorn workers run requests
concurrently; PostgreSQL runs at its default READ COMMITTED, where

* a plain SELECT sees the rows committed when that statement starts;
* SELECT ... FOR UPDATE waits for the row and then sees its latest version; it cannot
  lock a row that is not there;
* an UPDATE or INSERT holds the row, or the unique key, until the transaction ends;
* a cycle of waiting transactions is broken by aborting one of them.

The whole of the concurrency control is nine `with_for_update` sites
(`utils/ledger.py:139`, `utils/fifo.py:107`, `sales_service.py:250,325,546`,
`routers/sales.py:430,688`, `routers/suppliers.py:443`, `transfer_service.py:337`), one
advisory lock (`initial_data.py:66`) and the unique indexes. Where a service reads state
without one of these, other requests can change it in between: that is the behaviour
that is hard to test, and what the models are built to interleave. Redis is a second
store with no common transaction: what a request did there stays when its PostgreSQL
transaction rolls back. `PROJECT.json` lists each hazard at its line.

## 2. The modules

| module | what it is |
|---|---|
| `StockLedger` | one stock key's three tables under concurrent requests; one action per statement |
| `AtomicRequests` | abstract: the ledger changes by whole requests |
| `MCStockLedger`, `StockLedgerProofs` | job lists and bounds for TLC; theorems |
| `TransferLifecycle` | abstract: the life of a transfer and its books |
| `Transfers` | concurrent requests on transfers; implements `TransferLifecycle` |
| `MCTransfers`, `TransferProofs` | routes and quantities for TLC; theorems |
| `SaleAccount` | abstract: the life of a sale and the customer's account |
| `Sales` | concurrent requests on sales and credit; implements `SaleAccount` |
| `MCSales`, `SalesProofs` | drafts and limits for TLC; theorems |
| `PurchaseOrder` | abstract: the life of a purchase order |
| `Purchasing` | concurrent requests on purchase orders; implements `PurchaseOrder` |
| `Aging` | operators: what is open of an account and how late |
| `SupplierAccounts` | the supplier's ledger, its payments and its reports |
| `AuditSessions` | audits beside movements of stock |
| `PartNumbers`, `PartPrices` | what a part is found by; its prices and review flag |
| `Invoices` | the stored invoice and the credit note of a sale |
| `Reports` | four reports that read in several statements |
| `Notifications` | a user's notifications and the page that lists them |
| `Office` | the eight modules above side by side, with what is assumed of their constants |
| `MCOffice` | values for `Office`, and one run for it |
| `Lockout`, `Sessions` | failed logins; refresh tokens, reset tokens and passwords |
| `Permissions` | role permissions and each process's copies |
| `Browser` | tabs, the cookie, calls and their refresh |
| `Jobs` | the worker that sends reset mails |
| `Startup` | what processes create when it is missing |
| `Access` | the six modules above side by side, with what is assumed of their constants |
| `MCAccess` | values for `Access`, and one run for it |
| `PurchasingProofs` | theorems about `Purchasing`, `SupplierAccounts`, `AuditSessions` |
| `CatalogueProofs` | theorems about `Invoices`, `PartNumbers`, `PartPrices`, `Reports`, `Notifications` |
| `AccountProofs` | theorems about `Lockout` and `Sessions` |
| `ServiceProofs` | theorems about `Permissions`, `Jobs`, `Startup`, `Browser` |
| `SumTheorems` | lemmas: sums over finite sets and over sequences |

The modules are composed by what they promise each other. `StockLedger` is the lowest:
its theorem `LayersEqualStock` is why `Transfers` may let one number stand for a cache
row and its layers, and its theorem `CheckedSalesAreCosted` is why a confirmation in
`Sales` fails for stock only at the check, before anything is charged. A receipt in
`Purchasing` is a movement in `StockLedger`, an entry in `SupplierAccounts` and a new
cost in `PartPrices`; a variance of `AuditSessions` is a `complete_audit` item of
`StockLedger`; a return in `Sales` is what `Invoices` and `Reports` read. None of these
tables feeds back into the one that wrote it, so each module is checked with any
sequence of what the others may write, which is more than they write.

`Office` and `Access` therefore run their modules side by side and not at once:
`Init` chooses the module a behaviour is about (`focus`), and the other modules keep
their initial state. Their properties are those of the modules, by the same names: the
runs check them in `MCOffice` and `MCAccess`, and the theorems state them of
`Office!Spec` and `Access!Spec`.

In all modules, a request has a `pc`; `doc` is the row it works on and `view` what it
read of that row; `raced`, where there is one, is a history variable that remembers
which rows two requests worked on at a time. A property that needs it says what holds of
the code's unlocked reads with a race and what only without one.

### StockLedger

`rows`, `cache`, `ledger` and `layers` are the committed tables, per stock key. `seen`,
`moved` and `layered` are what a session holds and has not committed: its object of the
locked cache row, its ledger entries, its change of the layers. `cacheLock` and
`layerLock` are PostgreSQL's row locks. A request takes a *job*, a sequence of items,
and works through it. The kind of an item is the code path:

| kind | code | steps |
|---|---|---|
| `confirm_sale` | `confirm_sale`, `approve_transfer` | lock and check the row (`LockStock`), `ConsumeLayers`, then the movement |
| `receive_goods` | `receive_goods`, `return_sale`, `receive_transfer`, `cancel_transfer` | `AddLayer`, then the movement |
| `complete_audit` | `complete_audit` | `WriteOffLayers` or `AddLayer`, with no row lock, then the movement |
| `adjust_stock` | `adjust_stock` | `ReadStock` without a lock, `OverwriteCacheRow` |
| `sum`, `fix` | `reconcile_stock` | `SumLedger`, `CorrectCacheRow` |

The movement is `record_inventory_movement`: `WriteLedger`, then either
`UpdateCacheRow` or `MissCacheRow` and `InsertCacheRow`. `Fails` lists the errors;
`Raise` is the rollback each one causes. A deadlock is one of them (`Deadlocked`).

### Transfers

`GetTransfer` is the unlocked read of `_get_transfer` with the status check; `MoveStock`
locks and moves one location's stock; `UpdateTransfer` is the flush that overwrites the
row; `Commit` writes what the session decided from the state it *read*. `OneAtATime`
says whether the environment serialises requests for one transfer, which the code does
not do itself.

### Sales

`LockSale` is `_get_sale_with_items` (and the same select in `routers/sales.py`) followed
by the status check. A confirmation then runs `SellLine` per line, `DrawInvoice`,
`LockCustomer`, `CheckLimit`, `CommitConfirm`; a return runs `ResolveReturn`, `TakeLine`
per line, `CommitReturn`. `UpdateSale`, `CancelSale` and `AcceptSupplierReturn` commit
in one step under the lock. `RecordCredit` is a payment or a favourable adjustment,
`CheckAdjustment` and `CommitAdjustment` an unfavourable one. `Rollback` may happen
after any statement; the sequence keeps the numbers it gave. `AdjustAlone` says whether
the environment keeps an adjustment apart from other debits of the customer.

### Purchasing, SupplierAccounts, Aging

`Purchasing` reads an order and its lines with no lock and then flushes: a line per
`ReceiveLine`, and the order only for a status that changed, as SQLAlchemy emits an
UPDATE for changed columns only. A flush waits for the row and then overwrites it. The
note keeps the discrepancy the handler computes after the receipt. `receipts` are the
notes, `charged` what `record_receipt_payable` posts. `PurchaseOrder` is an order without
requests and rows: it is created, approved, received in parts and cancelled in single
steps. An order that two requests raced on stands for RACED there, of which nothing is
said: the code takes no lock, and a status may then be overwritten by an older one.

`SupplierAccounts` keeps each supplier's ledger as a sequence of entries. Other
operations post to it at any time; a payment locks the supplier (`LockSupplier`), looks
for its reference, sums the balance and posts. A payment whose answer was lost is sent
again with the reference it had. `Aging` is the FIFO allocation of credits to debits that
`calculate_aging`, the customer's aging analysis and the payment schedule each code for
themselves: `AgingAddsUp` compares the first with the third, and both with the balance.
An entry has its `age` since `created_at`, in half days, and its `terms`, the days until
it is due, `NoDate` if the supplier's terms gave no due date. The aging report then
counts the days from `created_at`, while the payment schedule leaves the entry out: what
the first calls a day late is therefore compared with what the second calls overdue for
the entries with a due date only, and the rest is `UndatedAged`.

### AuditSessions

`initiate_audit` takes the timestamp first (`StampSession`) and reads the cache later
(`CommitSession`); between the two, other requests write and commit movements. A movement flags its part in
the sessions whose timestamp it can see, so that a count before it is asked for again.
`shelf` is what is physically there: goods move when their movement commits. `Part`s not
in a cycle count have no snapshot item, and `submit_count` makes one of quantity 0.

### PartNumbers, PartPrices

A request checks, then writes: writes that clash (`Clashes`) wait for each other as PostgreSQL's
unique index on the parts that are not deleted makes them. What a request writes are the
columns it changed from the row it *read*. `PartPrices` has that row's costs, prices and
`needs_price_review`; money is small integers, and a margin is thin below 15 %.

### Invoices, Reports, Notifications

Sales are one step here, as `Sales` is about them, and the documents and reports are
interleaved with them statement by statement. `Invoices` looks an invoice up, renders it
and stores it in separate transactions' steps, with no lock; a credit note reads the
lines and the movements in two statements. `Reports` has time in half days, `InRange`
for the inclusive days of the reports and the half-open day of the dashboard, and
compares each figure with `books`, what the confirmed sales of the days amount to.
`Notifications` is one user with one page: `rows` are the table, `shown` the list in the
browser, `fetch`, `mark` and `markAll` the calls on their way.

### Lockout, Sessions

`Lockout` is `login`'s counter: the user's row is read with no lock, the password hash
is verified, and the UPDATE has the columns that differ from what was read. Time is what
it does to the columns: the window passes, the lock runs out. `Sessions` has Redis and
PostgreSQL as two stores. A login registers its refresh token; a refresh checks it,
removes it and registers a new one, in three commands; a reset claims its token with
SET NX, revokes the sessions and commits the password last; any request may fail between
two commands (`Rollback`), and Redis keeps what it did.

### Permissions, Startup, Jobs

`Permissions` has a copy per process and role. A check loads the role in one step and
keeps it in another, since other requests of the process run during the query; an update
clears the copies of its own process, after the flush and before the commit. `Restart`
is the crash and restart of a process. `Startup` runs the `lifespan` steps of several
processes at once, each of which may die at any step. In `Jobs`, that the mail server
accepts a mail (`Accept`) and that the worker hears of it are two steps, between which
come transient errors, the timeout (which leaves the thread sending), a shutdown (ARQ
queues the job again) and a crash.

### Browser

Each tab has its access token, its calls with isRefreshing and failedQueue, and the auth
hook's own refresh; the tabs share the cookie. A refresh is sent with the cookie as it
is then, looked up and rotated at the server as in `Sessions`, and its answer replaces
the cookie when it arrives, or is lost. `JarAfter` is what each answer does to the
cookie: the server deletes it with a 401 and leaves it with a 429.

## 3. The runs

| run | question | instance |
|---|---|---|
| `MCStockTrade` | Do sales and receipts keep cache, ledger and layers equal, and never fail behind a check? Which of them deadlock? | 3 requests, 2 keys, two-part sales in both orders, one part twice, receipts; `StockBound` 2 |
| `MCStockAudit` | With audit completions, which lock in another order: is nothing oversold? Do the layers cover the stock where an audit found too few? Does every request end? | 2 requests, 2 keys, audits of one and two units and of two parts beside sales and receipts; `StockBound` 2; `FairSpec` |
| `MCStockAll` | With every path, the unlocked ones included: does the ledger still change by whole requests, and is no layer unit taken twice? | 2 requests, 2 keys, adjustments and the reconciliation; `StockBound` 1 |
| `MCStockAdjust` | Is the cache the sum of the ledger beside manual adjustments? No. | 2 requests |
| `MCStockReconcile` | Does the reconciliation, beside sales and receipts, leave the cache the sum of the ledger? No. | 2 requests |
| `MCTransferSerial` | Are the books of each transfer those of its status? Do the requests implement the lifecycle? | 3 requests, 3 transfers, 2 locations, less stock than two transfers need |
| `MCTransferDouble` | The same without `OneAtATime`? No. | 2 requests, 2 transfers |
| `MCSales` | Do interleaved operations on sales and accounts have the effect of some sequence of atomic ones? | 2 requests, 2 sales, 2 lines, a stocked part and an external line, a limit one sale can reach |
| `MCSaleCredit` | Is the limit kept without `AdjustAlone`? No. | 2 requests, 1 sale |
| `MCSaleReturn` | Can what is left of a confirmed sale always be returned? No. | 1 request, a sale with two lines of one part |
| `MCOffice` | What do orders, supplier accounts, audits, the catalogue, documents, reports and notifications guarantee with their unlocked reads? | 2 requests; per module: an order of two lines (4 and 1 units), a supplier with 2 references, one location's audit of one part, 2 parts with 2 numbers and 2 barcodes, one part's prices, a sale of two lines and 2 parts, 2 sales over 2 days, 2 events |
| `MCAccess` | What do lockout, sessions, permissions, tabs, mails and startup guarantee over unlocked counters, Redis and per-process copies? | 2 requests; 1 user, 2 refresh tokens, 1 reset token; 2 processes and 2 roles; 2 tabs with 2 calls; 2 mails with 3 tries; 2 starting processes |

The properties, each stated in its module with the code it is about:

* `CacheMatchesLedger`, `NoOversell`, `LayersMatchCache`, `LayersNeverNegative`: the
  three tables against each other. `LayersCoverStock` is what is left of
  `LayersMatchCache` beside audits: one that writes off more than the layers hold
  consumes what there is and goes on to the movement, which finds the stock or fails
  with all of it, so that the layers may hold more than the stock and never less.
* `CheckedSaleIsCosted`: the error path behind a sale's check, which the code declares
  unreachable, is unreachable; the run has sales and receipts, the theorem audits too.
* `DeadlockNeedsDisorder`: a necessary condition for a PostgreSQL deadlock between
  sales and receipts, hence a way to rule it out (sort the items).
* `EveryRequestEnds`: a liveness property.
* `RequestsAreAtomic`, `ImplementsLifecycle`, `RequestsAreSerial`, `OrdersKeepPromise`:
  refinements of the abstract specifications.
* `TransferBooked`: the stock and layers of a transfer against its status.
* `InvoicesUnique`, `CreditWithinLimit`, `SaleSettled`: sales; `SaleSettled` includes
  that no more came back than was sold, and no more was accepted by the supplier.
* `NeverOverstated`, `ReceiptsTallied`: orders, with races and without.
* `PaidOnce`, `OverpaidOnlyByReturns`, `AgingAddsUp`: a supplier's account.
* `AdjustedOnce`, `AuditAligns`: what an approval adds, and that it makes the books of
  what was counted equal to the shelf.
* `IdentifiersUnique`, `DeletedForGood`, `ReviewFlagTells`: parts.
* `OneInvoice`, `NoteMatchesRefunds`, `FiguresAgree`, `PageTells`: what is read and
  shown of the rest.
* `LockedInTime`, `LockHolds`: the account is locked at the seventh failure at the
  latest with two requests that overlap, at the third without; and stays locked.
* `ResetOnce`, `OneSessionPerLogin`, `ResetEndsSessions`: tokens.
* `CopiesCurrent`: permissions. `NoCallHangs`, `SessionKept`: tabs. `MailedOnce`: mails.
  `SeededOnce`: startup.

The inductive invariants and the type invariants are proved (section 4), and no run
repeats them.

### Bounds, and why they are enough

The only guards that are not in the code are bounds of what would otherwise count
without end: `StockBound`, `MaxUnits`, `InvoiceBound`, `CreditBound`, `LedgerBound` (the
entries of a supplier's ledger), `MaxPassword` (the changes of a password) and
`MaxTrees` (the deletions of all categories). `MaxTries` in `Jobs` and `Threshold` are
settings of the program; `MaxTries` in `Lockout` (`MaxLogins` in `Access`) is no guard
but the number `LockedInTime` claims. `CalmTabs` in `Access` follows the tabs up to the
first step after which `SessionKept` promises nothing; the theorem is for both its values.

Two units let one request take what another one needs, and let a key go to zero
and come back. Two requests are enough for every race of two; `MCStockTrade` and
`MCTransferSerial` have three, for cycles of three and for a third that sees what two
left behind. Two keys are needed for a request that locks one and waits for another.
Three invoice numbers for two sales let a confirmation fail after it drew one and be
retried. `CreditBound` 1 lets a customer overpay. An order line of four units lets two
receipts overlap and a third follow; three ledger entries are a debit that is paid, one
that is not, and what paid it, each debit half a day or two days old and due after one day
or undated, so that it is upcoming, a day late, or undated and young or old. Two password changes let a reset follow a reset. Three
tokens in `Browser` are one in the cookie, one on its way and one to come. Requests (and
other sets of equal things) are interchangeable, so the safety runs use their
permutations as symmetry; the run with liveness uses none.

### Fairness

Only `EveryRequestEnds` needs it. `Fairness` is SF on each request's `Step`, never on
`Begin` or on `Rollback`: a request that was accepted goes on running, and a request
that waits for a row is granted it if the row becomes free again and again, because
PostgreSQL queues the waiters of a row. `Raise` is part of `Step`: an error ends the
request, and PostgreSQL's deadlock detector ends one request of a cycle. Without that
disjunct (`NeverAborted`) the property fails.

CHECK_DEADLOCK FALSE stands where the modelled part really comes to a stop:
`MCTransferSerial`, when each transfer is RECEIVED or CANCELLED; `MCOffice`, when an
order is full or cancelled, a ledger is at its bound, a sale is documented; `MCAccess`,
when the mails are sent.

### Where the code disagrees with its documentation

Each of these is a run that must find a violation, and a finding in `PROJECT.json`:

* `MCStockAdjust`: `adjust_stock` reads the cache row without a lock and writes an
  absolute value, so it overwrites a movement committed in between.
* `MCTransferDouble`: `_get_transfer` takes no lock, so that an approval and a
  cancellation of one transfer can both commit.
* `MCSaleCredit`: `record_adjustment` calls `record_debit` without the customer's lock
  that `record_debit` says its caller must hold.
* `MCSaleReturn`: returns are counted per part and compared per line, so two lines of
  one part block each other's return.
* `MCStockReconcile`: `reconcile_stock` reads all cache rows first and each sum later;
  a movement between the two looks like drift, and its correction makes drift. Only its
  tests call `run_reconciliation` so far; it is meant for a scheduler, beside users.
  (`MCStockAll` includes it and for that reason does not check `CacheMatchesLedger`.)

Seen while modelling, and covered by no run of their own:

* `complete_audit` swallows `InsufficientCostLayerError` after layers were consumed. Its
  movement then ends in `NegativeStockError`, which `utils/ledger.py` calls a logic error
  of the caller although an old variance is all it takes, and the layers are taken back;
  unless a receipt commits in between, and the layers then hold more than the stock.
* `submit_count` takes a missing snapshot item for no stock, which is wrong for the parts
  that a cycle count left out: approving such a count adds it all to the stock there is
  (`AuditAligns` has them as an exception, `omitted`).
* A supplier's debit without a due date is days late in the aging report, from
  `created_at`, and in neither list of the payment schedule (`routers/suppliers.py:387`).
* A movement that was written before an audit's timestamp and is committed after its
  snapshot is neither in the snapshot nor flagged; one that commits between timestamp and
  snapshot is in both, and asks for a recount that nobody needs.
* `utils/invoice_number.py:8` speaks of gap-free numbers; a sequence keeps its gaps
  when a confirmation rolls back. `InvoicesUnique` claims uniqueness only.
* `models/transfer.py:50` does not list cancelling a transfer in transit, which
  `cancel_transfer` allows; `requirements.md:103` has pending transfers reserve stock,
  which `create_transfer` does not do.
* `receive_goods` computes a line's discrepancy from what remains after the receipt;
  ORDERED is never assigned; the dashboard's pending orders leave out
  PARTIALLY_RECEIVED; a supplier that was deleted with a balance cannot be paid.
* A credit note of a sale with two lines of one part counts what came back on each line.
* The dashboard's net sales subtract the refund of a sale that its gross no longer
  contains, and no cash refund; the sums use `created_at`; the agings of the reports
  ignore payments; the stock value is quantity times cost price, not the layers.
* An update of only the cost or only the price may put the price below the cost; GET
  `/price-review` is declared behind `/{spare_part_id}`, which takes it.
* `permission_service.py` speaks of a time to live of 60 seconds that the copies do not
  have: processes other than the updating one keep theirs until they restart.
* Two overlapping failures count once; a login that read an expired lock clears a new
  one. A token issued for the forced change is good for several changes. Sessions are
  revoked before the password commits, and `change_own_password` revokes none. The
  marker of a used reset token is gone up to a second before the token is.
* A crash between `remove_session` and `register_session` ends the session, and one
  between the first admin's commit and its printing loses the only password.
  Deleting all categories brings the default ones back at the next start; the
  settings, "a single-row table", get a second row from two requests that find none.
* An SMTP error after the server accepted a mail counts as transient.
* `api.ts:122` says that a session ends only with a refused refresh; a lost or failed
  one (other than a 429) ends it too. After a lost logout the login page signs the user
  in again.
* `notification_service.py:512` indexes `Notification.metadata`, which is SQLAlchemy's
  own attribute: the check for overdue suppliers raises before it notifies anyone.
* A mark-all that overlaps with a change of the tab shows a new notification as read.
* The indexes on `users.username` and `users.email` count deleted users, which the check
  before them does not: the creation ends in an IntegrityError.

## 4. The proofs

All theorems hold for any number of requests, keys, parts, transfers, sales, orders,
lines, suppliers, audits, customers, users, tokens, processes, tabs, calls, events and
jobs. They assume the named ASSUMEs of the modules, and where stated one of

* `Uses(LockedKinds)`: every stock movement goes through `record_inventory_movement`
  (no `adjust_stock`, no reconciliation);
* `Uses(TradeKinds)`: only sales, receipts and what shares their code;
* `OneAtATime`, `AdjustAlone`: the two serialisations the code leaves to its users.

The ASSUMEs of `Office` and `Access` say what their constants are: nobody and nothing is
none of the values it stands beside (`NoneAssumption`, `RowAssumption`), quantities,
amounts and prices are not negative (`OrderAssumption`, `AmountAssumption`,
`ValueAssumption`, `QuantityAssumption`, `ShopAssumption`), a document has finitely many lines (`LineAssumption`), there is time
(`DayAssumption`), ages and terms are numbers (`TermsAssumption`), and bounds are counts (`BoundAssumption`). TLC evaluates them in
`MCOffice` and `MCAccess`. A property of the table that speaks of races (`raced`,
`forked`, `missed`, `overlapped`) is proved as it is stated, races included.

| theorem | says | assumes |
|---|---|---|
| `StockLedgerProofs!TypeCorrect`, `TransferProofs!TypeCorrect`, `SalesProofs!TypeCorrect` | `[]TypeOK` | |
| `CacheEqualsLedger`, `StockIsNeverOversold` | `[]CacheMatchesLedger`, `[]NoOversell` | `Uses(LockedKinds)` |
| `StockIsCovered`, `CheckedSalesAreCosted` | `[]LayersCoverStock`, `[]CheckedSaleIsCosted` | `Uses(LockedKinds)` |
| `LayersEqualStock`, `SalesPreValidate` | `[]LayersMatchCache`, `[]CallersPreValidate` | `Uses(TradeKinds)` |
| `RequestsCommitWhole` | `Atomic!Spec` | |
| `DeadlocksNeedDisorder` | `[]DeadlockNeedsDisorder` | `Uses(TradeKinds)` |
| `StockIsNeverOverdrawn` | `[]NeverOverdrawn` | |
| `LayersAreTakenOnce` | `[]LayersNeverNegative` | |
| `TransfersAreBooked`, `TransfersImplementLifecycle` | `[]TransferBooked`, `Lifecycle!Spec` | `OneAtATime` |
| `SalesHeld` | `[]SaleInvariant` | |
| `InvoicesAreUnique` | `[]InvoicesUnique` | |
| `CreditIsLimited`, `RequestsSerialise` | `[]CreditWithinLimit`, `Books!Spec` | `AdjustAlone` |
| `SalesAreSettled` | `[]SaleSettled` | |
| `PurchasingProofs`: `ReceiptsNotOverstated`, `OrdersTallied` | `[]NeverOverstated`, `[]ReceiptsTallied` | |
| `OrdersImplementPromise` | `Promise!Spec` of `PurchaseOrder` | |
| `PaymentsArePaidOnce`, `SuppliersOverpaidByReturns` | `[]PaidOnce`, `[]OverpaidOnlyByReturns` | |
| `LedgersAge` | `[]AgingAddsUp` | |
| `VariancePostedOnce`, `ApprovalAlignsBooks` | `[]AdjustedOnce`, `AuditAligns`, an action property | |
| `CatalogueProofs`: `InvoicesAreStoredOnce` | `[]OneInvoice` | finitely many requests |
| `NotesMatchRefunds` | `[]NoteMatchesRefunds` | |
| `PartsAreFoundByOne`, `DeletedPartsStay` | `[]IdentifiersUnique`, `DeletedForGood`, an action property | |
| `ReviewsAreListed`, `ReportsAgree`, `PageShowsTable` | `[]ReviewFlagTells`, `[]FiguresAgree`, `[]PageTells` | |
| `AccountProofs`: `LocksHold` | `LockHolds`, an action property | |
| `AccountsLockInTime` | `[]LockedInTime` | finitely many requests, `MaxLogins >= LastFailure` |
| `ResetsOnce`, `LoginsHaveOneSession`, `ResetsEndSessions` | `[]ResetOnce`, `[]OneSessionPerLogin`, `[]ResetEndsSessions` | |
| `ServiceProofs`: `CopiesAreCurrent`, `MailsAreAccounted`, `StartupSeedsOnce` | `[]CopiesCurrent`, `[]MailedOnce`, `[]SeededOnce` | |
| `CallsNeverHang`, `SessionsAreKept` | `[]NoCallHangs`, `[]SessionKept` | |
| `AccessTyped` | `[]TypeOK` of `Access` | finitely many requests |
| `CatalogueProofs!OfficeTyped` | `[]TypeOK` of `Office` | finitely many sales and requests |

**Cache and ledger.** `CacheMatchesLedger` is not inductive: whether a commit keeps it
depends on what the session believes the row holds. `LockInvariant` adds `RowView`: a
request that holds a row has in `seen` the committed quantity plus its own movements
(less the one it is about to apply), and a request that does not hold it has no
movement there. A commit then adds the same amount to both tables. Two requests that
both missed the row insert only positive quantities (`InsertsInflow`), and the unique
index stops the second.

**Layers.** `TradeInvariant` adds `LayerView`, that a session's layers and movements
differ by the movement it is about to record. The committed layers then equal the
committed cache. With audits that equality is gone, since an audit may find fewer layers
than it writes off; `CoverInvariant` has the inequality that is left (`CoverView`: a
session took no more from the layers than its movements take from the stock, the one it
is about to record included), and `SaleHoldsRow`, that a sale keeps the row it checked.
So the committed layers are at least the committed cache, and whatever a check admitted
is there to be consumed.

**Layers alone.** That no unit of a layer is taken twice needs no discipline on the cache
row: `LayersHeld` says that a session which holds a key's layers has taken no more than
they have, and one that does not has at most added some. It covers every path, the
audits and the reconciliation included.

**Whole requests.** `JobInvariant` follows a request through its list: the items it still has
are the end of the job it was given, and what its session has moved of a key is the sum of
what the items before them add to it (`Works`), or nothing for the reconciliation, which
compares and corrects but moves nothing (`Compares`). At the commit the list is empty, so
that the ledger gains what the job adds: `Apply` of `AtomicRequests`; a rollback, an
error and a lost session are its `Refuse`, and every statement before a stutter
(`StepIsAtomic`).

**Deadlocks.** `DisorderInvariant` says that a request holds the rows of items it has worked on
and no other (`HoldsWorked`), and layers only behind the row (`LayersBehindRow`). In a
set of requests that wait for each other, each key waited for is then held by one that waits
for a later item of its own list: each of these keys has one before it. The keys are
finitely many, and a finite set each of whose members has one before it contains some that
each have one of themselves after them (`NoBottomNoTop`, by induction over its subsets). The number of requests needs no bound.

**Transfers.** `StockInvariant` says that a request holds the stock it checked, with no
assumption on how transfers race. `TransferInvariant` adds that what a session read of
its transfer is still true, which is what `OneAtATime` buys; `CommitIsStep` shows that
a commit is then the abstract operation, and every other step a stutter.

**Sales.** `SaleInvariant` is the heart: who works on a sale holds its row, and the
status it checked is still there (`HoldsSale`). `InvoiceInvariant` adds `NumbersDrawn`:
no number, committed or still in a session, exceeds the sequence or is held twice.
`CreditInvariant` adds `HoldsCustomer`: a debit that passed the check has its customer
to itself until it commits. Returns and payments need no lock because they only lower
the balance, which is why the argument is about balances that do not grow.

`SaleSettled` needs `SettleInvariant` (in `SalesProofs`, as it is about sums): it says of
a sale that was not confirmed that its books are empty and of every line that no more
came back than was sold (`Settled`), and of a request that what it summed and what it
still has to do make up the total, or what it was asked to take back, and that its
charge is what the header leaves to pay (`Computed`). That a line gives no more than it has
left follows from a sum over the lines of a part being at least each of them. With the two
invariants every commit is a step of `SaleAccount` and everything before it a stutter
(`StepIsSerial`); a return of nothing is a stutter too. `LineAssumption` in `Sales`,
that a sale has finitely many lines, is there for the sums.

**Sums.** What a note, a ledger, a credit note or a report amounts to is a fold of the
community modules, a CHOOSE of a recursive function over the subsets of a set (or the
beginnings of a sequence). The library's induction theorems take an operator, which the
provers cannot instantiate; `SumTheorems` therefore does the induction over a *set* of
subsets (`SubsetInduction`, from the well-founded order of finite subsets) and of numbers
(`CountingInduction`). From it: the recursive function exists (`SummingExists`), a sum may
be taken in any order (`SumRemove`), it adds, compares and agrees pointwise (`SumAdds`,
`SumMonotone`, `SumSame`), and the sum up to an index is that of the indices
(`SumFromTop`). It adds over the parts of a set (`SumUnion`), and a fold whose accumulator is
a record or a sequence exists too, with the values its steps have (`FoldExists`). Each module's proofs say once which of its folds is which sum.

**Orders.** Races may lose what a line received, never invent it: `Covered` says that what a
request will write to a line is within the order and within the notes, its own included,
and notes only grow. Without a race a request has the order to itself (`AloneAt`): what
it read, less what it gained since, is what is stored, and lines and notes agree
(`Tallied`).
A commit is then the step of `PurchaseOrder` of the same name, the reading that makes an
order a raced one is its `Race`, and every other step a stutter (`PromiseStep`);
`NeverOrdered` excludes the status ORDERED, which receipts would accept and no operation
gives.

**Supplier accounts.** A payment under way holds the supplier's row (`HasSupplier`), and only
payments add a reference: one that was not found is still not there (`FoundNew`). The other
postings, which need no lock, only add to what is owed, but for a return, which counts on
the other side of `SoundLedger`: so what the balance covered when it was summed, it covers
when the payment posts (`FoundCover`).
The aging of a ledger is a fold over its entries, oldest first: as long as credit is left
nothing is open (`Paying`), and open amounts less credit are the debits so far less all
credits (`PayKeeps`). After the last entry that is the balance, or nothing if it is negative
(`OpenAdds`); what is open is then parted twice, by the schedule's dates and by the report's
days, and what has no due date is a part of both (`ScheduleParts`). It holds of any
ledger, however it came about.

**Audits.** A session that no two requests wrote at once has one request (`AloneOn`), one count
of a part (`CountedOnce`), and has posted exactly the variances of its counts when it was
approved (`Posted`). `Aligned` ties books and shelf before the approval: but for the parts
that are flagged, hidden or left out, the books are still those of the snapshot, and the
count is what is on the shelf. Movements the session cannot know of are those of
`Hidden`.

**Stored invoices, credit notes.** `DocumentInvariant` says of each format that nobody raced
on that one request at most is between its look-up and its insert, and that, if it
looked because there was none, there still is none (`Alone`). Of any format it says that
those who found none and those that were stored are no more than the requests (`Few`):
whoever looks once one is stored does not join them.
`NoteStands` says that what a note has read of the lines, or
of the movements, lies between the refunds at its two statements: each line, then the
sum of them, only grows.

**Parts.** `WritesColumns` and `WritesApart`: what a request flushed and what the index
compared with are of different parts or of different values, for as long as neither
commits. A deleted row is not written over because an update writes the columns it
changed and the state is none of them. `PriceInvariant` says of each request whether its
judgement will be about the prices that will be there (`Judged`, `Unjudged`).

**Reports.** For a reader whose sales did not change between its statements, each part of
what it read is the sum over the confirmed sales of its days (`RevenueRead`,
`ReturnsRead`, `AllRead`): the half-open day of the dashboard and the inclusive days of
the others are the same sets of sales because instants are whole numbers.

**Notifications.** While nothing overlapped and nothing was lost, each call's answer is what
the table holds for the page's tab (`ListAgrees`, `MarkAgrees`, `AllAgrees`).

**Lockout.** Whoever reached the password read the account unlocked (`ReadUnlocked`). Since
an UPDATE has only the columns that differ from what was read, such a request writes the
lock's column only to set it, or to clear one that had run out (`LockStep`).

**Lockout in time.** Failures that overlap write what they read plus one, and so lose counts.
`CountInvariant` gives each request a level, how far it can still count: one more than the
count it read, or than the row's where the row has fallen since. A failure moves its own
request above its level; the others it moves down, if at all, to just above that level. With
weights that fall by a factor of N + 1 from one level to the next, for N requests, the sum
of the weights falls with each failure, so that the count of failures and that sum stay
together under `LastFailure` (`Paid`). That is cruder than what a run finds: two requests
and the threshold 3 lock at the seventh failure, of at most 56 the theorem has. Without a race
everybody reads the row as it is, and the row counts right (`Counted`).

**Tokens.** All three proofs rest on `Tree`: every token belongs to a login that exists, and a
refresh works with a token of its user. `Claimed`: a reset request has claimed its token
alone, as SET NX admits one, and only the end of the token's life undoes a claim.
`OneThread`: a login that did not fork has one good token, or one refresh that took it out
and brings the next. `Clean`: what is registered or on its way is of the last password a
reset set, and between its sweep and its commit nothing is, unless a request of the user
overlapped with the reset.

**Permissions.** A check that read a role and has not kept it yet is as current as a copy
(`ReadsCurrent`), an update holds the role's row until it commits (`OneUpdate`), and
what its process fetches again in between is remembered as missed (`FetchedAgain`). A
copy that missed an update is forgotten as such when the process clears its copies, unless
a check is about to keep it once more.

**Tabs.** `OneRefresh`: a tab has one refresh under way, and the auth hook's own only while
no call was sent; so the refresh that ends is the one that the queue waits for, and
`RefreshReleases` empties it.

`NothingLost` says where the session is while nothing overlapped or was lost: in the
cookie, at the server for the one tab that refreshes (`OneTab`), or in its answer.

**Mails.** `JobAccounted` counts each mail of the server as heard or unheard, and each
thread that still sends as a mail it may send; each try adds one thread.

**Startup.** `TreeSeeded` follows the advisory lock: who counts the categories or adds them
holds it. The admin is guarded by its unique key alone, and `AdminSeeded` says whose it is and
what became of its password. The settings have no lock, and `MissedOnce` says that without
a race one request at most missed the row.

**Types.** Most conjuncts of the `TypeOK` of `Access` and `Office` are part of an invariant
above. What was left is what the tabs keep that no promise is about (`TabRest`); how often
a setting can be stored: a row was inserted by a request that missed it, so that there are
never more than the requests at work (`RowsBounded`); that an audit adds up finitely many
counts, also one that was written by two requests at once (`AuditRest`); that no more comes
back of a part than was sold, although each line of a return is compared with what came back
before the request, also if the part is on several lines (`MovedBound`); and that what a
report shows are numbers (`ReportRest`).

### Only model-checked

Liveness (`EveryRequestEnds`) and everything with ENABLED is beyond TLAPS: TLC checks it on
the instances of section 3.

## 5. What the models abstract from

* A statement that waits for row locks is re-evaluated when it wakes up; the models
  let it happen in one step when the row is free.
* Costs, prices, taxes, discounts and rounding: units stand for money in `Sales` and
  `Purchasing` (a unit costs 1), FIFO order of the layers is not visible in a sum of
  units. `PartPrices`, `Invoices` and `Reports` have small whole prices.
* `Sales` leaves stock to `StockLedger`, keeps `credit_limit` constant, and omits the
  re-read of the sale for the response after the commit.
* `Transfers` gives every location a cache row from the start.
* `receive_goods` writes `spare_parts.cost_price`, which is in `PartPrices`; that row's
  lock is left out of `StockLedger` and `Purchasing`.
* `SupplierAccounts` takes a return's limit from what was bought for external sales;
  the age of an entry is the one it has at the reports, chosen when it is posted, as no
  operation but the reports looks at it; a debit is never older than one before it.
* `Lockout` lets the window pass only when no request has the user's row, and has locks
  last longer than the window, as in the default settings.
* `Sessions` has refresh tokens that do not expire by themselves (a session that ends is
  a step of `Browser`) and one registry entry per token.
* `Browser` has one user. An access token is good for any call until it expires.
* `Notifications` has no second page of the list and no polling of the bell's number.
* Validation of request bodies, and which permission each route asks for.

### Not modelled

* `IdempotencyService`, `JobDeduplicator` and `CacheService`: only their tests call them,
  so that there is no use of them in the program to be faithful to. The same holds for
  `get_active_sessions` and `revoke_all_user_sessions`.
* The audit trail: append-only rows that nothing reads back into the program.
* HTTP middleware, metrics, logs, headers; rate limits are those of a library, and
  appear as the 429 of `Browser`.
* Migrations, backup and restore scripts, deployment: run once, by one process.
* Rendering of PDFs, barcodes and labels, and the columns of reports that are plain
  sums of one statement.
* Profile edits of customers, suppliers, users and locations: an UPDATE of what changed,
  on which nothing else depends.
* The pages of the frontend other than notifications: forms over one request.
* The overdue-supplier check, which raises before it does anything (section 3).

## 6. Plan

Done: all of the above. What would come next: `Sessions` and `Browser` as one
specification, with the real rotation behind the tabs' refreshes instead of its promise.
