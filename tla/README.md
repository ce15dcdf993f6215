# ERP-MUNDOTEC in TLA+

Specifications, model checks and proofs for ERP-MUNDOTEC: the API
(`src/apps/api`), a NestJS application over Prisma 5 and PostgreSQL 15, and the
web client (`src/apps/web-erp`), a React application over React Query. Every
definition is translated from the code; paths below are relative to
`src/apps/api/src/`, those that begin with `web:` to `src/apps/web-erp/src/`.

## 1. Inventory

### What makes this system hard

* **Concurrency lives in the database.** Handlers are stateless; each request
  runs single statements or an interactive `$transaction(async (tx) => ...)` at
  PostgreSQL's default level, READ COMMITTED. No query asks for another isolation
  level or for `SELECT ... FOR UPDATE`. Between two `await`s any other request
  may commit.
* **Read, check, compute, write.** Almost every handler reads a row, checks its
  status or amount, computes new *absolute* values in memory and writes them.
* **Checks outside transactions.** Several handlers check with `prisma.raw` and
  write afterwards in another statement (deletes of orders, roles, categories;
  passwords; default branches).
* **A second connection.** The audit extension reads and writes through another
  connection of the pool, inside the transaction of the operation it records.
* **A second copy of the rules.** The web has its own validation, permissions,
  formulas and statuses, written by hand beside those of the API.
* **Answers in any order.** In the web, details, saves, refetches and renewals of
  the token are in flight while the user goes on; effects run after a later
  render than the one that caused them.

### Components

| Component | State | Operations | Hard behaviour | What makes it correct |
|---|---|---|---|---|
| Stock engine `stock-movements` | `stock`, `stock_movement` (the kardex) | `create`, `transfer`, `applyMovementInTx` | lost updates, two reads of the origin's cost, row-lock cycles, rollback of multi-line documents | stock never negative, transfers paired and value-neutral, stock = sum of the kardex |
| Purchase orders, goods receipts | order, lines, receipts | create, update, remove, approve, cancel; receipt against an order or direct | FIFO distribution, absolute `received_qty`, completion test, edits between check and write | never more received than ordered, RECEIVED exactly when complete |
| Quotations, sales orders, invoices | headers, lines, references between them | create, update, remove, transitions, convert, invoice, cancel | conversion and invoice sent twice, transitions on stale reads | one order per quotation, one live invoice per order, drafts only are edited |
| Products, categories, branches, warehouses | rows with one reference each, SKU sequence | create, update, remove | references checked in one query and written in another, the SKU reserved outside the transaction, a climb one ancestor at a time | SKUs unique, a forest, no reference lost unseen |
| Pricing `products/pricing` | cost, three levels, product's copy, history | `updatePricing`, formulas; the pricing tab of the web | overlapping updates, rounding of the margin, forms filled from old answers | copy = first level; cost, margin and price agree; the history tells the price |
| Audit and pool `prisma/` | `audit_log`, connections | wraps every create, update, delete | the audit row is outside the transaction; every open transaction needs a second connection | the log tells what happened; requests end |
| Accounts `auth`, `users` | user, sessions, reset tokens | login, refresh, logout, change, forgot and reset password; administration | counter computed from an old read, revocation in a second statement | no session outlives its revocation, the counter counts |
| Access `users`, `roles`, `branches` | roles of a user, permissions of a role, branches, default branch | replace a set, default branch, remove | two replacements, counts before a delete | sets are what was asked, the default is allowed |
| Permissions `*.controller.ts`, `rbac`, `prisma/seed.ts`, `web:App.tsx`, `web:layout/nav.ts` | none | who may call what | four lists kept by hand | menu, routes, pages and API agree |
| Request bodies `*/dto`, `web:pages` | none | what is parsed, what a form sends | two validations kept by hand | what a form lets through is taken |
| Web session `web:auth`, `web:lib/api.ts` | two tokens in localStorage, tabs, calls | boot, login, logout, renewal | one renewal for many calls, answers after a logout | one session in the store, every call ends |
| Web pages `web:pages` | list, details, dialogs, calls in flight | open, edit, save, press | answers and successes that come late | what is typed is saved where it was shown, once |
| Line pricing `web:pages/quotations.tsx` and two more | price of a line | choose product, level, type a price | an effect that runs again | a typed price stays |
| The rest | | | | section 9 |

Interactions: receipts and invoices call `applyMovementInTx` inside their own
transaction; a receipt advances the purchase order it is against; a quotation
becomes a sales order, an invoice closes it; products are read by all of them.
Every write goes through the audit extension and the pool. The web session
carries every call of the pages; pages send bodies and gate routes by the
permissions `me` answered. `PROJECT.json` lists every component with its files,
and under `hazards` each place where one of these behaviours bites.

## 2. Plan

Order: what moves goods and money first, then what every request passes
through, then the rest of the API, then the web.

1. **Stock engine**: `Kardex`, `KardexHistory`, `KardexSerial`, `StockLedger`,
   proofs. Done.
2. **Purchasing**: `ReceiptMatching`, `Purchasing`, `PurchasingOverlap`,
   `PurchasingSerial`, `PurchaseOrderBook`, proofs. Done.
3. **Sales**: `Sales`, `SalesOverlap`, proofs. Done.
4. **Audit and pool**: `AuditTrail`, proofs. Done.
5. **Catalogs**: `Catalog` (tree, warehouses, products, SKU sequence), proofs. Done.
6. **Pricing**: `PricingFormula`, `Pricing`, `PricingForm`, `LinePricing`, proofs. Done.
7. **Accounts and access**: `Accounts`, `WebSession`, `Access`, `Permissions`,
   proofs. Done.
8. **Web pages**: `DocumentPages`, `Bodies`, proofs. Done.
9. **Left**: proofs of `SameCustomer` and `FinalStatus` of Sales, and of `OnlyDraftChanges` of Purchasing; the reports and the page of roles of the web; the
   creation and the names of users.

A run checks what the requests together can break, whether it is proved too or
not. Definitions that no run lists (`StockNonNegative` and `TypeOK` of `Kardex`,
which are proved; `OnlyDraftChanges`, `FinalStatus` and their like) can be
checked by adding them to the configuration of their module.

## 3. The modules and the code

Common conventions. A request is a transaction slot `t \in Tx`; `pc[t]` names the
statement its handler runs next. One action is one statement that touches rows
other requests can see, and everything the handler computes up to the next one.
A committed row is a variable of its own; what a transaction has written is kept
apart (`draft`/`lock`, `own`/`hdr`, `cleared`) until `Commit`, so that a query
sees the committed rows overlaid with its own writes, as READ COMMITTED does. A
statement that needs a row another transaction has written is not enabled until
that one ends. `Interrupt` is the end of a transaction for a reason outside the
handler (Prisma's timeout, a lost connection, a stopped process); it can come at
any statement, and it rolls back. Operators marked `faulty` are used by no
specification: each is a plausible slip in the definition it stands above, and
shows which property notices it.

### Stock engine

| Module | Role |
|---|---|
| `Kardex` | the requests that move stock, with row locks, rollback, deadlock |
| `KardexHistory` | the same with history variables: sums, rows overtaken, updates lost |
| `StockLedger` | abstract: entries chain their balances, stock is the last one |
| `KardexSerial` | `Kardex` with one open transaction at a time; implements `StockLedger` |
| `Kardex_proofs` | theorems of the three |
| `MCKardex`, `MCKardexSerial`, `MCKardexHistory` | instances for TLC (`MCKardex` for finding 2 of section 6) |

`stock` and `draft` are the committed and the newest version of the rows of table
`stock`, `lock` the holder of each row; `kardex` is `stock_movement`, in commit
order, `nextId` its sequence. `Begin` opens a manual movement (`create`), a
transfer, or the stock part of a document; `ReadCost` is the transfer's read of
the origin; `ReadSnapshot`, `Reject`, `InsertMovement` and `UpsertStock` are the
steps of `applyMovementInTx` for one line; `LinkTransfer` closes the pair. A row
that does not exist yet reads as zero and, like any other, is locked by the
upsert that creates it. `RemoveProduct` is the soft delete of
`products.service.ts`. Quantities and costs are integers that stand for units of
the fourth decimal, and `RoundedDiv` rounds half up as `toFixed(4)` does.

### Purchasing

| Module | Role |
|---|---|
| `ReceiptMatching` | `resolveLines`, `coalesce`: the FIFO distribution, loop by loop, pure |
| `Purchasing` | one order, all requests on it and its receipts |
| `PurchasingOverlap` | the same with the set of kinds that overlapped |
| `PurchaseOrderBook` | abstract: the life of an order by units ordered and received |
| `PurchasingSerial` | one open transaction at a time; implements `PurchaseOrderBook` |
| `Purchasing_proofs` | theorems |
| `MCPurchasing`, `MCPurchasingOverlap`, `MCPurchasingSerial` | instances |

`order` and `lines` are `purchase_order` and `purchase_order_line`, `receipts`
the goods receipts by number, `nextLine` the sequence of line ids. A slot serves
one request after another. `ReadHeader` and `ReadLines...` are two actions
because a Prisma `include` is two queries; `StartClear` and `ClearLines` because
`deleteMany` picks its rows when it begins and deletes them when it gets their
locks. `AdvanceLine`, `CheckComplete`, `CloseOrder` follow `create` of
`goods-receipts.service.ts`. One order is enough: no handler reads two of them.

### Sales

| Module | Role |
|---|---|
| `Sales` | one quotation, the orders made from it or on their own, their invoices |
| `SalesOverlap` | the same with the history of writes made on a stale read |
| `Sales_proofs` | theorems of both |
| `MCSales` | instances |

`heads` holds the headers of `quotation` (id 1) and `sales_order` (later ids),
`batches` the lines, those inserted together as one batch, `invoices` the
invoices by number. The last statement of a transaction and its COMMIT are one
step here: between them only the row lock shows. The key-share lock of a foreign
key and the pending entry of a unique index are read off `pc` (`KeyShare`,
`NumberFree`). A deadlock's victim is one of the causes of `Interrupt`.

Receipts and invoices move stock by calling `applyMovementInTx` inside their own
transaction. For Kardex such a call is a `DOCUMENT` request, whose `Interrupt` can
come from the rest of the document; for Purchasing and Sales a rejected movement
is an `Interrupt` of the document. The cut is sound because a document shares no
row with the stock engine but the stock rows, and both sides allow the other's
failure at any point.

### Audit and pool

| Module | Role |
|---|---|
| `AuditTrail` | the audit and soft-delete extensions, transactions, the connections |
| `AuditTrail_proofs` | theorems |
| `MCAuditTrail` | instance |

`rows` holds the version of every audited row, named by the write that made it;
`audit` is `audit_log`; `req[r].mine` what an open transaction has written.
`ReadOld` and `WriteAudit` are the two statements of the extension on the raw
client, `Query` the statement they surround; `Open`, `Take`, `Free` and
`PoolTimeout` the pool. A transaction that expired (`TxExpire`) is noticed at its
next statement (`Broken`), so its audit rows may follow it. `commits` counts the commits
on each row, and `trace` notes the count when the old values were read and when the
write ran: what came in between is a commit of somebody else, said without
comparing the values the property is about. A soft delete of a row that was not
alive when the extension read it is a plain update and leaves no audit row
(`Unaudited`).

### Catalogs

`Catalog` (instance `MCCatalog`, proofs `Catalog_proofs`) holds categories,
branches, warehouses and products as entries with one reference. A request is
`Find` or nothing, `Reference`, `Climb` once per ancestor, for products
`EnsureSkuSequenceRow` and `ReserveProductSku`, and `Write`, whose outcomes are
those of the foreign keys. `under` and `during` are history: what others wrote
while a request ran.

### Pricing

| Module | Role |
|---|---|
| `PricingFormula` | the formulas of both sides, on integers of the last decimal |
| `Pricing` | cost, levels, copy and history of a product, `updatePricing` |
| `PricingForm` | the pricing tab of a product over `Pricing` |
| `Pricing_proofs` | theorems of both |
| `LinePricing` | the two effects that price a line of a document |
| `MCPricing`, `MCLinePricing` | instances |

`updatePricing` is four steps: the product is read, the levels are read, the new
values are computed and resolved (`Resolves`), all is written. The history
variable `past` says which level was last kept by an overlapped update.

Prices are kept in the fourth decimal (`Sub` of them are a cent): the creation of a
product stores its sale price, and so the first level, with up to four decimals as
they came, although `pricing.formula.ts` (lines 8 to 10) says that a price is
rounded when it is saved; `updatePricing` rounds what it writes. The form shows and
sends all the levels, so a save rounds also those nobody touched, which is what
`UntouchedKept` allows and no more. Going to another tab of the dialog and back
(`Return`) fills the form again over what was typed.

### Accounts, session, access, permissions

| Module | Role |
|---|---|
| `Accounts` | one account: password, counter, lock, sessions, reset token |
| `WebSession` | tabs of a browser over `Accounts`: store, boot, calls, renewal |
| `Access` | roles, permissions, branches and default branch of a user |
| `Permissions` | endpoints, seed, menu, routes and pages, without state |
| `Web_proofs` | theorems of `WebSession`, `Accounts` and `DocumentPages` |
| `Access_proofs` | theorems of `Access` and one of `Permissions` |
| `MCWebSession`, `MCAccess` | instances |

`Accounts` has one action per statement of `auth.service.ts`; a password is
compared with the row read before; of the reset tokens only the latest is kept, though
earlier ones stay valid. A login pressed on the login page while the tab still boots is
left out of `WebSession`. There a renewal is shared by the
calls of a tab, as the pending promise of `lib/api.ts` is. `Access` writes a set
as a batch (`Snapshot`, `DeleteRows`, `InsertRows`, `Commit`). A row is an item
with the replacement that inserted it, because in READ COMMITTED a row that another
batch deleted and inserted again is a new one: the delete, which took its snapshot
before, waits for the other batch and does not find it. So a set replaced twice at a
time is the union of the two, or the second batch fails on a key that both name, or
one of the two is the victim of a deadlock (`Interrupt`). `UsersService.create` takes any branch of the company for
the default and assigns none, so `Init` may begin there; the comment of the
migration `20260701000000` (lines 11 to 13) counts on the service for the
consistency of the two.

`Permissions` has no variables. What holds of the lists is stated as named
assumptions, which TLC evaluates when it runs `MCAccess`: every code is seeded
(and which seeded codes nobody asks for), an endpoint asks for one code, menu,
route and list of a page agree; and, the other way round, which selects stay
empty for a user with the code of the page alone and that buttons are not hidden
from who may only read.

### Web pages and bodies

| Module | Role |
|---|---|
| `DocumentPages` | the pages that list and edit documents and records |
| `Bodies` | parsers of the API and schemas of the web, without state |
| `Web_proofs` | theorems of `DocumentPages` |
| `MCDocumentPages` | instance |

A page is a record: what its rows offer, what its editor asks first, whether its
documents are numbered, which of its forms have a part that an answer fills. Buttons are
not hidden from who lacks the permission (`allowed`, one of `Grants`), and the API answers
their press with a 403. An effect fills a part of some forms when the answer of a
query of their own arrives for the first time or with other values (`FillPart`), over what
was typed there: the price of a line, the branches of a user, the lines of a receipt
against an order, the prices of a product, which are lost too when their tab is left and
entered again (`Return`) and saved by a button of their own (`SavePart`). The users page
lets its user save before the branches have arrived; what it then sends of them is left out. `calls` holds what is in flight, by slot; `Serve` is the API, `Hear`
the callback of a query or mutation. `Bodies` abstracts a value to its class (the
classes are what the tests of the code tell apart), and its assumptions, evaluated
with `MCDocumentPages`, say exactly which values a form lets through that the API
answers with a 400, where a zero passes for a positive amount, and which optional
dates an editor cannot clear.

## 4. The runs

| Run | Question | Instance | Distinct states |
|---|---|---|---|
| `kardex_history` | What holds whatever requests overlap, where exactly does stock drift from the kardex, and do all requests end? | 3 requests out of entry, exit, transfer, document of 3 lines; 1 product, 2 warehouses | 141 198 |
| `kardex_serial` | One at a time, does the engine implement the ledger, and are costs conserved? | 4 requests out of 10, two of them of zero units | 555 500 |
| `purchasing_overlap` | What holds whatever overlaps, and which overlaps break the rest? | 2 slots, 5 requests out of 11; 2 products; orders of 1 or 2 lines; line ids up to 3 | 2 634 201 |
| `purchasing_serial` | One at a time: life cycle, FIFO | 1 slot; orders of up to 3 lines, 3 receipt numbers, receipts of 1 or 2 lines, direct receipts | 577 023 |
| `sales` | What holds whatever overlaps, and what only while nobody writes late? | 2 slots, 7 requests; 1 quotation, up to 2 orders of it, 2 invoice numbers | 1 219 252 |
| `audit_trail` | What do the audit rows say of the tables, and do requests end? | 3 requests, transactions of 1 or 2 writes and single writes, 3 rows, 3 connections | 95 925 |
| `catalog` | Tree, sequence and references under checks outside transactions | 3 requests out of moves, creations and removals over 3 categories, a branch, a warehouse, a product | 143 213 |
| `pricing` | Copy, history and trio of a product | 2 users, one with the form; 2 levels; 3 updates | 871 726 |
| `session` | Store, sessions, counter, end of every call | 1 tab, 2 other slots (device, administrator); lock at 2 attempts; 1 reload | 97 837 |
| `access` | Sets, default branch, removals | 3 requests; 2 roles, 1 permission, 2 branches | 807 777 |
| `web_documents` | What is saved, offered, created, discarded and shown | 10 pages in turn; 2 documents, one also changed by others; 2 calls in flight, 2 openings of an editor, 3 presses on the quotations and 4 on the others; on three pages also a user who may only read | 743 937 |
| `line_pricing` | Does a typed price stay? No. | 1 product, 2 levels | violated |

What they show:

* **Stock.** Committed transfers are paired; a row drifts from the sum of its
  movements *only* if a request committed a quantity read before another's commit
  (`DriftOnlyByOverlap`); a transfer uses the origin's current cost unless the
  origin was committed between its two reads; every request ends although
  transfers cross. One at a time, the average cost stays between the lowest and
  highest entry cost, and the engine is the atomic ledger.
* **Purchasing.** Whatever overlaps, an order with receipts is never lost or back
  in DRAFT. Over-receipt and an order of some units left APPROVED although complete
  happen only to receipts that overlap. One at a time, the oldest line fills first. The
  bodies let zero units through as "00" (`Bodies`), so orders and receipts have
  them here too: an order of nothing but zero units is complete when it is approved
  and stays APPROVED until a receipt of zero units against it, without any overlap.
* **Sales.** One order per quotation, one invoice per order, an INVOICED order
  with its invoice, orders that match their quotation and frozen documents, each
  unless a request of the named kind wrote on a document it had read before it
  changed.
* **Audit.** A change committed by a transaction has its audit row; a single
  change lacks one only while its request is at it or failed there, or, a soft delete, if
  an earlier one had deleted the row before the extension read it, or the row was created
  only after that. An
  audit row of a change that is not there comes from a transaction that is not
  over or did not succeed. The old values are those of the row replaced, unless
  the transaction itself had written it or somebody committed on it in between. A full pool in
  which everyone waits for a second connection is left by the timeouts.
* **Catalogs.** Categories are a forest unless two moves on one cycle overlapped,
  and a climb into such a cycle ends. SKUs leave gaps and never repeat. An entry
  loses its parent or branch to a removal only if it came after the count.
* **Pricing.** The product row agrees with its levels whatever overlaps; the last
  row of the history tells the price unless an update put back what it had read;
  cost, margin and price agree unless updates overlapped; a save of the form
  writes a level its user did not touch and nobody else changed back as it was, rounded
  to the cent.
* **Session.** The two tokens of the store are of one session unless a renewal
  was answered after its refresh token had left; a session that still works was
  opened with the current password unless its login was overtaken, or the
  revocation is still to come or died; the counter counts unless two attempts
  overlapped; calls, boots, logins and logouts end.
* **Access.** Nothing of the set asked for last is missing, and nothing else is in
  it unless the last replacement overlapped the one before; the default branch is allowed unless it was written from an older
  reading, given at creation, or lost its permission; assignments are lost to the
  removal of a *role* only if they came after the count. The removal of a branch
  counts none and takes them along.
* **Web.** Values are saved in the document they were shown for unless a second
  one was asked for before the first was answered; a button is refused only if
  its row is out of date or its user lacks the permission; an editor creates once, unless a save that was seen to
  fail had gone through and no number stops the next; a form goes away with a Cancel or
  its own success, or with the success of a dialog cancelled in flight, and what was typed
  in a part that an answer fills also with a first or a new answer (of a product's prices
  with their tab, too); the list catches up.

Each property is accompanied in `PROJECT.json` by a mutant: a slip in the code
model under which the same run finds the property violated. Operators marked
`faulty` are those slips; no specification uses them.

Bounds, all named. `Tx`, `Req`, `Slot` are requests that run at the same time.
Two show every lost update and every late write of the documents, since each
handler's checks involve one document; the third in Kardex lets another request
commit between two reads of a transfer whose own upsert waits and gives cycles of
three, in Catalog closes a cycle while someone climbs into it, in AuditTrail
fills the pool beside a single write. `Budget` bounds requests begun: 5 approve an
order, edit or cancel it and receive twice; 7 send, accept, convert twice,
confirm and invoice twice; 3 price updates let one be overlapped and a third
come after. `MaxLine`, `MaxBatch`, `MaxDoc` bound replacements and new orders *by
the id at which no more begin*. `MaxVersion`, `MaxOpening`, `MaxPresses` bound the
writes on a document, the dialogs opened and the buttons pressed, on the quotations
three, which have most buttons, and elsewhere four: two openings
are what a late success needs to meet the wrong dialog. `MaxSessions` and
`MaxReloads` bound a tab, `MaxAttempts` is 2 instead of 5. In `MCPricing` a margin
has two decimals and a price one more than it is rounded to (`Unit`, `Sub`), which keeps
the halves that round. Orders that come from no quotation are in no run; their handlers are the
same and the theorems cover them. Symmetry is used on slots and, in Sales, on
order and invoice numbers, which the definitions treat alike and never CHOOSE
from, and in no run with a liveness property.

`CHECK_DEADLOCK FALSE` stands where the system may stop: requests are finitely
many, so all of them end. `purchasing_serial` and `line_pricing` check it.

## 5. Fairness

* **API** (`LiveSpec` of `AuditTrail` and `Catalog`, `HLiveSpec` of
  `KardexHistory`). `WF(Step(t))`: a handler whose next statement can run does run
  it: Node resumes an awaited promise and PostgreSQL answers.
  `WF(DeadlockVictim(t))`: PostgreSQL looks for a cycle of lock waits after
  `deadlock_timeout` and aborts a member. `WF(TxExpire(r))`: Prisma ends an
  interactive transaction after its timeout; `PoolTimeout` is part of `Step`, for
  `pool_timeout` is finite too. Without the latter two a full pool waits for ever,
  which the mutant of `EveryRequestEnds` shows.
* **Browser** (`Fairness` of `WebSession`, `PagesFairness` of `DocumentPages`). The API answers
  or the call fails, and a callback that is due runs: as long as calls are waiting one
  of them is served, and as long as answers are, one is heard. A refetch that React
  Query has begun is answered.
* Nothing is assumed of `Begin`, `Interrupt`, `Crash`, `Abort`, `Reload`, of what
  users press or type, or of the expiry of a lock: no request need ever arrive,
  and none is saved by a failure.

Weak fairness is enough because requests are finitely many: a request that waits
for a row is overtaken finitely often.

## 6. Findings

`line_pricing` is the run that shows one: `web:pages/quotations.tsx:1002` says that
a price typed by hand is respected. The effect at line 1047 copies the price of
the level into the line whenever the prices of its product arrive, also when a
saved document is opened to be edited: the typed price is gone, and the next save
stores the level's. `sales-orders.tsx` and `invoices.tsx` hold the same code.

The following were found too. The definitions are in the modules; to see one,
write a configuration with the constants of the run named, changed as said.

1. **Over-receipt.** The integration test of receipts says that receiving beyond
   what is pending is a 409. Two receipts of the same units both read them as
   pending and both commit. `MCPurchasing` with `Spec`, the constants of
   `purchasing_overlap` without `Budget`, `Job <- Receipts`; INVARIANT
   `NoOverReceipt`.
2. **Drift.** `docs/backlog-fase2.md:9` and the migration of `stock_movement` say
   that `stock` is kept in step with the kardex. Two requests that read the same
   row before either writes it both insert their movement, and the second
   overwrites the first one's row. `MCKardex` with `Spec` and the constants of
   `kardex_history`; INVARIANT `StockEqualsLedger`.
3. **Complete and APPROVED.** `goods-receipts.service.ts:93` says that the order
   becomes RECEIVED when all its lines are complete. Two receipts that complete one
   line each both still see the other's line pending. As 1 with `Job <- Apart`;
   INVARIANT `CompleteIsReceived`. (An order of nothing but zero units is complete
   from its approval too, with nobody else involved; see section 4.)
4. **Dangling order.** The foreign key from a quotation to the order made from it
   was left for a later migration, which does not add it: a draft order can be
   deleted and the quotation stays CONVERTED. `MCSales` with `Tx = {t1}`,
   `MaxDoc = 2`, `Budget = 5`; INVARIANT `ConvertedOrderExists`.
5. **A typed price refused.** `products/pricing/pricing.service.ts` says that a
   level sent with price and margin is refused only if the two disagree by more
   than 0.0001. The margin of a price with two decimals, rounded to four, gives
   back another price when it is large, and the form sends both. `MCPricing` with
   `FormSpec`, `Unit = 10000`, `Sub = 100`, one user and one level,
   `Bodies = {}`, `Patches = {}`, `Created <- RealCreated`, `Budget = 1`,
   `Costs = {10000}`, `Prices = {125000, 170000}`, `Margins = {}`; INVARIANT
   `TypedPriceAccepted`.
6. **No way back to /login.** `web:lib/api.ts:10` says that after a renewal that
   fails the interface goes back to /login. The store is emptied, but the user of
   the open tab stays until it is reloaded. `MCWebSession` with `Req <- MCTabReq`,
   `Other <- MCNone`, `MaxReloads = 0`; PROPERTY `BackToLogin`.

## 7. What is proved

For every value of the constants that satisfies the assumptions, checked by
TLAPS (the file names the theorem's module):

| Theorem | Statement | Inductive invariant |
|---|---|---|
| `Kardex_proofs!TypeCorrect` | `Spec => []TypeOK` | `KardexInv` |
| `Kardex_proofs!StockNeverNegative` | `Spec => []StockNonNegative` | `KardexInv` |
| `Kardex_proofs!EmptyRowsCarryNoCost` | `Spec => []NoUnitsNoCost` | `KardexInv` |
| `Kardex_proofs!NoOtherDrift` | `HSpec => []DriftOnlyByOverlap` | `HistoryInv` |
| `Kardex_proofs!TransfersKeepCost` | `HSpec => []TransferAtOriginCost` | `HistoryInv`, `PriceInv` |
| `Kardex_proofs!TransfersPaired` | `Spec => []TransferPaired` | `TransferInv` |
| `Kardex_proofs!SerialImplementsLedger` | `SerialSpec => ImplementsLedger` | `SerialInv` |
| `Kardex_proofs!CostsStayWithinEntries` | `SerialSpec => []CostWithinEntries` | `SerialCostInv` |
| `Purchasing_proofs!ReceiptsKeepOrder` | `Spec => []ReceiptsKeepTheirOrder` | `OrderInv` |
| `Purchasing_proofs!HeaderWrittenOnce` | `Spec => []HeaderInv` | `OrderInv` |
| `Purchasing_proofs!ClosedUnlessOverlapped` | `OSpec => []ClosedUnlessRace` | `RaceInv` |
| `Purchasing_proofs!CancelledStaysCancelled` | `OSpec => CancelledIsFinal` | `RaceInv` |
| `Purchasing_proofs!ReceiptsFit` | `OSpec => []ReceiptsFitUnlessRace` | `FitInv` |
| `Purchasing_proofs!OldestFilledFirst` | `SerialSpec => []OldestLineFirst` | `SerialInv` |
| `Purchasing_proofs!SerialImplementsBook` | `SerialSpec => ImplementsBook` | `SerialInv` |
| `Purchasing_proofs!ResolveSpec` | what `Resolve` plans for any receipt | none (no state) |
| `Sales_proofs!InvoicesKeepOrder` | `Spec => []InvoiceKeepsOrder` | `SalesInv` |
| `Sales_proofs!OrdersKeepQuotation` | `Spec => []OrderKeepsQuotation` | `SalesInv` |
| `Sales_proofs!OneOrderEach` | `HSpec => []OneOrderPerQuotation` | `OverlapInv` |
| `Sales_proofs!OneInvoiceEach` | `HSpec => []BilledOnce` | `OverlapInv` |
| `Sales_proofs!InvoicedMeansBilled` | `HSpec => []InvoicedHasInvoice` | `StatusInv` |
| `Sales_proofs!FrozenPastDraft` | `HSpec => FrozenAfterDraft` | `FrozenInv` |
| `Sales_proofs!OrdersMatchQuotation` | `HSpec => OrderMatchesQuotation` | `MatchInv` |
| `AuditTrail_proofs!AuditInvariant` | `Spec => []AuditInv` | `AuditInv` |
| `AuditTrail_proofs!ChangesHaveAuditRows` | `Spec => []ChangesAudited` | `AuditInv` |
| `AuditTrail_proofs!PhantomsAreOfTransactions` | `Spec => []PhantomOnlyFromTransaction` | `AuditInv` |
| `AuditTrail_proofs!OldValuesAreTrue` | `Spec => []OldValuesTrue` | `AuditInv` |
| `Catalog_proofs!SkusOnce` | `Spec => []SkusAccounted` | `CatalogInv` |
| `Catalog_proofs!DetachedLate` | `Spec => DetachedOnlyByLateArrival` | `CatalogInv` |
| `Catalog_proofs!ForestKept` | `Spec => []ForestUnlessMoves` | `TreeInv` |
| `Pricing_proofs!CopyAgrees` | `FormSpec => []ProductAgrees` | `FormInv` |
| `Pricing_proofs!HistoryIsTold` | `FormSpec => []HistoryTells` | `FormInv` |
| `Pricing_proofs!TriosSquare` | `FormSpec => []TrioSquares` | `FormInv` |
| `Pricing_proofs!UntouchedStay` | `FormSpec => UntouchedKept` | `FormInv` |
| `Pricing_proofs!PricesTyped` | `FormSpec => [](PricingTypeOK /\ FormTypeOK)` | `FormInv` |
| `Web_proofs!BrowserTyped` | `Spec => []TypeOK` | `SessionInv` |
| `Web_proofs!TokensOfOneSession` | `Spec => []StoreIsOneSession` | `SessionInv` |
| `Web_proofs!SessionsStayCurrent` | `Spec => []LiveSessionsCurrent` | `SessionInv` |
| `Web_proofs!AttemptsAreCounted` | `Spec => []AttemptsLock` | `SessionInv` |
| `Web_proofs!ValuesSavedWhereShown` | `PagesSpec => []SavedWhereShown` | `PagesInv` |
| `Web_proofs!FreshPressesAccepted` | `PagesSpec => []FreshPressAccepted` | `PagesInv` |
| `Web_proofs!CreatedOnlyOnce` | `PagesSpec => []CreatedOnce` | `PagesInv` |
| `Web_proofs!InputStays` | `PagesSpec => []InputKept` | `PagesInv` |
| `Access_proofs!ReplacedWhole` | `Spec => []SetsAreWhole` | `AccessInv` |
| `Access_proofs!DefaultKept` | `Spec => []DefaultAllowed` | `AccessInv` |
| `Access_proofs!AssignmentsLostLate` | `Spec => AssignmentLostOnlyIfLate` | `AccessInv` |
| `Access_proofs!MenuOpens` | what the menu shows opens and is answered | none (no state) |

Assumptions: only those the modules name (`RequestAssumption`, `JobAssumption`,
`OrderLinesAssumption`, `ContentAssumption`, `NoTxAssumption`, `NoneAssumption`,
`ScriptAssumption`, `InitialAssumption`, `ForestAssumption`, `SkuAssumption`,
`AccessAssumption`,
`AccountsAssumption`, `SessionAssumption`, `LevelAssumption`, `ScaleAssumption`,
`FormAssumption`, `BoundAssumption`, `PagesAssumption`):
what the DTOs and controllers accept, that a null is no row, that ids are serial,
that the categories there are to begin with are a forest,
that the requests of the browser's tabs are not those of anybody else, that the
calls of a page in flight are finitely many.
TLC evaluates each on the runs of its module. The assumptions of `Permissions` are
not used in a proof: `MenuOpens` follows from the definitions.

The arguments, in short.

* `KardexInv` adds `PositionInv` to the types and bounds: the balance check is
  made on a snapshot that may be old, so what keeps stock from going negative is
  not the committed row but that every row ever written was *checked as it was
  computed*; between check and write the invariant carries
  `snap.qty + line.qty >= 0`. It also counts the movements inserted, without which
  the link of a transfer could index a row that is not there.
* `HistoryInv`: `DriftOnlyByOverlap` alone says nothing of uncommitted rows.
  `RowInv` says that the draft of a lock holder is the committed row plus its own
  pending movements unless it was overtaken, and that a snapshot is current
  unless it was overtaken; `Commit` then adds the same amount to both sides.
* `OrderInv`: the property relates committed rows, but a step may break it through
  an uncommitted one. `HeaderInv` says that at most one header is written and not
  committed, that an edit's has the status of the committed order and any other a
  status after DRAFT; `ReceiptInv` that once a receipt has found its order APPROVED
  no DRAFT comes back, and that from its insertion on (the foreign key's lock) the
  order cannot go. `PlaceInv` says where each kind of request can be, so that the
  writer of a header is known from its kind.
* `SalesInv`: `HoldInv` says that the document an uncommitted order or invoice
  refers to exists (the foreign key's lock against a concurrent deletion);
  `BillInv` and `OriginInv` strengthen the two theorems: an invoice refers to an
  order and never to the quotation, and the quotation of an order has its
  reference, which no update or transition resets.
* `OverlapInv`: `FreshInv` says what a request that is not stale may still count
  on: a conversion on a quotation without order, an invoice on a CONFIRMED order,
  a confirmation on a DRAFT. `BilledInv` says that an order with an invoice is
  INVOICED or CANCELLED (a late cancellation writes it), from where no fresh
  invoice starts.
* `RaceInv`, for `ClosedUnlessRace`: an edit under way has read a DRAFT and a
  receipt an APPROVED order, and unless an edit overlapped an approval no request
  of one kind is past its first query while one of the other is (`EditsInv`). So
  nobody but overlapping receipts can change the lines that a receipt has found
  complete (`CheckedInv`), the order a receipt found APPROVED is not RECEIVED by
  another, and the lines an approval found are still waited for (`FreshInv`).
  `CancelInv` does the like for a cancelled order. `OverlapKnown` ties it to the
  history: who is open together has met.
* `MatchInv` of Purchasing, under `ReceiptsFitUnlessRace` and the serial theorems: of each product
  the lines count as received what the receipts brought, and oldest lines are
  filled first (`CountInv`, `LinesInv`). A receipt under way has a plan: what it will
  leave of each line is what remains less what it brings, oldest first, and each line
  it fills has been written so or is still awaited in its updates (`Planned`,
  `Awaited`); a receipt of zero units has none and goes on to the completion test. `ResolveSpec`
  makes the plan true when it is read; it stays true because nobody else writes the
  lines meanwhile (`Clashless`), and the commit then adds to both sides the same
  units. `FitInv` says all this of histories in which no two receipts and no edit
  and approval met.
* `SerialInv` of Purchasing: the request that is open alone is still admissible at
  every step (`StageInv`), so every commit is a step of `PurchaseOrderBook` with
  the units of the lines summed by product: a receipt adds what it brings, which may
  be nothing, finds the order complete exactly if all sums are reached, and the order
  is RECEIVED then. An order of zero units is complete from its approval and waits for
  a receipt, as the code has it.
* `PriceInv`: at the first line of a transfer the cost in its hands is that of the
  origin's row as it stands (before its read) or as it was read, unless `repriced`
  notes that somebody committed that row between the two reads; until then the
  transfer holds no row lock, so its own writes cannot have moved it.
* `AuditInv`: the writes of a request up to where it is are in `trace`; each but
  the one at hand has its audit row; those of a transaction are committed exactly
  when it is done. A row, an old value read and an audit row name only versions
  that were committed (`Known`), what a transaction has written names its own.
  The old values read are those of the row as long as nobody has committed it since
  (`SeenOf`, with the number of commits at the read and at the write in `trace`), and
  so are those of the row replaced unless the transaction had written it (`OwnOf`);
  `Excused` says of each soft delete without an audit row that an earlier one, or a
  later creation, is among the numbered commits of its row.
* `StatusInv`, for `InvoicedHasInvoice`: the number of an invoice about to be issued
  is free and no two requests are about to issue the same, and a cancellation whose
  read is fresh still finds DRAFT or CONFIRMED; of confirmations `OverlapInv` says
  the like.
* `FrozenInv`, for `FrozenAfterDraft`: the lines an edit marked to remove are lines
  of its document (ids come from a sequence and are never given twice), and an edit
  or deletion whose read is fresh still finds DRAFT or SENT.
* `MatchInv`, for `OrderMatchesQuotation`: a conversion on a fresh read holds the
  customer of the quotation and its lines with a product, and the quotation is
  ACCEPTED (`OfferInv`); batches of lines and requests name documents that were
  created before (`DocInv`), so a new order has only the lines it was created with.
* `TransferInv` says of every request at hand what the movements it has inserted
  are and when they point at each other (`PairInv`); the ids are the sequence's, so
  nobody else has them, and a commit appends the two together.
* `SerialInv`, for the refinement: the open request's movements continue the chain
  of balances of the kardex, and every row it sees is the last balance but for the
  one whose movement it has just inserted. `SerialCostInv` adds that what it sees
  is priced within what was bought, and that a transfer of some units carries the
  cost of a row it found units in; the average of two costs, weighted and rounded half up, stays
  between them, and a row without units has cost zero and is bought anew.
* `FormInv`: a rounded margin or price is a natural number, and a margin a fraction
  of one (`PricingTypeOK`); an answer shows the prices of the levels that have not
  changed since (`AnswerCurrent`), a form its last answer where nobody typed
  (`ShowsAnswer`), and so a request carries the present price of each level that
  the user left alone (`SentCurrent`), which `updatePricing` rounds and writes again.
* `SessionInv`: `StoreIsOneSession` is inductive once the slot of a tab's renewals
  is known to serve renewals only (`RenewalsInv`). For `LiveSessionsCurrent` the
  types are what is needed: ids come from a sequence, so a new session cannot
  carry the id of an old one, and `PlaceOf` tells who can be at the second statement
  of a change of password.
* `PagesInv`, for the pages of documents: what a page offers in a status, the api
  admits there (`Fits`, read off the records of the pages by `OffersFit`), so that a
  refusal is of a document that has moved on or of a user who lacks the permission. There is
  an opening for each editor asked for (`RoomInv`), an editor has one save in
  flight, and is gone before its answer only if it was cancelled or another success
  swept it away (`SavesInv`, `SweptInv`); what each step may do to the part of a form
  that an answer fills is `EditorStep`, from which `InputKept`, an action property,
  follows. What an editor has created is bounded by the failures
  its user saw, one less while it can still be pressed (`MadeInv`); and until a
  second document is asked for too early one editor at a time is asked for or open
  and its form, its dialog and its save name one document (`ShownInv`).
* `CatalogInv`: `DetachedOnlyByLateArrival` is about one step, `Delete`; what makes
  it true was checked steps before, in `Find`. `RemovalOf` carries it: while a
  removal is at its write, every entry that refers to its row is a product, which
  the foreign key protects, or was written since it began. Each write by another
  request that could break that is noted in `during` (`WroteFacts`, `RowStep`).
  `SkuInv` says who has each number below the sequence, that no two requests
  share one, and that a product's number came from a request that is done, so that
  a create with a new number adds a product nobody else has.
* `TreeInv`, for `ForestUnlessMoves`: a circle of parents is stated as a set of
  rows no reference leads out of (`Circular`), which needs no recursion. While a
  category is moved, a set that its new parent is in, that only the moved row leads
  out of and of which nobody wrote another row since the request began (`Leads`)
  holds the ancestor the climb is at; null is in none, so a climb that ends at
  null leaves no such set (`ClimbedOf`), and the write closes no circle but one
  with a row somebody wrote meanwhile. `WritesKeepClimbs` is what the writes of
  others do to it. `KindInv`, the kinds of references, keeps products and
  warehouses off the circles.
* `AccessInv`: a set is whole between batches because an open batch whose set
  nobody has replaced since its snapshot has deleted all there was (`BatchOf`); if
  somebody has, the commit notes it (`mixed`), and what it inserted itself is there all
  the same, under a version of its own. The rows of the snapshot, those it deleted and
  the version it began at are related to the set as it is. The default is allowed as long as
  the reading it was checked on is the present one: `slack` is set exactly where a
  write comes later than its reading.

## 8. What is only model-checked

Liveness: `FinishesOnceBegun`, `EveryRequestEnds`, `CallsEnd`, `ListCatchesUp`.
TLAPS 1.4.5 has no reasoning about fairness or ENABLED. Every other property of a
run that passes is a theorem of section 7. That the instances of section 6 violate
what they are said to violate is TLC's word too.

A theorem that needs a sum or a loop needs induction over data, and the library's
induction theorems take an operator as a parameter, which no installed prover can
instantiate. The proofs use sets in their place, which are first-order:

* among the finite subsets on which a statement fails there is a least one, because
  strict inclusion of finite sets is well-founded (`Smallest`); so the fold of
  `SumOf` is unfolded (`SumUnfold`) and sums are natural numbers, split, and change
  by what one value changes (`SumNat`, `SumAny`, `SumChange`);
* a set of numbers that holds 0 and the successor of each of its members holds all
  of them; so the loops of `resolveLines`, which `ReceiptMatching` writes as recursive
  functions, exist and stay in the set of values that their turn stays in, with what
  it adds up (`Recursion`). That is why the loops are recursive functions there and
  not operators.

These lemmas cannot be stated once for all operators: each fold takes its own. The
theorems about other components avoid folds, and carry a `ShapeInv` that says
nothing of totals; the balances of the ledger are those of its last entry of a row.

## 9. Not modelled

* **In what is modelled**: amounts finer than the four decimals stored (a receipt or
  an order is of whole fourth decimals); a login while the tab boots; password reset
  tokens but the latest; the order of the price history by the time a transaction began;
  taxes, discounts, currency and exchange rates of
  documents; salespeople, dates and notes; renumbering of a document by an update;
  the read-only queries (lists, stock queries). Totals shown by the forms are
  computed in floating point. The stock movements of a document are modelled in
  `Kardex` and not repeated in Purchasing and Sales (section 3).
* **Partly**: of users, the creation and the names; of branches, the main one; of
  the extensions, `upsert`, the `*Many` calls, the filters on reads and the tenant
  column; of the web, the layout, the reports of stock and kardex, the pages of
  roles and company, contacts and addresses of a partner.
* **Left aside**: exchange rates and currencies (single statements; the
  conversion is floating point); the services of partners and the other catalogs
  (single statements under unique keys, while their bodies, permissions and pages
  are modelled); request context (no shared state); mailer and health checks
  (I/O); the web store (a placeholder); schema and deployment.
