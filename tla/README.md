# ROMES 3.0 in TLA+

ROMES is the manufacturing-execution system of a maker of signs and banners: a
Spring MVC application (Java 8, Hibernate 5.4, PostgreSQL) with a web front end
for the office and a tablet interface (`Controller/Android`) for the floor and
the fitters. This directory holds TLA+ specifications of its core, the TLC
configurations that check them, and TLAPS proofs of the results that matter
most. Java paths below are relative to `src/src/main/java/com/company/ROMES/`,
scripts to `src/src/main/webapp/resources/js/`.

## 1. The system

### How handlers run

Every request is one call of a service method. It opens its own Hibernate
`Session` and transaction, `find`s rows, changes the objects in memory, commits,
and closes the session in a `finally` block (`functions/SessionMethod.java`
rolls back what was not committed). There is no row lock, no `@Version`
column, no `@DynamicUpdate` and no in-process lock. What follows from that, and
what every module here builds on:

* the values a handler works with are those of the moment of its read;
* a flush writes **every column** of a row that changed in the session, and
  nothing of a row that did not: overlapping handlers lose each other's
  updates, also of columns neither of them meant to change;
* an UPDATE or DELETE of a row that is gone fails and rolls the handler back;
  foreign keys refuse to delete a row others refer to;
* an entry of an `@ElementCollection` map is inserted or updated according to
  what the session read, and a wrong guess fails;
* ids come from `GenerationType.AUTO`: **one** sequence for all tables.

### How pages run

The office works in one browser page with a strip of tabs; every menu entry is a
fragment that `TabFuncs.js` loads into its tab and a script that attaches
handlers to it. A handler asks the server with `$.ajax` and goes on: the answer
arrives whenever it arrives, in any order, and finds the page as it is then.
What the modules about pages build on:

* a page shows what the server held when it was loaded; a post sends what the
  page shows, however old, and the server compares it with nothing;
* the identity of what is posted sits in a hidden field, a global or the first
  row of a table, which an answer or a click fills;
* a reload forgets the answers under way, not the posts;
* a select box without a selection selects the first option it is given.

### Components

| component | state | operations | talks to | what is hard | what makes it correct |
|---|---|---|---|---|---|
| Inventory (`OrderHistoryService`, `ShippingService`, `ErrorService`, `OrderHistoryServiceImp`, `MeterialService`) | purchase orders, lots, counts per location, stock per material, the `srhistory` ledger | create / edit / delete order documents, store a delivery, release a lot, scrap part of a lot, edit a material | tablets store and release while the office edits | one fact kept in four places, read-modify-write with stale reads, packing arithmetic | the four books agree; nothing leaves a lot unbooked; a released lot stays released; overlap loses updates but never invents deliveries |
| Received orders and work orders (`ReceviedOrderHistoryService`, `WorkOrderService`, `ProductionPlanService`) | orders, work orders with counts and flags, change histories | create / update / delete, report pieces, declare complete, fail, remake, choose printer | plans construction; refuses deletes through foreign keys | two tables answer to one request id; failures, remakes and reports in any order; three copies of the planning code | finished means the plan was met or a failure is on record; finished and installed implies planned; counts add up |
| Construction (`ConstructionService`, `Controller/Android/FileUpload`, `ProductDefectService`) | plans, sites, results | plan, confirm, upload a result, delete a result | created by work orders; used by fitters and office | two ids from the client, a search by the wrong id, stale plan rows | a complete plan is built; a built site has a result |
| Tab strip (`TabFuncs.js`, `TabInit.js`) | tabs of each window, `sessionStorage`, `localStorage` | open, select, close, reload, load and wire a page | every page lives in a tab | positions as keys, gaps after a close, one "open" entry for all windows, late answers | storage describes the strip; a reload brings the tabs back; a page that is shown comes alive |
| Order page (`OrderInfoForKS.js`) | forms, select boxes, the work order sheet | choose company and brand, create, update, delete orders, register work orders | received orders, brands | every box is filled by an answer of its own | an order's brand is its company's; a work order is for a shop of the order's brand |
| Design documents (`DocumentForApproval.js`, `DocumentForWorkOrderImp`) | documents, approvals, flags | register, update, submit, delete | orders | check-then-insert, the id comes from an answer, change after approval | one document per order; what was submitted is final |
| Location tree (`locationEvents.js`, `LocationMasterImp`, `LocationMasterDAO`) | parent, children, level | create, move, delete | Inventory counts per location | orphan removal, no cycle check, stored levels, one handler more per click | a forest whose levels match; stock keeps its location; requests end |
| Brands and branches (`BrandManagement.js`, `BrandServiceImp`, `GeoCoderService`) | stores, the list of each brand | load, edit, add, save, delete, import | geocoder, orders | a transaction per row, rows older than the table, stores found by address | every store in its own brand's list; a save changes what was edited; used stores stay |
| Accounts (`login.js`, `UserService`, `SystemM/UserInfoService`, `AuthorityDAO`) | accounts, roles | sign up, accept, change a role, remove, account page | login | roles shared by accounts, check-then-insert, whole rows written | one account's role at a time; removed means removed |
| Process chain (`ProcessMasterService`) | before and after links | create, update, delete | - | two directions stored separately | links are mutual, no dangling link |
| WebSocket hub (`WebSocketServer`) | list of sessions, map of names | connect, name, broadcast, close | pages | shared collections without locks, a send that throws | everybody connected hears a broadcast |
| Master data, reports, logs, notices, spreadsheets, messages, printers, controllers, other pages | rows, files | create / read / update / delete | - | pure I/O or independent rows | - |

The hazards, each at its line, are in `PROJECT.json`.

## 2. The plan

1. `Inventory` (done), with `StockLedger` as its abstract specification;
   `Inventory_proofs` (done).
2. `Construction` (done).
3. `WorkOrders` (done), which extends `Construction` and implements it;
   `WorkOrders_proofs`, about both (done).
4. The client, with the services behind it: `TabStrip`, `OrderPage`,
   `DesignDocument`, `LocationTree`, `Branches`, `Accounts`, each with a module
   of proofs of its own (done).
5. Left: the page of purchase orders (`Orderhistory.js`) in front of
   `Inventory`; a new brand with its stores (`registerBrandTotal`); the lock
   after wrong passwords; the check tables of `ButtonEvt.js`; the WebSocket hub
   as a set of recipients.

Every invariant, action property and refinement that a run checks is a theorem;
the two liveness properties are not (section 6).

## 3. The modules

### Inventory

Rows are records: `orders` (`OrderHistory`), `lots` (`Lot`), `shelf`
(`LocationMaster.productStocksMap`, one entry per location and material, or
`NoEntry`), `stock` (`Material.stockCount`). `txn[s]` is what session `s` has
read and not yet committed. A handler is two or three actions, at the points
where it reads: `BeginStore` / `ReadStock` / `CommitStore` for `completeOrder`
with `storeMaterialProduct`; `BeginRelease`, `ReadStock`, `CommitRelease` for
both versions of `releaseProduct`; `BeginScrap`, `ReadStock`, `CommitScrap` for
`productErrorProcess`; `BeginEdit` / `CommitEdit` for `updateAllOrderHistory`;
`OpenForm` / `SubmitForm` for the material page, whose stale value is as old as
the open page. Lot and location are fetched eagerly with their map, hence the
one read in `BeginLot`. `CreateOrders` and `DeleteOrders` act on rows they did
not read earlier, or delete them, and are single steps. `Rollback` is an
exception anywhere. `packed`, `out`, `income` and `net` are sums of the
append-only `srhistory` table.

What the code does and the model keeps: `releaseProduct` sets the lot's count
to zero *before* `removeLot` subtracts it from the location, so the location's
entry keeps the count; `productErrorProcess` compares its count with nothing
(`Overdraw`); a purchase order of a product that is no material makes
`completeOrder` fail with a null pointer, so `storeManufatureProduct` never runs;
`getUnitCount` reads 0 as 1; a completed order is never un-completed by a later
delivery, but a stale document edit can write the older row back.

`StockLedger` says what a warehouse promises: a stock figure and lot counts
that change together and at once, deliveries packed without loss, lots used up
once. The instance `Ledger` maps `Inventory` to it: `onHand` is `stock`, `held` the
counts of the lots, `place` where the ledger sees a lot (unused, used up, or on the
shelf for its material).

### Construction

`plans`, `sites` and `results` are the three tables, `seq` the sequence all
tables share, `visit[f]` what a construction session has read, `cleared` the
sites from which `deleteCD` removed a result. `PlanWork(w)` is what finishing a
work order does (site first, then plan). `BeginUpload` / `CommitUpload` is
`imageUpload`, `BeginConfirm` / `CommitConfirm` is `ConstructionConfirm`,
`DeleteResult` is `deleteCD`, `OtherRow` is any other table taking an id.
`imageUpload` looks for an earlier result by `location.id = plan.getId()`, the
wrong id; the model keeps the search and the shared sequence, and
`BuiltSiteHasResult` shows that the one makes the other harmless.

### WorkOrders

Extends `Construction` and adds `orders`, `work`, `hist`, `shipped` (work
orders a shipping row refers to) and `txn`. All handlers on a work order read it
the same way, so there is one `ReadWork(s)`: a work order, or a change history
and through it the work order. The commit decides which handler it was:
`CommitComplete` and `CommitDefective` (`completeWorkOrder` without and with an
error code), `CommitManage` (`completeProduction`), `CommitFail` (both versions
of `failWorkInfo`), `CommitTouch` (`selectPrinter`, `switchEmergency` and other
handlers that change one column and write the row), `CommitUpdateOrder`.
`deleteOrderInfo` and `deleteWorkOrder` are single steps: foreign keys make
their check and their delete one. `tally[w]` adds up the changes of `makeCount`
that handlers announced, and is the reference of `MakeCountReconciles`.
`Next` also contains every step of the construction side, and the property
`ConstructionSide` says that the whole implements `ConstructionSpec`: work orders
touch it only by planning work and taking ids.

Abstractions: the ids of log, shipping and error rows are not taken from `seq`
in `WorkOrders` (in `Construction` any row may take one); columns without
influence on control are left out, and `dirty` in `WriteWork` says when one of
them forces a write; a report is of at least one piece; all reads of one
handler happen at one instant, and a row that a handler did not change is not
written. A work order whose order is gone when it is created has none (`NoOrder`);
`WriteWork` and `CommitDefective` roll back on it, because their log entries name
the order. `registProductionPlan` is left out: it creates only such work orders.

### TabStrip

`strip[w]` is the row of tabs a window shows, each with its page, the key it is
stored under, how many loads are under way, whether its handlers are attached
(`wired`) and its search box filled; `session[w]` is the window's
`sessionStorage`, `open` the one entry of `localStorage` that all windows share.
`createTab`, `openPage`, `closePage`, `preTabOpen`, `TabInit` and `sessionClear` are the
functions of `TabFuncs.js` and `TabInit.js` of those names. `AssignEvtFunc` is the end
of a load. It attaches the handlers of the page that was loaded, whatever is open
by then (`Events`); only `InfoSearch`, which fills the search box of some pages
(`Searched`), compares with `localStorage`, and throws if nothing is open, so that
what follows it is not attached. A menu entry is also a link to `/main`, so that a
click on it ends in a `TabInit`, as any reload does.

Entries may share a url: `TabInit.js:45` and `:47` are both "Setting", and
`TabInit.js:40` has none. A tab has its url as its id (`Same`): `reOpen` shows the
first tab with the stored url, and none for an empty one. What the scripts do by
throwing is kept: `OpenedPageCheck` throws at the first gap of the keys and thereby
protects them, `reOpen` throws for a tab it does not find. Two habits are chosen at the
start: `tidy`, to close tabs from the end only, and `alone`, to keep to one window.

### OrderPage

`orders` and `work` are the tables, `table` the orders as the page listed them,
`create`, `update` and `sheet` the two forms and the work order sheet, `asked`
the requests for contents under way, `posts` those that change the server. An
action per function of `OrderInfoForKS.js`, and `showTab` for the two tabs of the
forms, of which `updateTab` is shown or not; every element of `asked` and `posts`
may be answered next. `WithOptions` is a select box: options are appended, and
the first one becomes the selection if there is none. `selectUpdateCompany`
keeps what line 470 does: it reads and fills the boxes of the other form.
`MainTrEvt` keeps line 191: a click on a row refills the brand box of the update form
also while the form is hidden, and only if it is shown empties the rest and asks
for the order. `habits` chooses whether the user does the one ("moves") or the other
("strays"). A load lists the orders newest first, and the first one without a brand
throws: it and those after it are missing from the list, whose order is one of
dates, so `Lists` takes any subset of the orders with a brand. With `Careful` the
user waits for the answers before the next click.

### DesignDocument

`docs` is the table; `listed`, `form`, `picked`, `marked`, `submitted` are the
page (the rows loaded, the hidden id, the row clicked last, the list of
deletions, the button that hides itself); `asked` and `posts` are under way.
`registerDesignDocument` looks for the order's document and inserts one: a
single step, or with `Overlap` two, with other posts between them. The actions
of the service check nothing else: `updateDesignDocument` stores what it is
sent, also after `confirmCustomer`. `careful` chooses whether the user waits.

### LocationTree

`loc` is the table, `used` the locations that lots or rows of the stock history
refer to (it never shrinks: releasing a lot clears the lot's location, but the
history row that `ShippingService.java:304` writes keeps its own), `tops` and
`shown` what each browser has loaded and unfolded, `deletes` its requests to
delete, which are served location by location. `Moved` is what an update does
through `orphanRemoval`: everything beneath the location is deleted, unless
stock refers to it (`Movable`) and the commit fails. `deleteLocation` walks up to
the top first; `Ends` is its guard, so that a loop without end is a request
without a next step.

### Branches

`store` and `list` are the table of stores and the join table behind
`Brand.branch`; `rows`, `brandId` and `touched` are the page of a client;
`loads`, `posts` and `deletes` are under way. A save posts all rows and
`saveRow` stores them one by one, each in a transaction of its own that an
exception rolls back. A save of a single row is not received as it was posted: the
framework splits the one parameter at its commas and trims the parts, the
controller joins them again and leaves out brackets. `Rejoin` is what that makes of a
text, `Received` what reaches the service. An answer for a brand without a company
is empty (`NothingArrives`): the rows are gone and the page goes on saving to the
brand before. A new row asks the geocoder, which finds by its address a
row that may belong to another brand: it is that row that would be taken, and
the unique key of the join table that fails the transaction.

### Accounts

`user` and `role` are tables, of which several accounts may point to one role;
`page[b]` is a sign-up page, `join[p]` a phone's sign-up between its check and its
insertion, `edit[e]` what a change has read. `setAuthority` adds the prefix
`ROLE_` to every name, so that a role that was created with it bears it twice.
`updateAuth` renames the row, `changeAuthorities` points the account to
another. `app` chooses whether phones are used at all.

### Faulty variants

Beside some operators stands a second version that no action uses
(`StoredRowOnce`, `RemadeRowForgets`, ...): a plausible slip in the code it models.
Substituting it makes the property named in `PROJECT.json` fail, which shows
that the property can see the code.

## 4. The runs

| run | question | properties |
|---|---|---|
| `inventory_overlap` | two sessions overlap freely on one order, one location and two lots: what do lost updates leave intact? | `ReleasedLotIsEmpty`, `NothingUnaccounted`, `NeverOverReceived` |
| `inventory_serial` | without overlap, do all books agree and does `Inventory` implement `StockLedger`? | `LotsReconcile`, `StockReconciles`, `ShelfCoversLots`, `ReleasedStaysReleased`, `LedgerSpec` |
| `construction_overlap` | two construction sessions overlap, ids of plan and site may not match | `CompletePlanIsBuilt`, `ResultMeansBuilt`, `BuiltSiteHasResult` |
| `work_orders_overlap` | two production sessions overlap on a work order and its remakes | `FinishedMeetsPlan`, `RemakeMeetsPlan`, `FinishedIsPlanned` |
| `work_orders_serial` | production requests one at a time, a fitter beside them | `PlanTracksSites`, `MakeCountReconciles`, `ReopenedByFirstFailure`, `ConstructionSide` |
| `says_CompleteSiteHasResult` | does a complete site keep its result? It does not | `CompleteSiteHasResult` |
| `tabs` | does storage describe the tabs, and does a reload bring them back? | `SessionIsStrip`, `PagesOpenOnce`, `ShownIsOpen`, `ReloadKeepsTabs`, `ShownPageComesAlive` |
| `order_page` | answers to one click swap: is what is stored still consistent? | `BrandOfCompany`, `OrderHasBrand`, `WorkOrderKeepsOrder`, `RegisteredUnderItsBrand` |
| `design` | users who wait and users who do not: one document per order, and is what was submitted final? | `OnePerOrder`, `SubmittedIsFinal`, `ActsOnPicked` |
| `locations` | two pages of any age, stock, and a delete button with two handlers: are levels right, and does the way up end? | `LevelIsDepth`, `ReachesTop`, `DeletesEnd` |
| `branches` | a save posts every row, row by row: what does it change? | `ListedByItsBrand`, `UsedStays`, `UntouchedStays` |
| `accounts` | sign-up, roles and removal, with phones and without | `OneRoleAtATime`, `RemovedForGood` |

`TypeOK` is checked for `TabStrip` and `OrderPage`; the type invariants of the
other modules are proved (section 5). The `says_` run finds, without overlapping
requests, a site that is complete and whose result was deleted; the entry under
"findings" quotes the message that calls this a data error.

**Reading the two kinds of specification.** In `Inventory`, `Construction` and
`WorkOrders`, `Spec` lets requests overlap at every point where a handler has
read and not committed; `SerialSpec` lets a request begin only when no other is
open. What holds under `Spec` is what the system guarantees; what holds only
under `SerialSpec` is what its authors intend and what a single user at a time
gets. In the modules of pages the counterpart is a user's habit: `Careful` or
`careful` (waits for answers), `tidy`, `alone`, `habits`, `PicksSelf`, `app`. The code
enforces none of them. A property that depends on one says so, and section 6
lists what happens without.

**Bounds.** They appear only in guards. `MaxLot`, `MaxLog` (`Inventory`), `MaxId`
(`Construction`, `WorkOrders`), `MaxWork` and `MaxCommit` (`WorkOrders`) cap
counters that otherwise grow for ever. Two sessions are enough for every
pairwise overlap, and the handlers touch one work order, one lot or one plan at
a time. Five logged commits in `inventory_overlap` allow a delivery, a release, a
scrap and an edit of the same rows to interleave and one to follow; amounts 1
and 3 with a unit count of 2 give a full lot, a remainder, and less than a unit;
the unit count 0 is the other material's. `MaxId = 6` in `Construction` is two
sites with their plans and two results; in `WorkOrders` it is a work order, its
site and plan, two remakes and a result. `MaxCommit = 4` lets a plan of two be
met, failed, remade and met again. A `PlanCount` of 2 with reports of 1 and 2
meets the plan in one step, in two and overshoots. `work_orders_overlap` leaves
the fitters out (`Fitter = {}`): the construction side has its own run.

Three tabs (`MaxTabs`) give a gap between two others; the second window has room
for one tab, which is enough to take over the shared `localStorage`. Four menu
entries are one with a search box, two of one url, and one without a url. One
load per tab (`MaxLoads`): the loads of a tab are of one page, and a second
would attach the same handlers again; loads of different tabs overtake each
other. `SortedKeys` says that a browser lists stored items by key, which it need
not. Two orders and two rows of the sheet (`order_page`) give an order to be
confused with another and a row cloned from the first; two companies with a
brand and a shop each and a third company without brands give every box a
choice, a single option and none. `MaxWork` lets no sheet be sent once a work
order is there; one is enough to keep an order from being deleted. Four
documents (`design`) on two orders allow one to be deleted and registered again;
two connections, two posts under way. Three locations give one that is moved
with something beneath it under a third; one of the two browsers deletes, lists
of two with two handlers. Two stores of two brands and pages of two rows
(`branches`) are enough for a row of a store beside one of another or a new one,
one of them used by orders (`MaxUsed`); `Rejoin` turns one of two names into the
other, so that a page of one row changes its store or does not. Two accounts
share a role or do not.

**Symmetry** is used where values are interchangeable and only invariants and
action properties (`[][A]_v`) are checked: `work_orders_overlap`, `design`,
`branches` (brands only: `Rejoin` tells the names apart). The runs with liveness or a refinement do not use it. Specifications
that stop at their bounds are run with `CHECK_DEADLOCK FALSE`; in the runs of
pages that check deadlock a user can always go on.

**Fairness.** The server answers every request it has, and nothing else is
assumed: `TabStrip` has weak fairness of `AssignEvtFunc` for each tab (a load
that is under way arrives), `LocationTree` (`FairSpec`) of `Serve` for each browser that deletes
(the service goes on with a request it has). Users owe nothing. In the other
modules every action is a person's request or the end of one, and nothing in
the code retries, schedules or waits (`ScheduledJob` is commented out), so no
liveness is stated there.

## 5. The proofs

`Inventory_proofs` proves, for every set of sessions, materials, locations and
orders and any amounts and bounds, of the specification **with** overlap:
`TypeCorrect`, and `OverlapCorrect`, the invariance of `OverlapInv`, from
which `ReleasedEmpty`, `NeverOver` and `Accounted` follow. The safety
properties are not inductive: a commit writes what a session read earlier, so
`OverlapInv` says the same of every row a session still holds. A lot's count
that somebody holds and what was booked out of the lot since cover what it began
with (`Booked`); a stored count that somebody holds is covered by deliveries.
Both survive other sessions' commits because `out` and `income` only grow.

Of the specification **without** overlap it proves the type invariant,
`SerialCorrect` (the invariance of `SerialInv`), `BooksExact` and `LotsExact` (lots,
stock and orders agree exactly with the ledger) and the action property
`ReleasedForGood`. Here the strengthening is `Fresh`: what the one open session
read is what the database still holds.

`ShelfCovers` compares an entry with a *sum* over the lots of its cell. The sums are
those of the module `Functions`; `SumIs` shows that they are what any function with
`g[T] = f[x] + g[T \ {x}]` is, from which `SumAdd`, `SumUnion` and `SumChange` follow
by induction over the finite set. `PackedIsAll` says that the lots a delivery is
packed into hold together what was delivered, by induction over their number.
Then a store adds the same to the entry and to its cell's lots, a release takes a lot
of at least nothing, and a scrap takes `amount` from both: the entry exists, because
the lots it covers hold at least `amount`. `LedgerRefined` is the refinement, one
lemma per commit: `StoreReceives` (where `PackPositive` says no lot is empty and
`PackedIsAll` that nothing is lost), `ReleaseUsesUp`, `ScrapScraps`, `FormCorrects`; every
other step leaves stock and lots alone.

The library's induction theorems take an operator, which the provers cannot
instantiate. The proofs use a **set** instead, of the arguments for which the goal
holds: `FinSetInduction` and `NatSetInduction` follow from the well-founded orderings of
subsets and numbers.

`WorkOrders_proofs` first proves of `ConstructionSpec`, where uploads, confirmations
and deletions overlap and a request may name a site of another plan, the type
invariant and `ConstructionInv`, from which `CompletePlanCorrect`,
`ResultCorrect` and `BuiltSiteCorrect` follow. The three properties need one
another and two facts beside them. `IdsApart`: an id is handed out once, so no
plan shares its id with a site and the search by the wrong id finds nothing.
`VisitSound`: a plan that a session saw complete is built, and so are the other
sites of the plan when the session found its own to be the last. What sessions
hold stays sound because every step only adds (`Grows`): plans keep their work
order and their sites, and built sites stay built. With one construction request
at a time, none naming a site of another plan, `PlanTracksSitesCorrect` adds the
converse, that a plan whose sites are all built is complete.

It then uses that invariant for the whole. Every step of the whole, seen from the
construction tables, is a step of `Construction` or a stutter
(`WorkRefinesConstruction`), so `ConstructionInv` holds of the whole. Then
`WorkOrdersInv` is inductive: what `FinishedMeetsPlan` and `FinishedIsPlanned`
say of a row (`RowSound`), they say of every row a session still holds
(`TxnSound`), which survives other commits because histories and plans are
never taken from a work order (`Remembers`) and its plan count never changes
(`PlansKept`). `CommitInv` is the common part: a commit keeps the invariant if the
row it computed is sound in the new state; one lemma per handler shows that.
`WorkPlansTrackSites` carries `PlanTracksSites` over to the whole, for one fitter and
however production requests overlap. Of the specification where production
requests do not overlap, `SerialInv` (what a session holds is what the table holds,
and `makeCount` is `tally`) gives `MakeCountCorrect` and `ReopenedCorrect`.

`TabStrip_proofs` proves, for any number of windows, menu entries and tabs,
`TypeCorrect`, `SessionIsStripCorrect`, `PagesOpenOnceCorrect`, `ShownIsOpenCorrect` and
`ReloadKeepsTabsCorrect`, the last an action property. `StripInv` has two parts. Of
every user: the keys of a strip grow from left to right, each tab is stored under its
key, and what else is stored lies above them (`Sound`). Of a tidy one: the keys are
0, 1, 2 ..., nothing else is stored, and pages differ (`Exact`). Why `createTab`, which
takes the *number* of tabs as the next key, overwrites no tab after one was closed:
`OpenedPageCheck` looks at the keys below that number first and throws at the first
that is missing; if it does not throw, all of them are there, and the number itself
is free (`NoGapWherePassed`). A reload is an induction over its turns (`ReloadTurns`):
it keeps any strip `Sound` (`AnyReload`) and rebuilds an `Exact` one (`ExactReload`).
`ShownIsOpen` has an invariant of its own (`OpenInv`: what is stored as open is a tab
there is; what is shown has its url and comes no later in the strip, so that it stays
when the last tab is closed). It needs `SortedKeys`, that the browser lists stored items by key; that entries share urls
does not break it, because it compares urls.

`OrderPage_proofs` proves `TypeCorrect` and, of every user, `WorkOrderKeepsOrderCorrect`.
Of the user who waits (`Careful`) it proves `BrandOfCompanyCorrect`,
`OrderHasBrandCorrect` and `RegisteredCorrect`. `CarefulInv` says which answers can still
come: those of the last click, and none beside a post (`OneAtATime`). When the last
is in, the boxes of a form fit one another (`CreateSound`, and for a user with neither
habit `UpdateSound`) and the sheet's shops its order's brand (`SheetSound`), in whatever
order they came, so that what is posted is sound (`PostSound`). `BrandOfCompany` is
about the user with neither habit, the other two about both; only an order that was
listed can be opened, and such an order has a brand.

`DesignDocument_proofs` proves `TypeCorrect`; `OneDocument`, for a server that
handles one registration at a time (`~Overlap`) and users who click as they
like, with `NoneHalfDone`: no registration is between its look and its insertion;
and `SubmittedFinal`, that a careful user never changes what was submitted,
whether or not registrations overlap. For that `CarefulInv` says that at most one
post is under way, that the page offers no final document, and that no post
under way concerns one. `ActsOnPickedCorrect` adds `PickedInv`: with no answer under
way, the hidden id is that of the row clicked last.

`LocationTree_proofs` proves `TypeCorrect`, `LevelsAreDepths` and `WalksEnd`
where no location is picked as its own parent (`~PicksSelf`). Their invariant is
`Sound`: the type of the table, `LevelIsDepth`, and that what stock refers to is
there. Its heart is `CutBelow`: what is beneath a location is closed
(`BelowIsClosed`), so deleting it takes no parent away from a row that stays;
and a moved location keeps nobody beneath it whose level would be stale. From
`LevelIsDepth` follows `ReachesTop`, by induction on the level: the way up from every
location ends at one without a parent, so that the loop of `deleteLocation` and that
of `makeName` are left.

`Branches_proofs` proves `TypeCorrect`, `StoresListed` and `UsedStoresStay` for any
number of clients, whether or not they wait. `Books` relates the tables;
`NeverAdopted` says that a row the geocoder finds is in some brand's list, which
is why taking it into another always fails at the unique key.
`UntouchedStores` is about one user who waits for answers (`Careful`, one client).
`FreshPages`: while no save is under way the rows of the page are those of the
table, but for the edited ones, and while one is, so are the rows it has still to
write (`Due`); only those, because a page of one row may have changed its store.
`RowChanges` says what one row may do (`MayChange`): nothing to a store that was not
edited, except the rejoining of a single row.

`Accounts_proofs` proves `TypeCorrect` and `RolesChangeAlone`, the action property
`OneRoleAtATime`. Where no phone is used, every account has a role row of its own
(`Apart` in `WebInv`), also in the row that a request has read and will write.
`RemovalIsFinal` is the action property `RemovedForGood` where changes of an account
do not overlap (`~Overlap`): the row a request holds is the one of the table
(`HeldFresh`).

**Assumptions.** Each module names its own. `Construction`: the bound on ids is a
number (`ConstructionAssumption`). `WorkOrders`: 0 is no order, plan counts are
natural numbers and reports at least one piece (`WorkOrdersAssumption`).
`Inventory`: unit counts are natural numbers, amounts positive, and the markers for
"no material", "no location" and "no entry" differ from the real values
(`ConstantsAssumption`). `DesignDocument`, `LocationTree`, `Branches`, `Accounts`:
bounds are natural numbers, switches Boolean, and `None` no real value; `Branches` also
that `Rejoin` makes a name of a name and an address of an address.
`OrderPage`: `None` is no company, brand, shop or order, and there is room for one order,
one row and one work order. `TabStrip`: the bounds are numbers, every menu entry has a url, which may be empty or another's too, "no tab"
is neither a key nor a url, and "nothing is open" no entry of `localStorage`.

## 6. Only model-checked, not kept, and not modelled

**Only model-checked.** The two liveness properties, `ShownPageComesAlive` and
`DeletesEnd`: the prover has no rules for fairness and ENABLED. The safety half of
`DeletesEnd`, that the walk of `deleteLocation` ends (`ReachesTop`), is the theorem
`WalksEnd`.

What theorems say of fewer users than the code admits: `ShelfCovers`, `LedgerRefined`,
`BooksExact`, `ReleasedForGood`, `MakeCountCorrect`, `ReopenedCorrect` are about requests
that do not overlap, `WorkPlansTrackSites` about one fitter, `UntouchedStores` about one
user who waits, `RemovalIsFinal` about changes that do not overlap, the last three
of `OrderPage_proofs` about a user who waits, those of `LocationTree_proofs` about
locations that are not their own parent. The code enforces none of these.

**Not kept by the code.** These statements are in the modules without a run; each
names the text it comes from. Put it into the configuration named and TLC shows
how it fails.

| statement | what the code says | how to see it fail |
|---|---|---|
| `FailedHasHistory` (`WorkOrders`) | "failed: true on registering a change history" (`entity/WorkOrderInfo.java:57`); `failWorkInfo` saves one only for a remake (`WorkOrderService.java:408`) | `WorkOrdersSerial.cfg` |
| `OneOpenHistory` | "disabled: true when a new change history is registered" (`entity/WorkOrderChangeHistory.java:42`); a failure sent with the work order's id leaves earlier ones enabled | `WorkOrdersSerial.cfg` |
| `FinishedWasChecked` | "finished: true when the making team has checked" (`entity/WorkOrderInfo.java:54`); `completeProduction` and a remake finish without | `WorkOrdersSerial.cfg` |
| `ProductionMeansFinished` | "production complete" (`entity/ReceivedOrderInfo.java:76`); set at the first report, since `ReceivedOrderInfo.workOrders` is never filled | `WorkOrdersSerial.cfg` |
| `OnePerOrder` (`DesignDocument`) | "already registered" (`DocumentForApproval.js:542`) | `Overlap = TRUE` in `Design.cfg`: two clicks of a user who does not wait |
| `SubmittedIsFinal`, `ActsOnPicked` | "complete the editing of the document?" (`DocumentForApproval.js:656`) | drop the condition `careful` |
| `ReachesTop`, `DeletesEnd` (`LocationTree`) | "get the topmost location" (`entity/LocationMaster.java:160`); the page offers a location as its own parent, after which deleting it never ends | `PicksSelf = TRUE` in `Locations.cfg` |
| `OnlyDeletesRemove` | "location update" is what the log says (`LocationMasterImp.java:150`); it deletes what is beneath | `Locations.cfg` |
| `DeletedIsGone` | "deleted" (`locationEvents.js:308`), whatever the answer | `Locations.cfg` |
| `NoNamesakes` (`Branches`) | "there is a store of the same name" (`BrandManagement.js:59`), compared with the page only | `Branches.cfg` |
| `SaidIsStored` | "changed" (`BrandManagement.js:352`), whatever the answer; an edited row loses its company and the service throws on it | `Branches.cfg` |
| `LoginsDiffer` (`Accounts`) | "an id that exists already" (`login.js:207`); `createUser` compares with nothing | `Accounts.cfg` |
| `OneRoleAtATime` | "accept the sign-up" in one user's row (`UserManagement.jsp:81`); the renamed row is shared with accounts of phones | drop the condition `~app` |
| `RemovedForGood` | - | `Overlap = TRUE` and two editors in `Accounts.cfg` |
| `BrandOfCompany` (`OrderPage`) | "dependent selects of the update" (`OrderInfoForKS.js:62`); line 470 reads the other form, and line 191 refills the box of a hidden form | drop the condition `habits = {}`; either habit is enough |
| `OrderHasBrand`, `RegisteredUnderItsBrand`, `BrandOfCompany` | - | `Careful = FALSE` in `OrderPage.cfg` |
| `PagesOpenOnce` (`TabStrip`) | "the page is already open" (`TabFuncs.js:228`); after a reload over a gap a page has two tabs | drop the condition `tidy` |
| `ReloadKeepsTabs` | - ; the tabs behind a gap are missed | drop the condition `tidy` |
| `ShownIsOpen` | - | `SortedKeys = FALSE` in `Tabs.cfg`, or drop `tidy` or `alone` |
| `ShownIsSearchable` | "fills the options of the search select box" (`Events.js:40`); a tab that is shown because the open one was closed is not loaded again, and a reload had not filled it | `Tabs.cfg` |

**Not modelled, and why.** The process chain keeps no invariant (its two
directions are set one side at a time) and nothing reads it; a lost notice of the
WebSocket hub changes no state; how long leaked database sessions live is up to
the garbage collector. Master data, reports, logs and notices are independent
rows; messages, printers, file storage and spreadsheets are I/O; controllers only
pass parameters on. `deleteReceivedOrderInfo` queries an attribute that does not
exist and always fails; the plan-editing methods of `ReceviedOrderHistoryService`
have no endpoint; no code gives an account a commute code, so that clocking in
always stops. Of the scripts, two thirds by length are libraries
(`jquery-ui.js`, `bootstrap.js`), everything is there a second time under
`target/`, and `orderInfo.js` is the page that `OrderInfoForKS.js` replaced; the
other pages (check tables, purchase orders, master data, key figures) fill a
table and post its rows. This is why the modelled scripts are a small share of
all script lines; the services behind them are Java.
