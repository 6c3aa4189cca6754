----------------------------- MODULE Inventory -----------------------------
(***************************************************************************)
(* Purchase orders, lots, per-location counts and material stock of ROMES. *)
(*                                                                         *)
(* Every handler opens its own Hibernate session and transaction, reads    *)
(* the rows it needs, changes the objects in memory and flushes at commit. *)
(* There is no version column and no lock: the flush writes EVERY column   *)
(* of a changed row with the values the session computed from its own      *)
(* reads (PostgreSQL READ COMMITTED).  A handler is therefore several      *)
(* steps here: Begin... (the first reads), ReadStock (the later read of    *)
(* the material), then the commit; any step of another session may come    *)
(* between them.  Rollback is an exception anywhere in a handler.          *)
(***************************************************************************)
EXTENDS Integers, FiniteSets, Functions

CONSTANTS
    Session,      \* request threads, each with its own Hibernate session
    Material,     \* rows of the material table
    NoMaterial,   \* a product id that is no Material (a ManufactureProduct)
    Location,     \* rows of location_table
    NoLocation,   \* the null location of a released lot
    Order,        \* ids the order_history rows get
    UnitCount,    \* Material.unitCount
    Amount,       \* the counts a request may carry
    Overdraw,     \* may a scrap request exceed what the lot holds?
    NoEntry,      \* no row in item_stock_map for a (location, product)
    MaxLot,       \* bound: number of lots ever created
    MaxLog        \* bound: number of Log rows, one per committed handler

ASSUME ConstantsAssumption ==
    /\ NoMaterial \notin Material
    /\ NoLocation \notin Location
    /\ NoEntry \notin Int
    /\ UnitCount \in [Material -> Nat]
    /\ Amount \subseteq Nat \ {0}
    /\ Overdraw \in BOOLEAN
    /\ MaxLot \in Nat /\ MaxLog \in Nat

VARIABLES
    orders,    \* order_history: the OrderHistory rows
    lots,      \* lot: the Lot rows by id
    lastLot,   \* the last lot id handed out
    shelf,     \* item_stock_map: LocationMaster.productStocksMap
    stock,     \* material.stockCount
    txn,       \* what each session has read and not yet committed
    logs,      \* number of rows in the log table
    \* Totals of the append-only srhistory table, and what lots began with:
    packed,    \* the count a lot was created with
    out,       \* RELEASE counts booked per lot
    income,    \* STORE counts booked per purchase order
    net        \* STORE minus RELEASE plus manual corrections, per material

db == <<orders, lots, lastLot, shelf, stock>>
ledger == <<packed, out, income, net>>
vars == <<db, txn, logs, ledger>>

----------------------------------------------------------------------------
LotId == 1..MaxLot
Product == Material \cup {NoMaterial}
Entry == Int \cup {NoEntry}

OrderRow == [status: {"unborn", "live", "deleted"}, product: Product,
             ordered: Nat, stored: Nat, complete: BOOLEAN]
LotRow == [product: Product, count: Int, location: Location \cup {NoLocation}]

BlankOrder == [status |-> "unborn", product |-> NoMaterial,
               ordered |-> 0, stored |-> 0, complete |-> FALSE]
BlankLot == [product |-> NoMaterial, count |-> 0, location |-> NoLocation]

Idle == [op |-> "idle"]
StoreTxn == [op: {"store"}, order: Order,
             was: {r \in OrderRow : r.product \in Material}, loc: Location,
             entry: Entry, ready: BOOLEAN, stock: Int]
LotTxn == [op: {"release", "scrap"}, lot: LotId,
           was: {r \in LotRow : r.product \in Material /\ r.location \in Location},
           entry: Entry, ready: BOOLEAN, stock: Int]
EditTxn == [op: {"edit"}, rows: SUBSET Order, was: [Order -> OrderRow]]
FormTxn == [op: {"form"}, material: Material, stock: Int]
Txn == {Idle} \cup StoreTxn \cup LotTxn \cup EditTxn \cup FormTxn

TypeOK ==
    /\ orders \in [Order -> OrderRow]
    /\ lots \in [LotId -> LotRow]
    /\ lastLot \in 0..MaxLot
    /\ shelf \in [Location \X Material -> Entry]
    /\ stock \in [Material -> Int]
    /\ txn \in [Session -> Txn]
    /\ logs \in 0..MaxLog
    /\ packed \in [LotId -> Nat]
    /\ out \in [LotId -> Int]
    /\ income \in [Order -> Nat]
    /\ net \in [Material -> Int]

Init ==
    /\ orders = [o \in Order |-> BlankOrder]
    /\ lots = [l \in LotId |-> BlankLot]
    /\ lastLot = 0
    /\ shelf = [e \in Location \X Material |-> NoEntry]
    /\ stock = [m \in Material |-> 0]
    /\ txn = [s \in Session |-> Idle]
    /\ logs = 0
    /\ packed = [l \in LotId |-> 0]
    /\ out = [l \in LotId |-> 0]
    /\ income = [o \in Order |-> 0]
    /\ net = [m \in Material |-> 0]

----------------------------------------------------------------------------
\* What the entities compute.  Where two versions of an operator stand side by
\* side, the first is a plausible slip that no action uses: it shows which
\* property would notice.

\* Material.getUnitCount: a unit count of 0 counts as 1.
Unit(m) == IF UnitCount[m] = 0 THEN 1 ELSE UnitCount[m]

\* storeMaterialProduct packs `amount` into full lots and one for the rest.
PackNumberFloor(amount, unit) == amount \div unit
PackNumber(amount, unit) ==
    (amount \div unit) + (IF amount % unit # 0 THEN 1 ELSE 0)
PackCount(amount, unit, i) ==
    IF i <= amount \div unit THEN unit ELSE amount % unit

\* The ids the next n lots get.
NewLotsReused(n) == lastLot..(lastLot + n - 1)
NewLots(n) == (lastLot + 1)..(lastLot + n)

\* The order row after a store: complete is set, never cleared.
StoredRowByLabel(was, amount) ==
    [was EXCEPT !.stored = @ + PackNumber(amount, Unit(was.product)) * Unit(was.product),
                !.complete = @ \/ was.stored + amount >= was.ordered]
StoredRow(was, amount) ==
    [was EXCEPT !.stored = @ + amount,
                !.complete = @ \/ was.stored + amount >= was.ordered]

\* The lot row after releaseProduct and after productErrorProcess, and the
\* count of the RELEASE row of releaseProduct, taken before the zeroing.
ReleasedRowFull(was) == [was EXCEPT !.location = NoLocation]
ReleasedRow(was) == [product |-> was.product, count |-> 0, location |-> NoLocation]
ScrappedRow(was, amount) == [was EXCEPT !.count = @ - amount]
ReleaseCountLate(was) == ReleasedRow(was).count
ReleaseCount(was) == was.count

\* Material.stockCount after `amount` was taken out.
StockAfterSkipped(read, amount) == read
StockAfter(read, amount) == read - amount

\* LocationMaster.addLot / getOrDefault(..., 0) - count / removeLot on one entry.
AddedReplaces(e, n) == n
Added(e, n) == IF e = NoEntry THEN n ELSE e + n
Removed(e, n) ==
    IF e = NoEntry THEN NoEntry ELSE IF e - n < 1 THEN NoEntry ELSE e - n

\* A row or column that did not change in the session is not written.
Flush(now, read, new) == IF new = read THEN now ELSE new
\* Writing a map entry is an INSERT or an UPDATE chosen from what was read;
\* it fails (constraint or row count) when another session changed which.
EntryWritable(now, read, new) ==
    new # read => (now = NoEntry <=> read = NoEntry)

Live == {o \in Order : orders[o].status = "live"}
Unborn == {o \in Order : orders[o].status = "unborn"}
IsOpen(s) == txn[s].op # "idle"

Logged == logs < MaxLog /\ logs' = logs + 1
Close(s) == txn' = [txn EXCEPT ![s] = Idle]

----------------------------------------------------------------------------
\* Purchase orders (OrderHistoryServiceImp).

NewOrder(p, n) == [BlankOrder EXCEPT !.status = "live", !.product = p, !.ordered = n]
Line == [product: Product, ordered: Amount]

\* createAllOrderHistory: the lines of one document, in one transaction.
CreateOrders ==
    /\ \E O \in SUBSET Unborn \ {{}} : \E line \in [O -> Line] :
         orders' = [o \in Order |-> IF o \in O
                        THEN NewOrder(line[o].product, line[o].ordered)
                        ELSE orders[o]]
    /\ Logged
    /\ UNCHANGED <<lots, lastLot, shelf, stock, txn, ledger>>

\* updateAllOrderHistory, its reads: the rows the document's page sent back.
BeginEdit(s) ==
    /\ ~IsOpen(s)
    /\ \E U \in SUBSET Live \ {{}} :
         txn' = [txn EXCEPT ![s] =
                   [op |-> "edit", rows |-> U,
                    was |-> [o \in Order |-> IF o \in U THEN orders[o] ELSE BlankOrder]]]
    /\ UNCHANGED <<db, logs, ledger>>

\* Its commit: every column of the rows it read, and the lines added.
CommitEdit(s) ==
    /\ txn[s].op = "edit"
    /\ txn[s].rows \subseteq Live
    /\ \E C \in SUBSET Unborn : \E line \in [txn[s].rows \cup C -> Line] :
         orders' = [o \in Order |->
             IF o \in txn[s].rows
               THEN [txn[s].was[o] EXCEPT !.product = line[o].product,
                                          !.ordered = line[o].ordered]
             ELSE IF o \in C THEN NewOrder(line[o].product, line[o].ordered)
             ELSE orders[o]]
    /\ Logged /\ Close(s)
    /\ UNCHANGED <<lots, lastLot, shelf, stock, ledger>>

\* deleteDocuments (all lines of some documents) and deleteOrderHistory (one).
DeleteOrders ==
    /\ \E O \in SUBSET Live \ {{}} :
         orders' = [o \in Order |-> IF o \in O
                        THEN [orders[o] EXCEPT !.status = "deleted"] ELSE orders[o]]
    /\ UNCHANGED <<lots, lastLot, shelf, stock, txn, logs, ledger>>

----------------------------------------------------------------------------
\* Storing a delivery (OrderHistoryService.completeOrder).

\* Reads the order and the location.  An order whose product is no Material
\* ends in a NullPointerException and a rollback (storeManufatureProduct).
BeginStore(s) ==
    /\ ~IsOpen(s)
    /\ \E o \in Live, l \in Location :
         /\ orders[o].product \in Material
         /\ txn' = [txn EXCEPT ![s] =
                      [op |-> "store", order |-> o, was |-> orders[o], loc |-> l,
                       entry |-> shelf[<<l, orders[o].product>>],
                       ready |-> FALSE, stock |-> 0]]
    /\ UNCHANGED <<db, logs, ledger>>

\* session.find(Material.class, productId) in any of the three lot handlers.
ReadStock(s) ==
    /\ txn[s].op \in {"store", "release", "scrap"}
    /\ ~txn[s].ready
    /\ txn' = [txn EXCEPT ![s].ready = TRUE,
                          ![s].stock = stock[txn[s].was.product]]
    /\ UNCHANGED <<db, logs, ledger>>

CommitStore(s) ==
    LET t == txn[s]
        m == t.was.product
        o == t.order
    IN  /\ t.op = "store" /\ t.ready
        /\ orders[o].status = "live"
        /\ \E amount \in Amount :
             LET n == PackNumber(amount, Unit(m))
                 new == NewLots(n)
                 size(l) == PackCount(amount, Unit(m), l - lastLot)
                 entry == Added(t.entry, amount)
             IN  /\ lastLot + n <= MaxLot
                 /\ EntryWritable(shelf[<<t.loc, m>>], t.entry, entry)
                 /\ lastLot' = lastLot + n
                 /\ lots' = [l \in LotId |-> IF l \in new
                       THEN [product |-> m, count |-> size(l), location |-> t.loc]
                       ELSE lots[l]]
                 /\ packed' = [l \in LotId |-> IF l \in new THEN size(l) ELSE packed[l]]
                 /\ shelf' = [shelf EXCEPT ![<<t.loc, m>>] = entry]
                 /\ stock' = [stock EXCEPT ![m] = t.stock + amount]
                 /\ orders' = [orders EXCEPT ![o] = StoredRow(t.was, amount)]
                 /\ income' = [income EXCEPT ![o] = @ + amount]
                 /\ net' = [net EXCEPT ![m] = @ + amount]
        /\ Logged /\ Close(s)
        /\ UNCHANGED out

----------------------------------------------------------------------------
\* Taking lots out (ShippingService.releaseProduct, ErrorService).

\* Reads the lot and its location; a lot that does not exist or has no
\* location any more ends in an exception and a rollback.
BeginLot(s, op) ==
    /\ ~IsOpen(s)
    /\ \E l \in LotId :
         /\ lots[l].location \in Location /\ lots[l].product \in Material
         /\ txn' = [txn EXCEPT ![s] =
                      [op |-> op, lot |-> l, was |-> lots[l],
                       entry |-> shelf[<<lots[l].location, lots[l].product>>],
                       ready |-> FALSE, stock |-> 0]]
    /\ UNCHANGED <<db, logs, ledger>>
BeginRelease(s) == BeginLot(s, "release")
BeginScrap(s) == BeginLot(s, "scrap")

\* What a lot handler writes: the lot's whole row, the location's entry, the
\* stock, and a RELEASE row of `amount`.
TakeOut(t, amount, row, entry) ==
    LET m == t.was.product
        e == <<t.was.location, m>>
    IN  /\ EntryWritable(shelf[e], t.entry, entry)
        /\ lots' = [lots EXCEPT ![t.lot] = row]
        /\ shelf' = [shelf EXCEPT ![e] = Flush(@, t.entry, entry)]
        /\ stock' = [stock EXCEPT ![m] = Flush(@, t.stock, StockAfter(t.stock, amount))]
        /\ out' = [out EXCEPT ![t.lot] = @ + amount]
        /\ net' = [net EXCEPT ![m] = @ - amount]

\* releaseProduct: the whole lot.  The lot's count is zeroed BEFORE removeLot
\* subtracts it from the location, so the entry keeps its count.
CommitRelease(s) ==
    LET t == txn[s] IN
    /\ t.op = "release" /\ t.ready
    /\ LET row == ReleasedRow(t.was)
       IN  TakeOut(t, ReleaseCount(t.was), row, Removed(t.entry, row.count))
    /\ Logged /\ Close(s)
    /\ UNCHANGED <<orders, lastLot, packed, income>>

\* productErrorProcess: `amount` of the lot; no check against lot.count.
CommitScrap(s) ==
    LET t == txn[s] IN
    /\ t.op = "scrap" /\ t.ready
    /\ \E amount \in Amount :
         /\ Overdraw \/ amount <= t.was.count
         /\ TakeOut(t, amount, ScrappedRow(t.was, amount), Added(t.entry, -amount))
    /\ Logged /\ Close(s)
    /\ UNCHANGED <<orders, lastLot, packed, income>>

----------------------------------------------------------------------------
\* The material page (MeterialService.updateMaterial): it shows stockCount,
\* and saving the page writes back whatever count it then holds.

OpenForm(s) ==
    /\ ~IsOpen(s)
    /\ \E m \in Material :
         txn' = [txn EXCEPT ![s] = [op |-> "form", material |-> m, stock |-> stock[m]]]
    /\ UNCHANGED <<db, logs, ledger>>

SubmitForm(s) ==
    LET t == txn[s] IN
    /\ t.op = "form"
    /\ \E v \in Amount \cup {t.stock} :
         /\ stock' = [stock EXCEPT ![t.material] = v]
         /\ net' = [net EXCEPT ![t.material] = @ + (v - t.stock)]
    /\ Logged /\ Close(s)
    /\ UNCHANGED <<orders, lots, lastLot, shelf, packed, out, income>>

----------------------------------------------------------------------------
\* An exception in a handler: SessionMethod.closeSession rolls back.
Rollback(s) == IsOpen(s) /\ Close(s) /\ UNCHANGED <<db, logs, ledger>>

SessionStep(s) ==
    \/ BeginEdit(s) \/ CommitEdit(s)
    \/ BeginStore(s) \/ ReadStock(s) \/ CommitStore(s)
    \/ BeginRelease(s) \/ CommitRelease(s)
    \/ BeginScrap(s) \/ CommitScrap(s)
    \/ OpenForm(s) \/ SubmitForm(s)
    \/ Rollback(s)

Next == CreateOrders \/ DeleteOrders \/ \E s \in Session : SessionStep(s)

Spec == Init /\ [][Next]_vars

\* The same system when requests do not overlap: one user at a time.
Alone == \A s, t \in Session : IsOpen(s) /\ IsOpen(t) => s = t
SerialNext ==
    \/ (\A s \in Session : ~IsOpen(s)) /\ (CreateOrders \/ DeleteOrders)
    \/ \E s \in Session : (\A t \in Session \ {s} : ~IsOpen(t)) /\ SessionStep(s)
SerialSpec == Init /\ [][SerialNext]_vars
----------------------------------------------------------------------------
(* What holds however requests overlap. *)

\* A lot whose location was cleared by releaseProduct holds nothing: no
\* interleaving of a release with a scrap of the same lot, each writing the
\* whole lot row from its own reads, leaves a count on a lot without a place.
ReleasedLotIsEmpty ==
    \A l \in LotId : lots[l].location = NoLocation => lots[l].count = 0

\* Whatever a lot began with is still in it or booked out in srhistory: two
\* overlapping handlers may book the same pieces out twice (each from its own
\* reads), but pieces never disappear without a RELEASE row.
NothingUnaccounted ==
    ~Overdraw => \A l \in LotId : lots[l].count + out[l] >= packed[l]

\* A purchase order never counts more as stored than srhistory received for
\* it: overlapping completeOrder and updateAllOrderHistory lose deliveries
\* from storedCount, they never invent one.
NeverOverReceived == \A o \in Order : orders[o].stored <= income[o]

\* A lot never grows back beyond the count it was packed with, not even when
\* a stale row is written over a release.
LotsWithinPack ==
    ~Overdraw => \A l \in LotId : lots[l].count \in 0..packed[l]

(* What holds when requests do not overlap. *)

\* Lot counts and the RELEASE rows of srhistory agree, lot by lot.
LotsReconcile == \A l \in LotId : lots[l].count + out[l] = packed[l]

\* Material.stockCount is what srhistory and the manual corrections add up to.
StockReconciles == \A m \in Material : stock[m] = net[m]

\* OrderHistory.storedCount is what completeOrder received for the order.
OrdersReconcile == \A o \in Order : orders[o].stored = income[o]

\* The location list of ProductStockService never shows less of a material
\* than the lots on that location hold: releases leave the entry too high
\* (removeLot is called after the lot's count was zeroed), never too low.
LotCounts == [l \in LotId |-> lots[l].count]
LotsAt(p, m) == {l \in LotId : lots[l].location = p /\ lots[l].product = m}
Shown(p, m) == IF shelf[<<p, m>>] = NoEntry THEN 0 ELSE shelf[<<p, m>>]
ShelfCoversLots ==
    ~Overdraw => \A p \in Location, m \in Material :
                    Shown(p, m) >= SumFunctionOnSet(LotCounts, LotsAt(p, m))

\* The handlers implement the abstract ledger of StockLedger: each commit is
\* one of its operations on the figures of that moment, everything else is
\* invisible to it.
LotPlaces == [l \in LotId |-> IF l > lastLot THEN "free"
                              ELSE IF lots[l].location = NoLocation THEN "used"
                              ELSE lots[l].product]
Ledger == INSTANCE StockLedger WITH
    Lots <- LotId, onHand <- stock, held <- LotCounts, place <- LotPlaces
LedgerSpec == Ledger!Spec

\* A released lot is never put back on a location.
ReleasedStaysReleased ==
    [][\A l \in 1..lastLot : lots[l].location = NoLocation
                              => lots'[l].location = NoLocation]_vars

----------------------------------------------------------------------------
(* The inductive invariants behind the properties above. *)

IsLotTxn(s) == txn[s].op \in {"release", "scrap"}

\* A count c that lot l has, or had when a session read it.
Booked(c, l) == c \in 0..packed[l] /\ c + out[l] >= packed[l]

\* What a session read stays true enough: an order's stored count was covered
\* by deliveries, a lot's count together with what was booked out since covers
\* what the lot began with.
OverlapInv ==
    /\ ReleasedLotIsEmpty
    /\ NeverOverReceived
    /\ \A l \in LotId : lots[l].location \in Location => l <= lastLot
    /\ \A s \in Session :
         /\ txn[s].op = "store" => txn[s].was.stored <= income[txn[s].order]
         /\ txn[s].op = "edit" =>
              \A o \in txn[s].rows : txn[s].was[o].stored <= income[o]
         /\ IsLotTxn(s) => txn[s].lot <= lastLot
    /\ ~Overdraw =>
         /\ \A l \in LotId : out[l] >= 0 /\ Booked(lots[l].count, l)
         /\ \A s \in Session : IsLotTxn(s) => Booked(txn[s].was.count, txn[s].lot)

\* Without overlap what a session read is what the database still holds.
Fresh(s) ==
    /\ txn[s].op = "store" => txn[s].was = orders[txn[s].order]
    /\ txn[s].op = "edit" => \A o \in txn[s].rows : txn[s].was[o] = orders[o]
    /\ txn[s].op = "form" => txn[s].stock = stock[txn[s].material]
    /\ IsLotTxn(s) => txn[s].was = lots[txn[s].lot] /\ txn[s].lot <= lastLot
    /\ txn[s].op \in {"store", "release", "scrap"} /\ txn[s].ready
         => txn[s].stock = stock[txn[s].was.product]

\* The entry a lot handler will overwrite is the one of its cell.
EntryFresh(s) ==
    /\ txn[s].op = "store" => txn[s].entry = shelf[<<txn[s].loc, txn[s].was.product>>]
    /\ IsLotTxn(s) =>
         txn[s].entry = shelf[<<txn[s].was.location, txn[s].was.product>>]
ShelfInv == ShelfCoversLots /\ \A s \in Session : EntryFresh(s)

SerialInv ==
    /\ LotsReconcile /\ StockReconciles /\ OrdersReconcile
    /\ Alone
    /\ \A s \in Session : Fresh(s)
    /\ \A l \in LotId : l > lastLot => lots[l].location = NoLocation /\ out[l] = 0
    /\ \A o \in Unborn : income[o] = 0
=============================================================================
