----------------------------- MODULE WorkOrders -----------------------------
(***************************************************************************)
(* Received orders, their work orders, the change histories of failed work *)
(* orders, and the construction work that follows (Construction).          *)
(*                                                                         *)
(* A work order and a change history answer to the same requests: the id a *)
(* tablet sends is looked up as a work order first and as a history next.  *)
(* Handlers are read / commit pairs as in Inventory.  The database refuses *)
(* to delete a row that another row refers to, and an UPDATE of a row that *)
(* is gone fails; both roll the handler back.                              *)
(***************************************************************************)
EXTENDS Construction

CONSTANTS
    Session,   \* sessions that serve order and production requests
    Order,     \* the received orders
    PlanCount, \* the plan counts of work orders
    Count,     \* the counts a report may carry
    MaxWork,   \* bound: number of work orders
    MaxCommit  \* bound: commits of the handlers a client could repeat for ever

ASSUME WorkOrdersAssumption ==
    /\ 0 \notin Order /\ PlanCount \subseteq Nat
    /\ Count \subseteq Nat \ {0}
    /\ MaxWork \in Nat /\ MaxCommit \in Nat

VARIABLES
    orders,    \* recevied_order_info
    work,      \* work_order_info
    hist,      \* work_order_change_history
    shipped,   \* work orders some shipping_history row refers to
    txn,       \* what each session has read and not yet committed
    commits,   \* number of such commits so far
    tally      \* per work order, the changes of makeCount handlers announced

wvars == <<orders, work, hist, shipped, txn, commits, tally>>
vars == <<cvars, wvars>>
----------------------------------------------------------------------------
NoOrder == 0    \* no reference
OrderRow == [status: {"unborn", "live", "deleted"}, production: BOOLEAN]
WorkRow == [status: {"none", "live", "deleted"}, order: Order \cup {NoOrder},
            plan: Nat, make: Nat, construction: BOOLEAN, printer: BOOLEAN,
            finished: BOOLEAN, failed: BOOLEAN, checked: BOOLEAN]
HistRow == [work: IdOrNone, make: Nat, finished: BOOLEAN, disable: BOOLEAN]

NewWork(o, n, c) ==
    [status |-> "live", order |-> o, plan |-> n, make |-> 0, construction |-> c,
     printer |-> FALSE, finished |-> FALSE, failed |-> FALSE, checked |-> FALSE]
NoWork == [NewWork(NoOrder, 0, FALSE) EXCEPT !.status = "none"]
NoHist == [work |-> 0, make |-> 0, finished |-> FALSE, disable |-> FALSE]
NewHist(w) == [NoHist EXCEPT !.work = w]

Idle == [op |-> "idle"]
WorkTxn == [op: {"work"}, id: Id, was: WorkRow, hist: IdOrNone, hwas: HistRow,
            production: BOOLEAN]
OrderTxn == [op: {"order"}, order: Order, production: BOOLEAN]

TypeOK ==
    /\ ConstructionTypeOK
    /\ orders \in [Order -> OrderRow]
    /\ work \in [Id -> WorkRow]
    /\ hist \in [Id -> HistRow]
    /\ shipped \in SUBSET Id
    /\ txn \in [Session -> {Idle} \cup WorkTxn \cup OrderTxn]
    /\ commits \in 0..MaxCommit
    /\ tally \in [Id -> Int]

Init ==
    /\ ConstructionInit
    /\ orders = [o \in Order |-> [status |-> "unborn", production |-> FALSE]]
    /\ work = [w \in Id |-> NoWork]
    /\ hist = [h \in Id |-> NoHist]
    /\ shipped = {}
    /\ txn = [s \in Session |-> Idle]
    /\ commits = 0
    /\ tally = [w \in Id |-> 0]

LiveWork == {w \in Id : work[w].status = "live"}
Histories == {h \in Id : hist[h].work # 0}
HistoriesOf(w) == {h \in Id : hist[h].work = w}
PlansOf(w) == {p \in Id : plans[p].work = w}
IsOpen(s) == txn[s].op # "idle"
Close(s) == txn' = [txn EXCEPT ![s] = Idle]
Counted == commits < MaxCommit /\ commits' = commits + 1
\* A row that did not change in the session is not written.
Flush(now, read, new) == IF new = read THEN now ELSE new
----------------------------------------------------------------------------
\* What the handlers compute on the rows they read.  The first of two versions
\* of an operator is a plausible slip that no action uses.

\* WorkOrderInfo.isCompare and the test on a change history.
ReachedLate(row) == row.plan <= row.make + 1
Reached(row) == row.plan <= row.make

Done(row) == [row EXCEPT !.finished = TRUE, !.checked = TRUE]

\* completeWorkOrder of a work order: `n` more made, done once the plan is met.
CompletedRow(was, n) ==
    LET row == [was EXCEPT !.make = @ + n]
    IN  IF Reached(row) THEN Done(row) ELSE row

\* completeWorkOrder of a change history: both rows count; the history's quota
\* finishes the work order, its own quota also checks it.
CompletedHist(hwas, plan, n) ==
    [hwas EXCEPT !.make = @ + n, !.finished = @ \/ plan <= hwas.make + n]
RemadeRowForgets(was, hwas, n) ==
    IF was.plan > hwas.make + n THEN was
    ELSE IF Reached(was) THEN Done(was) ELSE [was EXCEPT !.finished = TRUE]
RemadeRow(was, hwas, n) ==
    LET row == [was EXCEPT !.make = @ + n]
    IN  IF was.plan > hwas.make + n THEN row
        ELSE IF Reached(row) THEN Done(row) ELSE [row EXCEPT !.finished = TRUE]

\* The construction work is planned when a completed row needs it.
NeedsPlanOnce(row) == row.checked /\ row.construction /\ ~row.failed
NeedsPlan(row) == row.construction /\ Reached(row)

\* completeProduction: the office declares the whole plan made; without a
\* printer it returns early.
ManagedRow(was) == [was EXCEPT !.finished = TRUE, !.make = was.plan]

\* failWorkInfo: a first failure reopens the work order; the tablet's version
\* also clears what was made, the web page's one needs a remake to reopen.
FailedRow(was) ==
    [was EXCEPT !.finished = @ /\ was.failed, !.failed = TRUE, !.make = 0]
WebFailedRowAlways(was, remake) == [was EXCEPT !.failed = @ \/ remake, !.finished = FALSE]
WebFailedRow(was, remake) ==
    [was EXCEPT !.failed = @ \/ remake, !.finished = @ /\ (was.failed \/ ~remake)]
DisabledHistKeeps(hwas) == [hwas EXCEPT !.make = 0]
DisabledHist(hwas) == [hwas EXCEPT !.disable = TRUE, !.make = 0]
----------------------------------------------------------------------------
\* Received orders (ReceviedOrderHistoryService).

CreateOrderInfo ==
    /\ \E o \in Order :
         /\ orders[o].status = "unborn"
         /\ orders' = [orders EXCEPT ![o].status = "live"]
    /\ UNCHANGED <<cvars, work, hist, shipped, txn, commits, tally>>

WorkOf(o) == {w \in LiveWork : work[w].order = o}

\* deleteOrderInfo: returns early when the order has work orders; the foreign
\* key makes that check and the delete one step.
DeleteOrderInfo ==
    /\ \E o \in Order :
         /\ orders[o].status = "live" /\ WorkOf(o) = {}
         /\ orders' = [orders EXCEPT ![o].status = "deleted"]
    /\ UNCHANGED <<cvars, work, hist, shipped, txn, commits, tally>>

\* updateOrderInfo: reads the row, and writes all of it back.
BeginUpdateOrder(s) ==
    /\ ~IsOpen(s)
    /\ \E o \in Order :
         /\ orders[o].status = "live"
         /\ txn' = [txn EXCEPT ![s] =
               [op |-> "order", order |-> o, production |-> orders[o].production]]
    /\ UNCHANGED <<cvars, orders, work, hist, shipped, commits, tally>>

UpdatedOrder(t) == [status |-> "live", production |-> t.production]
CommitUpdateOrder(s) ==
    LET t == txn[s] IN
    /\ t.op = "order"
    /\ orders[t.order].status = "live"
    /\ orders' = [orders EXCEPT ![t.order] = UpdatedOrder(t)]
    /\ Close(s)
    /\ UNCHANGED <<cvars, work, hist, shipped, commits, tally>>

\* createWorkOrderInfo: the order's list of work orders is not extended.  An
\* order that is gone leaves the work order without one.
CreateWorkOrder ==
    /\ \E o \in Order, n \in PlanCount, c \in BOOLEAN :
         /\ orders[o].status # "unborn"
         /\ seq < MaxId /\ seq' = seq + 1
         /\ Cardinality({w \in Id : work[w].status # "none"}) < MaxWork
         /\ work' = [work EXCEPT ![seq + 1] =
               NewWork(IF orders[o].status = "live" THEN o ELSE NoOrder, n, c)]
    /\ UNCHANGED <<plans, sites, results, visit, cleared, orders, hist, shipped, txn, commits, tally>>

DeleteWorkOrderCascades ==
    /\ \E w \in LiveWork :
         /\ HistoriesOf(w) = {} /\ w \notin shipped
         /\ work' = [work EXCEPT ![w].status = "deleted"]
         /\ plans' = [p \in Id |-> IF plans[p].work = w THEN NoPlan ELSE plans[p]]
    /\ UNCHANGED <<seq, sites, results, visit, cleared, orders, hist, shipped, txn, commits, tally>>
\* deleteWorkOrder: refused while a plan, a history or a shipping row refers
\* to the work order.
DeleteWorkOrder ==
    /\ \E w \in LiveWork :
         /\ HistoriesOf(w) = {} /\ PlansOf(w) = {} /\ w \notin shipped
         /\ work' = [work EXCEPT ![w].status = "deleted"]
    /\ UNCHANGED <<cvars, orders, hist, shipped, txn, commits, tally>>
----------------------------------------------------------------------------
\* Work orders: what every handler reads first.  Which handler it is shows
\* only at its commit.

Produced(o) == o # NoOrder /\ orders[o].production

\* The id names a work order, or a change history and through it its order.
ReadWork(s) ==
    /\ ~IsOpen(s)
    /\ \E w \in LiveWork, h \in {0} \cup Histories :
         /\ h # 0 => hist[h].work = w
         /\ txn' = [txn EXCEPT ![s] =
               [op |-> "work", id |-> w, was |-> work[w],
                hist |-> h, hwas |-> IF h = 0 THEN NoHist ELSE hist[h],
                production |-> Produced(work[w].order)]]
    /\ UNCHANGED <<cvars, orders, work, hist, shipped, commits, tally>>

\* The session's flush of the work order row.  `dirty`: a column that the model
\* leaves out has changed; `n` is what the handler adds to makeCount.
\* The handler's last step, a log entry, names the order: without one it fails.
WriteWork(t, row, dirty, n) ==
    /\ work[t.id].status = "live" /\ t.was.order # NoOrder
    /\ work' = IF dirty THEN [work EXCEPT ![t.id] = row]
               ELSE [work EXCEPT ![t.id] = Flush(@, t.was, row)]
    /\ tally' = [tally EXCEPT ![t.id] = @ + n]

\* completeWorkOrder without an error code.  order.isCompare() looks at a list
\* that stays empty, so the first report marks the order as produced.
CommitComplete(s) ==
    LET t == txn[s] IN
    /\ t.op = "work"
    /\ \E n \in Count :
         LET hrow == CompletedHist(t.hwas, t.was.plan, n)
             row == IF t.hist = 0 THEN CompletedRow(t.was, n)
                    ELSE RemadeRow(t.was, t.hwas, n)
             due == t.hist # 0 => t.was.plan <= hrow.make
         IN  /\ WriteWork(t, row, FALSE, n)
             /\ hist' = IF t.hist = 0 THEN hist ELSE [hist EXCEPT ![t.hist] = hrow]
             /\ IF due /\ NeedsPlan(row) THEN PlanWork(t.id) ELSE UNCHANGED cvars
    /\ orders' = IF t.production THEN orders
                 ELSE [orders EXCEPT ![t.was.order].production = TRUE]
    /\ shipped' = shipped \cup {t.id}
    /\ Counted /\ Close(s)

\* completeWorkOrder with an error code: an error row and a shipping row.
CommitDefective(s) ==
    LET t == txn[s] IN
    /\ t.op = "work" /\ t.hist = 0
    /\ work[t.id].status = "live" /\ t.was.order # NoOrder
    /\ shipped' = shipped \cup {t.id}
    /\ Counted /\ Close(s)
    /\ UNCHANGED <<cvars, orders, work, hist, tally>>

CommitManage(s) ==
    LET t == txn[s]
        row == ManagedRow(t.was)
    IN  /\ t.op = "work" /\ t.hist = 0 /\ t.was.printer
        /\ WriteWork(t, row, TRUE, t.was.plan - t.was.make)
        /\ IF row.construction THEN PlanWork(t.id) ELSE UNCHANGED cvars
        /\ Counted /\ Close(s)
        /\ UNCHANGED <<orders, hist, shipped>>

\* Both versions of failWorkInfo: the looked-up history is disabled, the work
\* order failed, and a remake saves a new history.  Without a remake the web
\* page's version writes the remark.
CommitFail(s) ==
    LET t == txn[s]
        old == IF t.hist = 0 THEN hist
               ELSE [hist EXCEPT ![t.hist] = Flush(@, t.hwas, DisabledHist(t.hwas))]
    IN  /\ t.op = "work"
        /\ \E remake \in BOOLEAN :
             /\ \/ WriteWork(t, FailedRow(t.was), FALSE, -t.was.make)
                \/ WriteWork(t, WebFailedRow(t.was, remake), ~remake, 0)
             /\ IF remake
                THEN /\ seq < MaxId /\ seq' = seq + 1
                     /\ hist' = [old EXCEPT ![seq + 1] = NewHist(t.id)]
                ELSE seq' = seq /\ hist' = old
        /\ Counted /\ Close(s)
        /\ UNCHANGED <<plans, sites, results, visit, cleared, orders, shipped>>

\* selectPrinter, switchEmergency, registDesign: one column, but the whole row
\* is written back.
CommitTouch(s) ==
    LET t == txn[s] IN
    /\ t.op = "work" /\ t.hist = 0
    /\ work[t.id].status = "live"
    /\ \E p \in BOOLEAN :
         work' = [work EXCEPT ![t.id] = [t.was EXCEPT !.printer = @ \/ p]]
    /\ Close(s)
    /\ UNCHANGED <<cvars, orders, hist, shipped, commits, tally>>

Rollback(s) ==
    /\ IsOpen(s) /\ Close(s)
    /\ UNCHANGED <<cvars, orders, work, hist, shipped, commits, tally>>

SessionStep(s) ==
    \/ BeginUpdateOrder(s) \/ CommitUpdateOrder(s)
    \/ ReadWork(s)
    \/ CommitComplete(s) \/ CommitDefective(s)
    \/ CommitManage(s) \/ CommitFail(s) \/ CommitTouch(s)
    \/ Rollback(s)

Instant == CreateOrderInfo \/ DeleteOrderInfo \/ CreateWorkOrder \/ DeleteWorkOrder

\* A step of the construction side.
Beside == ConstructionStep /\ UNCHANGED wvars

Next ==
    \/ Instant
    \/ \E s \in Session : SessionStep(s)
    \/ Beside

Spec == Init /\ [][Next]_vars

\* Production requests one at a time (construction requests may overlap).
SerialNext ==
    \/ (\A s \in Session : ~IsOpen(s)) /\ Instant
    \/ \E s \in Session : (\A r \in Session \ {s} : ~IsOpen(r)) /\ SessionStep(s)
    \/ Beside
SerialSpec == Init /\ [][SerialNext]_vars
----------------------------------------------------------------------------
(* However requests overlap.  These relate columns of one row, or rows       *)
(* inserted in the commit that made them necessary: they survive lost        *)
(* updates because a stale row is still one that some handler computed.      *)

\* No failure of the work order is on record, in its row or as a history.
NoFailure(w) == ~work[w].failed /\ HistoriesOf(w) = {}

\* A work order that is finished and has no failure on record met its plan.
FinishedMeetsPlan ==
    \A w \in LiveWork :
        work[w].finished /\ NoFailure(w) => work[w].plan <= work[w].make

\* A remake that is finished and still in force has met the plan by itself.
RemakeMeetsPlan ==
    \A h \in Histories :
        hist[h].finished /\ ~hist[h].disable => work[hist[h].work].plan <= hist[h].make

\* A work order that needs installing and was checked by the making team, or
\* finished without a failure, has a construction plan: no order of reports,
\* failures, remakes and stale writes finishes it without one.
FinishedIsPlanned ==
    \A w \in LiveWork :
        /\ work[w].construction
        /\ work[w].checked \/ (work[w].finished /\ NoFailure(w))
        => PlansOf(w) # {}

\* Work orders act on the construction side only by planning work and by
\* taking ids: every behaviour of the whole is one of Construction.
ConstructionSide == ConstructionSpec

(* One production request at a time. *)

\* makeCount is what the reports, failures and declarations add up to.
MakeCountReconciles == \A w \in LiveWork : work[w].make = tally[w]

\* A finished work order is reopened by its first failure and nothing else.
ReopenedByFirstFailure ==
    [][\A w \in LiveWork : work[w].finished /\ ~work'[w].finished
                            => ~work[w].failed /\ work'[w].failed]_vars

(* What the comments of the entities say and the code does not keep; no run *)
(* states these four.                                                       *)

\* isFailed: "true when a WorkOrderChangeHistory is registered".
FailedHasHistory == \A w \in LiveWork : work[w].failed => HistoriesOf(w) # {}

\* isDisable: "true when a new change history is registered".
OneOpenHistory ==
    \A w \in LiveWork : Cardinality({h \in HistoriesOf(w) : ~hist[h].disable}) <= 1

\* isFinished: "true when the making team has checked".
FinishedWasChecked == \A w \in LiveWork : work[w].finished => work[w].checked

\* isProduction: "production complete", when it is set.
ProductionMeansFinished ==
    [][\A o \in Order : ~orders[o].production /\ orders'[o].production
                         => \A w \in WorkOf(o) : work'[w].finished]_vars
----------------------------------------------------------------------------
(* The inductive invariant behind the first three properties, over that of   *)
(* Construction.                                                             *)

\* What FinishedMeetsPlan and FinishedIsPlanned say of a row of work order w,
\* current or only read.
RowSound(row, w) ==
    LET unfailed == row.finished /\ ~row.failed /\ HistoriesOf(w) = {}
    IN  /\ unfailed => row.plan <= row.make
        /\ row.construction /\ (row.checked \/ unfailed) => PlansOf(w) # {}

\* Nothing has an id not handed out yet, and a history is of a work order.
WorkIdsApart ==
    /\ \A i \in Id : i > seq => work[i].status = "none" /\ hist[i].work = 0
    /\ \A h \in Histories : hist[h].work \in Id /\ work[hist[h].work].status # "none"

\* What a session read of a work order, and of a history of it, is sound.
TxnSound(s) ==
    LET t == txn[s] IN
    t.op = "work" =>
        /\ t.was.status = "live" /\ work[t.id].status # "none"
        /\ t.was.plan = work[t.id].plan
        /\ RowSound(t.was, t.id)
        /\ t.hist # 0 =>
             /\ t.hist \in Id /\ hist[t.hist].work = t.id /\ t.hwas.work = t.id
             /\ t.hwas.finished /\ ~t.hwas.disable => t.was.plan <= t.hwas.make

WorkOrdersInv ==
    /\ RemakeMeetsPlan
    /\ \A w \in LiveWork : RowSound(work[w], w)
    /\ WorkIdsApart
    /\ \A s \in Session : TxnSound(s)
=============================================================================
