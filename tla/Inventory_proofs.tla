-------------------------- MODULE Inventory_proofs --------------------------
(* Theorems about Inventory, for every set of sessions, materials, orders... *)
EXTENDS Inventory, FiniteSetTheorems, WellFoundedInduction, TLAPS

LEMMA UnitPositive == \A m \in Material : Unit(m) \in Nat \ {0}
BY ConstantsAssumption DEF Unit

\* What storeMaterialProduct packs: a number of lots, each of a count >= 0.
LEMMA PackTypes ==
    ASSUME NEW a \in Nat, NEW u \in Nat \ {0}
    PROVE  /\ PackNumber(a, u) \in Nat
           /\ \A i \in Int : PackCount(a, u, i) \in Nat
<1>1. a \div u \in Nat /\ a % u \in 0..(u - 1)
  OBVIOUS
<1>. QED
  BY <1>1 DEF PackNumber, PackCount

LEMMA BlankTypes == BlankOrder \in OrderRow /\ BlankLot \in LotRow
BY DEF BlankOrder, BlankLot, OrderRow, LotRow, Product

LEMMA InitType == Init => TypeOK
<1> SUFFICES ASSUME Init PROVE TypeOK
  OBVIOUS
<1> USE DEF Init
<1>1. orders \in [Order -> OrderRow] /\ lots \in [LotId -> LotRow]
  BY BlankTypes
<1>2. lastLot \in 0..MaxLot /\ logs \in 0..MaxLog
  BY ConstantsAssumption
<1>3. shelf \in [Location \X Material -> Entry]
  BY DEF Entry
<1>4. txn \in [Session -> Txn]
  BY DEF Txn
<1>5. QED
  BY <1>1, <1>2, <1>3, <1>4 DEF TypeOK

----------------------------------------------------------------------------
(* Type correctness, action by action. *)

\* The op field tells which kind of record a session holds.
LEMMA TxnKind ==
    ASSUME NEW t \in Txn
    PROVE  /\ t.op \in {"idle", "store", "release", "scrap", "edit", "form"}
           /\ t.op = "edit" => t \in EditTxn
           /\ t.op = "store" => t \in StoreTxn
           /\ t.op \in {"release", "scrap"} => t \in LotTxn
           /\ t.op = "form" => t \in FormTxn
<1>1. t = Idle => t.op = "idle"
  BY DEF Idle
<1>2. t \in EditTxn => t.op = "edit"
  BY DEF EditTxn
<1>3. t \in StoreTxn => t.op = "store"
  BY DEF StoreTxn
<1>4. t \in LotTxn => t.op \in {"release", "scrap"}
  BY DEF LotTxn
<1>5. t \in FormTxn => t.op = "form"
  BY DEF FormTxn
<1>6. t = Idle \/ t \in EditTxn \/ t \in StoreTxn \/ t \in LotTxn \/ t \in FormTxn
  BY DEF Txn
<1>7. QED
  BY <1>1, <1>2, <1>3, <1>4, <1>5, <1>6

\* The two ways an action changes txn: it closes a session or opens one.
LEMMA CloseType ==
    ASSUME TypeOK, NEW s \in Session, Close(s)
    PROVE  txn' \in [Session -> Txn]
BY DEF TypeOK, Close, Txn

LEMMA OpenType ==
    ASSUME TypeOK, NEW s \in Session, NEW t \in Txn,
           txn' = [txn EXCEPT ![s] = t]
    PROVE  txn' \in [Session -> Txn]
BY DEF TypeOK

LEMMA LogType == ASSUME TypeOK, Logged PROVE logs' \in 0..MaxLog
BY ConstantsAssumption DEF TypeOK, Logged

LEMMA NewOrderType ==
    ASSUME NEW p \in Product, NEW n \in Amount
    PROVE  NewOrder(p, n) \in OrderRow
BY BlankTypes, ConstantsAssumption DEF NewOrder, BlankOrder, OrderRow

LEMMA CreateOrdersType == TypeOK /\ CreateOrders => TypeOK'
<1> SUFFICES ASSUME TypeOK, CreateOrders PROVE TypeOK'
  OBVIOUS
<1>0. PICK O \in SUBSET Unborn \ {{}} : \E line \in [O -> Line] :
        orders' = [o \in Order |-> IF o \in O
                     THEN NewOrder(line[o].product, line[o].ordered) ELSE orders[o]]
  BY DEF CreateOrders
<1>1. PICK line \in [O -> Line] :
        orders' = [o \in Order |-> IF o \in O
                     THEN NewOrder(line[o].product, line[o].ordered) ELSE orders[o]]
  BY <1>0
<1>2. \A o \in O : line[o].product \in Product /\ line[o].ordered \in Amount
  BY DEF Line
<1>3. orders' \in [Order -> OrderRow]
  BY <1>1, <1>2, NewOrderType DEF TypeOK
<1>4. logs' \in 0..MaxLog
  BY LogType DEF CreateOrders
<1>5. QED
  BY <1>3, <1>4 DEF TypeOK, CreateOrders, ledger

LEMMA DeleteOrdersType == TypeOK /\ DeleteOrders => TypeOK'
<1> SUFFICES ASSUME TypeOK, DeleteOrders PROVE TypeOK'
  OBVIOUS
<1>1. orders' \in [Order -> OrderRow]
  BY DEF DeleteOrders, TypeOK, OrderRow
<1>2. QED
  BY <1>1 DEF TypeOK, DeleteOrders, ledger

LEMMA BeginEditType ==
    ASSUME TypeOK, NEW s \in Session, BeginEdit(s)
    PROVE  TypeOK'
<1>1. PICK U \in SUBSET Live \ {{}} :
        txn' = [txn EXCEPT ![s] =
                  [op |-> "edit", rows |-> U,
                   was |-> [o \in Order |-> IF o \in U THEN orders[o] ELSE BlankOrder]]]
  BY DEF BeginEdit
<1>2. [o \in Order |-> IF o \in U THEN orders[o] ELSE BlankOrder] \in [Order -> OrderRow]
  BY BlankTypes DEF TypeOK
<1>3. U \in SUBSET Order
  BY DEF Live
<1>4. txn' \in [Session -> Txn]
  BY <1>1, <1>2, <1>3, OpenType DEF Txn, EditTxn
<1>5. QED
  BY <1>4 DEF TypeOK, BeginEdit, db, ledger

LEMMA CommitEditType ==
    ASSUME TypeOK, NEW s \in Session, CommitEdit(s)
    PROVE  TypeOK'
<1> DEFINE R == txn[s].rows
<1>0. PICK C \in SUBSET Unborn : \E line \in [R \cup C -> Line] :
        orders' = [o \in Order |->
             IF o \in R THEN [txn[s].was[o] EXCEPT !.product = line[o].product,
                                                   !.ordered = line[o].ordered]
             ELSE IF o \in C THEN NewOrder(line[o].product, line[o].ordered)
             ELSE orders[o]]
  BY DEF CommitEdit
<1>1. PICK line \in [R \cup C -> Line] :
        orders' = [o \in Order |->
             IF o \in R THEN [txn[s].was[o] EXCEPT !.product = line[o].product,
                                                   !.ordered = line[o].ordered]
             ELSE IF o \in C THEN NewOrder(line[o].product, line[o].ordered)
             ELSE orders[o]]
  BY <1>0
<1>2. \A o \in R \cup C : line[o].product \in Product /\ line[o].ordered \in Amount
  BY DEF Line
<1>3. txn[s] \in EditTxn
  BY TxnKind DEF CommitEdit, TypeOK
<1>4. \A o \in Order : txn[s].was[o] \in OrderRow
  BY <1>3 DEF EditTxn
<1>5. ASSUME NEW o \in R, o \in Order
      PROVE  [txn[s].was[o] EXCEPT !.product = line[o].product,
                                   !.ordered = line[o].ordered] \in OrderRow
  BY <1>2, <1>4, ConstantsAssumption, <1>5 DEF OrderRow
<1>6. \A o \in C : NewOrder(line[o].product, line[o].ordered) \in OrderRow
  BY <1>2, NewOrderType
<1>7. orders' \in [Order -> OrderRow]
  BY <1>1, <1>5, <1>6 DEF TypeOK
<1>8. txn' \in [Session -> Txn] /\ logs' \in 0..MaxLog
  BY CloseType, LogType DEF CommitEdit
<1>9. QED
  BY <1>7, <1>8 DEF TypeOK, CommitEdit, ledger

LEMMA BeginStoreType ==
    ASSUME TypeOK, NEW s \in Session, BeginStore(s)
    PROVE  TypeOK'
<1>1. PICK o \in Live, l \in Location :
        /\ orders[o].product \in Material
        /\ txn' = [txn EXCEPT ![s] =
                     [op |-> "store", order |-> o, was |-> orders[o], loc |-> l,
                      entry |-> shelf[<<l, orders[o].product>>],
                      ready |-> FALSE, stock |-> 0]]
  BY DEF BeginStore
<1>2. o \in Order /\ orders[o] \in {r \in OrderRow : r.product \in Material} /\ shelf[<<l, orders[o].product>>] \in Entry
  BY <1>1 DEF Live, TypeOK
<1> DEFINE t == [op |-> "store", order |-> o, was |-> orders[o], loc |-> l,
                 entry |-> shelf[<<l, orders[o].product>>],
                 ready |-> FALSE, stock |-> 0]
<1>3. t \in StoreTxn
  BY <1>2 DEF StoreTxn
<1>4. t \in Txn
  BY <1>3 DEF Txn
<1>5. txn' \in [Session -> Txn]
  BY <1>1, <1>4, OpenType
<1>6. QED
  BY <1>5 DEF TypeOK, BeginStore, db, ledger
LEMMA ReadStockType ==
    ASSUME TypeOK, NEW s \in Session, ReadStock(s)
    PROVE  TypeOK'
<1> DEFINE t == [txn[s] EXCEPT !.ready = TRUE, !.stock = stock[txn[s].was.product]]
<1>1. txn[s] \in StoreTxn \/ txn[s] \in LotTxn
  BY TxnKind DEF ReadStock, TypeOK
<1>2. stock[txn[s].was.product] \in Int
  BY <1>1 DEF StoreTxn, LotTxn, TypeOK
<1>3. t \in StoreTxn \/ t \in LotTxn
  BY <1>1, <1>2 DEF StoreTxn, LotTxn
<1>4. t \in Txn
  BY <1>3 DEF Txn
<1>5. txn' = [txn EXCEPT ![s] = t]
  BY DEF ReadStock
<1>6. txn' \in [Session -> Txn]
  BY <1>4, <1>5, OpenType
<1>7. QED
  BY <1>6 DEF TypeOK, ReadStock, db, ledger

LEMMA BeginLotType ==
    ASSUME TypeOK, NEW s \in Session, NEW op \in {"release", "scrap"}, BeginLot(s, op)
    PROVE  TypeOK'
<1>1. PICK l \in LotId :
        /\ lots[l].location \in Location /\ lots[l].product \in Material
        /\ txn' = [txn EXCEPT ![s] =
                     [op |-> op, lot |-> l, was |-> lots[l],
                      entry |-> shelf[<<lots[l].location, lots[l].product>>],
                      ready |-> FALSE, stock |-> 0]]
  BY DEF BeginLot
<1> DEFINE t == [op |-> op, lot |-> l, was |-> lots[l],
                 entry |-> shelf[<<lots[l].location, lots[l].product>>],
                 ready |-> FALSE, stock |-> 0]
<1>2. /\ lots[l] \in {r \in LotRow : r.product \in Material /\ r.location \in Location}
      /\ shelf[<<lots[l].location, lots[l].product>>] \in Entry
  BY <1>1 DEF TypeOK
<1>3. t \in LotTxn
  BY <1>2 DEF LotTxn
<1>4. t \in Txn
  BY <1>3 DEF Txn
<1>5. txn' \in [Session -> Txn]
  BY <1>1, <1>4, OpenType
<1>6. QED
  BY <1>5 DEF TypeOK, BeginLot, db, ledger

LEMMA CommitStoreType ==
    ASSUME TypeOK, NEW s \in Session, CommitStore(s)
    PROVE  TypeOK'
<1> DEFINE t == txn[s]
           m == t.was.product
           e == <<t.loc, m>>
           size(l, a) == PackCount(a, Unit(m), l - lastLot)
<1>1. /\ t.order \in Order /\ t.was \in OrderRow /\ m \in Material
      /\ t.loc \in Location /\ t.entry \in Entry /\ t.stock \in Int
  BY TxnKind DEF CommitStore, TypeOK, StoreTxn
<1>2. Unit(m) \in Nat \ {0}
  BY <1>1, UnitPositive
<1>3. PICK a \in Amount :
        LET n == PackNumber(a, Unit(m))
            new == NewLots(n)
        IN  /\ lastLot + n <= MaxLot
            /\ lastLot' = lastLot + n
            /\ lots' = [l \in LotId |-> IF l \in new
                  THEN [product |-> m, count |-> size(l, a), location |-> t.loc]
                  ELSE lots[l]]
            /\ packed' = [l \in LotId |-> IF l \in new THEN size(l, a) ELSE packed[l]]
            /\ shelf' = [shelf EXCEPT ![e] = Added(t.entry, a)]
            /\ stock' = [stock EXCEPT ![m] = t.stock + a]
            /\ orders' = [orders EXCEPT ![t.order] = StoredRow(t.was, a)]
            /\ income' = [income EXCEPT ![t.order] = @ + a]
            /\ net' = [net EXCEPT ![m] = @ + a]
  BY DEF CommitStore
<1>4. a \in Nat \ {0}
  BY ConstantsAssumption
<1>5. PackNumber(a, Unit(m)) \in Nat
  BY <1>2, <1>4, PackTypes
<1>6. lastLot' \in 0..MaxLot
  BY <1>3, <1>5, ConstantsAssumption DEF TypeOK
<1>7. \A l \in LotId : size(l, a) \in Nat
  <2>1. \A l \in LotId : l - lastLot \in Int
    BY ConstantsAssumption DEF LotId, TypeOK
  <2>2. QED
    BY <2>1, <1>2, <1>4, PackTypes
<1>8. lots' \in [LotId -> LotRow]
  <2>1. \A l \in LotId : [product |-> m, count |-> size(l, a), location |-> t.loc] \in LotRow
    BY <1>1, <1>7 DEF LotRow, Product
  <2>2. QED
    BY <1>3, <2>1 DEF TypeOK
<1>9. packed' \in [LotId -> Nat]
  BY <1>3, <1>7 DEF TypeOK
<1>10. shelf' \in [Location \X Material -> Entry]
  <2>1. Added(t.entry, a) \in Entry
    BY <1>1, <1>4, ConstantsAssumption DEF Added, Entry
  <2>2. QED
    BY <1>3, <2>1 DEF TypeOK
<1>11. stock' \in [Material -> Int] /\ net' \in [Material -> Int]
  BY <1>1, <1>3, <1>4 DEF TypeOK
<1>12. orders' \in [Order -> OrderRow]
  <2>1. t.was.stored + a \in Nat /\ t.was.complete \in BOOLEAN
    BY <1>1, <1>4 DEF OrderRow
  <2>2. [t.was EXCEPT !.stored = @ + a] \in OrderRow
    BY <1>1, <2>1 DEF OrderRow
  <2>3. StoredRow(t.was, a) \in OrderRow
    BY <1>1, <2>1, Zenon DEF StoredRow, OrderRow
  <2>4. QED
    BY <1>3, <2>3 DEF TypeOK
<1>13. income' \in [Order -> Nat]
  BY <1>1, <1>3, <1>4 DEF TypeOK
<1>14. txn' \in [Session -> Txn] /\ logs' \in 0..MaxLog /\ out' = out
  BY CloseType, LogType DEF CommitStore
<1>15. QED
  BY <1>6, <1>8, <1>9, <1>10, <1>11, <1>12, <1>13, <1>14 DEF TypeOK

\* What the two lot handlers share.
LEMMA TakeOutType ==
    ASSUME TypeOK, NEW t \in LotTxn, NEW a \in Int, NEW row \in LotRow,
           NEW entry \in Entry, TakeOut(t, a, row, entry)
    PROVE  /\ lots' \in [LotId -> LotRow]
           /\ shelf' \in [Location \X Material -> Entry]
           /\ stock' \in [Material -> Int]
           /\ out' \in [LotId -> Int]
           /\ net' \in [Material -> Int]
<1> DEFINE m == t.was.product
           e == <<t.was.location, m>>
<1>1. /\ t.lot \in LotId /\ m \in Material /\ t.was.location \in Location
      /\ t.entry \in Entry /\ t.stock \in Int
  BY DEF LotTxn
<1>2. /\ lots' = [lots EXCEPT ![t.lot] = row]
      /\ shelf' = [shelf EXCEPT ![e] = Flush(@, t.entry, entry)]
      /\ stock' = [stock EXCEPT ![m] = Flush(@, t.stock, StockAfter(t.stock, a))]
      /\ out' = [out EXCEPT ![t.lot] = @ + a]
      /\ net' = [net EXCEPT ![m] = @ - a]
  BY DEF TakeOut
<1>3. Flush(shelf[e], t.entry, entry) \in Entry
  BY <1>1 DEF Flush, TypeOK
<1>4. Flush(stock[m], t.stock, StockAfter(t.stock, a)) \in Int
  BY <1>1 DEF Flush, StockAfter, TypeOK
<1>5. QED
  BY <1>1, <1>2, <1>3, <1>4 DEF TypeOK

LEMMA CommitReleaseType ==
    ASSUME TypeOK, NEW s \in Session, CommitRelease(s)
    PROVE  TypeOK'
<1> DEFINE t == txn[s]
           row == ReleasedRow(t.was)
<1>1. t \in LotTxn
  BY TxnKind DEF CommitRelease, TypeOK
<1>2. t.was \in LotRow /\ t.entry \in Entry
  BY <1>1 DEF LotTxn
<1>3. row \in LotRow /\ ReleaseCount(t.was) \in Int
  BY <1>2 DEF ReleasedRow, ReleaseCount, LotRow
<1>4. Removed(t.entry, row.count) \in Entry
  BY <1>2, <1>3, ConstantsAssumption DEF Removed, Entry, LotRow
<1>5. TakeOut(t, ReleaseCount(t.was), row, Removed(t.entry, row.count))
  BY DEF CommitRelease
<1>6. txn' \in [Session -> Txn] /\ logs' \in 0..MaxLog
  BY CloseType, LogType DEF CommitRelease
<1>7. UNCHANGED <<orders, lastLot, packed, income>>
  BY DEF CommitRelease
<1> HIDE DEF t, row
<1>8. QED
  BY <1>1, <1>3, <1>4, <1>5, <1>6, <1>7, TakeOutType DEF TypeOK

LEMMA CommitScrapType ==
    ASSUME TypeOK, NEW s \in Session, CommitScrap(s)
    PROVE  TypeOK'
<1> DEFINE t == txn[s]
<1>1. t \in LotTxn
  BY TxnKind DEF CommitScrap, TypeOK
<1>2. t.was \in LotRow /\ t.entry \in Entry
  BY <1>1 DEF LotTxn
<1>3. PICK a \in Amount : TakeOut(t, a, ScrappedRow(t.was, a), Added(t.entry, -a))
  BY DEF CommitScrap
<1>4. a \in Int /\ -a \in Int
  BY ConstantsAssumption
<1>5. ScrappedRow(t.was, a) \in LotRow
  BY <1>2, <1>4 DEF ScrappedRow, LotRow
<1>6. Added(t.entry, -a) \in Entry
  BY <1>2, <1>4, ConstantsAssumption DEF Added, Entry
<1>7. txn' \in [Session -> Txn] /\ logs' \in 0..MaxLog
  BY CloseType, LogType DEF CommitScrap
<1>8. UNCHANGED <<orders, lastLot, packed, income>>
  BY DEF CommitScrap
<1> HIDE DEF t
<1>9. QED
  BY <1>1, <1>3, <1>4, <1>5, <1>6, <1>7, <1>8, TakeOutType DEF TypeOK

LEMMA FormType ==
    ASSUME TypeOK, NEW s \in Session, OpenForm(s) \/ SubmitForm(s)
    PROVE  TypeOK'
<1>1. CASE OpenForm(s)
  <2>1. PICK m \in Material :
          txn' = [txn EXCEPT ![s] = [op |-> "form", material |-> m, stock |-> stock[m]]]
    BY <1>1 DEF OpenForm
  <2>2. [op |-> "form", material |-> m, stock |-> stock[m]] \in FormTxn
    BY DEF FormTxn, TypeOK
  <2>3. [op |-> "form", material |-> m, stock |-> stock[m]] \in Txn
    BY <2>2 DEF Txn
  <2>4. txn' \in [Session -> Txn]
    BY <2>1, <2>3, OpenType
  <2>5. QED
    BY <1>1, <2>4 DEF TypeOK, OpenForm, db, ledger
<1>2. CASE SubmitForm(s)
  <2>1. txn[s].stock \in Int /\ txn[s].material \in Material
    BY <1>2, TxnKind DEF SubmitForm, TypeOK, FormTxn
  <2>5. PICK v \in Amount \cup {txn[s].stock} :
          /\ stock' = [stock EXCEPT ![txn[s].material] = v]
          /\ net' = [net EXCEPT ![txn[s].material] = @ + (v - txn[s].stock)]
    BY <1>2 DEF SubmitForm
  <2>6. v \in Int
    BY <2>1, ConstantsAssumption
  <2>2. stock' \in [Material -> Int] /\ net' \in [Material -> Int]
    BY <2>1, <2>5, <2>6 DEF TypeOK
  <2>3. txn' \in [Session -> Txn] /\ logs' \in 0..MaxLog
    BY <1>2, CloseType, LogType DEF SubmitForm
  <2>4. QED
    BY <1>2, <2>2, <2>3 DEF TypeOK, SubmitForm
<1>3. QED
  BY <1>1, <1>2

LEMMA RollbackType ==
    ASSUME TypeOK, NEW s \in Session, Rollback(s)
    PROVE  TypeOK'
BY CloseType DEF Rollback, TypeOK, db, ledger

\* Every reachable state of the concurrent system is well typed.
THEOREM TypeCorrect == Spec => []TypeOK
<1>1. Init => TypeOK
  BY InitType
<1>2. TypeOK /\ [Next]_vars => TypeOK'
  <2> SUFFICES ASSUME TypeOK, [Next]_vars PROVE TypeOK'
    OBVIOUS
  <2>1. CASE CreateOrders
    BY <2>1, CreateOrdersType
  <2>2. CASE DeleteOrders
    BY <2>2, DeleteOrdersType
  <2>3. ASSUME NEW s \in Session, SessionStep(s) PROVE TypeOK'
    BY <2>3, BeginEditType, CommitEditType, BeginStoreType, ReadStockType,
       CommitStoreType, BeginLotType, CommitReleaseType, CommitScrapType,
       FormType, RollbackType
    DEF SessionStep, BeginRelease, BeginScrap
  <2>4. CASE UNCHANGED vars
    BY <2>4 DEF TypeOK, vars, db, ledger
  <2>5. QED
    BY <2>1, <2>2, <2>3, <2>4 DEF Next
<1>3. QED
  BY <1>1, <1>2, PTL DEF Spec
----------------------------------------------------------------------------
(* What holds however sessions overlap: OverlapInv is inductive. *)

LEMMA InitOverlap == Init => OverlapInv
BY ConstantsAssumption
   DEF Init, OverlapInv, ReleasedLotIsEmpty, NeverOverReceived, IsLotTxn, Booked,
       BlankOrder, BlankLot, Idle

\* The part of OverlapInv that only speaks of lots.
LotsPart ==
    /\ ReleasedLotIsEmpty
    /\ \A l \in LotId : lots[l].location \in Location => l <= lastLot
    /\ ~Overdraw => \A l \in LotId : out[l] >= 0 /\ Booked(lots[l].count, l)

\* What OverlapInv says of one session.
SessionPart(s) ==
    /\ txn[s].op = "store" => txn[s].was.stored <= income[txn[s].order]
    /\ txn[s].op = "edit" =>
         \A o \in txn[s].rows : txn[s].was[o].stored <= income[o]
    /\ IsLotTxn(s) => txn[s].lot <= lastLot
    /\ ~Overdraw /\ IsLotTxn(s) => Booked(txn[s].was.count, txn[s].lot)

LEMMA OverlapParts ==
    OverlapInv <=> LotsPart /\ NeverOverReceived /\ \A s \in Session : SessionPart(s)
BY DEF OverlapInv, LotsPart, SessionPart

LEMMA OverlapPartsNext ==
    OverlapInv' <=> LotsPart' /\ NeverOverReceived' /\ \A s \in Session : SessionPart(s)'
BY DEF OverlapInv, LotsPart, SessionPart

\* A session that is idle, or was not touched by a step that only moves the
\* ledger up, keeps its part.
LEMMA IdlePart ==
    ASSUME NEW s \in Session, txn'[s] = Idle
    PROVE  SessionPart(s)'
BY DEF SessionPart, IsLotTxn, Idle

LEMMA OtherPart ==
    ASSUME TypeOK, NEW s \in Session, SessionPart(s), txn'[s] = txn[s],
           lastLot' >= lastLot, lastLot' \in Nat,
           \A o \in Order : income'[o] \in Nat /\ income'[o] >= income[o],
           \A l \in 1..lastLot : packed'[l] = packed[l],
           \A l \in LotId : out'[l] \in Int,
           ~Overdraw => \A l \in LotId : out'[l] >= out[l]
    PROVE  SessionPart(s)'
<1> DEFINE t == txn[s]
<1>1. t \in Txn /\ lastLot \in Nat
  BY ConstantsAssumption DEF TypeOK
<1>2. t.op = "store" => t.was.stored <= income'[t.order]
  BY <1>1, TxnKind DEF SessionPart, StoreTxn, OrderRow, TypeOK
<1>3. t.op = "edit" => \A o \in t.rows : t.was[o].stored <= income'[o]
  BY <1>1, TxnKind DEF SessionPart, EditTxn, OrderRow, TypeOK
<1>4. IsLotTxn(s) => t.lot <= lastLot' /\ t.lot \in LotId /\ t.was.count \in Int
  BY <1>1, TxnKind, ConstantsAssumption DEF SessionPart, IsLotTxn, LotTxn, LotRow, LotId
<1>5. IsLotTxn(s) => t.lot \in 1..lastLot
  BY <1>1, <1>4, ConstantsAssumption DEF SessionPart, LotId
<1>6. ~Overdraw /\ IsLotTxn(s) =>
        t.was.count \in 0..packed'[t.lot] /\ t.was.count + out'[t.lot] >= packed'[t.lot]
  BY <1>4, <1>5 DEF SessionPart, Booked, TypeOK
<1>7. QED
  BY <1>2, <1>3, <1>4, <1>6 DEF SessionPart, IsLotTxn, Booked

LEMMA CreateOrdersOverlap == TypeOK /\ OverlapInv /\ CreateOrders => OverlapInv'
<1> SUFFICES ASSUME TypeOK, OverlapInv, CreateOrders PROVE OverlapInv'
  OBVIOUS
<1>1. UNCHANGED <<lots, lastLot, shelf, stock, txn, ledger>>
  BY DEF CreateOrders
<1>2. \A o \in Order : orders'[o].stored <= income[o]
  <2>1. \A o \in Order : orders'[o] = orders[o]
                           \/ \E p \in Product, n \in Amount : orders'[o] = NewOrder(p, n)
    BY DEF CreateOrders, Line
  <2>2. \A p, n : NewOrder(p, n).stored = 0
    BY DEF NewOrder, BlankOrder
  <2>3. QED
    BY <2>1, <2>2 DEF OverlapInv, NeverOverReceived, TypeOK
<1>3. QED
  BY <1>1, <1>2 DEF OverlapInv, NeverOverReceived, ReleasedLotIsEmpty, IsLotTxn, Booked, ledger

LEMMA DeleteOrdersOverlap == TypeOK /\ OverlapInv /\ DeleteOrders => OverlapInv'
<1> SUFFICES ASSUME TypeOK, OverlapInv, DeleteOrders PROVE OverlapInv'
  OBVIOUS
<1>1. \A o \in Order : orders'[o].stored = orders[o].stored
  BY DEF DeleteOrders, TypeOK, OrderRow
<1>2. QED
  BY <1>1 DEF DeleteOrders, OverlapInv, NeverOverReceived, ReleasedLotIsEmpty,
              IsLotTxn, Booked, ledger

\* Steps that only read: BeginEdit, BeginStore, BeginLot, OpenForm, ReadStock
\* and Rollback change nothing but the session's own record.
LEMMA ReadOverlap ==
    ASSUME TypeOK, OverlapInv, NEW s \in Session, UNCHANGED <<db, logs, ledger>>,
           \A r \in Session \ {s} : txn'[r] = txn[r],
           SessionPart(s)'
    PROVE  OverlapInv'
<1>1. LotsPart' /\ NeverOverReceived'
  BY OverlapParts DEF LotsPart, NeverOverReceived, ReleasedLotIsEmpty, Booked, db, ledger
<1>2. \A r \in Session \ {s} : SessionPart(r)'
  BY OverlapParts DEF SessionPart, IsLotTxn, Booked, db, ledger
<1>3. QED
  BY <1>1, <1>2, OverlapPartsNext
LEMMA OnlyOwn ==
    ASSUME TypeOK, NEW s \in Session, NEW t, txn' = [txn EXCEPT ![s] = t]
    PROVE  txn'[s] = t /\ \A r \in Session \ {s} : txn'[r] = txn[r]
BY DEF TypeOK

LEMMA CloseOwn ==
    ASSUME TypeOK, NEW s \in Session, Close(s)
    PROVE  txn'[s] = Idle /\ \A r \in Session \ {s} : txn'[r] = txn[r]
BY OnlyOwn DEF Close

LEMMA BeginEditOverlap ==
    ASSUME TypeOK, OverlapInv, NEW s \in Session, BeginEdit(s)
    PROVE  OverlapInv'
<1>1. PICK U \in SUBSET Live \ {{}} :
        txn' = [txn EXCEPT ![s] =
                  [op |-> "edit", rows |-> U,
                   was |-> [o \in Order |-> IF o \in U THEN orders[o] ELSE BlankOrder]]]
  BY DEF BeginEdit
<1>2. U \subseteq Order
  BY DEF Live
<1>3. UNCHANGED <<db, logs, ledger>>
  BY DEF BeginEdit
<1>4. /\ txn'[s].op = "edit" /\ txn'[s].rows = U
      /\ \A o \in U : txn'[s].was[o] = orders[o]
      /\ \A r \in Session \ {s} : txn'[r] = txn[r]
  BY <1>1, <1>2, OnlyOwn
<1>5. SessionPart(s)'
  BY <1>2, <1>3, <1>4 DEF SessionPart, IsLotTxn, OverlapInv, NeverOverReceived, ledger
<1>6. QED
  BY <1>3, <1>4, <1>5, ReadOverlap

LEMMA BeginStoreOverlap ==
    ASSUME TypeOK, OverlapInv, NEW s \in Session, BeginStore(s)
    PROVE  OverlapInv'
<1>1. PICK o \in Live, l \in Location :
        txn' = [txn EXCEPT ![s] =
                  [op |-> "store", order |-> o, was |-> orders[o], loc |-> l,
                   entry |-> shelf[<<l, orders[o].product>>],
                   ready |-> FALSE, stock |-> 0]]
  BY DEF BeginStore
<1>2. UNCHANGED <<db, logs, ledger>>
  BY DEF BeginStore
<1> DEFINE t == [op |-> "store", order |-> o, was |-> orders[o], loc |-> l,
                 entry |-> shelf[<<l, orders[o].product>>],
                 ready |-> FALSE, stock |-> 0]
<1>0. t.op = "store" /\ t.order = o /\ t.was = orders[o]
  OBVIOUS
<1> HIDE DEF t
<1>3. /\ txn'[s].op = "store" /\ txn'[s].order = o /\ txn'[s].was = orders[o]
      /\ \A r \in Session \ {s} : txn'[r] = txn[r]
  <2>1. txn' = [txn EXCEPT ![s] = t]
    BY <1>1 DEF t
  <2>2. QED
    BY <1>0, <2>1, OnlyOwn
<1>4. o \in Order
  BY DEF Live
<1>5. SessionPart(s)'
  BY <1>2, <1>3, <1>4 DEF SessionPart, IsLotTxn, OverlapInv, NeverOverReceived, ledger
<1>6. QED
  BY <1>2, <1>3, <1>5, ReadOverlap

LEMMA BeginLotOverlap ==
    ASSUME TypeOK, OverlapInv, NEW s \in Session, NEW op \in {"release", "scrap"},
           BeginLot(s, op)
    PROVE  OverlapInv'
<1>1. PICK l \in LotId :
        /\ lots[l].location \in Location
        /\ txn' = [txn EXCEPT ![s] =
                     [op |-> op, lot |-> l, was |-> lots[l],
                      entry |-> shelf[<<lots[l].location, lots[l].product>>],
                      ready |-> FALSE, stock |-> 0]]
  BY DEF BeginLot
<1>2. UNCHANGED <<db, logs, ledger>>
  BY DEF BeginLot
<1> DEFINE t == [op |-> op, lot |-> l, was |-> lots[l],
                 entry |-> shelf[<<lots[l].location, lots[l].product>>],
                 ready |-> FALSE, stock |-> 0]
<1>0. t.op = op /\ t.lot = l /\ t.was = lots[l]
  OBVIOUS
<1> HIDE DEF t
<1>3. /\ txn'[s].op = op /\ txn'[s].lot = l /\ txn'[s].was = lots[l]
      /\ \A r \in Session \ {s} : txn'[r] = txn[r]
  <2>1. txn' = [txn EXCEPT ![s] = t]
    BY <1>1 DEF t
  <2>2. QED
    BY <1>0, <2>1, OnlyOwn
<1>4. SessionPart(s)'
  BY <1>1, <1>2, <1>3 DEF SessionPart, IsLotTxn, OverlapInv, Booked, db, ledger
<1>5. QED
  BY <1>2, <1>3, <1>4, ReadOverlap

LEMMA ReadStockOverlap ==
    ASSUME TypeOK, OverlapInv, NEW s \in Session, ReadStock(s)
    PROVE  OverlapInv'
<1>1. UNCHANGED <<db, logs, ledger>>
  BY DEF ReadStock
<1>2. txn[s] \in StoreTxn \/ txn[s] \in LotTxn
  BY TxnKind DEF ReadStock, TypeOK
<1>3. txn'[s] = [txn[s] EXCEPT !.ready = TRUE, !.stock = stock[txn[s].was.product]]
  BY DEF ReadStock, TypeOK
<1>4. \A r \in Session \ {s} : txn'[r] = txn[r]
  BY DEF ReadStock, TypeOK
<1>5. CASE txn[s] \in StoreTxn
  <2>1. txn'[s].op = "store" /\ txn'[s].was = txn[s].was /\ txn'[s].order = txn[s].order
        /\ txn[s].op = "store"
    BY <1>3, <1>5 DEF StoreTxn
  <2>2. SessionPart(s)'
    BY <1>1, <2>1 DEF SessionPart, IsLotTxn, OverlapInv, ledger
  <2>3. QED
    BY <1>1, <1>4, <2>2, ReadOverlap
<1>6. CASE txn[s] \in LotTxn
  <2>1. txn'[s].op \in {"release", "scrap"} /\ txn'[s].was = txn[s].was
        /\ txn'[s].lot = txn[s].lot /\ IsLotTxn(s)
    BY <1>3, <1>6 DEF LotTxn, IsLotTxn
  <2>2. SessionPart(s)'
    BY <1>1, <2>1 DEF SessionPart, IsLotTxn, OverlapInv, Booked, db, ledger
  <2>3. QED
    BY <1>1, <1>4, <2>2, ReadOverlap
<1>7. QED
  BY <1>2, <1>5, <1>6

LEMMA OpenFormOverlap ==
    ASSUME TypeOK, OverlapInv, NEW s \in Session, OpenForm(s)
    PROVE  OverlapInv'
<1>1. PICK m \in Material :
        txn' = [txn EXCEPT ![s] = [op |-> "form", material |-> m, stock |-> stock[m]]]
  BY DEF OpenForm
<1> DEFINE t == [op |-> "form", material |-> m, stock |-> stock[m]]
<1>0. t.op = "form"
  OBVIOUS
<1> HIDE DEF t
<1>2. txn'[s].op = "form" /\ \A r \in Session \ {s} : txn'[r] = txn[r]
  <2>1. txn' = [txn EXCEPT ![s] = t]
    BY <1>1 DEF t
  <2>2. QED
    BY <1>0, <2>1, OnlyOwn
<1>3. SessionPart(s)'
  BY <1>2 DEF SessionPart, IsLotTxn
<1>4. QED
  BY <1>2, <1>3, ReadOverlap DEF OpenForm

LEMMA RollbackOverlap ==
    ASSUME TypeOK, OverlapInv, NEW s \in Session, Rollback(s)
    PROVE  OverlapInv'
<1>1. txn'[s] = Idle /\ \A r \in Session \ {s} : txn'[r] = txn[r]
  BY CloseOwn DEF Rollback
<1>2. QED
  BY <1>1, IdlePart, ReadOverlap DEF Rollback
LEMMA SubmitFormOverlap ==
    ASSUME TypeOK, OverlapInv, NEW s \in Session, SubmitForm(s)
    PROVE  OverlapInv'
<1>1. UNCHANGED <<orders, lots, lastLot, packed, out, income>>
  BY DEF SubmitForm
<1>2. txn'[s] = Idle /\ \A r \in Session \ {s} : txn'[r] = txn[r]
  BY CloseOwn DEF SubmitForm
<1>3. LotsPart' /\ NeverOverReceived'
  BY <1>1, OverlapParts DEF LotsPart, NeverOverReceived, ReleasedLotIsEmpty, Booked
<1>4. \A r \in Session \ {s} : SessionPart(r)'
  BY <1>1, <1>2, OverlapParts DEF SessionPart, IsLotTxn, Booked
<1>5. SessionPart(s)'
  BY <1>2, IdlePart
<1>6. QED
  BY <1>3, <1>4, <1>5, OverlapPartsNext

LEMMA CommitEditOverlap ==
    ASSUME TypeOK, OverlapInv, NEW s \in Session, CommitEdit(s)
    PROVE  OverlapInv'
<1>1. UNCHANGED <<lots, lastLot, packed, out, income>>
  BY DEF CommitEdit, ledger
<1>2. txn'[s] = Idle /\ \A r \in Session \ {s} : txn'[r] = txn[r]
  BY CloseOwn DEF CommitEdit
<1>3. NeverOverReceived'
  <2> DEFINE R == txn[s].rows
  <2>1. PICK C \in SUBSET Unborn : \E line \in [R \cup C -> Line] :
          orders' = [o \in Order |->
             IF o \in R THEN [txn[s].was[o] EXCEPT !.product = line[o].product,
                                                   !.ordered = line[o].ordered]
             ELSE IF o \in C THEN NewOrder(line[o].product, line[o].ordered)
             ELSE orders[o]]
    BY DEF CommitEdit
  <2>2. PICK line \in [R \cup C -> Line] :
          orders' = [o \in Order |->
             IF o \in R THEN [txn[s].was[o] EXCEPT !.product = line[o].product,
                                                   !.ordered = line[o].ordered]
             ELSE IF o \in C THEN NewOrder(line[o].product, line[o].ordered)
             ELSE orders[o]]
    BY <2>1
  <2>3. txn[s] \in EditTxn
    BY TxnKind DEF CommitEdit, TypeOK
  <2>4. ASSUME NEW o \in Order PROVE orders'[o].stored <= income[o]
    <3>1. CASE o \in R
      <4>1. orders'[o].stored = txn[s].was[o].stored
        BY <2>2, <2>3, <3>1 DEF EditTxn, OrderRow
      <4>2. QED
        BY <4>1, <3>1 DEF OverlapInv, CommitEdit
    <3>2. CASE o \notin R /\ o \in C
      <4>1. orders'[o].stored = 0
        BY <2>2, <3>2 DEF NewOrder, BlankOrder
      <4>2. QED
        BY <4>1 DEF TypeOK
    <3>3. CASE o \notin R /\ o \notin C
      BY <2>2, <3>3 DEF OverlapInv, NeverOverReceived
    <3>4. QED
      BY <3>1, <3>2, <3>3
  <2>5. QED
    BY <1>1, <2>4 DEF NeverOverReceived
<1>4. LotsPart'
  BY <1>1, OverlapParts DEF LotsPart, ReleasedLotIsEmpty, Booked
<1>5. \A r \in Session \ {s} : SessionPart(r)'
  BY <1>1, <1>2, OverlapParts DEF SessionPart, IsLotTxn, Booked
<1>6. SessionPart(s)'
  BY <1>2, IdlePart
<1>7. QED
  BY <1>3, <1>4, <1>5, <1>6, OverlapPartsNext

LEMMA CommitStoreOverlap ==
    ASSUME TypeOK, OverlapInv, NEW s \in Session, CommitStore(s)
    PROVE  OverlapInv'
<1> DEFINE t == txn[s]
           m == t.was.product
           size(l, a) == PackCount(a, Unit(m), l - lastLot)
<1>1. /\ t.order \in Order /\ t.was \in OrderRow /\ m \in Material /\ t.loc \in Location
      /\ t.op = "store"
  BY TxnKind DEF CommitStore, TypeOK, StoreTxn
<1>2. Unit(m) \in Nat \ {0}
  BY <1>1, UnitPositive
<1>3. PICK a \in Amount :
        /\ lastLot' = lastLot + PackNumber(a, Unit(m))
        /\ lastLot' <= MaxLot
        /\ lots' = [l \in LotId |-> IF l \in NewLots(PackNumber(a, Unit(m)))
              THEN [product |-> m, count |-> size(l, a), location |-> t.loc]
              ELSE lots[l]]
        /\ packed' = [l \in LotId |-> IF l \in NewLots(PackNumber(a, Unit(m)))
              THEN size(l, a) ELSE packed[l]]
        /\ orders' = [orders EXCEPT ![t.order] = StoredRow(t.was, a)]
        /\ income' = [income EXCEPT ![t.order] = @ + a]
  BY DEF CommitStore
<1>4. a \in Nat \ {0}
  BY ConstantsAssumption
<1> DEFINE n == PackNumber(a, Unit(m))
<1>5. n \in Nat
  BY <1>2, <1>4, PackTypes
<1>6. lastLot \in Nat /\ lastLot' \in Nat /\ lastLot' >= lastLot
  BY <1>3, <1>5, ConstantsAssumption DEF TypeOK
<1>7. out' = out
  BY DEF CommitStore
<1> HIDE DEF n
<1>8. LotsPart'
  <2>1. ASSUME NEW l \in LotId
        PROVE  /\ lots'[l].location = NoLocation => lots'[l].count = 0
               /\ lots'[l].location \in Location => l <= lastLot'
               /\ ~Overdraw => out'[l] >= 0 /\ Booked(lots[l].count, l)'
    <3>1. CASE l \in NewLots(n)
      <4>1. lots'[l] = [product |-> m, count |-> size(l, a), location |-> t.loc]
            /\ packed'[l] = size(l, a)
        BY <1>3, <3>1 DEF n
      <4>2. l - lastLot \in Int
        BY <1>6, ConstantsAssumption DEF LotId
      <4>3. size(l, a) \in Nat
        BY <4>2, <1>2, <1>4, PackTypes
      <4>4. l <= lastLot'
        BY <1>3, <1>5, <1>6, <3>1 DEF NewLots, n
      <4>5. ~Overdraw => out'[l] >= 0 /\ out[l] \in Int
        BY <1>7 DEF OverlapInv, TypeOK
      <4>6. ~Overdraw => Booked(lots[l].count, l)'
        BY <4>1, <4>3, <4>5, <1>7 DEF Booked
      <4>7. t.loc # NoLocation
        BY <1>1, ConstantsAssumption
      <4>8. QED
        BY <4>1, <4>4, <4>5, <4>6, <4>7
    <3>2. CASE l \notin NewLots(n)
      <4>1. lots'[l] = lots[l] /\ packed'[l] = packed[l]
        BY <1>3, <3>2 DEF n
      <4>2. l \in Int
        BY ConstantsAssumption DEF LotId
      <4>3. QED
        BY <4>1, <4>2, <1>6, <1>7 DEF OverlapInv, ReleasedLotIsEmpty, Booked
    <3>3. QED
      BY <3>1, <3>2
  <2>2. QED
    BY <2>1 DEF LotsPart, ReleasedLotIsEmpty
<1>9. \A o \in Order : income'[o] \in Nat /\ income'[o] >= income[o]
  BY <1>1, <1>3, <1>4 DEF TypeOK
<1>10. NeverOverReceived'
  <2>1. StoredRow(t.was, a).stored = t.was.stored + a
    BY <1>1 DEF StoredRow, OrderRow
  <2>2. t.was.stored <= income[t.order]
    BY <1>1 DEF OverlapInv
  <2>3. orders'[t.order].stored <= income'[t.order]
    BY <1>1, <1>3, <1>4, <2>1, <2>2 DEF TypeOK, OrderRow
  <2>4. \A o \in Order \ {t.order} : orders'[o].stored <= income'[o]
    BY <1>3 DEF TypeOK, OverlapInv, NeverOverReceived
  <2>5. QED
    BY <2>3, <2>4 DEF NeverOverReceived
<1>11. txn'[s] = Idle /\ \A r \in Session \ {s} : txn'[r] = txn[r]
  BY CloseOwn DEF CommitStore
<1>12. \A l \in 1..lastLot : packed'[l] = packed[l]
  <2>1. \A l \in 1..lastLot : l \in LotId /\ l \notin NewLots(n)
    BY <1>5, <1>6, ConstantsAssumption DEF LotId, NewLots, TypeOK
  <2>2. QED
    BY <2>1, <1>3 DEF n
<1>13. \A l \in LotId : out'[l] \in Int /\ out'[l] >= out[l]
  BY <1>7 DEF TypeOK
<1>14. \A r \in Session \ {s} : SessionPart(r)'
  BY <1>6, <1>9, <1>11, <1>12, <1>13, OtherPart, OverlapParts
<1>15. SessionPart(s)'
  BY <1>11, IdlePart
<1>16. QED
  BY <1>8, <1>10, <1>14, <1>15, OverlapPartsNext
\* Both lot handlers: the row they write and the amount they book out balance
\* the count they read.
LEMMA TakeOutOverlap ==
    ASSUME TypeOK, OverlapInv, NEW s \in Session, IsLotTxn(s), Close(s),
           NEW a \in Int, NEW row \in LotRow, NEW entry,
           TakeOut(txn[s], a, row, entry),
           UNCHANGED <<orders, lastLot, packed, income>>,
           row.location = NoLocation => row.count = 0,
           row.count = txn[s].was.count - a,
           ~Overdraw => a >= 0 /\ row.count >= 0
    PROVE  OverlapInv'
<1> DEFINE t == txn[s]
<1>0. PICK k \in LotId : k = t.lot
  BY TxnKind DEF IsLotTxn, TypeOK, LotTxn
<1>1. t \in LotTxn /\ k = t.lot /\ t.was \in LotRow
  BY <1>0, TxnKind DEF IsLotTxn, TypeOK, LotTxn
<1>2. /\ lots' = [lots EXCEPT ![k] = row]
      /\ out' = [out EXCEPT ![k] = @ + a]
  BY <1>1 DEF TakeOut
<1>3. k <= lastLot /\ (~Overdraw => Booked(t.was.count, k) /\ out[k] >= 0)
  BY <1>1 DEF OverlapInv
<1>4. /\ lots'[k] = row /\ out'[k] = out[k] + a
      /\ \A l \in LotId \ {k} : lots'[l] = lots[l] /\ out'[l] = out[l]
  BY <1>1, <1>2 DEF TypeOK
<1>5. ASSUME ~Overdraw PROVE out'[k] >= 0 /\ Booked(lots[k].count, k)'
  <2>1. /\ t.was.count \in 0..packed[k] /\ t.was.count + out[k] >= packed[k]
        /\ out[k] >= 0 /\ a >= 0 /\ row.count >= 0
    BY <1>3, <1>5 DEF Booked
  <2>2. out[k] \in Int /\ packed[k] \in Nat /\ packed'[k] = packed[k]
    BY <1>1 DEF TypeOK
  <2>3. lots'[k].count = t.was.count - a /\ out'[k] = out[k] + a
    BY <1>4
  <2>4. lots'[k].count \in 0..packed'[k] /\ lots'[k].count + out'[k] >= packed'[k]
    BY <2>1, <2>2, <2>3
  <2>5. QED
    BY <2>1, <2>2, <2>3, <2>4 DEF Booked
<1>6. LotsPart'
  <2>1. ASSUME NEW l \in LotId
        PROVE  /\ lots'[l].location = NoLocation => lots'[l].count = 0
               /\ lots'[l].location \in Location => l <= lastLot'
               /\ ~Overdraw => out'[l] >= 0 /\ Booked(lots[l].count, l)'
    <3>1. CASE l = k
      BY <1>3, <1>4, <1>5, <3>1
    <3>2. CASE l # k
      <4>1. lots'[l] = lots[l] /\ out'[l] = out[l] /\ packed' = packed /\ lastLot' = lastLot
        BY <1>4, <3>2
      <4>2. ~Overdraw => out[l] >= 0 /\ Booked(lots[l].count, l)
        BY DEF OverlapInv
      <4>3. QED
        BY <4>1, <4>2 DEF OverlapInv, ReleasedLotIsEmpty, Booked
    <3>3. QED
      BY <3>1, <3>2
  <2>2. QED
    BY <2>1 DEF LotsPart, ReleasedLotIsEmpty
<1>7. NeverOverReceived'
  BY DEF OverlapInv, NeverOverReceived
<1>8. txn'[s] = Idle /\ \A r \in Session \ {s} : txn'[r] = txn[r]
  BY CloseOwn
<1>9. /\ \A l \in LotId : out'[l] \in Int
      /\ ~Overdraw => \A l \in LotId : out'[l] >= out[l]
  BY <1>1, <1>4 DEF TypeOK
<1>10. /\ \A o \in Order : income'[o] \in Nat /\ income'[o] >= income[o]
       /\ lastLot' >= lastLot /\ lastLot' \in Nat
       /\ \A l \in 1..lastLot : packed'[l] = packed[l]
  BY ConstantsAssumption DEF TypeOK
<1>11. \A r \in Session \ {s} : SessionPart(r)'
  BY <1>8, <1>9, <1>10, OtherPart, OverlapParts
<1>12. SessionPart(s)'
  BY <1>8, IdlePart
<1>13. QED
  BY <1>6, <1>7, <1>11, <1>12, OverlapPartsNext

LEMMA CommitReleaseOverlap ==
    ASSUME TypeOK, OverlapInv, NEW s \in Session, CommitRelease(s)
    PROVE  OverlapInv'
<1> DEFINE t == txn[s]
           row == ReleasedRow(t.was)
           entry == Removed(t.entry, row.count)
<1>1. t \in LotTxn /\ IsLotTxn(s) /\ t.was \in LotRow
  BY TxnKind DEF CommitRelease, TypeOK, IsLotTxn, LotTxn
<1>2. row \in LotRow /\ row.count = 0 /\ t.was.count \in Int
  BY <1>1 DEF ReleasedRow, LotRow
<1>3. TakeOut(t, t.was.count, row, entry)
  BY DEF CommitRelease, ReleaseCount
<1>4. ~Overdraw => t.was.count >= 0
  BY <1>1, <1>2 DEF OverlapInv, Booked
<1>5. Close(s) /\ UNCHANGED <<orders, lastLot, packed, income>>
  BY DEF CommitRelease
<1>6. row.count = t.was.count - t.was.count
  BY <1>2
<1> HIDE DEF row, entry
<1>7. QED
  BY <1>1, <1>2, <1>3, <1>4, <1>5, <1>6, TakeOutOverlap

LEMMA CommitScrapOverlap ==
    ASSUME TypeOK, OverlapInv, NEW s \in Session, CommitScrap(s)
    PROVE  OverlapInv'
<1> DEFINE t == txn[s]
<1>1. t \in LotTxn /\ IsLotTxn(s) /\ t.was \in LotRow /\ t.was.location \in Location
  BY TxnKind DEF CommitScrap, TypeOK, IsLotTxn, LotTxn
<1>2. PICK a \in Amount :
        /\ Overdraw \/ a <= t.was.count
        /\ TakeOut(t, a, ScrappedRow(t.was, a), Added(t.entry, -a))
  BY DEF CommitScrap
<1> DEFINE row == ScrappedRow(t.was, a)
           entry == Added(t.entry, -a)
<1>3. a \in Nat /\ a \in Int /\ t.was.count \in Int
  BY <1>1, ConstantsAssumption DEF LotRow
<1>4. row \in LotRow /\ row.count = t.was.count - a /\ row.location # NoLocation
  BY <1>1, <1>3, ConstantsAssumption DEF ScrappedRow, LotRow
<1>5. ~Overdraw => a >= 0 /\ row.count >= 0
  BY <1>2, <1>3, <1>4
<1>6. Close(s) /\ UNCHANGED <<orders, lastLot, packed, income>>
  BY DEF CommitScrap
<1>7. TakeOut(t, a, row, entry)
  BY <1>2
<1> HIDE DEF row, entry
<1>8. QED
  BY <1>1, <1>3, <1>4, <1>5, <1>6, <1>7, TakeOutOverlap

LEMMA OverlapStep == TypeOK /\ OverlapInv /\ [Next]_vars => OverlapInv'
<1> SUFFICES ASSUME TypeOK, OverlapInv, [Next]_vars PROVE OverlapInv'
  OBVIOUS
<1>1. CASE CreateOrders
  BY <1>1, CreateOrdersOverlap
<1>2. CASE DeleteOrders
  BY <1>2, DeleteOrdersOverlap
<1>3. ASSUME NEW s \in Session, SessionStep(s) PROVE OverlapInv'
  BY <1>3, BeginEditOverlap, CommitEditOverlap, BeginStoreOverlap, ReadStockOverlap,
     CommitStoreOverlap, BeginLotOverlap, CommitReleaseOverlap, CommitScrapOverlap,
     OpenFormOverlap, SubmitFormOverlap, RollbackOverlap
  DEF SessionStep, BeginRelease, BeginScrap
<1>4. CASE UNCHANGED vars
  <2>1. UNCHANGED <<db, txn, logs, ledger>>
    BY <1>4 DEF vars
  <2>2. LotsPart' /\ NeverOverReceived' /\ \A s \in Session : SessionPart(s)'
    BY <2>1, OverlapParts
    DEF LotsPart, SessionPart, NeverOverReceived, ReleasedLotIsEmpty, IsLotTxn, Booked,
        db, ledger
  <2>3. QED
    BY <2>2, OverlapPartsNext
<1>5. QED
  BY <1>1, <1>2, <1>3, <1>4 DEF Next

THEOREM OverlapCorrect == Spec => []OverlapInv
<1>1. Init => OverlapInv
  BY InitOverlap
<1>2. TypeOK /\ OverlapInv /\ [Next]_vars => OverlapInv'
  BY OverlapStep
<1>3. QED
  BY <1>1, <1>2, TypeCorrect, PTL DEF Spec

\* However requests overlap, a lot that was released is empty.
THEOREM ReleasedEmpty == Spec => []ReleasedLotIsEmpty
<1>1. OverlapInv => ReleasedLotIsEmpty
  BY DEF OverlapInv
<1>2. QED
  BY <1>1, OverlapCorrect, PTL

\* However requests overlap, storedCount never exceeds what was delivered.
THEOREM NeverOver == Spec => []NeverOverReceived
<1>1. OverlapInv => NeverOverReceived
  BY DEF OverlapInv
<1>2. QED
  BY <1>1, OverlapCorrect, PTL

\* However requests overlap, every piece of a lot is in it or booked out.
THEOREM Accounted == Spec => [](NothingUnaccounted /\ LotsWithinPack)
<1>1. OverlapInv => NothingUnaccounted /\ LotsWithinPack
  BY DEF OverlapInv, NothingUnaccounted, LotsWithinPack, Booked
<1>2. QED
  BY <1>1, OverlapCorrect, PTL
----------------------------------------------------------------------------
(* What Inventory guarantees when requests do not overlap: exact books.     *)

\* The part of SerialInv that does not speak of sessions.
Books ==
    /\ LotsReconcile /\ StockReconciles /\ OrdersReconcile
    /\ \A l \in LotId : l > lastLot => lots[l].location = NoLocation /\ out[l] = 0
    /\ \A o \in Unborn : income[o] = 0

LEMMA SerialParts ==
    SerialInv <=> Books /\ Alone /\ \A s \in Session : Fresh(s)
BY DEF SerialInv, Books

LEMMA SerialPartsNext ==
    SerialInv' <=> Books' /\ Alone' /\ \A s \in Session : Fresh(s)'
BY DEF SerialInv, Books

LEMMA InitSerial == Init => SerialInv
<1> SUFFICES ASSUME Init PROVE SerialInv
  OBVIOUS
<1>1. \A s \in Session : txn[s].op = "idle"
  BY DEF Init, Idle
<1>2. Alone /\ \A s \in Session : Fresh(s)
  BY <1>1 DEF Alone, IsOpen, Fresh, IsLotTxn
<1>3. Books
  BY ConstantsAssumption
     DEF Init, Books, Unborn, LotsReconcile, StockReconciles, OrdersReconcile, BlankOrder, BlankLot
<1>4. QED
  BY <1>2, <1>3, SerialParts

LEMMA SerialIsNext == [SerialNext]_vars => [Next]_vars
BY DEF SerialNext, Next

THEOREM SerialTypeCorrect == SerialSpec => []TypeOK
<1>1. SerialSpec => Spec
  BY SerialIsNext, PTL DEF SerialSpec, Spec
<1>2. QED
  BY <1>1, TypeCorrect, PTL

\* When every other session is idle, only the stepping one can disturb Alone
\* and Fresh.
LEMMA OneSession ==
    ASSUME TypeOK, NEW s \in Session,
           \A r \in Session \ {s} : ~IsOpen(r),
           \A r \in Session \ {s} : txn'[r] = txn[r],
           Books', Fresh(s)'
    PROVE  SerialInv'
<1>1. \A r \in Session \ {s} : txn'[r].op = "idle"
  BY DEF IsOpen
<1>2. \A r \in Session \ {s} : Fresh(r)'
  BY <1>1 DEF Fresh, IsLotTxn
<1>3. Alone'
  BY <1>1 DEF Alone, IsOpen
<1>4. QED
  BY <1>2, <1>3, SerialPartsNext

LEMMA IdleFresh == ASSUME NEW s \in Session, txn'[s] = Idle PROVE Fresh(s)'
BY DEF Fresh, IsLotTxn, Idle

\* Opening a session: it has just read what the database holds.
LEMMA BeginSerial ==
    ASSUME TypeOK, SerialInv, NEW s \in Session,
           \A r \in Session \ {s} : ~IsOpen(r),
           \/ BeginEdit(s) \/ BeginStore(s) \/ OpenForm(s)
           \/ BeginLot(s, "release") \/ BeginLot(s, "scrap")
    PROVE  SerialInv'
<1>1. UNCHANGED <<db, logs, ledger>>
  BY DEF BeginEdit, BeginStore, BeginLot, OpenForm
<1>2. Books'
  BY <1>1, SerialParts
     DEF Books, Unborn, LotsReconcile, StockReconciles, OrdersReconcile, db, ledger
<1>3. \A r \in Session \ {s} : txn'[r] = txn[r]
  BY DEF BeginEdit, BeginStore, BeginLot, OpenForm, TypeOK
<1>4. Fresh(s)'
  <2>1. CASE BeginEdit(s)
    <3>1. PICK U \in SUBSET Live \ {{}} :
            txn' = [txn EXCEPT ![s] =
                      [op |-> "edit", rows |-> U,
                       was |-> [o \in Order |-> IF o \in U THEN orders[o] ELSE BlankOrder]]]
      BY <2>1 DEF BeginEdit
    <3> DEFINE w == [o \in Order |-> IF o \in U THEN orders[o] ELSE BlankOrder]
               t == [op |-> "edit", rows |-> U, was |-> w]
    <3>2. \A o \in U : w[o] = orders[o]
      BY DEF Live
    <3>3. t.op = "edit" /\ t.rows = U /\ t.was = w
      OBVIOUS
    <3> HIDE DEF w, t
    <3>4. txn'[s] = t
      <4>1. txn' = [txn EXCEPT ![s] = t]
        BY <3>1 DEF t, w
      <4>2. QED
        BY <4>1, OnlyOwn
    <3>5. QED
      BY <1>1, <3>2, <3>3, <3>4 DEF Fresh, IsLotTxn, db
  <2>2. CASE BeginStore(s)
    <3>1. PICK o \in Live, l \in Location :
            txn' = [txn EXCEPT ![s] =
                      [op |-> "store", order |-> o, was |-> orders[o], loc |-> l,
                       entry |-> shelf[<<l, orders[o].product>>],
                       ready |-> FALSE, stock |-> 0]]
      BY <2>2 DEF BeginStore
    <3> DEFINE t == [op |-> "store", order |-> o, was |-> orders[o], loc |-> l,
                     entry |-> shelf[<<l, orders[o].product>>],
                     ready |-> FALSE, stock |-> 0]
    <3>2. t.op = "store" /\ t.order = o /\ t.was = orders[o] /\ ~t.ready
      OBVIOUS
    <3> HIDE DEF t
    <3>3. txn'[s] = t
      <4>1. txn' = [txn EXCEPT ![s] = t]
        BY <3>1 DEF t
      <4>2. QED
        BY <4>1, OnlyOwn
    <3>4. QED
      BY <1>1, <3>2, <3>3 DEF Fresh, IsLotTxn, db
  <2>3. ASSUME NEW op \in {"release", "scrap"}, BeginLot(s, op) PROVE Fresh(s)'
    <3>1. PICK l \in LotId :
            /\ lots[l].location \in Location
            /\ txn' = [txn EXCEPT ![s] =
                         [op |-> op, lot |-> l, was |-> lots[l],
                          entry |-> shelf[<<lots[l].location, lots[l].product>>],
                          ready |-> FALSE, stock |-> 0]]
      BY <2>3 DEF BeginLot
    <3> DEFINE t == [op |-> op, lot |-> l, was |-> lots[l],
                     entry |-> shelf[<<lots[l].location, lots[l].product>>],
                     ready |-> FALSE, stock |-> 0]
    <3>2. t.op = op /\ t.lot = l /\ t.was = lots[l] /\ ~t.ready
      OBVIOUS
    <3> HIDE DEF t
    <3>3. txn'[s] = t
      <4>1. txn' = [txn EXCEPT ![s] = t]
        BY <3>1 DEF t
      <4>2. QED
        BY <4>1, OnlyOwn
    <3>4. l <= lastLot
      <4>1. lots[l].location # NoLocation
        BY <3>1, ConstantsAssumption
      <4>2. l \in Int /\ lastLot \in Int
        BY ConstantsAssumption DEF LotId, TypeOK
      <4>3. QED
        BY <4>1, <4>2, SerialParts DEF Books
    <3>5. QED
      BY <1>1, <3>2, <3>3, <3>4 DEF Fresh, IsLotTxn, db
  <2>4. CASE OpenForm(s)
    <3>1. PICK m \in Material :
            txn' = [txn EXCEPT ![s] = [op |-> "form", material |-> m, stock |-> stock[m]]]
      BY <2>4 DEF OpenForm
    <3> DEFINE t == [op |-> "form", material |-> m, stock |-> stock[m]]
    <3>2. t.op = "form" /\ t.material = m /\ t.stock = stock[m]
      OBVIOUS
    <3> HIDE DEF t
    <3>3. txn'[s] = t
      <4>1. txn' = [txn EXCEPT ![s] = t]
        BY <3>1 DEF t
      <4>2. QED
        BY <4>1, OnlyOwn
    <3>4. QED
      BY <1>1, <3>2, <3>3 DEF Fresh, IsLotTxn, db
  <2>5. QED
    BY <2>1, <2>2, <2>3, <2>4
<1>5. QED
  BY <1>2, <1>3, <1>4, OneSession

LEMMA ReadStockSerial ==
    ASSUME TypeOK, SerialInv, NEW s \in Session,
           \A r \in Session \ {s} : ~IsOpen(r), ReadStock(s)
    PROVE  SerialInv'
<1>1. UNCHANGED <<db, logs, ledger>>
  BY DEF ReadStock
<1>2. Books'
  BY <1>1, SerialParts
     DEF Books, Unborn, LotsReconcile, StockReconciles, OrdersReconcile, db, ledger
<1>3. /\ txn'[s] = [txn[s] EXCEPT !.ready = TRUE, !.stock = stock[txn[s].was.product]]
      /\ \A r \in Session \ {s} : txn'[r] = txn[r]
  BY DEF ReadStock, TypeOK
<1>4. Fresh(s)
  BY SerialParts
<1>5. Fresh(s)'
  <2>1. txn[s] \in StoreTxn \/ txn[s] \in LotTxn
    BY TxnKind DEF ReadStock, TypeOK
  <2>2. CASE txn[s] \in StoreTxn
    <3>1. /\ txn[s].op = "store" /\ txn'[s].op = "store"
          /\ txn'[s].was = txn[s].was /\ txn'[s].order = txn[s].order
          /\ txn'[s].stock = stock[txn[s].was.product]
      BY <1>3, <2>2 DEF StoreTxn
    <3>2. QED
      BY <1>1, <1>4, <3>1 DEF Fresh, IsLotTxn, db
  <2>3. CASE txn[s] \in LotTxn
    <3>1. /\ txn[s].op \in {"release", "scrap"} /\ txn'[s].op \in {"release", "scrap"}
          /\ txn'[s].was = txn[s].was /\ txn'[s].lot = txn[s].lot
          /\ txn'[s].stock = stock[txn[s].was.product]
      BY <1>3, <2>3 DEF LotTxn
    <3>2. QED
      BY <1>1, <1>4, <3>1 DEF Fresh, IsLotTxn, db
  <2>4. QED
    BY <2>1, <2>2, <2>3
<1>6. QED
  BY <1>2, <1>3, <1>5, OneSession

----------------------------------------------------------------------------
(* The steps that change the books. *)

\* No session is open, so none can have read what is changed.
LEMMA AllIdle ==
    ASSUME \A r \in Session : ~IsOpen(r), txn' = txn, Books'
    PROVE  SerialInv'
<1>1. \A r \in Session : txn'[r].op = "idle"
  BY DEF IsOpen
<1>2. Alone' /\ \A r \in Session : Fresh(r)'
  BY <1>1 DEF Alone, IsOpen, Fresh, IsLotTxn
<1>3. QED
  BY <1>2, SerialPartsNext

LEMMA OrdersSerial ==
    ASSUME TypeOK, SerialInv, \A r \in Session : ~IsOpen(r),
           CreateOrders \/ DeleteOrders
    PROVE  SerialInv'
<1>1. UNCHANGED <<lots, lastLot, shelf, stock, txn, ledger>>
  BY DEF CreateOrders, DeleteOrders
<1>2. OrdersReconcile' /\ \A o \in Unborn' : income'[o] = 0
  <2>1. CASE CreateOrders
    <3>1. PICK O \in SUBSET Unborn : \E line \in [O -> Line] :
            orders' = [o \in Order |-> IF o \in O
                         THEN NewOrder(line[o].product, line[o].ordered) ELSE orders[o]]
      BY <2>1 DEF CreateOrders
    <3>2. PICK line \in [O -> Line] :
            orders' = [o \in Order |-> IF o \in O
                         THEN NewOrder(line[o].product, line[o].ordered) ELSE orders[o]]
      BY <3>1
    <3>3. \A o \in O : orders'[o].stored = 0 /\ orders'[o].status = "live" /\ income[o] = 0
      BY <3>2 DEF NewOrder, BlankOrder, SerialInv, Unborn
    <3>4. \A o \in Order \ O : orders'[o] = orders[o]
      BY <3>2
    <3>5. QED
      BY <1>1, <3>3, <3>4 DEF SerialInv, OrdersReconcile, Unborn, ledger
  <2>2. CASE DeleteOrders
    <3>1. PICK O \in SUBSET Live :
            orders' = [o \in Order |-> IF o \in O
                         THEN [orders[o] EXCEPT !.status = "deleted"] ELSE orders[o]]
      BY <2>2 DEF DeleteOrders
    <3>2. \A o \in Order : /\ orders'[o].stored = orders[o].stored
                           /\ orders'[o].status = "unborn" => orders[o].status = "unborn"
      BY <3>1 DEF TypeOK, OrderRow
    <3>3. QED
      BY <1>1, <3>2 DEF SerialInv, OrdersReconcile, Unborn, ledger
  <2>3. QED
    BY <2>1, <2>2
<1>3. Books'
  BY <1>1, <1>2, SerialParts DEF Books, LotsReconcile, StockReconciles, ledger
<1>4. QED
  BY <1>1, <1>3, AllIdle

\* A commit closes its session: only the books remain to be shown.
LEMMA CommitSerial ==
    ASSUME TypeOK, NEW s \in Session, \A r \in Session \ {s} : ~IsOpen(r),
           Close(s), Books'
    PROVE  SerialInv'
<1>1. txn'[s] = Idle /\ \A r \in Session \ {s} : txn'[r] = txn[r]
  BY CloseOwn
<1>2. QED
  BY <1>1, IdleFresh, OneSession

LEMMA RollbackSerial ==
    ASSUME TypeOK, SerialInv, NEW s \in Session,
           \A r \in Session \ {s} : ~IsOpen(r), Rollback(s)
    PROVE  SerialInv'
<1>1. Close(s) /\ UNCHANGED <<db, logs, ledger>>
  BY DEF Rollback
<1>2. Books'
  BY <1>1, SerialParts
     DEF Books, Unborn, LotsReconcile, StockReconciles, OrdersReconcile, db, ledger
<1>3. QED
  BY <1>1, <1>2, CommitSerial

LEMMA SubmitFormSerial ==
    ASSUME TypeOK, SerialInv, NEW s \in Session,
           \A r \in Session \ {s} : ~IsOpen(r), SubmitForm(s)
    PROVE  SerialInv'
<1>1. /\ Close(s) /\ txn[s].op = "form"
      /\ UNCHANGED <<orders, lots, lastLot, packed, out, income>>
  BY DEF SubmitForm
<1>2. txn[s] \in FormTxn
  BY <1>1, TxnKind DEF TypeOK
<1>3. PICK m \in Material : m = txn[s].material
  BY <1>2 DEF FormTxn
<1>4. PICK v \in Amount \cup {txn[s].stock} :
        /\ stock' = [stock EXCEPT ![m] = v]
        /\ net' = [net EXCEPT ![m] = @ + (v - txn[s].stock)]
  BY <1>3 DEF SubmitForm
<1>5. txn[s].stock = stock[m]
  BY <1>1, <1>3, SerialParts DEF Fresh
<1>6. v \in Int /\ stock[m] \in Int /\ net[m] \in Int /\ stock[m] = net[m]
  BY <1>5, ConstantsAssumption DEF TypeOK, SerialInv, StockReconciles
<1>7. StockReconciles'
  BY <1>4, <1>5, <1>6 DEF StockReconciles, SerialInv, TypeOK
<1>8. Books'
  BY <1>1, <1>7, SerialParts DEF Books, Unborn, LotsReconcile, OrdersReconcile
<1>9. QED
  BY <1>1, <1>8, CommitSerial

LEMMA CommitEditSerial ==
    ASSUME TypeOK, SerialInv, NEW s \in Session,
           \A r \in Session \ {s} : ~IsOpen(r), CommitEdit(s)
    PROVE  SerialInv'
<1> DEFINE R == txn[s].rows
<1>1. /\ Close(s) /\ txn[s].op = "edit" /\ R \subseteq Live
      /\ UNCHANGED <<lots, lastLot, shelf, stock, ledger>>
  BY DEF CommitEdit
<1>2. txn[s] \in EditTxn
  BY <1>1, TxnKind DEF TypeOK
<1>3. \A o \in R : txn[s].was[o] = orders[o] /\ orders[o].status = "live"
  BY <1>1, SerialParts DEF Fresh, Live
<1>4. PICK C \in SUBSET Unborn : \E line \in [R \cup C -> Line] :
        orders' = [o \in Order |->
             IF o \in R THEN [txn[s].was[o] EXCEPT !.product = line[o].product,
                                                   !.ordered = line[o].ordered]
             ELSE IF o \in C THEN NewOrder(line[o].product, line[o].ordered)
             ELSE orders[o]]
  BY DEF CommitEdit
<1>5. PICK line \in [R \cup C -> Line] :
        orders' = [o \in Order |->
             IF o \in R THEN [txn[s].was[o] EXCEPT !.product = line[o].product,
                                                   !.ordered = line[o].ordered]
             ELSE IF o \in C THEN NewOrder(line[o].product, line[o].ordered)
             ELSE orders[o]]
  BY <1>4
<1>6. ASSUME NEW o \in Order
      PROVE  orders'[o].stored = income[o] /\ (orders'[o].status = "unborn" => income[o] = 0)
  <2>1. CASE o \in R
    <3>1. orders'[o].stored = txn[s].was[o].stored /\ orders'[o].status = txn[s].was[o].status
      BY <1>2, <1>5, <2>1 DEF EditTxn, OrderRow
    <3>2. QED
      BY <1>3, <2>1, <3>1 DEF SerialInv, OrdersReconcile
  <2>2. CASE o \notin R /\ o \in C
    <3>1. orders'[o].stored = 0
      BY <1>5, <2>2 DEF NewOrder, BlankOrder
    <3>2. income[o] = 0
      BY <2>2 DEF SerialInv
    <3>3. QED
      BY <3>1, <3>2
  <2>3. CASE o \notin R /\ o \notin C
    BY <1>5, <2>3 DEF SerialInv, OrdersReconcile, Unborn
  <2>4. QED
    BY <2>1, <2>2, <2>3
<1>7. Books'
  BY <1>1, <1>6, SerialParts DEF Books, Unborn, LotsReconcile, StockReconciles,
     OrdersReconcile, ledger
<1>8. QED
  BY <1>1, <1>7, CommitSerial

LEMMA CommitStoreSerial ==
    ASSUME TypeOK, SerialInv, NEW s \in Session,
           \A r \in Session \ {s} : ~IsOpen(r), CommitStore(s)
    PROVE  SerialInv'
<1> DEFINE t == txn[s]
           k == t.order
           m == t.was.product
           size(l, a) == PackCount(a, Unit(m), l - lastLot)
<1>1. Close(s) /\ t.op = "store" /\ t.ready /\ out' = out
  BY DEF CommitStore
<1>2. t \in StoreTxn
  BY <1>1, TxnKind DEF TypeOK
<1>3. k \in Order
  BY <1>2 DEF StoreTxn
<1>4. m \in Material
  BY <1>2 DEF StoreTxn
<1>5. t.was = orders[k] /\ t.stock = stock[m] /\ orders[k].status = "live"
  BY <1>1, SerialParts DEF Fresh, CommitStore
<1>6. PICK a \in Amount :
        /\ lastLot' = lastLot + PackNumber(a, Unit(m))
        /\ lots' = [l \in LotId |-> IF l \in NewLots(PackNumber(a, Unit(m)))
              THEN [product |-> m, count |-> size(l, a), location |-> t.loc]
              ELSE lots[l]]
        /\ packed' = [l \in LotId |-> IF l \in NewLots(PackNumber(a, Unit(m)))
              THEN size(l, a) ELSE packed[l]]
        /\ stock' = [stock EXCEPT ![m] = t.stock + a]
        /\ orders' = [orders EXCEPT ![k] = StoredRow(t.was, a)]
        /\ income' = [income EXCEPT ![k] = @ + a]
        /\ net' = [net EXCEPT ![m] = @ + a]
  BY DEF CommitStore
<1>7. a \in Nat \ {0} /\ Unit(m) \in Nat \ {0}
  BY <1>4, ConstantsAssumption, UnitPositive
<1>8. PICK n \in Nat : n = PackNumber(a, Unit(m))
  BY <1>7, PackTypes
<1>9. lastLot \in Nat /\ lastLot' = lastLot + n
  BY <1>6, <1>8, ConstantsAssumption DEF TypeOK
<1>10. StockReconciles'
  BY <1>4, <1>5, <1>6, <1>7 DEF SerialInv, StockReconciles, TypeOK
<1>11. OrdersReconcile' /\ \A o \in Unborn' : income'[o] = 0
  <2>1. StoredRow(t.was, a).stored = t.was.stored + a
        /\ StoredRow(t.was, a).status = "live"
    BY <1>2, <1>5 DEF StoredRow, StoreTxn, OrderRow
  <2>2. orders'[k] = StoredRow(t.was, a) /\ income'[k] = income[k] + a
    BY <1>3, <1>6 DEF TypeOK
  <2>3. \A o \in Order \ {k} : orders'[o] = orders[o] /\ income'[o] = income[o]
    BY <1>6 DEF TypeOK
  <2> HIDE DEF k
  <2>4. QED
    BY <1>3, <1>5, <2>1, <2>2, <2>3 DEF SerialInv, OrdersReconcile, Unborn
<1>12. LotsReconcile' /\ \A l \in LotId : l > lastLot' => lots'[l].location = NoLocation /\ out'[l] = 0
  <2>1. ASSUME NEW l \in LotId
        PROVE  /\ lots'[l].count + out'[l] = packed'[l]
               /\ l > lastLot' => lots'[l].location = NoLocation /\ out'[l] = 0
    <3>1. l \in Int
      BY ConstantsAssumption DEF LotId
    <3>2. CASE l \in NewLots(n)
      <4>1. l > lastLot /\ l <= lastLot'
        BY <1>9, <3>2 DEF NewLots
      <4>2. out'[l] = 0
        BY <1>1, <4>1 DEF SerialInv
      <4>3. lots'[l].count = size(l, a) /\ packed'[l] = size(l, a)
        BY <1>6, <1>8, <3>2
      <4>4. size(l, a) \in Nat
        <5>1. l - lastLot \in Int
          BY <1>9, <3>1
        <5>2. QED
          BY <1>7, <5>1, PackTypes
      <4>5. QED
        BY <3>1, <4>1, <4>2, <4>3, <4>4, <1>9
    <3>3. CASE l \notin NewLots(n)
      <4>1. lots'[l] = lots[l] /\ packed'[l] = packed[l]
        BY <1>6, <1>8, <3>3
      <4>2. QED
        BY <1>1, <1>9, <3>1, <4>1 DEF SerialInv, LotsReconcile
    <3>4. QED
      BY <3>2, <3>3
  <2>2. QED
    BY <2>1 DEF LotsReconcile
<1>13. Books'
  BY <1>10, <1>11, <1>12 DEF Books
<1>14. QED
  BY <1>1, <1>13, CommitSerial

\* Both lot handlers, on the lot and the stock as they still are.
LEMMA TakeOutSerial ==
    ASSUME TypeOK, SerialInv, NEW s \in Session,
           \A r \in Session \ {s} : ~IsOpen(r),
           IsLotTxn(s), txn[s].ready, Close(s),
           NEW a \in Int, NEW row \in LotRow, NEW entry,
           TakeOut(txn[s], a, row, entry),
           UNCHANGED <<orders, lastLot, packed, income>>,
           row.count = txn[s].was.count - a
    PROVE  SerialInv'
<1>1. txn[s] \in LotTxn
  BY TxnKind DEF IsLotTxn, TypeOK
<1>2. PICK k \in LotId : k = txn[s].lot
  BY <1>1 DEF LotTxn
<1>3. PICK m \in Material : m = txn[s].was.product
  BY <1>1 DEF LotTxn
<1>4. txn[s].was = lots[k] /\ k <= lastLot /\ txn[s].stock = stock[m]
  BY <1>2, <1>3, SerialParts DEF Fresh, IsLotTxn
<1>5. /\ lots' = [lots EXCEPT ![k] = row]
      /\ stock' = [stock EXCEPT ![m] = Flush(@, stock[m], StockAfter(stock[m], a))]
      /\ out' = [out EXCEPT ![k] = @ + a]
      /\ net' = [net EXCEPT ![m] = @ - a]
  BY <1>2, <1>3, <1>4 DEF TakeOut
<1>6. LotsReconcile'
  <2>1. lots'[k] = row /\ out'[k] = out[k] + a
    BY <1>5 DEF TypeOK
  <2>2. \A l \in LotId \ {k} : lots'[l] = lots[l] /\ out'[l] = out[l]
    BY <1>5 DEF TypeOK
  <2>3. row.count = lots[k].count - a /\ lots[k].count \in Int /\ out[k] \in Int
        /\ lots[k].count + out[k] = packed[k]
    BY <1>4 DEF TypeOK, LotRow, SerialInv, LotsReconcile
  <2>4. lots'[k].count + out'[k] = packed[k]
    BY <2>1, <2>3
  <2>5. QED
    BY <2>2, <2>4 DEF SerialInv, LotsReconcile
<1>7. StockReconciles'
  <2>1. stock[m] \in Int /\ net[m] \in Int /\ stock[m] = net[m]
    BY DEF TypeOK, SerialInv, StockReconciles
  <2>2. stock'[m] = stock[m] - a /\ net'[m] = net[m] - a
    BY <1>5, <2>1 DEF Flush, StockAfter, TypeOK
  <2>3. \A p \in Material \ {m} : stock'[p] = stock[p] /\ net'[p] = net[p]
    BY <1>5 DEF TypeOK
  <2>4. QED
    BY <2>1, <2>2, <2>3 DEF SerialInv, StockReconciles
<1>8. \A l \in LotId : l > lastLot' => lots'[l].location = NoLocation /\ out'[l] = 0
  <2>1. k \in Int /\ lastLot \in Int /\ lastLot' = lastLot
    BY ConstantsAssumption DEF LotId, TypeOK
  <2>2. \A l \in LotId \ {k} : lots'[l] = lots[l] /\ out'[l] = out[l]
    BY <1>5 DEF TypeOK
  <2>3. QED
    BY <1>4, <2>1, <2>2 DEF SerialInv
<1>9. Books'
  BY <1>6, <1>7, <1>8, SerialParts DEF Books, Unborn, OrdersReconcile
<1>10. QED
  BY <1>9, CommitSerial

LEMMA CommitReleaseSerial ==
    ASSUME TypeOK, SerialInv, NEW s \in Session,
           \A r \in Session \ {s} : ~IsOpen(r), CommitRelease(s)
    PROVE  SerialInv'
<1> DEFINE t == txn[s]
           row == ReleasedRow(t.was)
           entry == Removed(t.entry, row.count)
<1>1. t \in LotTxn /\ IsLotTxn(s) /\ t.ready /\ t.was \in LotRow
  BY TxnKind DEF CommitRelease, TypeOK, IsLotTxn, LotTxn
<1>2. row \in LotRow /\ row.count = t.was.count - t.was.count /\ t.was.count \in Int
  BY <1>1 DEF ReleasedRow, LotRow
<1>3. TakeOut(t, t.was.count, row, entry)
  BY DEF CommitRelease, ReleaseCount
<1>4. Close(s) /\ UNCHANGED <<orders, lastLot, packed, income>>
  BY DEF CommitRelease
<1> HIDE DEF row, entry
<1>5. QED
  BY <1>1, <1>2, <1>3, <1>4, TakeOutSerial

LEMMA CommitScrapSerial ==
    ASSUME TypeOK, SerialInv, NEW s \in Session,
           \A r \in Session \ {s} : ~IsOpen(r), CommitScrap(s)
    PROVE  SerialInv'
<1> DEFINE t == txn[s]
<1>1. t \in LotTxn /\ IsLotTxn(s) /\ t.ready /\ t.was \in LotRow
  BY TxnKind DEF CommitScrap, TypeOK, IsLotTxn, LotTxn
<1>2. PICK a \in Amount : TakeOut(t, a, ScrappedRow(t.was, a), Added(t.entry, -a))
  BY DEF CommitScrap
<1> DEFINE row == ScrappedRow(t.was, a)
           entry == Added(t.entry, -a)
<1>3. a \in Int
  BY ConstantsAssumption
<1>4. row \in LotRow /\ row.count = t.was.count - a
  BY <1>1, <1>3 DEF ScrappedRow, LotRow
<1>5. Close(s) /\ UNCHANGED <<orders, lastLot, packed, income>>
  BY DEF CommitScrap
<1>6. TakeOut(t, a, row, entry)
  BY <1>2
<1> HIDE DEF row, entry
<1>7. QED
  BY <1>1, <1>3, <1>4, <1>5, <1>6, TakeOutSerial

LEMMA SerialStep == TypeOK /\ SerialInv /\ [SerialNext]_vars => SerialInv'
<1> SUFFICES ASSUME TypeOK, SerialInv, [SerialNext]_vars PROVE SerialInv'
  OBVIOUS
<1>1. CASE (\A s \in Session : ~IsOpen(s)) /\ (CreateOrders \/ DeleteOrders)
  BY <1>1, OrdersSerial
<1>2. ASSUME NEW s \in Session, \A r \in Session \ {s} : ~IsOpen(r), SessionStep(s)
      PROVE  SerialInv'
  BY <1>2, BeginSerial, ReadStockSerial, CommitEditSerial, CommitStoreSerial,
     CommitReleaseSerial, CommitScrapSerial, SubmitFormSerial, RollbackSerial
  DEF SessionStep, BeginRelease, BeginScrap
<1>3. CASE UNCHANGED vars
  <2>1. UNCHANGED <<db, txn, logs, ledger>>
    BY <1>3 DEF vars
  <2>2. Books' /\ Alone' /\ \A s \in Session : Fresh(s)'
    BY <2>1, SerialParts
    DEF Books, Unborn, LotsReconcile, StockReconciles, OrdersReconcile, Alone, IsOpen,
        Fresh, IsLotTxn, db, ledger
  <2>3. QED
    BY <2>2, SerialPartsNext
<1>4. QED
  BY <1>1, <1>2, <1>3 DEF SerialNext

THEOREM SerialCorrect == SerialSpec => []SerialInv
<1>1. Init => SerialInv
  BY InitSerial
<1>2. TypeOK /\ SerialInv /\ [SerialNext]_vars => SerialInv'
  BY SerialStep
<1>3. QED
  BY <1>1, <1>2, SerialTypeCorrect, PTL DEF SerialSpec

\* Requests that do not overlap keep the books exact: every lot's count, every
\* material's stock and every order's stored count is what srhistory says.
THEOREM BooksExact == SerialSpec => [](LotsReconcile /\ StockReconciles /\ OrdersReconcile)
<1>1. SerialInv => LotsReconcile /\ StockReconciles /\ OrdersReconcile
  BY DEF SerialInv
<1>2. QED
  BY <1>1, SerialCorrect, PTL

\* Of the three, the one a stock taker sees: without overlapping requests a lot's
\* count is what its history rows add up to, released and scrapped lots included.
THEOREM LotsExact == SerialSpec => []LotsReconcile
<1>1. SerialInv => LotsReconcile
  BY DEF SerialInv
<1>2. QED
  BY <1>1, SerialCorrect, PTL

\* One step never puts a released lot back: handlers only write lots that had
\* a location when read, and without overlap they still have it.
LEMMA ReleasedStep ==
    ASSUME TypeOK, SerialInv, [SerialNext]_vars,
           NEW l \in 1..lastLot, lots[l].location = NoLocation
    PROVE  lots'[l].location = NoLocation
<1>1. l \in LotId /\ lastLot \in Nat
  BY ConstantsAssumption DEF LotId, TypeOK
<1>2. ASSUME NEW s \in Session, CommitStore(s) PROVE lots'[l] = lots[l]
  <2> DEFINE t == txn[s]
             fresh(a, i) == [product |-> t.was.product, location |-> t.loc,
                   count |-> PackCount(a, Unit(t.was.product), i - lastLot)]
  <2>1. PICK a \in Amount :
          lots' = [i \in LotId |-> IF i \in NewLots(PackNumber(a, Unit(t.was.product)))
                     THEN fresh(a, i) ELSE lots[i]]
    BY <1>2 DEF CommitStore
  <2>2. l \notin NewLots(PackNumber(a, Unit(t.was.product)))
    BY <1>1 DEF NewLots
  <2>3. QED
    BY <1>1, <2>1, <2>2
<1>3. ASSUME NEW s \in Session, CommitRelease(s) \/ CommitScrap(s)
      PROVE  lots'[l] = lots[l]
  <2>1. IsLotTxn(s)
    BY <1>3 DEF CommitRelease, CommitScrap, IsLotTxn
  <2>2. txn[s] \in LotTxn
    BY <2>1, TxnKind DEF IsLotTxn, TypeOK
  <2>3. txn[s].was = lots[txn[s].lot]
    BY <2>1, SerialParts DEF Fresh
  <2>4. txn[s].lot # l
    BY <2>2, <2>3, ConstantsAssumption DEF LotTxn
  <2>5. PICK row : lots' = [lots EXCEPT ![txn[s].lot] = row]
    BY <1>3 DEF CommitRelease, CommitScrap, TakeOut
  <2>6. QED
    BY <1>1, <2>4, <2>5 DEF TypeOK
<1>4. ASSUME NEW s \in Session, SessionStep(s), ~CommitStore(s),
             ~CommitRelease(s), ~CommitScrap(s)
      PROVE  lots' = lots
  BY <1>4 DEF SessionStep, BeginEdit, CommitEdit, BeginStore, ReadStock, BeginRelease,
     BeginScrap, BeginLot, OpenForm, SubmitForm, Rollback, db
<1>5. QED
  BY <1>2, <1>3, <1>4 DEF SerialNext, CreateOrders, DeleteOrders, vars, db

\* Without overlapping requests a released lot never returns to a location.
THEOREM ReleasedForGood == SerialSpec => ReleasedStaysReleased
<1>1. TypeOK /\ SerialInv /\ [SerialNext]_vars
        => [\A l \in 1..lastLot : lots[l].location = NoLocation
                              => lots'[l].location = NoLocation]_vars
  BY ReleasedStep
<1>2. QED
  BY <1>1, SerialTypeCorrect, SerialCorrect, PTL DEF SerialSpec, ReleasedStaysReleased

----------------------------------------------------------------------------
(* Sums over finite sets, and what a delivery's lots hold together.  The     *)
(* induction theorems of the library take an operator; a set of the          *)
(* arguments for which the goal holds does as well.                          *)

LEMMA FinSetInduction ==
    ASSUME NEW S, NEW P, IsFiniteSet(S), {} \in P,
           \A T \in SUBSET S : \A x \in S \ T : T \in P => T \cup {x} \in P
    PROVE  S \in P
<1>1. IsWellFoundedOn(StrictSubsetOrdering(S), SUBSET S)
  BY FS_StrictSubsetOrderingWellFounded, FS_FiniteSubsetsOfFinite, Zenon
<1> DEFINE Bad == {T \in SUBSET S : T \notin P}
<1>2. CASE Bad # {}
  <2>1. PICK T \in Bad : \A U \in Bad : <<U, T>> \notin StrictSubsetOrdering(S)
    BY <1>1, <1>2, WFMin, Zenon
  <2>2. T \in SUBSET S /\ T \notin P /\ T # {}
    OBVIOUS
  <2>3. PICK x \in T : TRUE
    BY <2>2
  <2>4. T \ {x} \in SUBSET S /\ T \ {x} \notin Bad
    BY <2>1, <2>2, <2>3 DEF StrictSubsetOrdering
  <2>5. T \ {x} \in P /\ x \in S \ (T \ {x}) /\ (T \ {x}) \cup {x} = T
    BY <2>2, <2>3, <2>4
  <2>6. QED
    BY <2>2, <2>4, <2>5
<1>3. CASE Bad = {}
  BY <1>3
<1>4. QED
  BY <1>2, <1>3

\* g sums f over the subsets of S.
Sums(g, f, S) ==
    /\ g \in [SUBSET S -> Int]
    /\ g[{}] = 0
    /\ \A T \in SUBSET S : \A x \in T : g[T] = f[x] + g[T \ {x}]

LEMMA SumsExist ==
    ASSUME NEW S, IsFiniteSet(S), NEW f, \A x \in S : f[x] \in Int
    PROVE  \E g : Sums(g, f, S)
<1> DEFINE P == {T \in SUBSET S : \E g : Sums(g, f, T)}
<1>1. {} \in P
  <2> DEFINE g == [T \in SUBSET {} |-> 0]
  <2>1. Sums(g, f, {})
    BY DEF Sums
  <2>2. QED
    BY <2>1
<1>2. ASSUME NEW T \in SUBSET S, NEW x \in S \ T, T \in P
      PROVE  T \cup {x} \in P
  <2>1. PICK g : Sums(g, f, T)
    BY <1>2
  <2> DEFINE h == [U \in SUBSET (T \cup {x}) |->
                     IF x \in U THEN f[x] + g[U \ {x}] ELSE g[U]]
  <2>0. f[x] \in Int /\ x \notin T /\ \A y \in T : f[y] \in Int
    OBVIOUS
  <2>2. \A U \in SUBSET T : g[U] \in Int
    BY <2>1 DEF Sums
  <2>3. \A U \in SUBSET (T \cup {x}) :
           h[U] = IF x \in U THEN f[x] + g[U \ {x}] ELSE g[U]
    OBVIOUS
  <2>4. h \in [SUBSET (T \cup {x}) -> Int]
    <3>1. ASSUME NEW U \in SUBSET (T \cup {x})
          PROVE  (IF x \in U THEN f[x] + g[U \ {x}] ELSE g[U]) \in Int
      <4>1. CASE x \in U
        <5>1. U \ {x} \in SUBSET T
          OBVIOUS
        <5>2. QED
          BY <2>0, <2>2, <4>1, <5>1
      <4>2. CASE x \notin U
        <5>1. U \in SUBSET T
          BY <4>2
        <5>2. QED
          BY <2>2, <4>2, <5>1
      <4>3. QED
        BY <4>1, <4>2
    <3>2. QED
      BY <3>1
  <2> HIDE DEF h
  <2>5. h[{}] = 0
    BY <2>1, <2>3 DEF Sums
  <2>6. ASSUME NEW U \in SUBSET (T \cup {x}), NEW y \in U
        PROVE  h[U] = f[y] + h[U \ {y}]
    <3>1. U \ {y} \in SUBSET (T \cup {x})
      OBVIOUS
    <3>2. CASE y = x
      <4>1. h[U] = f[x] + g[U \ {x}]
        BY <2>3, <3>2
      <4>2. h[U \ {x}] = g[U \ {x}]
        BY <2>3, <3>1, <3>2
      <4>3. QED
        BY <3>2, <4>1, <4>2
    <3>3. CASE y # x /\ x \in U
      <4>1. h[U] = f[x] + g[U \ {x}]
        BY <2>3, <3>3
      <4>2. h[U \ {y}] = f[x] + g[(U \ {y}) \ {x}]
        BY <2>3, <3>1, <3>3
      <4>3. U \ {x} \in SUBSET T /\ y \in U \ {x}
        BY <3>3
      <4>4. g[U \ {x}] = f[y] + g[(U \ {x}) \ {y}]
        BY <2>1, <4>3 DEF Sums
      <4>5. (U \ {x}) \ {y} = (U \ {y}) \ {x}
        OBVIOUS
      <4>6. g[(U \ {x}) \ {y}] \in Int /\ f[y] \in Int
        BY <2>0, <2>2, <4>3
      <4> DEFINE a == g[(U \ {x}) \ {y}]
      <4>7. h[U] = f[x] + (f[y] + a) /\ h[U \ {y}] = f[x] + a
        BY <4>1, <4>2, <4>4, <4>5
      <4> HIDE DEF a
      <4>8. a \in Int
        BY <4>6 DEF a
      <4>9. QED
        BY <2>0, <4>6, <4>7, <4>8
    <3>4. CASE x \notin U
      <4>1. U \in SUBSET T
        BY <3>4
      <4>2. h[U] = g[U] /\ h[U \ {y}] = g[U \ {y}]
        BY <2>3, <3>1, <3>4
      <4>3. g[U] = f[y] + g[U \ {y}]
        BY <2>1, <4>1 DEF Sums
      <4>4. QED
        BY <4>2, <4>3
    <3>5. QED
      BY <3>2, <3>3, <3>4
  <2>7. Sums(h, f, T \cup {x})
    BY <2>4, <2>5, <2>6 DEF Sums
  <2>8. QED
    BY <2>7
<1>3. S \in P
  <2> HIDE DEF P
  <2>1. QED
    BY <1>1, <1>2, FinSetInduction
<1>4. QED
  BY <1>3

\* The sum of the library is that of any function that sums.
LEMMA SumIs ==
    ASSUME NEW S, IsFiniteSet(S), NEW f, NEW g, Sums(g, f, S)
    PROVE  SumFunctionOnSet(f, S) = g[S]
<1> DEFINE Body(it) == [s \in SUBSET S |->
               IF s = {} THEN 0
               ELSE f[CHOOSE x \in s : TRUE] + it[s \ {CHOOSE x \in s : TRUE}]]
           iter == CHOOSE it : it = Body(it)
<1>1. SumFunctionOnSet(f, S) = iter[S]
  BY DEF SumFunctionOnSet, FoldFunctionOnSet, MapThenFoldSet
<1>2. g = Body(g)
  <2>1. g = [s \in SUBSET S |-> g[s]]
    BY DEF Sums
  <2>2. \A s \in SUBSET S : g[s] = Body(g)[s]
    <3> TAKE s \in SUBSET S
    <3>1. Body(g)[s] = IF s = {} THEN 0
             ELSE f[CHOOSE x \in s : TRUE] + g[s \ {CHOOSE x \in s : TRUE}]
      OBVIOUS
    <3> HIDE DEF Body
    <3>2. CASE s = {}
      BY <3>1, <3>2 DEF Sums
    <3>3. CASE s # {}
      <4> DEFINE c == CHOOSE x \in s : TRUE
      <4>1. c \in s
        BY <3>3
      <4> HIDE DEF c
      <4>2. g[s] = f[c] + g[s \ {c}]
        BY <4>1 DEF Sums
      <4>3. QED
        BY <3>1, <3>3, <4>2 DEF c
    <3>4. QED
      BY <3>2, <3>3
  <2>3. Body(g) = [s \in SUBSET S |-> Body(g)[s]]
    OBVIOUS
  <2> HIDE DEF Body
  <2>4. QED
    BY <2>1, <2>2, <2>3
<1>3. iter = Body(iter)
  <2>1. \E it : it = Body(it)
    <3> HIDE DEF Body
    <3>1. QED
      BY <1>2
  <2> HIDE DEF Body
  <2>2. QED
    BY <2>1
<1> HIDE DEF iter
<1>4. \A s \in SUBSET S : iter[s] = IF s = {} THEN 0
         ELSE f[CHOOSE x \in s : TRUE] + iter[s \ {CHOOSE x \in s : TRUE}]
  <2>1. \A s \in SUBSET S : Body(iter)[s] = IF s = {} THEN 0
         ELSE f[CHOOSE x \in s : TRUE] + iter[s \ {CHOOSE x \in s : TRUE}]
    OBVIOUS
  <2> HIDE DEF Body
  <2>2. QED
    BY <1>3, <2>1
<1> HIDE DEF Body
<1>5. IsWellFoundedOn(StrictSubsetOrdering(S), SUBSET S)
  BY FS_StrictSubsetOrderingWellFounded, FS_FiniteSubsetsOfFinite, Zenon
<1> DEFINE Bad == {s \in SUBSET S : iter[s] # g[s]}
<1>6. CASE Bad # {}
  <2>1. PICK T \in Bad : \A U \in Bad : <<U, T>> \notin StrictSubsetOrdering(S)
    BY <1>5, <1>6, WFMin, Zenon
  <2>2. T \in SUBSET S /\ iter[T] # g[T]
    OBVIOUS
  <2>3. T # {}
    BY <1>4, <2>2 DEF Sums
  <2> DEFINE c == CHOOSE x \in T : TRUE
  <2>4. c \in T
    BY <2>3
  <2>5. iter[T] = f[c] + iter[T \ {c}]
    BY <1>4, <2>2, <2>3
  <2> HIDE DEF c
  <2>6. T \ {c} \notin Bad /\ T \ {c} \in SUBSET S
    BY <2>1, <2>2, <2>4 DEF StrictSubsetOrdering
  <2>7. iter[T \ {c}] = g[T \ {c}]
    BY <2>6
  <2>8. g[T] = f[c] + g[T \ {c}]
    BY <2>2, <2>4 DEF Sums
  <2>9. QED
    BY <2>2, <2>5, <2>7, <2>8
<1>7. CASE Bad = {}
  BY <1>1, <1>7
<1>8. QED
  BY <1>6, <1>7

LEMMA SumEmpty == \A f : SumFunctionOnSet(f, {}) = 0
<1> SUFFICES ASSUME NEW f PROVE SumFunctionOnSet(f, {}) = 0
  OBVIOUS
<1>1. IsFiniteSet({}) /\ \A x \in {} : f[x] \in Int
  BY FS_EmptySet
<1>2. PICK g : Sums(g, f, {})
  BY <1>1, SumsExist
<1>3. QED
  BY <1>1, <1>2, SumIs DEF Sums

LEMMA SumAdd ==
    ASSUME NEW S, IsFiniteSet(S), NEW x, x \notin S, NEW f,
           \A y \in S \cup {x} : f[y] \in Int
    PROVE  /\ SumFunctionOnSet(f, S) \in Int
           /\ SumFunctionOnSet(f, S \cup {x}) = f[x] + SumFunctionOnSet(f, S)
<1> DEFINE U == S \cup {x}
<1>1. IsFiniteSet(U)
  BY FS_AddElement
<1>2. PICK g : Sums(g, f, U)
  BY <1>1, SumsExist
<1> DEFINE h == [T \in SUBSET S |-> g[T]]
<1>3. Sums(h, f, S)
  <2>1. \A T \in SUBSET S : T \in SUBSET U /\ h[T] = g[T]
    OBVIOUS
  <2>2. h \in [SUBSET S -> Int]
    BY <1>2 DEF Sums
  <2> HIDE DEF h
  <2>3. h[{}] = 0
    BY <1>2, <2>1 DEF Sums
  <2>4. \A T \in SUBSET S : \A y \in T : h[T] = f[y] + h[T \ {y}]
    <3> TAKE T \in SUBSET S
    <3> TAKE y \in T
    <3>1. T \ {y} \in SUBSET S
      OBVIOUS
    <3>2. g[T] = f[y] + g[T \ {y}]
      BY <1>2, <2>1 DEF Sums
    <3>3. QED
      BY <2>1, <3>1, <3>2
  <2>5. QED
    BY <2>2, <2>3, <2>4 DEF Sums
<1>4. SumFunctionOnSet(f, S) = g[S] /\ g[S] \in Int
  <2>1. SumFunctionOnSet(f, S) = h[S]
    BY <1>3, SumIs
  <2>2. h[S] = g[S] /\ S \in SUBSET U
    OBVIOUS
  <2>3. g[S] \in Int
    BY <1>2, <2>2 DEF Sums
  <2>4. QED
    BY <2>1, <2>2, <2>3
<1>5. SumFunctionOnSet(f, U) = g[U]
  BY <1>1, <1>2, SumIs
<1>6. g[U] = f[x] + g[S]
  <2>1. x \in U /\ U \ {x} = S /\ U \in SUBSET U
    OBVIOUS
  <2> HIDE DEF U
  <2>2. g[U] = f[x] + g[U \ {x}]
    BY <1>2, <2>1 DEF Sums
  <2>3. QED
    BY <2>1, <2>2
<1>7. QED
  BY <1>4, <1>5, <1>6

LEMMA Least ==
    ASSUME NEW T \in SUBSET Nat, T # {}
    PROVE  \E x \in T : \A y \in T : x <= y
<1> DEFINE R == OpToRel(<, Nat)
<1>1. IsWellFoundedOn(R, Nat)
  BY NatLessThanWellFounded
<1>2. \A x, y \in Nat : y < x => <<y, x>> \in R
  BY DEF OpToRel
<1> HIDE DEF R
<1>3. PICK x \in T : \A y \in T : <<y, x>> \notin R
  BY <1>1, WFMin
<1>4. \A y \in T : ~(y < x)
  BY <1>2, <1>3
<1>5. \A y \in T : x <= y
  BY <1>4
<1>6. QED
  BY <1>5

LEMMA NatSetInduction ==
    ASSUME NEW S, 0 \in S, \A n \in Nat : n \in S => n + 1 \in S
    PROVE  Nat \subseteq S
<1> DEFINE T == Nat \ S
<1>1. CASE T # {}
  <2>1. PICK x \in T : \A y \in T : x <= y
    BY <1>1, Least
  <2>2. x \in Nat /\ x # 0
    OBVIOUS
  <2>3. x - 1 \in Nat /\ x - 1 \notin T
    BY <2>1, <2>2
  <2>4. x - 1 \in S
    BY <2>3
  <2>5. (x - 1) + 1 \in S
    BY <2>3, <2>4
  <2>6. QED
    BY <2>2, <2>5
<1>2. CASE T = {}
  BY <1>2
<1>3. QED
  BY <1>1, <1>2

LEMMA SumRemove ==
    ASSUME NEW S, IsFiniteSet(S), NEW x \in S, NEW f, \A y \in S : f[y] \in Int
    PROVE  /\ SumFunctionOnSet(f, S \ {x}) \in Int
           /\ SumFunctionOnSet(f, S) = f[x] + SumFunctionOnSet(f, S \ {x})
<1>1. IsFiniteSet(S \ {x}) /\ x \notin S \ {x} /\ (S \ {x}) \cup {x} = S
  BY FS_RemoveElement
<1>2. /\ SumFunctionOnSet(f, S \ {x}) \in Int
      /\ SumFunctionOnSet(f, (S \ {x}) \cup {x}) = f[x] + SumFunctionOnSet(f, S \ {x})
  BY <1>1, SumAdd
<1>3. QED
  BY <1>1, <1>2

\* Two functions that agree have the same sum; a sum of naturals is one.
LEMMA SumSame ==
    ASSUME NEW S, IsFiniteSet(S), NEW f, NEW g,
           \A y \in S : f[y] \in Int /\ g[y] = f[y]
    PROVE  /\ SumFunctionOnSet(f, S) \in Int
           /\ SumFunctionOnSet(g, S) = SumFunctionOnSet(f, S)
<1> DEFINE P == {T \in SUBSET S : /\ SumFunctionOnSet(f, T) \in Int
                                  /\ SumFunctionOnSet(g, T) = SumFunctionOnSet(f, T)}
<1>1. {} \in P
  BY SumEmpty
<1>2. ASSUME NEW T \in SUBSET S, NEW x \in S \ T, T \in P
      PROVE  T \cup {x} \in P
  <2>1. IsFiniteSet(T)
    BY FS_Subset
  <2>2. \A y \in T \cup {x} : f[y] \in Int /\ g[y] \in Int
    OBVIOUS
  <2>3. SumFunctionOnSet(f, T \cup {x}) = f[x] + SumFunctionOnSet(f, T)
    BY <2>1, <2>2, SumAdd
  <2>4. SumFunctionOnSet(g, T \cup {x}) = g[x] + SumFunctionOnSet(g, T)
    BY <2>1, <2>2, SumAdd
  <2>5. SumFunctionOnSet(f, T) \in Int
        /\ SumFunctionOnSet(g, T) = SumFunctionOnSet(f, T)
    BY <1>2
  <2>6. f[x] \in Int /\ g[x] = f[x]
    OBVIOUS
  <2>7. QED
    BY <2>3, <2>4, <2>5, <2>6
<1>3. S \in P
  <2> HIDE DEF P
  <2>1. QED
    BY <1>1, <1>2, FinSetInduction
<1>4. QED
  BY <1>3

LEMMA SumNat ==
    ASSUME NEW S, IsFiniteSet(S), NEW f, \A y \in S : f[y] \in Nat
    PROVE  SumFunctionOnSet(f, S) \in Nat
<1> DEFINE P == {T \in SUBSET S : SumFunctionOnSet(f, T) \in Nat}
<1>1. {} \in P
  BY SumEmpty
<1>2. ASSUME NEW T \in SUBSET S, NEW x \in S \ T, T \in P
      PROVE  T \cup {x} \in P
  <2>1. IsFiniteSet(T)
    BY FS_Subset
  <2>2. \A y \in T \cup {x} : f[y] \in Int
    OBVIOUS
  <2>3. SumFunctionOnSet(f, T \cup {x}) = f[x] + SumFunctionOnSet(f, T)
    BY <2>1, <2>2, SumAdd
  <2>4. QED
    BY <1>2, <2>3
<1>3. S \in P
  <2> HIDE DEF P
  <2>1. QED
    BY <1>1, <1>2, FinSetInduction
<1>4. QED
  BY <1>3

LEMMA SumUnion ==
    ASSUME NEW S, IsFiniteSet(S), NEW R, IsFiniteSet(R), S \cap R = {},
           NEW f, \A y \in S \cup R : f[y] \in Int
    PROVE  SumFunctionOnSet(f, S \cup R)
             = SumFunctionOnSet(f, S) + SumFunctionOnSet(f, R)
<1> DEFINE P == {T \in SUBSET R : /\ SumFunctionOnSet(f, T) \in Int
                                  /\ SumFunctionOnSet(f, S \cup T)
                                       = SumFunctionOnSet(f, S) + SumFunctionOnSet(f, T)}
<1>0. SumFunctionOnSet(f, S) \in Int
  BY SumSame
<1>1. {} \in P
  <2>1. S \cup {} = S
    OBVIOUS
  <2>2. QED
    BY <1>0, <2>1, SumEmpty
<1>2. ASSUME NEW T \in SUBSET R, NEW x \in R \ T, T \in P
      PROVE  T \cup {x} \in P
  <2>1. IsFiniteSet(T) /\ IsFiniteSet(S \cup T)
    BY FS_Subset, FS_Union
  <2>2. \A y \in T \cup {x} : f[y] \in Int
    OBVIOUS
  <2>3. \A y \in (S \cup T) \cup {x} : f[y] \in Int
    OBVIOUS
  <2>4. x \notin S \cup T /\ S \cup (T \cup {x}) = (S \cup T) \cup {x}
    OBVIOUS
  <2>5. SumFunctionOnSet(f, T \cup {x}) = f[x] + SumFunctionOnSet(f, T)
    BY <2>1, <2>2, SumAdd
  <2>6. SumFunctionOnSet(f, (S \cup T) \cup {x}) = f[x] + SumFunctionOnSet(f, S \cup T)
    BY <2>1, <2>3, <2>4, SumAdd
  <2>7. /\ SumFunctionOnSet(f, T) \in Int
        /\ SumFunctionOnSet(f, S \cup T) = SumFunctionOnSet(f, S) + SumFunctionOnSet(f, T)
    BY <1>2
  <2>8. f[x] \in Int
    BY <2>2
  <2>9. QED
    BY <1>0, <2>4, <2>5, <2>6, <2>7, <2>8
<1>3. R \in P
  <2> HIDE DEF P
  <2>1. QED
    BY <1>1, <1>2, FinSetInduction
<1>4. QED
  BY <1>3

\* The lots of a delivery hold together what was delivered.
LEMMA PackedIsAll ==
    ASSUME NEW a \in Nat \ {0}, NEW u \in Nat \ {0}, NEW b \in Nat, NEW f,
           \A l \in b + 1 .. b + PackNumber(a, u) : f[l] = PackCount(a, u, l - b)
    PROVE  SumFunctionOnSet(f, b + 1 .. b + PackNumber(a, u)) = a
<1> DEFINE q == a \div u
           r == a % u
           n == PackNumber(a, u)
           upTo(k) == SumFunctionOnSet(f, b + 1 .. b + k)
<1>1. q \in Nat /\ r \in Nat /\ a = u * q + r
  OBVIOUS
<1>2. n = q + (IF r # 0 THEN 1 ELSE 0)
  BY DEF PackNumber
<1>3. \A l \in b + 1 .. b + n : f[l] = IF l - b <= q THEN u ELSE r
  BY DEF PackCount
<1> HIDE DEF q, r, n
<1>4. n \in Nat /\ q <= n
  BY <1>1, <1>2
<1>5. ASSUME NEW k \in Nat, k + 1 <= n
      PROVE  /\ upTo(k) \in Int
             /\ upTo(k + 1) = (IF k + 1 <= q THEN u ELSE r) + upTo(k)
  <2> DEFINE S == b + 1 .. b + k
             x == b + (k + 1)
  <2>1. IsFiniteSet(S)
    BY FS_Interval
  <2>2. x \notin S /\ S \cup {x} = b + 1 .. b + (k + 1)
    OBVIOUS
  <2>3. \A y \in S \cup {x} : f[y] \in Int
    <3>1. \A y \in S \cup {x} : y \in b + 1 .. b + n
      BY <1>4, <1>5
    <3> HIDE DEF S, x
    <3>2. QED
      BY <1>1, <1>3, <3>1
  <2>4. f[x] = IF k + 1 <= q THEN u ELSE r
    <3>1. x \in b + 1 .. b + n /\ x - b = k + 1
      BY <1>4, <1>5
    <3> HIDE DEF x
    <3>2. QED
      BY <1>3, <3>1
  <2>5. /\ SumFunctionOnSet(f, S) \in Int
        /\ SumFunctionOnSet(f, S \cup {x}) = f[x] + SumFunctionOnSet(f, S)
    <3> HIDE DEF S, x
    <3>1. QED
      BY <2>1, <2>2, <2>3, SumAdd
  <2>6. QED
    BY <2>2, <2>4, <2>5
<1> HIDE DEF upTo
<1> DEFINE P == {k \in Nat : k <= q => upTo(k) = u * k}
<1>6. 0 \in P
  <2>1. b + 1 .. b + 0 = {}
    OBVIOUS
  <2>2. upTo(0) = 0
    BY <2>1, SumEmpty DEF upTo
  <2>3. QED
    BY <2>2
<1>7. ASSUME NEW k \in Nat, k \in P
      PROVE  k + 1 \in P
  <2>1. CASE k + 1 <= q
    <3>1. k <= q /\ k + 1 <= n
      BY <1>1, <1>4, <2>1
    <3>2. upTo(k) = u * k
      BY <1>7, <3>1
    <3>3. upTo(k + 1) = u + upTo(k)
      BY <1>5, <2>1, <3>1
    <3>4. u * (k + 1) = u + u * k
      OBVIOUS
    <3>5. QED
      BY <3>2, <3>3, <3>4
  <2>2. CASE ~(k + 1 <= q)
    BY <2>2
  <2>3. QED
    BY <2>1, <2>2
<1>8. Nat \subseteq P
  <2> HIDE DEF P
  <2>1. QED
    BY <1>6, <1>7, NatSetInduction
<1>9. upTo(q) = u * q
  BY <1>1, <1>8
<1>10. CASE r = 0
  <2>1. n = q /\ a = u * q
    BY <1>1, <1>2, <1>10
  <2>2. QED
    BY <1>9, <2>1 DEF upTo, n
<1>11. CASE r # 0
  <2>1. n = q + 1 /\ ~(q + 1 <= q) /\ q + 1 <= n
    BY <1>1, <1>2, <1>11
  <2>2. upTo(q + 1) = r + upTo(q)
    BY <1>1, <1>5, <2>1
  <2>3. u * q \in Int
    BY <1>1
  <2>4. r + u * q = a
    BY <1>1, <2>3
  <2>5. upTo(q + 1) = a
    BY <1>9, <2>2, <2>4
  <2>6. upTo(n) = a
    BY <2>1, <2>5
  <2>7. QED
    BY <2>6 DEF upTo, n
<1>12. QED
  BY <1>10, <1>11

\* Changing one term changes the sum by the difference.
LEMMA SumChange ==
    ASSUME NEW S, IsFiniteSet(S), NEW x \in S, NEW f, NEW g,
           \A y \in S : f[y] \in Int /\ g[y] \in Int,
           \A y \in S \ {x} : g[y] = f[y]
    PROVE  /\ SumFunctionOnSet(f, S) \in Int
           /\ SumFunctionOnSet(g, S) = SumFunctionOnSet(f, S) - f[x] + g[x]
<1> DEFINE R == S \ {x}
<1>1. IsFiniteSet(R)
  BY FS_RemoveElement
<1>2. /\ SumFunctionOnSet(f, R) \in Int
      /\ SumFunctionOnSet(f, S) = f[x] + SumFunctionOnSet(f, R)
  BY SumRemove
<1>3. SumFunctionOnSet(g, S) = g[x] + SumFunctionOnSet(g, R)
  BY SumRemove
<1>4. SumFunctionOnSet(g, R) = SumFunctionOnSet(f, R)
  <2>1. \A y \in R : f[y] \in Int /\ g[y] = f[y]
    OBVIOUS
  <2> HIDE DEF R
  <2>2. QED
    BY <1>1, <2>1, SumSame
<1>5. f[x] \in Int /\ g[x] \in Int
  OBVIOUS
<1> HIDE DEF R
<1>6. QED
  BY <1>2, <1>3, <1>4, <1>5

\* A sum of naturals is at least each of them.
LEMMA SumAtLeast ==
    ASSUME NEW S, IsFiniteSet(S), NEW x \in S, NEW f, \A y \in S : f[y] \in Nat
    PROVE  /\ SumFunctionOnSet(f, S) \in Int
           /\ SumFunctionOnSet(f, S \ {x}) \in Int
           /\ SumFunctionOnSet(f, S) = f[x] + SumFunctionOnSet(f, S \ {x})
           /\ SumFunctionOnSet(f, S \ {x}) >= 0
<1>1. /\ SumFunctionOnSet(f, S \ {x}) \in Int
      /\ SumFunctionOnSet(f, S) = f[x] + SumFunctionOnSet(f, S \ {x})
  BY SumRemove
<1>2. SumFunctionOnSet(f, S \ {x}) \in Nat
  <2> DEFINE R == S \ {x}
  <2>1. IsFiniteSet(R)
    BY FS_RemoveElement
  <2>2. \A y \in R : f[y] \in Nat
    OBVIOUS
  <2> HIDE DEF R
  <2>3. SumFunctionOnSet(f, R) \in Nat
    BY <2>1, <2>2, SumNat
  <2>4. QED
    BY <2>3 DEF R
<1>3. f[x] \in Nat
  OBVIOUS
<1>4. QED
  BY <1>1, <1>2, <1>3

----------------------------------------------------------------------------
(* What a location shows covers what its lots hold.                         *)

LEMMA LotsFinite == \A T \in SUBSET LotId : IsFiniteSet(T)
<1>1. IsFiniteSet(LotId)
  BY FS_Interval, ConstantsAssumption DEF LotId
<1>2. QED
  BY <1>1, FS_Subset

\* Location p shows at least the lots of m it holds.
CellCovers(p, m) == Shown(p, m) >= SumFunctionOnSet(LotCounts, LotsAt(p, m))

\* A cell whose lots and entry a step leaves alone stays covered.
LEMMA CellKept ==
    ASSUME TypeOK, NEW p \in Location, NEW m \in Material, CellCovers(p, m),
           LotsAt(p, m)' = LotsAt(p, m),
           \A l \in LotsAt(p, m) : lots'[l].count = lots[l].count,
           shelf'[<<p, m>>] = shelf[<<p, m>>]
    PROVE  CellCovers(p, m)'
<1> DEFINE S == LotsAt(p, m)
           f == LotCounts
           g == [l \in LotId |-> lots'[l].count]
<1>1. IsFiniteSet(S) /\ S \in SUBSET LotId
  BY LotsFinite DEF LotsAt
<1>2. \A l \in S : f[l] \in Int /\ g[l] = f[l]
  <2>1. \A l \in S : l \in LotId /\ lots[l].count \in Int /\ lots'[l].count = lots[l].count
    BY <1>1 DEF TypeOK, LotRow
  <2>2. QED
    BY <2>1 DEF LotCounts
<1>3. LotCounts' = g
  BY DEF LotCounts
<1> HIDE DEF S, f, g
<1>4. SumFunctionOnSet(g, S) = SumFunctionOnSet(f, S)
  BY <1>1, <1>2, SumSame
<1>5. Shown(p, m)' = Shown(p, m)
  BY DEF Shown
<1>6. SumFunctionOnSet(LotCounts, LotsAt(p, m))' = SumFunctionOnSet(g, S)
  BY <1>3 DEF S
<1>7. QED
  BY <1>4, <1>5, <1>6 DEF CellCovers, f, S

LEMMA CoversCells ==
    ShelfCoversLots <=> (~Overdraw => \A p \in Location, m \in Material : CellCovers(p, m))
BY DEF ShelfCoversLots, CellCovers

LEMMA CoversCellsNext ==
    ShelfCoversLots' <=> (~Overdraw => \A p \in Location, m \in Material : CellCovers(p, m)')
BY DEF ShelfCoversLots, CellCovers

LEMMA CoversKept ==
    ASSUME ShelfCoversLots, UNCHANGED <<lots, shelf>>
    PROVE  ShelfCoversLots'
BY DEF ShelfCoversLots, LotCounts, LotsAt, Shown

\* The lots of a delivery add to the cell exactly what is added to its entry.
LEMMA StoreCovers ==
    ASSUME TypeOK, SerialInv, ShelfInv, NEW s \in Session, CommitStore(s)
    PROVE  ShelfCoversLots'
<1> DEFINE t == txn[s]
           m == t.was.product
           q == t.loc
           u == Unit(m)
<1>1. t \in StoreTxn /\ t.op = "store"
  BY TxnKind DEF CommitStore, TypeOK
<1>2. m \in Material /\ q \in Location
  BY <1>1 DEF StoreTxn
<1>3. t.entry = shelf[<<q, m>>]
  BY <1>1 DEF ShelfInv, EntryFresh
<1>4. PICK a \in Amount :
        /\ lastLot + PackNumber(a, u) <= MaxLot
        /\ lots' = [l \in LotId |-> IF l \in NewLots(PackNumber(a, u))
              THEN [product |-> m, count |-> PackCount(a, u, l - lastLot), location |-> q]
              ELSE lots[l]]
        /\ shelf' = [shelf EXCEPT ![<<q, m>>] = Added(t.entry, a)]
  BY DEF CommitStore
<1>5. a \in Nat \ {0} /\ u \in Nat \ {0}
  BY <1>2, UnitPositive, ConstantsAssumption
<1>6. lastLot \in Nat /\ PackNumber(a, u) \in Nat
  <2>1. a \in Nat
    BY <1>5
  <2>2. PackNumber(a, u) \in Nat
    BY <1>5, <2>1, PackTypes
  <2>3. QED
    BY <2>2, ConstantsAssumption DEF TypeOK
<1> DEFINE N == NewLots(PackNumber(a, u))
           g == [l \in LotId |-> lots'[l].count]
<1>7. N \in SUBSET LotId /\ \A l \in N : l > lastLot
  BY <1>4, <1>6, ConstantsAssumption DEF NewLots, LotId
<1>8. \A l \in N : lots'[l].product = m /\ lots'[l].location = q
                     /\ lots'[l].count = PackCount(a, u, l - lastLot)
  BY <1>4, <1>7
<1>9. \A l \in LotId \ N : lots'[l] = lots[l]
  BY <1>4
<1>10. \A l \in N, p \in Location : lots[l].location # p
  BY <1>7, ConstantsAssumption DEF SerialInv
<1>11. LotCounts' = g
  BY DEF LotCounts
<1>12. \A l \in LotId : lots[l].count \in Int
  BY DEF TypeOK, LotRow
<1>13. shelf'[<<q, m>>] = Added(shelf[<<q, m>>], a) /\ shelf[<<q, m>>] \in Entry
  BY <1>2, <1>3, <1>4 DEF TypeOK
<1>14. \A p \in Location, k \in Material :
          <<p, k>> # <<q, m>> => shelf'[<<p, k>>] = shelf[<<p, k>>]
  BY <1>4 DEF TypeOK
<1> HIDE DEF t, m, q, u, N
<1>15. ASSUME ~Overdraw, NEW p \in Location, NEW k \in Material
       PROVE  CellCovers(p, k)'
  <2>1. CellCovers(p, k)
    BY <1>15, CoversCells DEF ShelfInv
  <2>2. CASE p = q /\ k = m
    <3> DEFINE S == LotsAt(p, k)
    <3>1. LotsAt(p, k)' = S \cup N
      BY <1>7, <1>8, <1>9, <1>10, <2>2 DEF LotsAt
    <3>2. S \cap N = {} /\ S \in SUBSET LotId
      BY <1>10 DEF LotsAt
    <3>3. IsFiniteSet(S) /\ IsFiniteSet(N)
      BY <1>7, <3>2, LotsFinite
    <3>4. \A l \in S : g[l] = LotCounts[l] /\ LotCounts[l] \in Int
      <4>1. \A l \in S : l \in LotId /\ l \notin N
        BY <3>2
      <4>2. QED
        BY <1>9, <1>12, <4>1 DEF LotCounts
    <3>5. \A l \in N : g[l] = PackCount(a, u, l - lastLot)
      BY <1>7, <1>8
    <3>6. \A l \in N : g[l] \in Int
      <4>1. \A l \in N : l - lastLot \in Int
        BY <1>6, <1>7, ConstantsAssumption DEF LotId
      <4>2. a \in Nat
        BY <1>5
      <4>3. \A i \in Int : PackCount(a, u, i) \in Nat
        BY <1>5, <4>2, PackTypes
      <4>4. \A l \in N : PackCount(a, u, l - lastLot) \in Int
        BY <4>1, <4>3
      <4>5. QED
        BY <3>5, <4>4
    <3> HIDE DEF S, g
    <3>7. SumFunctionOnSet(g, S \cup N) = SumFunctionOnSet(g, S) + SumFunctionOnSet(g, N)
      BY <3>2, <3>3, <3>4, <3>6, SumUnion
    <3>8. /\ SumFunctionOnSet(LotCounts, S) \in Int
          /\ SumFunctionOnSet(g, S) = SumFunctionOnSet(LotCounts, S)
      BY <3>3, <3>4, SumSame
    <3>9. SumFunctionOnSet(g, N) = a
      <4>1. N = lastLot + 1 .. lastLot + PackNumber(a, u)
        BY DEF N, NewLots
      <4>2. QED
        BY <1>5, <1>6, <3>5, <4>1, PackedIsAll
    <3>10. Shown(p, k)' = Shown(p, k) + a /\ Shown(p, k) \in Int
      BY <1>5, <1>13, <2>2, ConstantsAssumption DEF Shown, Added, Entry
    <3>11. Shown(p, k) >= SumFunctionOnSet(LotCounts, S)
      BY <2>1 DEF CellCovers, S
    <3>12. SumFunctionOnSet(LotCounts, LotsAt(p, k))' = SumFunctionOnSet(LotCounts, S) + a
      BY <1>11, <3>1, <3>7, <3>8, <3>9
    <3>13. QED
      BY <1>5, <3>8, <3>10, <3>11, <3>12 DEF CellCovers
  <2>3. CASE ~(p = q /\ k = m)
    <3>1. LotsAt(p, k)' = LotsAt(p, k) /\ \A l \in LotsAt(p, k) : lots'[l] = lots[l]
      BY <1>7, <1>8, <1>9, <1>10, <2>3 DEF LotsAt
    <3>2. shelf'[<<p, k>>] = shelf[<<p, k>>]
      BY <1>14, <2>3
    <3>3. QED
      BY <2>1, <3>1, <3>2, CellKept
  <2>4. QED
    BY <2>2, <2>3
<1>16. QED
  BY <1>15, CoversCellsNext

\* What both lot handlers do to the lots and entries, on current reads.
TookOut(t, k, q, m, row, entry) ==
    /\ k = t.lot /\ t.was = lots[k]
    /\ lots[k].location = q /\ lots[k].product = m
    /\ t.entry = shelf[<<q, m>>]
    /\ lots'[k] = row /\ \A l \in LotId \ {k} : lots'[l] = lots[l]
    /\ shelf'[<<q, m>>] = entry
    /\ \A p \in Location, n \in Material :
          <<p, n>> # <<q, m>> => shelf'[<<p, n>>] = shelf[<<p, n>>]

LEMMA TakeOutCells ==
    ASSUME TypeOK, SerialInv, ShelfInv, NEW s \in Session, IsLotTxn(s),
           NEW a \in Int, NEW row \in LotRow, NEW entry, TakeOut(txn[s], a, row, entry)
    PROVE  \E k \in LotId, q \in Location, m \in Material :
              TookOut(txn[s], k, q, m, row, entry)
<1>1. txn[s] \in LotTxn
  BY TxnKind DEF IsLotTxn, TypeOK
<1>2. PICK k \in LotId : k = txn[s].lot
  BY <1>1 DEF LotTxn
<1>3. PICK m \in Material : m = txn[s].was.product
  BY <1>1 DEF LotTxn
<1>4. PICK q \in Location : q = txn[s].was.location
  BY <1>1 DEF LotTxn
<1>5. txn[s].was = lots[k]
  BY <1>2, SerialParts DEF Fresh
<1>6. txn[s].entry = shelf[<<q, m>>]
  BY <1>3, <1>4 DEF ShelfInv, EntryFresh
<1>7. /\ lots' = [lots EXCEPT ![k] = row]
      /\ shelf' = [shelf EXCEPT ![<<q, m>>] = Flush(@, shelf[<<q, m>>], entry)]
  BY <1>2, <1>3, <1>4, <1>6 DEF TakeOut
<1>8. lots'[k] = row /\ \A l \in LotId \ {k} : lots'[l] = lots[l]
  BY <1>7 DEF TypeOK
<1>9. shelf'[<<q, m>>] = entry
  BY <1>7 DEF TypeOK, Flush
<1>10. \A p \in Location, n \in Material :
         <<p, n>> # <<q, m>> => shelf'[<<p, n>>] = shelf[<<p, n>>]
  BY <1>7 DEF TypeOK
<1>11. TookOut(txn[s], k, q, m, row, entry)
  BY <1>2, <1>3, <1>4, <1>5, <1>6, <1>8, <1>9, <1>10 DEF TookOut
<1>12. QED
  BY <1>11

\* A cell the taken lot is not in stays covered.
LEMMA OtherCellKept ==
    ASSUME TypeOK, NEW k \in LotId, NEW q \in Location, NEW m \in Material,
           lots[k].location = q, lots[k].product = m,
           lots'[k].location \in {q, NoLocation}, lots'[k].product = m,
           \A l \in LotId \ {k} : lots'[l] = lots[l],
           NEW p \in Location, NEW n \in Material, <<p, n>> # <<q, m>>,
           shelf'[<<p, n>>] = shelf[<<p, n>>], CellCovers(p, n)
    PROVE  CellCovers(p, n)'
<1>1. /\ k \notin LotsAt(p, n) /\ LotsAt(p, n)' = LotsAt(p, n)
      /\ \A l \in LotsAt(p, n) : lots'[l] = lots[l]
  BY ConstantsAssumption DEF LotsAt
<1>2. QED
  BY <1>1, CellKept

LEMMA ReleaseCovers ==
    ASSUME TypeOK, SerialInv, OverlapInv, ShelfInv, NEW s \in Session, CommitRelease(s)
    PROVE  ShelfCoversLots'
<1> DEFINE t == txn[s]
           row == ReleasedRow(t.was)
<1>1. IsLotTxn(s) /\ t \in LotTxn /\ t.was \in LotRow
  BY TxnKind DEF CommitRelease, TypeOK, IsLotTxn, LotTxn
<1>2. row \in LotRow /\ row.count = 0 /\ row.location = NoLocation
      /\ row.product = t.was.product
  BY <1>1 DEF ReleasedRow, LotRow
<1>3. TakeOut(t, t.was.count, row, Removed(t.entry, 0)) /\ t.was.count \in Int
  BY <1>1, <1>2 DEF CommitRelease, ReleaseCount, LotRow
<1> HIDE DEF row
<1>4. PICK k \in LotId, q \in Location, m \in Material :
        TookOut(t, k, q, m, row, Removed(t.entry, 0))
  BY <1>1, <1>2, <1>3, TakeOutCells, Zenon
<1> HIDE DEF t
<1>5. ASSUME ~Overdraw, NEW p \in Location, NEW n \in Material
      PROVE  CellCovers(p, n)'
  <2>1. CellCovers(p, n)
    BY <1>5, CoversCells DEF ShelfInv
  <2>2. CASE <<p, n>> = <<q, m>>
    <3> DEFINE S == LotsAt(p, n)
               f == LotCounts
               g == [l \in LotId |-> lots'[l].count]
    <3>1. S \in SUBSET LotId /\ k \in S /\ LotsAt(p, n)' = S \ {k}
      BY <1>2, <1>4, <2>2, ConstantsAssumption DEF LotsAt, TookOut
    <3>2. IsFiniteSet(S) /\ IsFiniteSet(S \ {k})
      BY <3>1, LotsFinite, FS_RemoveElement
    <3>3. \A l \in S : f[l] \in Nat
      <4>1. \A l \in S : l \in LotId /\ lots[l].count \in 0..packed[l]
        BY <1>5, <3>1 DEF OverlapInv, Booked
      <4>2. \A l \in LotId : packed[l] \in Nat
        BY DEF TypeOK
      <4>3. QED
        BY <4>1, <4>2 DEF LotCounts
    <3>4. \A l \in S \ {k} : f[l] \in Int /\ g[l] = f[l]
      <4>1. \A l \in S \ {k} : l \in LotId /\ lots'[l] = lots[l] /\ f[l] \in Int
        BY <1>4, <3>1, <3>3 DEF TookOut
      <4>2. QED
        BY <4>1 DEF LotCounts
    <3>5. LotCounts' = g
      BY DEF LotCounts
    <3> HIDE DEF S, f, g
    <3>6. /\ SumFunctionOnSet(f, S) \in Int /\ SumFunctionOnSet(f, S \ {k}) \in Int
          /\ SumFunctionOnSet(f, S) = f[k] + SumFunctionOnSet(f, S \ {k})
          /\ SumFunctionOnSet(f, S \ {k}) >= 0 /\ f[k] \in Nat
      BY <3>1, <3>2, <3>3, SumAtLeast
    <3>7. SumFunctionOnSet(g, S \ {k}) = SumFunctionOnSet(f, S \ {k})
      BY <3>2, <3>4, SumSame
    <3>8. SumFunctionOnSet(LotCounts, LotsAt(p, n))' = SumFunctionOnSet(f, S \ {k})
      BY <3>1, <3>5, <3>7
    <3>9. Shown(p, n) >= SumFunctionOnSet(f, S)
      BY <2>1 DEF CellCovers, f, S
    <3>10. shelf'[<<p, n>>] = Removed(shelf[<<p, n>>], 0) /\ shelf[<<p, n>>] \in Entry
      BY <1>4, <2>2 DEF TypeOK, TookOut
    <3>11. Shown(p, n)' = Shown(p, n) /\ Shown(p, n) \in Int
      BY <3>6, <3>9, <3>10, ConstantsAssumption DEF Shown, Removed, Entry
    <3>12. QED
      BY <3>6, <3>8, <3>9, <3>11 DEF CellCovers
  <2>3. CASE <<p, n>> # <<q, m>>
    <3>1. lots'[k].location \in {q, NoLocation} /\ lots'[k].product = m
      BY <1>2, <1>4 DEF TookOut
    <3>2. QED
      BY <1>4, <2>1, <2>3, <3>1, OtherCellKept DEF TookOut
  <2>4. QED
    BY <2>2, <2>3
<1>6. QED
  BY <1>5, CoversCellsNext

LEMMA ScrapCovers ==
    ASSUME TypeOK, SerialInv, OverlapInv, ShelfInv, NEW s \in Session, CommitScrap(s)
    PROVE  ShelfCoversLots'
<1> DEFINE t == txn[s]
<1>1. IsLotTxn(s) /\ t \in LotTxn /\ t.was \in LotRow
  BY TxnKind DEF CommitScrap, TypeOK, IsLotTxn, LotTxn
<1>2. PICK a \in Amount : /\ Overdraw \/ a <= t.was.count
                          /\ TakeOut(t, a, ScrappedRow(t.was, a), Added(t.entry, -a))
  BY DEF CommitScrap
<1> DEFINE row == ScrappedRow(t.was, a)
<1>3. a \in Nat \ {0} /\ a \in Int
  BY ConstantsAssumption
<1>4. row \in LotRow /\ row.count = t.was.count - a
      /\ row.location = t.was.location /\ row.product = t.was.product
  BY <1>1, <1>3 DEF ScrappedRow, LotRow
<1>5. TakeOut(t, a, row, Added(t.entry, -a))
  BY <1>2
<1> HIDE DEF row
<1>6. PICK k \in LotId, q \in Location, m \in Material :
        TookOut(t, k, q, m, row, Added(t.entry, -a))
  BY <1>1, <1>3, <1>4, <1>5, TakeOutCells, Zenon
<1> HIDE DEF t
<1>7. ASSUME ~Overdraw, NEW p \in Location, NEW n \in Material
      PROVE  CellCovers(p, n)'
  <2>1. CellCovers(p, n)
    BY <1>7, CoversCells DEF ShelfInv
  <2>2. CASE <<p, n>> = <<q, m>>
    <3> DEFINE S == LotsAt(p, n)
               f == LotCounts
               g == [l \in LotId |-> lots'[l].count]
    <3>1. S \in SUBSET LotId /\ k \in S /\ LotsAt(p, n)' = S
      BY <1>4, <1>6, <2>2, ConstantsAssumption DEF LotsAt, TookOut
    <3>2. IsFiniteSet(S)
      BY <3>1, LotsFinite
    <3>3. \A l \in S : f[l] \in Nat
      <4>1. \A l \in S : l \in LotId /\ lots[l].count \in 0..packed[l]
        BY <1>7, <3>1 DEF OverlapInv, Booked
      <4>2. \A l \in LotId : packed[l] \in Nat
        BY DEF TypeOK
      <4>3. QED
        BY <4>1, <4>2 DEF LotCounts
    <3>4. \A l \in S \ {k} : g[l] = f[l]
      <4>1. \A l \in S \ {k} : l \in LotId /\ lots'[l] = lots[l]
        BY <1>6, <3>1 DEF TookOut
      <4>2. QED
        BY <4>1 DEF LotCounts
    <3>5. g[k] = f[k] - a /\ a <= f[k]
      BY <1>2, <1>4, <1>6, <1>7 DEF LotCounts, TookOut
    <3>6. LotCounts' = g
      BY DEF LotCounts
    <3> HIDE DEF S, f, g
    <3>7. \A l \in S : f[l] \in Int /\ g[l] \in Int
      BY <1>3, <3>3, <3>4, <3>5
    <3>8. /\ SumFunctionOnSet(f, S) \in Int
          /\ SumFunctionOnSet(g, S) = SumFunctionOnSet(f, S) - f[k] + g[k]
      BY <3>1, <3>2, <3>4, <3>7, SumChange
    <3>9. /\ SumFunctionOnSet(f, S \ {k}) \in Int
          /\ SumFunctionOnSet(f, S) = f[k] + SumFunctionOnSet(f, S \ {k})
          /\ SumFunctionOnSet(f, S \ {k}) >= 0 /\ f[k] \in Nat
      BY <3>1, <3>2, <3>3, SumAtLeast
    <3>10. /\ SumFunctionOnSet(g, S) = SumFunctionOnSet(f, S) - a
           /\ SumFunctionOnSet(f, S) >= a
      BY <1>3, <3>5, <3>8, <3>9
    <3>11. SumFunctionOnSet(LotCounts, LotsAt(p, n))' = SumFunctionOnSet(g, S)
      BY <3>1, <3>6
    <3>12. Shown(p, n) >= SumFunctionOnSet(f, S)
      BY <2>1 DEF CellCovers, f, S
    <3>13. shelf'[<<p, n>>] = Added(shelf[<<p, n>>], -a) /\ shelf[<<p, n>>] \in Entry
      BY <1>6, <2>2 DEF TypeOK, TookOut
    <3>14. shelf[<<p, n>>] \in Int
      <4>1. CASE shelf[<<p, n>>] = NoEntry
        <5>1. Shown(p, n) = 0
          BY <4>1 DEF Shown
        <5>2. QED
          BY <1>3, <3>8, <3>10, <3>12, <5>1
      <4>2. QED
        BY <3>13, <4>1 DEF Entry
    <3>15. Shown(p, n)' = Shown(p, n) - a /\ Shown(p, n) \in Int
      <4>1. shelf'[<<p, n>>] = shelf[<<p, n>>] - a
        BY <1>3, <3>13, <3>14, ConstantsAssumption DEF Added
      <4>2. shelf[<<p, n>>] # NoEntry /\ shelf'[<<p, n>>] # NoEntry
        BY <1>3, <3>14, <4>1, ConstantsAssumption
      <4>3. QED
        BY <3>14, <4>1, <4>2 DEF Shown
    <3>16. QED
      BY <1>3, <3>8, <3>10, <3>11, <3>12, <3>15 DEF CellCovers
  <2>3. CASE <<p, n>> # <<q, m>>
    <3>1. lots'[k].location \in {q, NoLocation} /\ lots'[k].product = m
      BY <1>4, <1>6 DEF TookOut
    <3>2. QED
      BY <1>6, <2>1, <2>3, <3>1, OtherCellKept DEF TookOut
  <2>4. QED
    BY <2>2, <2>3
<1>8. QED
  BY <1>7, CoversCellsNext

\* When every other session is idle, only the stepping one holds an entry.
LEMMA OneEntry ==
    ASSUME NEW s \in Session, \A r \in Session \ {s} : ~IsOpen(r),
           \A r \in Session \ {s} : txn'[r] = txn[r], EntryFresh(s)'
    PROVE  \A r \in Session : EntryFresh(r)'
<1>1. \A r \in Session \ {s} : EntryFresh(r)'
  BY DEF IsOpen, EntryFresh, IsLotTxn
<1>2. QED
  BY <1>1

LEMMA ClosedEntry ==
    ASSUME TypeOK, NEW s \in Session, \A r \in Session \ {s} : ~IsOpen(r), Close(s)
    PROVE  \A r \in Session : EntryFresh(r)'
<1>1. txn'[s] = Idle /\ \A r \in Session \ {s} : txn'[r] = txn[r]
  BY CloseOwn
<1>2. EntryFresh(s)'
  BY <1>1 DEF EntryFresh, IsLotTxn, Idle
<1>3. QED
  BY <1>1, <1>2, OneEntry

\* A session that opens reads the entry as it is.
LEMMA BeginEntry ==
    ASSUME TypeOK, ShelfInv, NEW s \in Session,
           \A r \in Session \ {s} : ~IsOpen(r),
           \/ BeginEdit(s) \/ BeginStore(s) \/ OpenForm(s)
           \/ BeginLot(s, "release") \/ BeginLot(s, "scrap")
    PROVE  ShelfInv'
<1>1. UNCHANGED <<lots, shelf>>
  BY DEF BeginEdit, BeginStore, BeginLot, OpenForm, db
<1>2. \A r \in Session \ {s} : txn'[r] = txn[r]
  BY DEF BeginEdit, BeginStore, BeginLot, OpenForm, TypeOK
<1>3. EntryFresh(s)'
  <2>1. CASE BeginEdit(s) \/ OpenForm(s)
    <3>1. txn'[s].op \in {"edit", "form"}
      BY <2>1 DEF BeginEdit, OpenForm, TypeOK
    <3>2. QED
      BY <3>1 DEF EntryFresh, IsLotTxn
  <2>2. CASE BeginStore(s)
    <3>1. PICK o \in Live, l \in Location :
            txn' = [txn EXCEPT ![s] =
                      [op |-> "store", order |-> o, was |-> orders[o], loc |-> l,
                       entry |-> shelf[<<l, orders[o].product>>],
                       ready |-> FALSE, stock |-> 0]]
      BY <2>2 DEF BeginStore
    <3> DEFINE t == [op |-> "store", order |-> o, was |-> orders[o], loc |-> l,
                     entry |-> shelf[<<l, orders[o].product>>],
                     ready |-> FALSE, stock |-> 0]
    <3>2. /\ t.op = "store" /\ t.was = orders[o] /\ t.loc = l
          /\ t.entry = shelf[<<l, orders[o].product>>]
      OBVIOUS
    <3> HIDE DEF t
    <3>3. txn'[s] = t
      <4>1. txn' = [txn EXCEPT ![s] = t]
        BY <3>1 DEF t
      <4>2. QED
        BY <4>1, OnlyOwn
    <3>4. QED
      BY <1>1, <3>2, <3>3 DEF EntryFresh, IsLotTxn
  <2>3. ASSUME NEW op \in {"release", "scrap"}, BeginLot(s, op) PROVE EntryFresh(s)'
    <3>1. PICK l \in LotId :
            txn' = [txn EXCEPT ![s] =
                      [op |-> op, lot |-> l, was |-> lots[l],
                       entry |-> shelf[<<lots[l].location, lots[l].product>>],
                       ready |-> FALSE, stock |-> 0]]
      BY <2>3 DEF BeginLot
    <3> DEFINE t == [op |-> op, lot |-> l, was |-> lots[l],
                     entry |-> shelf[<<lots[l].location, lots[l].product>>],
                     ready |-> FALSE, stock |-> 0]
    <3>2. /\ t.op = op /\ t.was = lots[l]
          /\ t.entry = shelf[<<lots[l].location, lots[l].product>>]
      OBVIOUS
    <3> HIDE DEF t
    <3>3. txn'[s] = t
      <4>1. txn' = [txn EXCEPT ![s] = t]
        BY <3>1 DEF t
      <4>2. QED
        BY <4>1, OnlyOwn
    <3>4. QED
      BY <1>1, <3>2, <3>3 DEF EntryFresh, IsLotTxn
  <2>4. QED
    BY <2>1, <2>2, <2>3
<1>4. QED
  BY <1>1, <1>2, <1>3, OneEntry, CoversKept DEF ShelfInv

LEMMA ReadStockEntry ==
    ASSUME TypeOK, ShelfInv, NEW s \in Session,
           \A r \in Session \ {s} : ~IsOpen(r), ReadStock(s)
    PROVE  ShelfInv'
<1>1. UNCHANGED <<lots, shelf>>
  BY DEF ReadStock, db
<1>2. /\ txn'[s] = [txn[s] EXCEPT !.ready = TRUE, !.stock = stock[txn[s].was.product]]
      /\ \A r \in Session \ {s} : txn'[r] = txn[r]
  BY DEF ReadStock, TypeOK
<1>3. EntryFresh(s)'
  <2>1. txn[s] \in StoreTxn \/ txn[s] \in LotTxn
    BY TxnKind DEF ReadStock, TypeOK
  <2>2. CASE txn[s] \in StoreTxn
    <3>1. /\ txn[s].op = "store" /\ txn'[s].op = "store" /\ txn'[s].was = txn[s].was
          /\ txn'[s].loc = txn[s].loc /\ txn'[s].entry = txn[s].entry
      BY <1>2, <2>2 DEF StoreTxn
    <3>2. QED
      BY <1>1, <3>1 DEF ShelfInv, EntryFresh, IsLotTxn
  <2>3. CASE txn[s] \in LotTxn
    <3>1. /\ txn[s].op \in {"release", "scrap"} /\ txn'[s].op = txn[s].op
          /\ txn'[s].was = txn[s].was /\ txn'[s].entry = txn[s].entry
      BY <1>2, <2>3 DEF LotTxn
    <3>2. QED
      BY <1>1, <3>1 DEF ShelfInv, EntryFresh, IsLotTxn
  <2>4. QED
    BY <2>1, <2>2, <2>3
<1>4. QED
  BY <1>1, <1>2, <1>3, OneEntry, CoversKept DEF ShelfInv

LEMMA ShelfStep ==
    TypeOK /\ SerialInv /\ OverlapInv /\ ShelfInv /\ [SerialNext]_vars => ShelfInv'
<1> SUFFICES ASSUME TypeOK, SerialInv, OverlapInv, ShelfInv, [SerialNext]_vars
             PROVE  ShelfInv'
  OBVIOUS
<1>1. CASE (\A s \in Session : ~IsOpen(s)) /\ (CreateOrders \/ DeleteOrders)
  <2>1. UNCHANGED <<lots, shelf, txn>>
    BY <1>1 DEF CreateOrders, DeleteOrders
  <2>2. QED
    BY <2>1, CoversKept DEF ShelfInv, EntryFresh, IsLotTxn
<1>2. ASSUME NEW s \in Session, \A r \in Session \ {s} : ~IsOpen(r), SessionStep(s)
      PROVE  ShelfInv'
  <2>1. CASE BeginEdit(s) \/ BeginStore(s) \/ OpenForm(s) \/ BeginRelease(s) \/ BeginScrap(s)
    BY <1>2, <2>1, BeginEntry DEF BeginRelease, BeginScrap
  <2>2. CASE ReadStock(s)
    BY <1>2, <2>2, ReadStockEntry
  <2>3. CASE CommitEdit(s) \/ SubmitForm(s) \/ Rollback(s)
    <3>1. UNCHANGED <<lots, shelf>> /\ Close(s)
      BY <2>3 DEF CommitEdit, SubmitForm, Rollback, db
    <3>2. QED
      BY <1>2, <3>1, CoversKept, ClosedEntry DEF ShelfInv
  <2>4. CASE CommitStore(s)
    <3>1. Close(s)
      BY <2>4 DEF CommitStore
    <3>2. QED
      BY <1>2, <2>4, <3>1, StoreCovers, ClosedEntry DEF ShelfInv
  <2>5. CASE CommitRelease(s)
    <3>1. Close(s)
      BY <2>5 DEF CommitRelease
    <3>2. QED
      BY <1>2, <2>5, <3>1, ReleaseCovers, ClosedEntry DEF ShelfInv
  <2>6. CASE CommitScrap(s)
    <3>1. Close(s)
      BY <2>6 DEF CommitScrap
    <3>2. QED
      BY <1>2, <2>6, <3>1, ScrapCovers, ClosedEntry DEF ShelfInv
  <2>7. QED
    BY <1>2, <2>1, <2>2, <2>3, <2>4, <2>5, <2>6 DEF SessionStep
<1>3. CASE UNCHANGED vars
  BY <1>3, CoversKept DEF ShelfInv, EntryFresh, IsLotTxn, vars, db
<1>4. QED
  BY <1>1, <1>2, <1>3 DEF SerialNext

LEMMA InitShelf == Init => ShelfInv
<1> SUFFICES ASSUME Init PROVE ShelfInv
  OBVIOUS
<1>1. \A s \in Session : EntryFresh(s)
  BY DEF Init, Idle, EntryFresh, IsLotTxn
<1>2. ASSUME NEW p \in Location, NEW m \in Material PROVE CellCovers(p, m)
  <2>1. LotsAt(p, m) = {} /\ Shown(p, m) = 0
    BY <1>2, ConstantsAssumption DEF Init, LotsAt, Shown, BlankLot
  <2>2. QED
    BY <2>1, SumEmpty DEF CellCovers
<1>3. QED
  BY <1>1, <1>2, CoversCells DEF ShelfInv

\* Without overlapping requests the location list never shows less of a
\* material than its lots hold together: a store adds to the entry exactly what
\* its lots hold (PackedIsAll), a release takes nothing from it, a scrap takes
\* from the entry what it takes from the lot.
THEOREM ShelfCovers == SerialSpec => []ShelfCoversLots
<1>1. SerialSpec => []OverlapInv
  <2>1. SerialSpec => Spec
    BY SerialIsNext, PTL DEF SerialSpec, Spec
  <2>2. QED
    BY <2>1, OverlapCorrect, PTL
<1>2. Init => ShelfInv
  BY InitShelf
<1>3. TypeOK /\ SerialInv /\ OverlapInv /\ ShelfInv /\ [SerialNext]_vars => ShelfInv'
  BY ShelfStep
<1>4. SerialSpec => []ShelfInv
  BY <1>1, <1>2, <1>3, SerialTypeCorrect, SerialCorrect, PTL DEF SerialSpec
<1>5. ShelfInv => ShelfCoversLots
  BY DEF ShelfInv
<1>6. QED
  BY <1>4, <1>5, PTL

----------------------------------------------------------------------------
(* The handlers implement StockLedger.                                      *)

LEMMA LedgerSum == \A f : Ledger!SumFunction(f) = SumFunctionOnSet(f, DOMAIN f)
BY DEF Ledger!SumFunction, Ledger!SumFunctionOnSet, SumFunctionOnSet,
       Ledger!FoldFunctionOnSet, FoldFunctionOnSet, Ledger!MapThenFoldSet, MapThenFoldSet

\* None of the lots a delivery is packed into is empty, and there is one.
LEMMA PackPositive ==
    ASSUME NEW a \in Nat \ {0}, NEW u \in Nat \ {0}
    PROVE  /\ PackNumber(a, u) \in Nat \ {0}
           /\ \A i \in 1 .. PackNumber(a, u) : PackCount(a, u, i) \in Nat \ {0}
<1> DEFINE q == a \div u
           r == a % u
<1>1. q \in Nat /\ r \in Nat /\ a = u * q + r
  OBVIOUS
<1>2. PackNumber(a, u) = q + (IF r # 0 THEN 1 ELSE 0)
  BY DEF PackNumber
<1>3. \A i : PackCount(a, u, i) = IF i <= q THEN u ELSE r
  BY DEF PackCount
<1> HIDE DEF q, r
<1>4. r = 0 => q # 0
  BY <1>1
<1>5. QED
  BY <1>1, <1>2, <1>3, <1>4

LEMMA LedgerInit == Init => Ledger!Init
<1> SUFFICES ASSUME Init PROVE Ledger!Init
  OBVIOUS
<1>1. stock = [m \in Material |-> 0]
  BY DEF Init
<1>2. LotCounts = [l \in LotId |-> 0]
  BY DEF Init, LotCounts, BlankLot
<1>3. LotPlaces = [l \in LotId |-> "free"]
  BY ConstantsAssumption DEF Init, LotPlaces, LotId
<1>4. QED
  BY <1>1, <1>2, <1>3 DEF Ledger!Init, Ledger!FREE

\* completeOrder is the ledger's Receive.
LEMMA StoreReceives ==
    ASSUME TypeOK, SerialInv, NEW s \in Session, CommitStore(s)
    PROVE  \E m \in Material : Ledger!Receive(m)
<1> DEFINE t == txn[s]
           m == t.was.product
           u == Unit(m)
<1>1. t \in StoreTxn /\ t.op = "store" /\ t.ready
  BY TxnKind DEF CommitStore, TypeOK
<1>2. m \in Material /\ t.loc \in Location
  BY <1>1 DEF StoreTxn
<1>3. t.stock = stock[m]
  BY <1>1, SerialParts DEF Fresh
<1>4. PICK a \in Amount :
        /\ lastLot + PackNumber(a, u) <= MaxLot
        /\ lastLot' = lastLot + PackNumber(a, u)
        /\ lots' = [l \in LotId |-> IF l \in NewLots(PackNumber(a, u))
              THEN [product |-> m, count |-> PackCount(a, u, l - lastLot), location |-> t.loc]
              ELSE lots[l]]
        /\ stock' = [stock EXCEPT ![m] = t.stock + a]
  BY DEF CommitStore
<1>5. a \in Nat \ {0} /\ u \in Nat \ {0}
  BY <1>2, UnitPositive, ConstantsAssumption
<1> HIDE DEF u, m
<1>6. PICK n \in Nat \ {0} : n = PackNumber(a, u)
  BY <1>5, PackPositive
<1>7. lastLot \in Nat /\ lastLot' = lastLot + n
  BY <1>4, <1>6, ConstantsAssumption DEF TypeOK
<1> DEFINE N == lastLot + 1 .. lastLot + n
           size == [l \in N |-> LotCounts'[l]]
<1>8. N # {} /\ N \in SUBSET LotId /\ N = NewLots(n)
  <2>1. N = NewLots(n)
    BY DEF NewLots
  <2>2. N \in SUBSET LotId
    BY <1>4, <1>6, <1>7, ConstantsAssumption DEF LotId
  <2>3. lastLot + 1 \in N
    BY <1>6, <1>7
  <2>4. QED
    BY <2>1, <2>2, <2>3
<1>9. \A l \in N : /\ l > lastLot /\ l <= lastLot'
                   /\ lots'[l].product = m /\ lots'[l].location = t.loc
                   /\ lots'[l].count = PackCount(a, u, l - lastLot)
  <2>1. \A l \in N : l > lastLot /\ l <= lastLot'
    BY <1>6, <1>7
  <2>2. \A l \in N : l \in LotId /\ l \in NewLots(PackNumber(a, u))
    BY <1>6, <1>8
  <2> HIDE DEF N
  <2>3. \A l \in N : lots'[l].product = m /\ lots'[l].location = t.loc
                       /\ lots'[l].count = PackCount(a, u, l - lastLot)
    BY <1>4, <2>2
  <2>4. QED
    BY <2>1, <2>3
<1>10. \A l \in LotId \ N : lots'[l] = lots[l]
  BY <1>4, <1>6, <1>8
<1>11. \A l \in N : LotCounts'[l] = PackCount(a, u, l - lastLot)
  BY <1>8, <1>9 DEF LotCounts
<1>12. \A l \in N : LotCounts'[l] \in Nat \ {0}
  <2>1. \A l \in N : l - lastLot \in 1 .. PackNumber(a, u)
    BY <1>6, <1>7
  <2> HIDE DEF N
  <2>2. QED
    BY <1>5, <1>11, <2>1, PackPositive
<1>13. Ledger!SumFunction(size) = a
  <2>1. Ledger!SumFunction(size) = SumFunctionOnSet(size, N)
    BY LedgerSum
  <2>2. N = lastLot + 1 .. lastLot + PackNumber(a, u)
    BY <1>6
  <2>3. \A l \in N : size[l] = PackCount(a, u, l - lastLot)
    BY <1>11
  <2> HIDE DEF N, size
  <2>4. SumFunctionOnSet(size, N) = a
    BY <1>5, <1>7, <2>2, <2>3, PackedIsAll
  <2>5. QED
    BY <2>1, <2>4
<1>14. N \in SUBSET {l \in LotId : LotPlaces[l] = Ledger!FREE}
  BY <1>8, <1>9 DEF LotPlaces, Ledger!FREE
<1>15. stock' = [stock EXCEPT ![m] = @ + Ledger!SumFunction(size)]
  <2> HIDE DEF size
  <2>1. QED
    BY <1>3, <1>4, <1>13
<1>16. LotCounts' = [l \in LotId |-> IF l \in N THEN size[l] ELSE LotCounts[l]]
  <2>1. \A l \in LotId : LotCounts'[l] = IF l \in N THEN size[l] ELSE LotCounts[l]
    BY <1>10 DEF LotCounts
  <2>2. LotCounts' = [l \in LotId |-> LotCounts'[l]]
    BY DEF LotCounts
  <2> HIDE DEF N, size
  <2>3. QED
    BY <2>1, <2>2
<1>17. LotPlaces' = [l \in LotId |-> IF l \in N THEN m ELSE LotPlaces[l]]
  <2>1. ASSUME NEW l \in LotId
        PROVE  LotPlaces'[l] = IF l \in N THEN m ELSE LotPlaces[l]
    <3>1. LotPlaces'[l] = IF l > lastLot' THEN "free"
                          ELSE IF lots'[l].location = NoLocation THEN "used"
                          ELSE lots'[l].product
      BY DEF LotPlaces
    <3>2. CASE l \in N
      <4>1. ~(l > lastLot')
        BY <1>7, <1>9, <3>2
      <4>2. t.loc # NoLocation
        BY <1>2, ConstantsAssumption
      <4>3. QED
        BY <1>9, <3>1, <3>2, <4>1, <4>2
    <3>3. CASE l \notin N
      <4>1. (l > lastLot') <=> (l > lastLot)
        <5>1. l \in Nat
          BY ConstantsAssumption DEF LotId
        <5>2. l > lastLot => l > lastLot + n
          BY <1>6, <1>7, <3>3, <5>1
        <5>3. QED
          BY <1>6, <1>7, <5>1, <5>2
      <4>2. lots'[l] = lots[l]
        BY <1>10, <3>3
      <4>3. QED
        BY <3>1, <3>3, <4>1, <4>2 DEF LotPlaces
    <3>4. QED
      BY <3>2, <3>3
  <2>2. LotPlaces' = [l \in LotId |-> LotPlaces'[l]]
    BY DEF LotPlaces
  <2> HIDE DEF N
  <2>3. QED
    BY <2>1, <2>2
<1> HIDE DEF N
<1>18. Ledger!Receive(m)
  BY <1>8, <1>12, <1>14, <1>15, <1>16, <1>17 DEF Ledger!Receive
<1>19. QED
  BY <1>2, <1>18

\* Both lot handlers, as the ledger sees them: one lot and one material change.
LedgerTook(t, k, m, a, row) ==
    /\ k \in LotId /\ m \in Material /\ lots[k] = t.was
    /\ lots[k].location \in Location
    /\ LotPlaces[k] = m
    /\ stock' = [stock EXCEPT ![m] = @ - a]
    /\ LotCounts' = [LotCounts EXCEPT ![k] = row.count]
    /\ LotPlaces' = [LotPlaces EXCEPT ![k] =
          IF row.location = NoLocation THEN "used" ELSE row.product]

LEMMA LedgerTakeOut ==
    ASSUME TypeOK, SerialInv, NEW s \in Session, IsLotTxn(s), txn[s].ready,
           NEW a \in Int, NEW row \in LotRow, NEW entry,
           TakeOut(txn[s], a, row, entry), lastLot' = lastLot
    PROVE  LedgerTook(txn[s], txn[s].lot, lots[txn[s].lot].product, a, row)
<1>1. txn[s] \in LotTxn
  BY TxnKind DEF IsLotTxn, TypeOK
<1>2. PICK k \in LotId : k = txn[s].lot
  BY <1>1 DEF LotTxn
<1>3. PICK m \in Material : m = txn[s].was.product
  BY <1>1 DEF LotTxn
<1>4. txn[s].was = lots[k] /\ k <= lastLot /\ txn[s].stock = stock[m]
  BY <1>2, <1>3, SerialParts DEF Fresh, IsLotTxn
<1>5. txn[s].was.location \in Location
  BY <1>1 DEF LotTxn
<1>6. ~(k > lastLot) /\ ~(k > lastLot')
  BY <1>4, ConstantsAssumption DEF LotId, TypeOK
<1>7. lots[k].product = m /\ lots[k].location \in Location /\ LotPlaces[k] = m
  <2>1. lots[k].location # NoLocation
    BY <1>4, <1>5, ConstantsAssumption
  <2>2. QED
    BY <1>3, <1>4, <1>5, <1>6, <2>1 DEF LotPlaces
<1>8. /\ lots' = [lots EXCEPT ![k] = row]
      /\ stock' = [stock EXCEPT ![m] = Flush(@, stock[m], StockAfter(stock[m], a))]
  BY <1>2, <1>3, <1>4 DEF TakeOut
<1>9. stock' = [stock EXCEPT ![m] = @ - a]
  BY <1>8 DEF Flush, StockAfter, TypeOK
<1>10. lots'[k] = row /\ \A l \in LotId \ {k} : lots'[l] = lots[l]
  BY <1>8 DEF TypeOK
<1>11. LotCounts' = [LotCounts EXCEPT ![k] = row.count]
  BY <1>10 DEF LotCounts
<1>12. LotPlaces' = [LotPlaces EXCEPT ![k] =
                       IF row.location = NoLocation THEN "used" ELSE row.product]
  <2>1. LotPlaces'[k] = IF row.location = NoLocation THEN "used" ELSE row.product
    BY <1>6, <1>10 DEF LotPlaces
  <2>2. \A l \in LotId \ {k} : LotPlaces'[l] = LotPlaces[l]
    BY <1>10 DEF LotPlaces
  <2>3. LotPlaces \in [LotId -> {LotPlaces[l] : l \in LotId}]
        /\ LotPlaces' = [l \in LotId |-> LotPlaces'[l]]
    BY DEF LotPlaces
  <2>4. QED
    BY <2>1, <2>2, <2>3
<1>13. QED
  BY <1>2, <1>4, <1>7, <1>9, <1>11, <1>12 DEF LedgerTook

\* releaseProduct is its UseUp.
LEMMA ReleaseUsesUp ==
    ASSUME TypeOK, SerialInv, NEW s \in Session, CommitRelease(s)
    PROVE  \E l \in LotId : Ledger!UseUp(l)
<1> DEFINE t == txn[s]
           row == ReleasedRow(t.was)
           entry == Removed(t.entry, row.count)
           k == t.lot
           m == lots[k].product
<1>1. IsLotTxn(s) /\ t.ready /\ t \in LotTxn /\ t.was \in LotRow
  BY TxnKind DEF CommitRelease, TypeOK, IsLotTxn, LotTxn
<1>2. row \in LotRow /\ row.count = 0 /\ row.location = NoLocation /\ t.was.count \in Int
  BY <1>1 DEF ReleasedRow, LotRow
<1>3. TakeOut(t, t.was.count, row, entry) /\ lastLot' = lastLot
  BY DEF CommitRelease, ReleaseCount
<1> HIDE DEF row, entry
<1>4. LedgerTook(t, k, m, t.was.count, row)
  BY <1>1, <1>2, <1>3, LedgerTakeOut, Zenon
<1>5. LotCounts[k] = t.was.count
  BY <1>4 DEF LotCounts, LedgerTook
<1> HIDE DEF k, m
<1>6. Ledger!UseUp(k)
  BY <1>2, <1>4, <1>5 DEF Ledger!UseUp, Ledger!USED, LedgerTook
<1>7. QED
  BY <1>4, <1>6 DEF LedgerTook

\* productErrorProcess is its Scrap.
LEMMA ScrapScraps ==
    ASSUME TypeOK, SerialInv, NEW s \in Session, CommitScrap(s)
    PROVE  \E l \in LotId : Ledger!Scrap(l)
<1> DEFINE t == txn[s]
           k == t.lot
           m == lots[k].product
<1>1. IsLotTxn(s) /\ t.ready /\ t \in LotTxn /\ t.was \in LotRow
  BY TxnKind DEF CommitScrap, TypeOK, IsLotTxn, LotTxn
<1>2. PICK a \in Amount : TakeOut(t, a, ScrappedRow(t.was, a), Added(t.entry, -a))
  BY DEF CommitScrap
<1> DEFINE row == ScrappedRow(t.was, a)
           entry == Added(t.entry, -a)
<1>3. a \in Nat \ {0} /\ a \in Int
  BY ConstantsAssumption
<1>4. row \in LotRow /\ row.count = t.was.count - a /\ t.was.count \in Int
      /\ row.location = t.was.location /\ row.product = t.was.product
  BY <1>1, <1>3 DEF ScrappedRow, LotRow
<1>5. TakeOut(t, a, row, entry) /\ lastLot' = lastLot
  BY <1>2 DEF CommitScrap
<1> HIDE DEF row, entry
<1>6. LedgerTook(t, k, m, a, row)
  BY <1>1, <1>3, <1>4, <1>5, LedgerTakeOut, Zenon
<1>7. LotCounts[k] = t.was.count /\ LotCounts'[k] = t.was.count - a
  BY <1>4, <1>6 DEF LotCounts, LedgerTook
<1>8. LotPlaces' = LotPlaces
  <2>1. row.location # NoLocation /\ row.product = m
    BY <1>4, <1>6, ConstantsAssumption DEF LedgerTook
  <2>2. LotPlaces = [l \in LotId |-> LotPlaces[l]]
    BY DEF LotPlaces
  <2> HIDE DEF k, m
  <2>3. QED
    BY <1>6, <2>1, <2>2 DEF LedgerTook
<1> HIDE DEF k, m
<1>9. LotCounts' = [LotCounts EXCEPT ![k] = LotCounts'[k]]
  BY <1>4, <1>6, <1>7 DEF LedgerTook
<1>10. LotCounts[k] - LotCounts'[k] = a /\ LotCounts'[k] < LotCounts[k]
  BY <1>3, <1>4, <1>7
<1>11. Ledger!Scrap(k)
  BY <1>6, <1>8, <1>9, <1>10 DEF Ledger!Scrap, LedgerTook
<1>12. QED
  BY <1>6, <1>11 DEF LedgerTook

\* Saving the material page is its Correct.
LEMMA FormCorrects ==
    ASSUME TypeOK, NEW s \in Session, SubmitForm(s)
    PROVE  \E m \in Material : Ledger!Correct(m)
<1>1. txn[s] \in FormTxn
  BY TxnKind DEF SubmitForm, TypeOK
<1>2. PICK m \in Material : m = txn[s].material
  BY <1>1 DEF FormTxn
<1>3. PICK v : stock' = [stock EXCEPT ![m] = v]
  BY <1>2 DEF SubmitForm
<1>4. stock' = [stock EXCEPT ![m] = stock'[m]]
  BY <1>3 DEF TypeOK
<1>5. LotCounts' = LotCounts /\ LotPlaces' = LotPlaces
  BY DEF SubmitForm, LotCounts, LotPlaces
<1>6. QED
  BY <1>4, <1>5 DEF Ledger!Correct

LEMMA LedgerStep ==
    ASSUME TypeOK, SerialInv, [SerialNext]_vars
    PROVE  [Ledger!Next]_(<<stock, LotCounts, LotPlaces>>)
<1> DEFINE seen == <<stock, LotCounts, LotPlaces>>
<1>1. CASE UNCHANGED <<stock, lots, lastLot>>
  BY <1>1 DEF LotCounts, LotPlaces
<1>2. CASE CreateOrders \/ DeleteOrders \/ UNCHANGED vars
  <2>1. UNCHANGED <<stock, lots, lastLot>>
    BY <1>2 DEF CreateOrders, DeleteOrders, vars, db
  <2>2. QED
    BY <1>1, <2>1
<1>3. ASSUME NEW s \in Session, SessionStep(s)
      PROVE  [Ledger!Next]_seen
  <2>1. CASE BeginEdit(s) \/ CommitEdit(s) \/ BeginStore(s) \/ ReadStock(s)
             \/ BeginRelease(s) \/ BeginScrap(s) \/ OpenForm(s) \/ Rollback(s)
    <3>1. UNCHANGED <<stock, lots, lastLot>>
      BY <2>1 DEF BeginEdit, CommitEdit, BeginStore, ReadStock, BeginRelease, BeginScrap,
                  BeginLot, OpenForm, Rollback, db
    <3>2. QED
      BY <1>1, <3>1
  <2>2. CASE CommitStore(s)
    BY <2>2, StoreReceives DEF Ledger!Next
  <2>3. CASE CommitRelease(s)
    BY <2>3, ReleaseUsesUp DEF Ledger!Next
  <2>4. CASE CommitScrap(s)
    BY <2>4, ScrapScraps DEF Ledger!Next
  <2>5. CASE SubmitForm(s)
    BY <2>5, FormCorrects DEF Ledger!Next
  <2>6. QED
    BY <1>3, <2>1, <2>2, <2>3, <2>4, <2>5 DEF SessionStep
<1>4. QED
  BY <1>2, <1>3 DEF SerialNext

\* Without overlapping requests the handlers of OrderHistoryService,
\* ShippingService, ErrorService and MeterialService implement the abstract
\* ledger: stock and lots change together, at the commit, on current figures.
THEOREM LedgerRefined == SerialSpec => LedgerSpec
<1>1. Init => Ledger!Init
  BY LedgerInit
<1>2. TypeOK /\ SerialInv /\ [SerialNext]_vars
        => [Ledger!Next]_(<<stock, LotCounts, LotPlaces>>)
  BY LedgerStep
<1>3. QED
  BY <1>1, <1>2, SerialTypeCorrect, SerialCorrect, PTL DEF SerialSpec, LedgerSpec, Ledger!Spec

=============================================================================
