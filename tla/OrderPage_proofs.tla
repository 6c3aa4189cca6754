-------------------------- MODULE OrderPage_proofs --------------------------
(* Theorems about OrderPage, for every set of companies, brands and branches    *)
(* and every bound: of its types and of the work orders of an order whatever    *)
(* the user does, and of what is stored for one who waits for the answers.      *)
EXTENDS OrderPage, TLAPS

\* What an order, a request and a post may name is an order of the server.
OrderOrNone == Order \cup {None}
CreateMsg == [what : {"create"}, company : Company, brand : Brand \cup {None}]
UpdateMsg == [what : {"update"}, id : Order, company : Company \cup {None},
              brand : Brand \cup {None}]
DeleteMsg == [what : {"delete"}, id : Order]
RegisterMsg == [what : {"register"}, order : Order, branches : SUBSET (Branch \cup {None})]

CompanyAsk == [what : {"brandsOfCompany"}, of : Company]
OrderAsk == [what : {"order", "brandsOfOrder"}, of : Order]
BranchAsk == [what : {"branches"}, of : Brand]

ServerOK ==
    /\ orders \in Seq(OrderRow \cup {None}) /\ Len(orders) <= MaxOrders
    /\ work \subseteq [order : OrderOrNone, branch : Branch \cup {None}]
    /\ posts \subseteq CreateMsg \cup UpdateMsg \cup DeleteMsg \cup RegisterMsg
    /\ habits \subseteq Habits

\* The page lists orders as they are: what changes them reloads it.
PageOK ==
    /\ table \in Lists(orders) /\ updateTab \in BOOLEAN
    /\ create \in Form
    /\ update \in UpdateForm /\ update.id \in OrderOrNone
    /\ sheet \in [order : OrderOrNone, rows : Seq(Row)] /\ sheet.rows # <<>>
    /\ asked \subseteq CompanyAsk \cup OrderAsk \cup BranchAsk

----------------------------------------------------------------------------
(* Types.                                                                    *)

LEMMA Blanks ==
    EmptyForm \in Form /\ EmptyUpdate \in UpdateForm /\ EmptyRow \in Row
BY DEF EmptyForm, EmptyUpdate, EmptyRow, Form, UpdateForm, Row

LEMMA BrandSets ==
    /\ \A c : BrandsOf(c) \in SUBSET Brand
    /\ \A b : BranchesOf(b) \in SUBSET Branch
BY DEF BrandsOf, BranchesOf

\* The orders of the server are numbered within the bound.
LEMMA OrderRange ==
    ASSUME ServerOK
    PROVE  /\ Len(orders) \in Nat /\ Order = 1 .. Len(orders)
           /\ Order \subseteq 1 .. MaxOrders /\ None \notin Order
<1>1. Len(orders) \in Nat /\ Order = 1 .. Len(orders) /\ Len(orders) <= MaxOrders
  BY DEF ServerOK, Order
<1>2. QED
  BY <1>1, OrderPageAssumption

LEMMA OrderFields ==
    ASSUME ServerOK, NEW o \in Order, orders[o] # None
    PROVE  /\ orders[o] \in OrderRow /\ orders[o].company \in Company
           /\ orders[o].brand \in Brand \cup {None}
<1>1. orders[o] \in OrderRow
  BY DEF ServerOK, Order
<1>2. QED
  BY <1>1 DEF OrderRow

\* What is listed is a live order with a brand.
LEMMA ListFacts ==
    ASSUME PageOK
    PROVE  /\ DOMAIN table = Order
           /\ \A o \in Order : table[o] = orders[o] \/ table[o] = None
           /\ \A o \in Listed : /\ o \in Order /\ table[o] = orders[o]
                               /\ orders[o] # None /\ orders[o].brand # None
<1>1. PICK live : live = {o \in Order : orders[o] # None}
  OBVIOUS
<1>2. PICK branded : branded = {o \in live : orders[o].brand # None}
  OBVIOUS
<1>3. PICK seen \in IF branded = live THEN {live} ELSE SUBSET branded :
        table = [o \in Order |-> IF o \in seen THEN orders[o] ELSE None]
  BY <1>1, <1>2 DEF PageOK, Lists, Order
<1>4. seen \subseteq branded
  BY <1>3
<1>5. QED
  BY <1>1, <1>2, <1>3, <1>4 DEF Listed

LEMMA AskKind ==
    ASSUME NEW r \in CompanyAsk \cup OrderAsk \cup BranchAsk
    PROVE  /\ r.what = "brandsOfCompany" => r.of \in Company
           /\ r.what \in {"order", "brandsOfOrder"} => r.of \in Order
           /\ r.what = "branches" => r.of \in Brand
BY DEF CompanyAsk, OrderAsk, BranchAsk

LEMMA PostKind ==
    ASSUME NEW p \in CreateMsg \cup UpdateMsg \cup DeleteMsg \cup RegisterMsg
    PROVE  /\ p.what = "create" => p \in CreateMsg
           /\ p.what = "update" => p \in UpdateMsg
           /\ p.what = "delete" => p \in DeleteMsg
           /\ p.what = "register" => p \in RegisterMsg
BY DEF CreateMsg, UpdateMsg, DeleteMsg, RegisterMsg

\* A select box that gets options keeps its selection or takes one of them.
Offered(new, form, brands) ==
    /\ new.options = form.options \cup brands
    /\ new.brand = form.brand \/ new.brand \in brands
    /\ brands # {} => new.brand # None

LEMMA WithOptionsForm ==
    ASSUME NEW form \in Form, NEW brands \in SUBSET Brand, NEW new \in WithOptions(form, brands)
    PROVE  new \in Form /\ new.company = form.company /\ Offered(new, form, brands)
<1>1. PICK b \in IF form.brand # None \/ brands = {} THEN {form.brand} ELSE brands :
        new = [form EXCEPT !.options = @ \cup brands, !.brand = b]
  BY DEF WithOptions
<1>2. b \in Brand \cup {None} /\ (b = form.brand \/ b \in brands) /\ (brands # {} => b # None)
  BY <1>1, OrderPageAssumption DEF Form
<1>3. form.options \cup brands \in SUBSET Brand
  BY DEF Form
<1>4. QED
  BY <1>1, <1>2, <1>3 DEF Form, Offered

LEMMA WithOptionsUpdate ==
    ASSUME NEW form \in UpdateForm, NEW brands \in SUBSET Brand,
           NEW new \in WithOptions(form, brands)
    PROVE  /\ new \in UpdateForm /\ new.company = form.company /\ new.id = form.id
           /\ Offered(new, form, brands)
<1>1. PICK b \in IF form.brand # None \/ brands = {} THEN {form.brand} ELSE brands :
        new = [form EXCEPT !.options = @ \cup brands, !.brand = b]
  BY DEF WithOptions
<1>2. b \in Brand \cup {None} /\ (b = form.brand \/ b \in brands) /\ (brands # {} => b # None)
  BY <1>1, OrderPageAssumption DEF UpdateForm
<1>3. form.options \cup brands \in SUBSET Brand
  BY DEF UpdateForm
<1>4. QED
  BY <1>1, <1>2, <1>3 DEF UpdateForm, Offered

\* The order form a company is chosen in, and the request that goes with it.
LEMMA SelectBrandType ==
    ASSUME PageOK, NEW c \in Company \cup {None}, selectBrand(c)
    PROVE  /\ create' \in Form
           /\ asked' \subseteq CompanyAsk \cup OrderAsk \cup BranchAsk
           /\ create' = [company |-> c, options |-> {}, brand |-> None]
           /\ c = None => asked' = asked
           /\ c # None => asked' = asked \cup {[what |-> "brandsOfCompany", of |-> c]}
<1>1. create' = [company |-> c, options |-> {}, brand |-> None]
  BY DEF selectBrand
<1>2. c # None => [what |-> "brandsOfCompany", of |-> c] \in CompanyAsk
  BY DEF CompanyAsk
<1>3. QED
  BY <1>1, <1>2 DEF selectBrand, PageOK, Form

LEMMA SheetFields ==
    ASSUME PageOK
    PROVE  /\ sheet.order \in OrderOrNone /\ sheet.rows \in Seq(Row)
           /\ sheet = [order |-> sheet.order, rows |-> sheet.rows]
           /\ Len(sheet.rows) \in Nat /\ Len(sheet.rows) > 0
           /\ DOMAIN sheet.rows = 1 .. Len(sheet.rows)
<1>1. sheet.order \in OrderOrNone /\ sheet.rows \in Seq(Row) /\ sheet.rows # <<>>
      /\ sheet = [order |-> sheet.order, rows |-> sheet.rows]
  BY DEF PageOK
<1>2. QED
  BY <1>1

LEMMA RowWritten ==
    ASSUME PageOK, NEW i \in DOMAIN sheet.rows, NEW row \in Row,
           sheet' = [sheet EXCEPT !.rows[i] = row]
    PROVE  /\ sheet'.order = sheet.order /\ sheet'.rows = [sheet.rows EXCEPT ![i] = row]
           /\ sheet'.rows \in Seq(Row) /\ Len(sheet'.rows) = Len(sheet.rows)
           /\ sheet' = [order |-> sheet'.order, rows |-> sheet'.rows]
<1>1. PICK rs : rs = sheet.rows
  OBVIOUS
<1>2. sheet' = [order |-> sheet.order, rows |-> [rs EXCEPT ![i] = row]]
  BY <1>1, SheetFields
<1>3. rs \in Seq(Row) /\ i \in 1 .. Len(rs)
  BY <1>1, SheetFields
<1>4. [rs EXCEPT ![i] = row] \in Seq(Row) /\ Len([rs EXCEPT ![i] = row]) = Len(rs)
  BY <1>3
<1>5. QED
  BY <1>1, <1>2, <1>4

\* A row of the sheet but the first is taken out; what is left were rows before.
LEMMA RowRemoved ==
    ASSUME PageOK, NEW i \in DOMAIN sheet.rows, i > 1
    PROVE  /\ RemoveAt(sheet.rows, i) \in Seq(Row)
           /\ Len(RemoveAt(sheet.rows, i)) > 0
           /\ \A k \in DOMAIN RemoveAt(sheet.rows, i) :
                \E n \in DOMAIN sheet.rows : RemoveAt(sheet.rows, i)[k] = sheet.rows[n]
<1>1. PICK rs \in Seq(Row) : rs = sheet.rows
  BY SheetFields
<1>2. i \in 1 .. Len(rs) /\ Len(rs) \in Nat
  BY <1>1
<1>3. PICK a : a = SubSeq(rs, 1, i - 1)
  OBVIOUS
<1>4. PICK b : b = SubSeq(rs, i + 1, Len(rs))
  OBVIOUS
<1>5. a \in Seq(Row) /\ Len(a) = i - 1 /\ \A k \in 1 .. i - 1 : a[k] = rs[k]
  BY <1>2, <1>3
<1>6. /\ b \in Seq(Row) /\ Len(b) = Len(rs) - i
      /\ \A k \in 1 .. Len(rs) - i : b[k] = rs[i + k]
  BY <1>2, <1>4
<1>7. PICK m : m = RemoveAt(rs, i)
  OBVIOUS
<1>8. m = a \o b
  BY <1>3, <1>4, <1>7 DEF RemoveAt
<1>9. m \in Seq(Row) /\ Len(m) = Len(rs) - 1 /\ DOMAIN m = 1 .. Len(rs) - 1
  BY <1>2, <1>5, <1>6, <1>8
<1>10. ASSUME NEW k \in DOMAIN m PROVE \E n \in DOMAIN rs : m[k] = rs[n]
  <2>1. k \in 1 .. Len(rs) - 1
    BY <1>9
  <2>2. CASE k < i
    <3>1. m[k] = a[k] /\ k \in 1 .. i - 1
      BY <2>1, <2>2, <1>2, <1>5, <1>6, <1>8
    <3>2. QED
      BY <3>1, <2>1, <1>2, <1>5
  <2>3. CASE k >= i
    <3>1. m[k] = b[k - (i - 1)] /\ k - (i - 1) \in 1 .. Len(rs) - i
      BY <2>1, <2>3, <1>2, <1>5, <1>6, <1>8
    <3>2. b[k - (i - 1)] = rs[i + (k - (i - 1))] /\ i + (k - (i - 1)) \in DOMAIN rs
      BY <3>1, <2>1, <1>2, <1>6
    <3>3. QED
      BY <3>1, <3>2
  <2>4. QED
    BY <2>1, <2>2, <2>3, <1>2
<1>11. QED
  BY <1>1, <1>2, <1>7, <1>9, <1>10

\* A step of the page alone leaves the server's tables and the posts.
Apart == UNCHANGED <<orders, work, posts, habits>>

LEMMA ApartServer ==
    ASSUME ServerOK, Apart
    PROVE  ServerOK' /\ OrderOrNone' = OrderOrNone /\ OrderAsk' = OrderAsk
BY DEF ServerOK, Apart, OrderOrNone, Order, OrderAsk, UpdateMsg, DeleteMsg, RegisterMsg

\* What a page's step may leave as it is.
LEMMA PageParts ==
    ASSUME ServerOK, Apart, table' = table, PageOK,
           create' = create \/ create' \in Form,
           update' = update \/ (update' \in UpdateForm /\ update'.id \in OrderOrNone),
           sheet' = sheet \/ (sheet' \in [order : OrderOrNone, rows : Seq(Row)]
                              /\ sheet'.rows # <<>>),
           asked' \subseteq CompanyAsk \cup OrderAsk \cup BranchAsk,
           updateTab' = updateTab \/ updateTab' = ~updateTab
    PROVE  PageOK'
<1>1. /\ OrderOrNone' = OrderOrNone /\ OrderAsk' = OrderAsk /\ orders' = orders
      /\ CompanyAsk' = CompanyAsk /\ BranchAsk' = BranchAsk
  BY ApartServer DEF Apart, CompanyAsk, BranchAsk
<1>2. /\ table' \in Lists(orders') /\ updateTab' \in BOOLEAN
      /\ create' \in Form /\ update' \in UpdateForm /\ update'.id \in OrderOrNone
  BY <1>1 DEF PageOK
<1>3. sheet' \in [order : OrderOrNone, rows : Seq(Row)] /\ sheet'.rows # <<>>
  BY DEF PageOK
<1>4. QED
  BY <1>1, <1>2, <1>3 DEF PageOK

LEMMA FormType ==
    ASSUME ServerOK, PageOK, UNCHANGED habits,
           \/ showTab
           \/ \E c \in Company \cup {None} : selectCompany(c) \/ selectUpdateCompany(c)
           \/ \E b \in Brand : chooseBrand(b)
           \/ \E r \in asked : orderFindBrand(r)
    PROVE  PageOK' /\ Apart
<1>1. ASSUME NEW c \in Company \cup {None}, selectCompany(c) PROVE PageOK' /\ Apart
  BY <1>1, SelectBrandType, PageParts DEF selectCompany, Apart
<1>2. ASSUME NEW c \in Company \cup {None}, selectUpdateCompany(c) PROVE PageOK' /\ Apart
  <2>1. update' = [update EXCEPT !.company = c] /\ selectBrand(create.company)
        /\ UNCHANGED <<orders, work, table, sheet, updateTab, posts>>
    BY <1>2 DEF selectUpdateCompany
  <2>2. update' \in UpdateForm /\ update'.id = update.id
    BY <2>1 DEF PageOK, UpdateForm
  <2>3. create.company \in Company \cup {None}
    BY DEF PageOK, Form
  <2>4. QED
    BY <2>1, <2>2, <2>3, SelectBrandType, PageParts DEF PageOK, Apart
<1>3. ASSUME NEW b \in Brand, chooseBrand(b) PROVE PageOK' /\ Apart
  <2>1. create' = create \/ create' \in Form
    BY <1>3 DEF chooseBrand, PageOK, Form
  <2>2. update' = update \/ (update' \in UpdateForm /\ update'.id = update.id)
    BY <1>3 DEF chooseBrand, PageOK, UpdateForm
  <2>3. UNCHANGED <<orders, work, table, sheet, asked, updateTab, posts>>
    BY <1>3 DEF chooseBrand
  <2>4. QED
    BY <2>1, <2>2, <2>3, PageParts DEF PageOK, Apart
<1>4. ASSUME NEW r \in asked, orderFindBrand(r) PROVE PageOK' /\ Apart
  <2>1. create' \in WithOptions(create, BrandsOf(r.of)) /\ create \in Form
    BY <1>4 DEF orderFindBrand, PageOK
  <2>2. create' \in Form
    BY <2>1, BrandSets, WithOptionsForm
  <2>3. QED
    BY <1>4, <2>2, PageParts DEF orderFindBrand, PageOK, Apart
<1>5. ASSUME showTab PROVE PageOK' /\ Apart
  BY <1>5, PageParts DEF showTab, PageOK, Apart
<1>6. QED
  BY <1>1, <1>2, <1>3, <1>4, <1>5

LEMMA UpdateType ==
    ASSUME ServerOK, PageOK, UNCHANGED habits,
           \/ \E o \in Listed : MainTrEvt(o)
           \/ \E r \in asked : selectOrderInfoById(r) \/ selectTr(r)
    PROVE  PageOK' /\ Apart
<1>1. ASSUME NEW o \in Listed, MainTrEvt(o) PROVE PageOK' /\ Apart
  <2>1. o \in Order
    BY ListFacts
  <2>2. [what |-> "brandsOfOrder", of |-> o] \in OrderAsk /\ [what |-> "order", of |-> o] \in OrderAsk
    BY <2>1 DEF OrderAsk
  <2>3. asked' \subseteq CompanyAsk \cup OrderAsk \cup BranchAsk
    BY <1>1, <2>2 DEF MainTrEvt, PageOK
  <2>4. CASE updateTab
    <3>1. update' \in UpdateForm /\ update'.id \in OrderOrNone
      BY <1>1, <2>4, Blanks DEF MainTrEvt, EmptyUpdate, OrderOrNone
    <3>2. QED
      BY <1>1, <2>3, <3>1, PageParts DEF MainTrEvt, Apart
  <2>5. CASE ~updateTab
    <3>1. update' = [update EXCEPT !.options = {}, !.brand = None]
      BY <1>1, <2>5 DEF MainTrEvt
    <3>2. update' \in UpdateForm /\ update'.id = update.id
      BY <3>1 DEF PageOK, UpdateForm
    <3>3. QED
      BY <1>1, <2>3, <3>2, PageParts DEF MainTrEvt, PageOK, Apart
  <2>6. QED
    BY <2>4, <2>5
<1>2. ASSUME NEW r \in asked, selectOrderInfoById(r) PROVE PageOK' /\ Apart
  <2>1. r.of \in Order /\ r.of \in 1 .. MaxOrders
    BY <1>2, AskKind, OrderRange DEF selectOrderInfoById, PageOK
  <2>2. CASE orders[r.of] # None
    <3>1. orders[r.of].company \in Company /\ orders[r.of].brand \in Brand \cup {None}
      BY <2>1, <2>2, OrderFields
    <3>2. PICK b \in Brand \cup {None} : b = IF orders[r.of].brand \in update.options
                                             THEN orders[r.of].brand ELSE None
      BY <3>1
    <3>3. update' = [update EXCEPT !.id = r.of, !.company = orders[r.of].company, !.brand = b]
      BY <1>2, <2>2, <3>2 DEF selectOrderInfoById
    <3>4. update' \in UpdateForm /\ update'.id = r.of
      BY <2>1, <3>1, <3>2, <3>3 DEF PageOK, UpdateForm
    <3>5. QED
      BY <1>2, <2>1, <3>4, PageParts DEF selectOrderInfoById, PageOK, Apart, OrderOrNone
  <2>3. CASE orders[r.of] = None
    BY <1>2, <2>3, PageParts DEF selectOrderInfoById, PageOK, Apart
  <2>4. QED
    BY <2>2, <2>3
<1>3. ASSUME NEW r \in asked, selectTr(r) PROVE PageOK' /\ Apart
  <2>1. update' = update \/ update' \in WithOptions(update, BrandsOf(orders[r.of].company))
    BY <1>3 DEF selectTr
  <2>2. update' \in UpdateForm /\ update'.id = update.id
    BY <2>1, BrandSets, WithOptionsUpdate DEF PageOK
  <2>3. QED
    BY <1>3, <2>2, PageParts DEF selectTr, PageOK, Apart
<1>4. QED
  BY <1>1, <1>2, <1>3

LEMMA SheetType ==
    ASSUME ServerOK, PageOK, UNCHANGED habits,
           \/ \E o \in Listed : MakeWorkOrder(o)
           \/ \E r \in asked : setWorkorderBrand(r)
           \/ \E i \in DOMAIN sheet.rows : deleteRow(i) \/ \E s \in Branch : chooseBranch(i, s)
           \/ addWorOrderTr
    PROVE  PageOK' /\ Apart
<1>1. ASSUME NEW o \in Listed, MakeWorkOrder(o) PROVE PageOK' /\ Apart
  <2>1. o \in Order /\ table[o] = orders[o] /\ orders[o] # None /\ orders[o].brand # None
    BY ListFacts
  <2>2. sheet' = [order |-> o, rows |-> sheet.rows]
    BY <1>1, SheetFields DEF MakeWorkOrder
  <2>3. sheet' \in [order : OrderOrNone, rows : Seq(Row)] /\ sheet'.rows # <<>>
    BY <2>1, <2>2 DEF PageOK, OrderOrNone
  <2>4. [what |-> "branches", of |-> table[o].brand] \in BranchAsk
    BY <2>1, OrderFields DEF BranchAsk
  <2>5. asked' \subseteq CompanyAsk \cup OrderAsk \cup BranchAsk
    BY <1>1, <2>4 DEF MakeWorkOrder, PageOK
  <2>6. QED
    BY <1>1, <2>3, <2>5, PageParts DEF MakeWorkOrder, Apart
<1>2. ASSUME NEW r \in asked, setWorkorderBrand(r) PROVE PageOK' /\ Apart
  <2>1. PICK row : row = [options |-> BranchesOf(r.of), branch |-> None]
    OBVIOUS
  <2>2. row \in Row /\ 1 \in DOMAIN sheet.rows
    BY <2>1, BrandSets, SheetFields DEF Row
  <2>3. sheet' = [sheet EXCEPT !.rows[1] = row]
    BY <1>2, <2>1 DEF setWorkorderBrand
  <2>4. sheet' \in [order : OrderOrNone, rows : Seq(Row)] /\ sheet'.rows # <<>>
    BY <2>2, <2>3, RowWritten, SheetFields
  <2>5. QED
    BY <1>2, <2>4, PageParts DEF setWorkorderBrand, PageOK, Apart
<1>3. ASSUME NEW i \in DOMAIN sheet.rows, NEW s \in Branch, chooseBranch(i, s)
      PROVE  PageOK' /\ Apart
  <2>1. PICK row : row = [sheet.rows[i] EXCEPT !.branch = s]
    OBVIOUS
  <2>2. sheet.rows[i] \in Row
    BY SheetFields
  <2>3. row \in Row
    BY <2>1, <2>2 DEF Row
  <2>4. sheet' = [sheet EXCEPT !.rows[i] = row]
    BY <1>3, <2>1 DEF chooseBranch
  <2>5. sheet' \in [order : OrderOrNone, rows : Seq(Row)] /\ sheet'.rows # <<>>
    BY <2>3, <2>4, RowWritten, SheetFields
  <2>6. QED
    BY <1>3, <2>5, PageParts DEF chooseBranch, PageOK, Apart
<1>4. ASSUME addWorOrderTr PROVE PageOK' /\ Apart
  <2>1. PICK row : row = [sheet.rows[1] EXCEPT !.branch = None]
    OBVIOUS
  <2>2. sheet.rows[1] \in Row
    BY SheetFields
  <2>3. row \in Row
    BY <2>1, <2>2 DEF Row
  <2>4. sheet' = [order |-> sheet.order, rows |-> Append(sheet.rows, row)]
    BY <1>4, <2>1, SheetFields DEF addWorOrderTr
  <2>5. Append(sheet.rows, row) \in Seq(Row) /\ Append(sheet.rows, row) # <<>>
    BY <2>3, SheetFields
  <2>6. sheet' \in [order : OrderOrNone, rows : Seq(Row)] /\ sheet'.rows # <<>>
    BY <2>4, <2>5, SheetFields
  <2>7. QED
    BY <1>4, <2>6, PageParts DEF addWorOrderTr, PageOK, Apart
<1>5. ASSUME NEW i \in DOMAIN sheet.rows, deleteRow(i) PROVE PageOK' /\ Apart
  <2>1. sheet' = [order |-> sheet.order, rows |-> RemoveAt(sheet.rows, i)] /\ i > 1
    BY <1>5, SheetFields DEF deleteRow
  <2>2. RemoveAt(sheet.rows, i) \in Seq(Row) /\ Len(RemoveAt(sheet.rows, i)) > 0
    BY <2>1, RowRemoved
  <2>3. sheet' \in [order : OrderOrNone, rows : Seq(Row)] /\ sheet'.rows # <<>>
    BY <2>1, <2>2, SheetFields
  <2>4. QED
    BY <1>5, <2>3, PageParts DEF deleteRow, PageOK, Apart
<1>6. QED
  BY <1>1, <1>2, <1>3, <1>4, <1>5

\* The messages of the form and of the sheet.
LEMMA PostType ==
    ASSUME ServerOK, PageOK, UNCHANGED habits,
           createOrder \/ updateOrder \/ orderInfoDelete \/ registWorkOrder
    PROVE  ServerOK' /\ PageOK'
<1>1. ASSUME NEW p \in CreateMsg \cup UpdateMsg \cup DeleteMsg \cup RegisterMsg, Post(p)
      PROVE  ServerOK' /\ PageOK'
  <2>1. UNCHANGED <<orders, work, table, create, update, sheet, asked, updateTab>>
        /\ posts' = posts \cup {p}
    BY <1>1 DEF Post, page
  <2>2. PageOK'
    BY <2>1 DEF PageOK, OrderOrNone, Order, OrderAsk, CompanyAsk, BranchAsk
  <2>3. ServerOK'
    BY <2>1 DEF ServerOK, OrderOrNone, Order, CreateMsg, UpdateMsg, DeleteMsg, RegisterMsg
  <2>4. QED
    BY <2>2, <2>3
<1>2. CASE createOrder
  <2>1. PICK p : p = [what |-> "create", company |-> create.company, brand |-> create.brand]
    OBVIOUS
  <2>2. p \in CreateMsg /\ Post(p)
    BY <1>2, <2>1 DEF createOrder, CreateMsg, PageOK, Form
  <2>3. QED
    BY <1>1, <2>2
<1>3. CASE updateOrder
  <2>1. PICK p : p = [what |-> "update", id |-> update.id, company |-> update.company,
                      brand |-> update.brand]
    OBVIOUS
  <2>2. p \in UpdateMsg /\ Post(p)
    BY <1>3, <2>1 DEF updateOrder, UpdateMsg, PageOK, UpdateForm, OrderOrNone
  <2>3. QED
    BY <1>1, <2>2
<1>4. CASE orderInfoDelete
  <2>1. PICK p : p = [what |-> "delete", id |-> update.id]
    OBVIOUS
  <2>2. p \in DeleteMsg /\ Post(p)
    BY <1>4, <2>1 DEF orderInfoDelete, DeleteMsg, PageOK, OrderOrNone
  <2>3. QED
    BY <1>1, <2>2
<1>5. CASE registWorkOrder
  <2>1. PICK p : p = [what |-> "register", order |-> sheet.order,
                      branches |-> {sheet.rows[i].branch : i \in DOMAIN sheet.rows}]
    OBVIOUS
  <2>2. sheet.order \in Order
    BY <1>5, SheetFields DEF registWorkOrder, OrderOrNone
  <2>3. ASSUME NEW i \in DOMAIN sheet.rows PROVE sheet.rows[i].branch \in Branch \cup {None}
    <3>1. sheet.rows[i] \in Row
      BY SheetFields
    <3>2. QED
      BY <3>1 DEF Row
  <2>4. p \in RegisterMsg /\ Post(p)
    BY <1>5, <2>1, <2>2, <2>3 DEF registWorkOrder, RegisterMsg
  <2>5. QED
    BY <1>1, <2>4
<1>6. QED
  BY <1>2, <1>3, <1>4, <1>5

\* What a loaded page shows is the server's.
LEMMA LoadedType ==
    ASSUME Loaded(orders')
    PROVE  PageOK'
<1>1. <<EmptyRow>> \in Seq(Row) /\ <<EmptyRow>> # <<>>
  BY Blanks
<1>2. EmptySheet = [order |-> None, rows |-> <<EmptyRow>>] /\ EmptyUpdate.id = None
  BY DEF EmptySheet, EmptyUpdate
<1>3. /\ table' \in Lists(orders') /\ create' = EmptyForm /\ update' = EmptyUpdate
      /\ sheet' = EmptySheet /\ asked' = {} /\ updateTab' = FALSE
  BY DEF Loaded
<1>4. None \in OrderOrNone'
  BY DEF OrderOrNone
<1>5. QED
  BY <1>1, <1>2, <1>3, <1>4, Blanks DEF PageOK

\* The orders only ever get longer, so what named one still does.
LEMMA Longer ==
    ASSUME ServerOK, orders' \in Seq(OrderRow \cup {None}), Len(orders') <= MaxOrders,
           Len(orders) <= Len(orders'), posts' \subseteq posts, habits' = habits,
           work' \subseteq work \cup [order : OrderOrNone, branch : Branch \cup {None}]
    PROVE  ServerOK'
<1>1. Order \subseteq Order'
  BY OrderRange DEF Order
<1>2. OrderOrNone \subseteq OrderOrNone'
  BY <1>1 DEF OrderOrNone
<1>3. work' \subseteq [order : OrderOrNone', branch : Branch \cup {None}]
  BY <1>2 DEF ServerOK
<1>4. UpdateMsg \subseteq UpdateMsg' /\ DeleteMsg \subseteq DeleteMsg' /\ RegisterMsg \subseteq RegisterMsg'
      /\ CreateMsg' = CreateMsg
  BY <1>1 DEF UpdateMsg, DeleteMsg, RegisterMsg, CreateMsg
<1>5. QED
  BY <1>3, <1>4 DEF ServerOK

LEMMA SamePage ==
    ASSUME PageOK, UNCHANGED <<orders, page>>
    PROVE  PageOK'
BY DEF PageOK, page, OrderOrNone, Order, OrderAsk, CompanyAsk, BranchAsk

LEMMA CreateServed ==
    ASSUME ServerOK, NEW p \in posts, createOrderBasicInfo(p)
    PROVE  /\ orders' \in Seq(OrderRow \cup {None}) /\ Len(orders') = Len(orders) + 1
           /\ Len(orders') <= MaxOrders
           /\ p \in CreateMsg
           /\ orders'[Len(orders) + 1] = [company |-> p.company, brand |-> p.brand]
           /\ \A o \in Order : orders'[o] = orders[o]
           /\ Loaded(orders') /\ work' = work
<1>1. p \in CreateMsg
  BY PostKind DEF createOrderBasicInfo, ServerOK
<1>2. PICK row : row = [company |-> p.company, brand |-> p.brand]
  OBVIOUS
<1>3. row \in OrderRow
  BY <1>1, <1>2 DEF CreateMsg, OrderRow
<1>4. orders' = Append(orders, row) /\ Len(orders) < MaxOrders /\ Loaded(orders') /\ work' = work
  BY <1>2 DEF createOrderBasicInfo
<1>5. /\ orders' \in Seq(OrderRow \cup {None}) /\ Len(orders') = Len(orders) + 1
      /\ orders'[Len(orders) + 1] = row /\ \A o \in 1 .. Len(orders) : orders'[o] = orders[o]
  BY <1>3, <1>4 DEF ServerOK
<1>6. Len(orders') <= MaxOrders
  BY <1>4, <1>5, OrderRange, OrderPageAssumption
<1>7. QED
  BY <1>1, <1>2, <1>4, <1>5, <1>6, OrderRange

LEMMA UpdateServed ==
    ASSUME ServerOK, NEW p \in posts, updateOrderBasicInfo(p), ~Fails(p)
    PROVE  /\ p \in UpdateMsg /\ p.id \in Order
           /\ p.company \in Company /\ p.brand \in Brand
           /\ orders' \in Seq(OrderRow \cup {None}) /\ Len(orders') = Len(orders)
           /\ orders'[p.id] = [company |-> p.company, brand |-> p.brand]
           /\ orders'[p.id] # None
           /\ \A o \in Order \ {p.id} : orders'[o] = orders[o]
           /\ Loaded(orders') /\ work' = work
<1>1. p \in UpdateMsg /\ p.id \in Order /\ p.company \in Company /\ p.brand \in Brand
  BY PostKind DEF updateOrderBasicInfo, ServerOK, UpdateMsg, Fails
<1>2. PICK row : row = [company |-> p.company, brand |-> p.brand]
  OBVIOUS
<1>3. row \in OrderRow /\ row # None
  BY <1>1, <1>2, OrderPageAssumption DEF OrderRow
<1>4. orders' = [orders EXCEPT ![p.id] = row] /\ Loaded(orders') /\ work' = work
  BY <1>2 DEF updateOrderBasicInfo
<1>5. p.id \in 1 .. Len(orders)
  BY <1>1, OrderRange
<1>6. /\ orders' \in Seq(OrderRow \cup {None}) /\ Len(orders') = Len(orders) /\ orders'[p.id] = row
      /\ \A o \in 1 .. Len(orders) \ {p.id} : orders'[o] = orders[o]
  BY <1>3, <1>4, <1>5 DEF ServerOK
<1>7. QED
  BY <1>1, <1>2, <1>3, <1>4, <1>6, OrderRange

LEMMA DeleteServed ==
    ASSUME ServerOK, NEW p \in posts, deleteOrderBasicInfo(p),
           ~(orders[p.id] = None \/ \E x \in work : x.order = p.id)
    PROVE  /\ p.id \in Order
           /\ orders' \in Seq(OrderRow \cup {None}) /\ Len(orders') = Len(orders)
           /\ orders'[p.id] = None
           /\ \A o \in Order \ {p.id} : orders'[o] = orders[o]
           /\ Loaded(orders') /\ work' = work
<1>1. p.id \in Order
  BY PostKind DEF deleteOrderBasicInfo, ServerOK, DeleteMsg
<1>2. orders' = [orders EXCEPT ![p.id] = None] /\ Loaded(orders') /\ work' = work
  BY DEF deleteOrderBasicInfo
<1>3. p.id \in 1 .. Len(orders)
  BY <1>1, OrderRange
<1>4. /\ orders' \in Seq(OrderRow \cup {None}) /\ Len(orders') = Len(orders) /\ orders'[p.id] = None
      /\ \A o \in 1 .. Len(orders) \ {p.id} : orders'[o] = orders[o]
  BY <1>2, <1>3 DEF ServerOK
<1>5. QED
  BY <1>1, <1>2, <1>4, OrderRange

LEMMA RegisterServed ==
    ASSUME ServerOK, NEW p \in posts, createWorkOrderInfo(p)
    PROVE  /\ p \in RegisterMsg /\ p.order \in Order
           /\ orders' = orders /\ Loaded(orders')
           /\ work' \subseteq work \cup [order : OrderOrNone, branch : Branch \cup {None}]
           /\ \A x \in work' \ work :
                /\ x.order = IF orders[p.order] = None THEN None ELSE p.order
                /\ x.branch \in p.branches
<1>1. p \in RegisterMsg /\ p.order \in Order /\ p.branches \in SUBSET (Branch \cup {None})
  BY PostKind DEF createWorkOrderInfo, ServerOK, RegisterMsg
<1>2. PICK o : o = IF orders[p.order] = None THEN None ELSE p.order
  OBVIOUS
<1>3. o \in OrderOrNone
  BY <1>1, <1>2 DEF OrderOrNone
<1>4. work' = work \cup {[order |-> o, branch |-> s] : s \in p.branches}
  BY <1>2 DEF createWorkOrderInfo
<1>5. \A s \in p.branches :
        [order |-> o, branch |-> s] \in [order : OrderOrNone, branch : Branch \cup {None}]
  BY <1>1, <1>3
<1>6. work' \subseteq work \cup [order : OrderOrNone, branch : Branch \cup {None}]
  BY <1>4, <1>5
<1>7. \A x \in work' \ work : x.order = o /\ x.branch \in p.branches
  BY <1>4
<1>8. orders' = orders /\ Loaded(orders')
  BY DEF createWorkOrderInfo, Loaded
<1>9. QED
  BY <1>1, <1>2, <1>6, <1>7, <1>8

LEMMA ServeType ==
    ASSUME ServerOK, PageOK, UNCHANGED habits, NEW p \in posts, Serve(p)
    PROVE  ServerOK' /\ PageOK'
<1>1. posts' \subseteq posts /\ Len(orders) \in Nat
  BY OrderRange DEF Serve
<1>2. CASE createOrderBasicInfo(p)
  <2>1. /\ orders' \in Seq(OrderRow \cup {None}) /\ Len(orders') <= MaxOrders
        /\ Len(orders') = Len(orders) + 1 /\ Loaded(orders') /\ work' = work
    BY <1>2, CreateServed
  <2>2. Len(orders) <= Len(orders')
    BY <1>1, <2>1
  <2>3. QED
    BY <1>1, <2>1, <2>2, LoadedType, Longer
<1>3. CASE updateOrderBasicInfo(p)
  <2>1. CASE Fails(p)
    <3>1. UNCHANGED <<orders, page, work>>
      BY <1>3, <2>1 DEF updateOrderBasicInfo
    <3>2. QED
      BY <1>1, <3>1, SamePage, Longer DEF ServerOK
  <2>2. CASE ~Fails(p)
    <3>1. /\ orders' \in Seq(OrderRow \cup {None}) /\ Len(orders') = Len(orders)
          /\ Loaded(orders') /\ work' = work
      BY <1>3, <2>2, UpdateServed
    <3>2. QED
      BY <1>1, <3>1, LoadedType, Longer DEF ServerOK
  <2>3. QED
    BY <2>1, <2>2
<1>4. CASE deleteOrderBasicInfo(p)
  <2>1. CASE orders[p.id] = None \/ \E x \in work : x.order = p.id
    <3>1. UNCHANGED <<orders, page, work>>
      BY <1>4, <2>1 DEF deleteOrderBasicInfo
    <3>2. QED
      BY <1>1, <3>1, SamePage, Longer DEF ServerOK
  <2>2. CASE ~(orders[p.id] = None \/ \E x \in work : x.order = p.id)
    <3>1. /\ orders' \in Seq(OrderRow \cup {None}) /\ Len(orders') = Len(orders)
          /\ Loaded(orders') /\ work' = work
      BY <1>4, <2>2, DeleteServed
    <3>2. QED
      BY <1>1, <3>1, LoadedType, Longer DEF ServerOK
  <2>3. QED
    BY <2>1, <2>2
<1>5. CASE createWorkOrderInfo(p)
  BY <1>1, <1>5, RegisterServed, LoadedType, Longer DEF ServerOK
<1>6. QED
  BY <1>2, <1>3, <1>4, <1>5 DEF Serve

\* One step of the page, as the lemmas above and below group them.
PageStep ==
    \/ showTab
    \/ \E c \in Company \cup {None} : selectCompany(c) \/ selectUpdateCompany(c)
    \/ \E b \in Brand : chooseBrand(b)
    \/ \E o \in Listed : MainTrEvt(o) \/ MakeWorkOrder(o)
    \/ \E i \in DOMAIN sheet.rows : deleteRow(i) \/ \E s \in Branch : chooseBranch(i, s)
    \/ addWorOrderTr
    \/ \E r \in asked : Answer(r)

LEMMA StepIs ==
    Next => /\ UNCHANGED habits
            /\ \/ PageStep
               \/ createOrder \/ updateOrder \/ orderInfoDelete \/ registWorkOrder
               \/ \E p \in posts : Serve(p)
BY DEF Next, Step, PageStep

LEMMA PageStepType ==
    ASSUME ServerOK, PageOK, UNCHANGED habits, PageStep
    PROVE  PageOK' /\ Apart
BY FormType, UpdateType, SheetType DEF PageStep, Answer

LEMMA NextTypes ==
    ServerOK /\ PageOK /\ [Next]_vars => ServerOK' /\ PageOK'
<1> SUFFICES ASSUME ServerOK, PageOK, [Next]_vars PROVE ServerOK' /\ PageOK'
  OBVIOUS
<1>1. CASE Next
  BY <1>1, StepIs, PageStepType, ApartServer, PostType, ServeType
<1>2. CASE UNCHANGED vars
  BY <1>2, SamePage, ApartServer DEF vars, Apart
<1>3. QED
  BY <1>1, <1>2

LEMMA InitTypes == Init => ServerOK /\ PageOK
<1> SUFFICES ASSUME Init PROVE ServerOK /\ PageOK
  OBVIOUS
<1>1. <<>> \in Seq(OrderRow \cup {None}) /\ Len(<<>>) = 0
  OBVIOUS
<1>2. ServerOK
  BY <1>1, OrderPageAssumption DEF Init, ServerOK
<1>3. <<EmptyRow>> \in Seq(Row) /\ <<EmptyRow>> # <<>>
  BY Blanks
<1>4. EmptySheet \in [order : OrderOrNone, rows : Seq(Row)] /\ EmptySheet.rows # <<>>
  BY <1>3 DEF EmptySheet, OrderOrNone
<1>5. EmptyUpdate.id \in OrderOrNone
  BY DEF EmptyUpdate, OrderOrNone
<1>6. table \in Lists(orders)
  BY DEF Init, Lists
<1>7. PageOK
  BY <1>4, <1>5, <1>6, Blanks DEF Init, PageOK
<1>8. QED
  BY <1>2, <1>7

LEMMA TypesCorrect == Spec => [](ServerOK /\ PageOK)
BY InitTypes, NextTypes, PTL DEF Spec

\* Every reachable state of the page and of the server is of its type, whatever the user
\* does and in whatever order answers arrive.
THEOREM TypeCorrect == Spec => []TypeOK
<1>1. ASSUME ServerOK, PageOK PROVE TypeOK
  <2>1. \A o \in Order : orders[o] \in OrderRow \cup {None}
    BY <1>1, OrderRange DEF ServerOK
  <2>2. work \subseteq [order : 1 .. MaxOrders \cup {None}, branch : Branch \cup {None}]
    BY <1>1, OrderRange DEF ServerOK, OrderOrNone
  <2>3. sheet.order \in 1 .. MaxOrders \cup {None}
    BY <1>1, SheetFields, OrderRange DEF OrderOrNone
  <2>4. \A i \in DOMAIN sheet.rows : sheet.rows[i] \in Row
    BY <1>1, SheetFields
  <2>5. asked \subseteq Request
    BY <1>1, OrderRange DEF PageOK, Request, CompanyAsk, OrderAsk, BranchAsk
  <2>6. \A o \in DOMAIN table : table[o] \in OrderRow \cup {None}
    BY <1>1, <2>1, ListFacts
  <2>7. QED
    BY <1>1, <2>1, <2>2, <2>3, <2>4, <2>5, <2>6 DEF TypeOK, PageOK, ServerOK
<1>2. QED
  BY <1>1, TypesCorrect, PTL
----------------------------------------------------------------------------
(* Whatever the user does.                                                   *)

LEMMA KeepsOrderStep ==
    ASSUME ServerOK, PageOK, WorkOrderKeepsOrder, [Next]_vars
    PROVE  WorkOrderKeepsOrder'
<1>1. \A x \in work : x.order # None => x.order \in Order
  BY DEF ServerOK, OrderOrNone
<1>2. CASE orders' = orders /\ work' = work
  BY <1>2 DEF WorkOrderKeepsOrder
<1>3. ASSUME NEW p \in posts, Serve(p) PROVE WorkOrderKeepsOrder'
  <2>1. CASE createOrderBasicInfo(p)
    BY <1>1, <2>1, CreateServed DEF WorkOrderKeepsOrder
  <2>2. CASE updateOrderBasicInfo(p)
    <3>1. CASE Fails(p)
      BY <2>2, <3>1 DEF updateOrderBasicInfo, WorkOrderKeepsOrder
    <3>2. CASE ~Fails(p)
      BY <1>1, <2>2, <3>2, UpdateServed DEF WorkOrderKeepsOrder
    <3>3. QED
      BY <3>1, <3>2
  <2>3. CASE deleteOrderBasicInfo(p)
    <3>1. CASE orders[p.id] = None \/ \E x \in work : x.order = p.id
      BY <2>3, <3>1 DEF deleteOrderBasicInfo, WorkOrderKeepsOrder
    <3>2. CASE ~(orders[p.id] = None \/ \E x \in work : x.order = p.id)
      <4>1. work' = work /\ \A x \in work : x.order # None => orders'[x.order] = orders[x.order]
        BY <1>1, <2>3, <3>2, DeleteServed
      <4>2. QED
        BY <4>1 DEF WorkOrderKeepsOrder
    <3>3. QED
      BY <3>1, <3>2
  <2>4. CASE createWorkOrderInfo(p)
    <3>1. orders' = orders /\ \A x \in work' : x.order # None => orders[x.order] # None
      BY <2>4, RegisterServed DEF WorkOrderKeepsOrder
    <3>2. QED
      BY <3>1 DEF WorkOrderKeepsOrder
  <2>5. QED
    BY <1>3, <2>1, <2>2, <2>3, <2>4 DEF Serve
<1>4. CASE UNCHANGED vars
  BY <1>2, <1>4 DEF vars
<1>5. CASE createOrder \/ updateOrder \/ orderInfoDelete \/ registWorkOrder
  BY <1>2, <1>5 DEF createOrder, updateOrder, orderInfoDelete, registWorkOrder, Post
<1>6. QED
  BY <1>2, <1>3, <1>4, <1>5, StepIs, PageStepType DEF Apart

\* Whatever the user does and in whatever order posts and answers cross, an order that
\* has work orders is not deleted.
THEOREM WorkOrderKeepsOrderCorrect == Spec => []WorkOrderKeepsOrder
<1>1. Init => WorkOrderKeepsOrder
  BY DEF Init, WorkOrderKeepsOrder
<1>2. QED
  BY <1>1, KeepsOrderStep, TypesCorrect, PTL DEF Spec
----------------------------------------------------------------------------
(* A user who waits for the answers.                                       *)

\* One post at a time, and no answer under way beside it.
OneAtATime ==
    /\ \A p, q \in posts : p = q
    /\ posts # {} => asked = {}

\* The boxes of a new order: its brands are the company's once they have come, and
\* then one is selected.
CreateSound ==
    LET ask == [what |-> "brandsOfCompany", of |-> create.company] IN
    /\ create.brand # None => create.brand \in create.options
    /\ create.options \subseteq BrandsOf(create.company)
    /\ \A r \in asked : r.what = "brandsOfCompany" => r = ask
    /\ create.company # None /\ ask \notin asked =>
         /\ create.options = BrandsOf(create.company)
         /\ create.options # {} => create.brand # None

\* The order the update form shows, or is about to.
Picked(o) == update.id = o \/ [what |-> "order", of |-> o] \in asked

\* With no habit, the brands of the update form are those of one order, the one picked.
UpdateSound ==
    /\ \A o, q \in Order : Picked(o) /\ Picked(q) => o = q
    /\ \A r \in asked : r.what = "brandsOfOrder" => Picked(r.of)
    /\ \A o \in Order : Picked(o) =>
         orders[o] # None /\ update.options \subseteq BrandsOf(orders[o].company)
    /\ (\A o \in Order : ~Picked(o)) => update.options = {}
    /\ update.id # None => update.company = orders[update.id].company
    /\ update.brand # None => update.brand \in update.options

\* The shops a row of the sheet offers are those of the order's brand.
RowSound(row, o) ==
    /\ row.branch # None => row.branch \in row.options
    /\ o # None => row.options \subseteq BranchesOf(orders[o].brand)

SheetSound ==
    /\ sheet.order # None => orders[sheet.order] # None
    /\ \A r \in asked : r.what = "branches" =>
         /\ Len(sheet.rows) = 1
         /\ sheet.order # None /\ orders[sheet.order].brand = r.of
    /\ (\A r \in asked : r.what # "branches")
         => \A i \in DOMAIN sheet.rows : RowSound(sheet.rows[i], sheet.order)
    /\ \A i \in DOMAIN sheet.rows :
         sheet.rows[i].branch # None => sheet.rows[i].branch \in sheet.rows[i].options

\* What the server will store for a post.
PostSound(p) ==
    /\ p.what = "create" =>
         /\ p.brand # None => CompanyOf[p.brand] = p.company
         /\ BrandsOf(p.company) # {} => p.brand # None
    /\ p.what = "update" /\ habits = {} /\ p.brand # None /\ p.company # None =>
         CompanyOf[p.brand] = p.company
    /\ p.what = "register" =>
         /\ orders[p.order] # None
         /\ \A s \in p.branches : s # None => BrandOf[s] = orders[p.order].brand

CarefulInv ==
    /\ OneAtATime /\ CreateSound /\ SheetSound
    /\ habits = {} => UpdateSound
    /\ \A p \in posts : PostSound(p)
    /\ BrandOfCompany /\ OrderHasBrand

\* The user waits: a click finds no answer and no post under way, and an answer no post.
LEMMA AloneStep ==
    ASSUME Careful, OneAtATime, PageStep
    PROVE  posts = {}
BY DEF PageStep, showTab, selectCompany, selectUpdateCompany, chooseBrand, MainTrEvt, MakeWorkOrder,
       deleteRow, chooseBranch, addWorOrderTr, MayClick, Quiet, OneAtATime

\* A step sends and answers no request of these kinds.
SameAsks(kinds) == \A r : r.what \in kinds => (r \in asked' <=> r \in asked)

LEMMA CreateKept ==
    ASSUME CreateSound, create' = create, SameAsks({"brandsOfCompany"})
    PROVE  CreateSound'
<1>1. PICK ask : ask = [what |-> "brandsOfCompany", of |-> create.company]
  OBVIOUS
<1>2. ask.what = "brandsOfCompany"
  BY <1>1
<1>3. ask \in asked' <=> ask \in asked
  BY <1>2 DEF SameAsks
<1>4. \A r \in asked' : r.what = "brandsOfCompany" => r = ask
  BY <1>1 DEF SameAsks, CreateSound
<1>5. QED
  BY <1>1, <1>3, <1>4 DEF CreateSound

LEMMA PickedKept ==
    ASSUME update'.id = update.id, SameAsks({"order"})
    PROVE  \A o \in Order : Picked(o)' <=> Picked(o)
<1>1. ASSUME NEW o \in Order PROVE Picked(o)' <=> Picked(o)
  <2>1. PICK ask : ask = [what |-> "order", of |-> o]
    OBVIOUS
  <2>2. ask.what = "order"
    BY <2>1
  <2>3. ask \in asked' <=> ask \in asked
    BY <2>2 DEF SameAsks
  <2>4. QED
    BY <2>1, <2>3 DEF Picked
<1>2. QED
  BY <1>1

LEMMA UpdateKept ==
    ASSUME ServerOK, PageOK, UpdateSound, update' = update, orders' = orders,
           SameAsks({"order", "brandsOfOrder"})
    PROVE  UpdateSound'
<1>1. \A o \in Order : Picked(o)' <=> Picked(o)
  BY PickedKept DEF SameAsks
<1>2. Order' = Order
  BY DEF Order
<1>3. \A r \in asked' : r.what = "brandsOfOrder" => r.of \in Order /\ Picked(r.of)'
  <2>1. ASSUME NEW r \in asked', r.what = "brandsOfOrder" PROVE r.of \in Order /\ Picked(r.of)'
    <3>1. r \in asked
      BY <2>1 DEF SameAsks
    <3>2. r.of \in Order /\ Picked(r.of)
      BY <2>1, <3>1, AskKind DEF PageOK, UpdateSound
    <3>3. QED
      BY <1>1, <3>2
  <2>2. QED
    BY <2>1
<1>4. QED
  BY <1>1, <1>2, <1>3 DEF UpdateSound

LEMMA SheetKept ==
    ASSUME SheetSound, sheet' = sheet, orders' = orders, SameAsks({"branches"})
    PROVE  SheetSound'
<1>1. /\ \A r \in asked' : r.what = "branches" => r \in asked
      /\ (\A r \in asked' : r.what # "branches") => \A r \in asked : r.what # "branches"
  BY DEF SameAsks
<1>2. QED
  BY <1>1 DEF SheetSound, RowSound

----------------------------------------------------------------------------
(* The boxes of a new order.                                                 *)

\* selectBrand, from either company box: the brands shown are forgotten and asked for.
LEMMA SelectBrandSound ==
    ASSUME PageOK, asked = {}, NEW c \in Company \cup {None}, selectBrand(c)
    PROVE  CreateSound' /\ SameAsks({"order", "brandsOfOrder", "branches"})
<1>1. PICK ask : ask = [what |-> "brandsOfCompany", of |-> c]
  OBVIOUS
<1>2. /\ create' = [company |-> c, options |-> {}, brand |-> None]
      /\ asked' = IF c = None THEN {} ELSE {ask}
  BY <1>1 DEF selectBrand
<1>3. create'.company = c /\ create'.options = {} /\ create'.brand = None
  BY <1>2
<1>4. CreateSound'
  BY <1>1, <1>2, <1>3 DEF CreateSound
<1>5. ask.what = "brandsOfCompany"
  BY <1>1
<1>6. QED
  BY <1>2, <1>4, <1>5 DEF SameAsks

LEMMA OrderFindBrandSound ==
    ASSUME PageOK, CreateSound, NEW r \in asked, orderFindBrand(r)
    PROVE  CreateSound' /\ SameAsks({"order", "brandsOfOrder", "branches"})
<1>1. r.what = "brandsOfCompany" /\ r = [what |-> "brandsOfCompany", of |-> create.company]
  BY DEF orderFindBrand, CreateSound
<1>2. PICK brands : brands = BrandsOf(create.company)
  OBVIOUS
<1>3. /\ create'.company = create.company /\ Offered(create', create, brands)
      /\ asked' = asked \ {r}
  <2>1. r.of = create.company
    BY <1>1
  <2>2. create' \in WithOptions(create, brands)
    BY <1>2, <2>1 DEF orderFindBrand
  <2>3. brands \in SUBSET Brand /\ create \in Form
    BY <1>2, BrandSets DEF PageOK
  <2>4. QED
    BY <2>2, <2>3, WithOptionsForm DEF orderFindBrand
<1>4. create'.options = brands
  BY <1>2, <1>3 DEF Offered, CreateSound
<1>5. create'.brand # None => create'.brand \in create'.options
  BY <1>3, <1>4 DEF Offered, CreateSound
<1>6. brands # {} => create'.brand # None
  BY <1>3 DEF Offered
<1>7. \A q \in asked' : q.what = "brandsOfCompany" =>
        q = [what |-> "brandsOfCompany", of |-> create'.company]
  BY <1>3 DEF CreateSound
<1>8. CreateSound'
  BY <1>2, <1>3, <1>4, <1>5, <1>6, <1>7 DEF CreateSound, BrandsOf
<1>9. QED
  BY <1>1, <1>3, <1>8 DEF SameAsks

LEMMA ChooseBrandSound ==
    ASSUME ServerOK, PageOK, CreateSound, NEW b \in Brand, chooseBrand(b)
    PROVE  CreateSound' /\ (UpdateSound => UpdateSound')
<1>1. asked' = asked /\ orders' = orders /\ b # None
  BY OrderPageAssumption DEF chooseBrand
<1>2. CASE b \in create.options /\ create' = [create EXCEPT !.brand = b] /\ update' = update
  <2>1. /\ create'.company = create.company /\ create'.options = create.options
        /\ create'.brand = b
    BY <1>2 DEF PageOK, Form
  <2>2. CreateSound'
    BY <1>1, <1>2, <2>1 DEF CreateSound
  <2>3. QED
    BY <1>1, <1>2, <2>2, UpdateKept DEF SameAsks
<1>3. CASE b \in update.options /\ update' = [update EXCEPT !.brand = b] /\ create' = create
  <2>1. /\ update'.id = update.id /\ update'.company = update.company
        /\ update'.options = update.options /\ update'.brand = b
    BY <1>3 DEF PageOK, UpdateForm
  <2>2. UpdateSound => UpdateSound'
    BY <1>1, <1>3, <2>1 DEF UpdateSound, Picked, Order
  <2>3. QED
    BY <1>1, <1>3, <2>2, CreateKept DEF SameAsks
<1>4. QED
  BY <1>2, <1>3 DEF chooseBrand

----------------------------------------------------------------------------
(* The update form.                                                          *)

LEMMA SelectUpdateCompanySound ==
    ASSUME ServerOK, PageOK, Careful, NEW c \in Company \cup {None}, selectUpdateCompany(c)
    PROVE  CreateSound' /\ habits # {} /\ SameAsks({"branches"})
<1>1. asked = {} /\ "moves" \in habits /\ selectBrand(create.company)
  BY DEF selectUpdateCompany, MayClick, Quiet
<1>2. create.company \in Company \cup {None}
  BY DEF PageOK, Form
<1>3. CreateSound' /\ SameAsks({"order", "brandsOfOrder", "branches"})
  BY <1>1, <1>2, SelectBrandSound
<1>4. QED
  BY <1>1, <1>3 DEF SameAsks

\* A click on a row asks for no brands of a company and for no shops.
LEMMA MainTrEvtAsks ==
    ASSUME NEW o \in Listed, MainTrEvt(o)
    PROVE  SameAsks({"brandsOfCompany", "branches"})
BY DEF MainTrEvt, SameAsks

\* With the form shown, the order is picked, and its brands are asked for.
LEMMA MainTrEvtSound ==
    ASSUME ServerOK, PageOK, Careful, habits = {}, NEW o \in Listed, MainTrEvt(o)
    PROVE  UpdateSound'
<1>1. PICK a : a = [what |-> "order", of |-> o]
  OBVIOUS
<1>2. PICK b : b = [what |-> "brandsOfOrder", of |-> o]
  OBVIOUS
<1>3. /\ asked = {} /\ asked' = {b, a} /\ update' = EmptyUpdate /\ orders' = orders
  BY <1>1, <1>2 DEF MainTrEvt, MayClick, Quiet
<1>4. /\ update'.id = None /\ update'.options = {} /\ update'.brand = None
  BY <1>3 DEF EmptyUpdate
<1>5. o \in Order /\ orders[o] # None /\ None \notin Order /\ Order' = Order
  BY <1>3, OrderRange, ListFacts DEF Order
<1>6. \A q \in Order : Picked(q)' <=> q = o
  <2>1. ASSUME NEW q \in Order PROVE Picked(q)' <=> q = o
    <3>1. PICK ask : ask = [what |-> "order", of |-> q]
      OBVIOUS
    <3>2. ask # b /\ (ask = a <=> q = o)
      BY <1>1, <1>2, <3>1
    <3>3. Picked(q)' <=> ask \in asked'
      BY <1>4, <1>5, <3>1 DEF Picked
    <3>4. QED
      BY <1>3, <3>2, <3>3
  <2>2. QED
    BY <2>1
<1>7. \A r \in asked' : r.what = "brandsOfOrder" => r.of \in Order /\ Picked(r.of)'
  BY <1>1, <1>2, <1>3, <1>5, <1>6
<1>8. QED
  BY <1>3, <1>4, <1>5, <1>6, <1>7 DEF UpdateSound

\* An order or its brands arrive: that is no answer for the other forms.
LEMMA AnswerAsks ==
    ASSUME NEW r \in asked, selectOrderInfoById(r) \/ selectTr(r)
    PROVE  SameAsks({"brandsOfCompany", "branches"})
BY DEF selectOrderInfoById, selectTr, SameAsks

\* The order arrives, before or after its brands.
LEMMA SelectOrderSound ==
    ASSUME ServerOK, PageOK, UpdateSound, NEW r \in asked, selectOrderInfoById(r)
    PROVE  UpdateSound'
<1>1. r.what = "order" /\ r.of \in Order /\ r = [what |-> "order", of |-> r.of]
  BY AskKind DEF selectOrderInfoById, PageOK, CompanyAsk, OrderAsk, BranchAsk
<1>2. Picked(r.of) /\ orders[r.of] # None /\ orders' = orders /\ asked' = asked \ {r}
  BY <1>1 DEF Picked, UpdateSound, selectOrderInfoById
<1>3. PICK b : b = IF orders[r.of].brand \in update.options THEN orders[r.of].brand ELSE None
  OBVIOUS
<1>4. update' = [update EXCEPT !.id = r.of, !.company = orders[r.of].company, !.brand = b]
  BY <1>2, <1>3 DEF selectOrderInfoById
<1>5. /\ update'.id = r.of /\ update'.company = orders[r.of].company
      /\ update'.options = update.options /\ update'.brand = b
  BY <1>4 DEF PageOK, UpdateForm
<1>6. Order' = Order
  BY <1>2 DEF Order
<1>7. \A q \in Order : Picked(q) <=> q = r.of
  BY <1>1, <1>2 DEF UpdateSound
<1>8. \A q \in Order : Picked(q)' <=> q = r.of
  <2>1. ASSUME NEW q \in Order, Picked(q)' PROVE q = r.of
    BY <1>2, <1>5, <1>7, <2>1 DEF Picked
  <2>2. Picked(r.of)'
    BY <1>5 DEF Picked
  <2>3. QED
    BY <1>1, <2>1, <2>2
<1>9. \A q \in asked' : q.what = "brandsOfOrder" => q.of \in Order /\ Picked(q.of)'
  <2>1. ASSUME NEW q \in asked', q.what = "brandsOfOrder" PROVE q.of \in Order /\ Picked(q.of)'
    <3>1. q \in asked /\ q.of \in Order /\ Picked(q.of)
      BY <1>2, <2>1, AskKind DEF PageOK, UpdateSound
    <3>2. QED
      BY <1>7, <1>8, <3>1
  <2>2. QED
    BY <2>1
<1>10. QED
  BY <1>1, <1>2, <1>3, <1>5, <1>6, <1>7, <1>8, <1>9 DEF UpdateSound

\* Its brands arrive.
LEMMA SelectTrSound ==
    ASSUME ServerOK, PageOK, UpdateSound, NEW r \in asked, selectTr(r)
    PROVE  UpdateSound'
<1>1. r.what = "brandsOfOrder" /\ r.of \in Order
  BY AskKind DEF selectTr, PageOK
<1>2. Picked(r.of) /\ orders[r.of] # None /\ orders' = orders /\ asked' = asked \ {r}
  BY <1>1 DEF UpdateSound, selectTr
<1>3. PICK brands : brands = BrandsOf(orders[r.of].company)
  OBVIOUS
<1>4. /\ update'.id = update.id /\ update'.company = update.company
      /\ Offered(update', update, brands)
  <2>1. update' \in WithOptions(update, brands)
    BY <1>2, <1>3 DEF selectTr
  <2>2. brands \in SUBSET Brand /\ update \in UpdateForm
    BY <1>3, BrandSets DEF PageOK
  <2>3. QED
    BY <2>1, <2>2, WithOptionsUpdate
<1>5. SameAsks({"order", "brandsOfCompany", "branches"})
  BY <1>1, <1>2 DEF SameAsks
<1>6. \A q \in Order : Picked(q)' <=> Picked(q)
  BY <1>4, <1>5, PickedKept DEF SameAsks
<1>7. \A q \in Order : Picked(q) <=> q = r.of
  BY <1>1, <1>2 DEF UpdateSound
<1>8. Order' = Order
  BY <1>2 DEF Order
<1>9. \A q \in asked' : q.what = "brandsOfOrder" => q.of \in Order /\ Picked(q.of)'
  BY <1>2, <1>6, AskKind DEF PageOK, UpdateSound
<1>10. update'.options = update.options \cup brands /\ update.options \subseteq brands
  BY <1>1, <1>2, <1>3, <1>4 DEF Offered, UpdateSound
<1>11. update'.brand # None => update'.brand \in update'.options
  BY <1>4, <1>10 DEF Offered, UpdateSound
<1>12. QED
  BY <1>1, <1>2, <1>3, <1>4, <1>6, <1>7, <1>8, <1>9, <1>10, <1>11 DEF UpdateSound

----------------------------------------------------------------------------
(* The work order sheet.                                                     *)

\* The rows of the sheet in a step that answers or asks for no shops.
LEMMA RowsSound ==
    ASSUME sheet'.order = sheet.order, orders' = orders,
           sheet.order # None => orders[sheet.order] # None,
           \A r \in asked' : r.what # "branches",
           \A i \in DOMAIN sheet'.rows : RowSound(sheet'.rows[i], sheet.order)
    PROVE  SheetSound'
BY DEF SheetSound, RowSound

LEMMA MakeWorkOrderSound ==
    ASSUME ServerOK, PageOK, Careful, SheetSound, NEW o \in Listed, MakeWorkOrder(o)
    PROVE  SheetSound' /\ SameAsks({"brandsOfCompany", "order", "brandsOfOrder"})
<1>1. /\ asked = {} /\ Len(sheet.rows) = 1 /\ orders' = orders
      /\ sheet' = [order |-> o, rows |-> sheet.rows]
  BY SheetFields DEF MakeWorkOrder, MayClick, Quiet
<1>2. table[o] = orders[o] /\ orders[o] # None /\ o # None
  BY OrderRange, ListFacts
<1>3. PICK ask : ask = [what |-> "branches", of |-> orders[o].brand]
  OBVIOUS
<1>4. asked' = {ask} /\ ask.what = "branches" /\ ask.of = orders[o].brand
  BY <1>1, <1>2, <1>3 DEF MakeWorkOrder
<1>5. \A i \in DOMAIN sheet.rows :
        sheet.rows[i].branch # None => sheet.rows[i].branch \in sheet.rows[i].options
  BY DEF SheetSound
<1>6. sheet'.order = o /\ sheet'.rows = sheet.rows
  BY <1>1
<1>7. SheetSound'
  BY <1>1, <1>2, <1>4, <1>5, <1>6 DEF SheetSound, RowSound
<1>8. QED
  BY <1>1, <1>4, <1>7 DEF SameAsks

LEMMA SetBranchesSound ==
    ASSUME ServerOK, PageOK, SheetSound, NEW r \in asked, setWorkorderBrand(r)
    PROVE  SheetSound' /\ SameAsks({"brandsOfCompany", "order", "brandsOfOrder"})
<1>1. /\ r.what = "branches" /\ asked' = asked \ {r} /\ orders' = orders
      /\ Len(sheet.rows) = 1 /\ sheet.order # None /\ orders[sheet.order].brand = r.of
  BY DEF setWorkorderBrand, SheetSound
<1>2. PICK row : row = [options |-> BranchesOf(r.of), branch |-> None]
  OBVIOUS
<1>3. row \in Row /\ 1 \in DOMAIN sheet.rows
  BY <1>2, BrandSets, SheetFields DEF Row
<1>4. sheet' = [sheet EXCEPT !.rows[1] = row]
  BY <1>2 DEF setWorkorderBrand
<1>5. /\ sheet'.order = sheet.order /\ sheet'.rows = [sheet.rows EXCEPT ![1] = row]
      /\ Len(sheet'.rows) = 1 /\ DOMAIN sheet'.rows = {1} /\ sheet'.rows[1] = row
  BY <1>1, <1>3, <1>4, RowWritten, SheetFields
<1>6. RowSound(row, sheet.order) /\ row.branch = None
  BY <1>1, <1>2 DEF RowSound
<1>7. SheetSound'
  BY <1>1, <1>5, <1>6 DEF SheetSound, RowSound
<1>8. QED
  BY <1>1, <1>7 DEF SameAsks

LEMMA EditRowsSound ==
    ASSUME ServerOK, PageOK, Careful, SheetSound,
           \/ \E i \in DOMAIN sheet.rows : deleteRow(i) \/ \E s \in Branch : chooseBranch(i, s)
           \/ addWorOrderTr
    PROVE  SheetSound' /\ asked' = asked
<1>1. asked = {} /\ asked' = asked /\ orders' = orders
  BY DEF deleteRow, chooseBranch, addWorOrderTr, MayClick, Quiet
<1>2. /\ sheet.order # None => orders[sheet.order] # None
      /\ \A i \in DOMAIN sheet.rows : RowSound(sheet.rows[i], sheet.order)
  BY <1>1 DEF SheetSound
<1>3. ASSUME NEW i \in DOMAIN sheet.rows, NEW s \in Branch, chooseBranch(i, s)
      PROVE  SheetSound'
  <2>1. PICK row : row = [sheet.rows[i] EXCEPT !.branch = s]
    OBVIOUS
  <2>2. sheet.rows[i] \in Row
    BY SheetFields
  <2>3. row \in Row /\ row.options = sheet.rows[i].options /\ row.branch = s /\ s \in row.options
    BY <1>3, <2>1, <2>2 DEF Row, chooseBranch
  <2>4. sheet' = [sheet EXCEPT !.rows[i] = row]
    BY <1>3, <2>1 DEF chooseBranch
  <2>5. sheet'.order = sheet.order /\ sheet'.rows = [sheet.rows EXCEPT ![i] = row]
    BY <2>3, <2>4, RowWritten
  <2>6. RowSound(row, sheet.order)
    BY <1>2, <2>3 DEF RowSound
  <2>7. \A k \in DOMAIN sheet'.rows : RowSound(sheet'.rows[k], sheet.order)
    BY <1>2, <2>5, <2>6
  <2>8. QED
    BY <1>1, <1>2, <2>5, <2>7, RowsSound
<1>4. ASSUME addWorOrderTr PROVE SheetSound'
  <2>1. PICK row : row = [sheet.rows[1] EXCEPT !.branch = None]
    OBVIOUS
  <2>2. 1 \in DOMAIN sheet.rows /\ sheet.rows[1] \in Row
    BY SheetFields
  <2>3. row.options = sheet.rows[1].options /\ row.branch = None /\ row \in Row
    BY <2>1, <2>2 DEF Row
  <2>4. RowSound(row, sheet.order)
    BY <1>2, <2>2, <2>3 DEF RowSound
  <2>5. sheet'.order = sheet.order /\ sheet'.rows = Append(sheet.rows, row)
    BY <1>4, <2>1, SheetFields DEF addWorOrderTr
  <2>6. \A k \in DOMAIN sheet'.rows : sheet'.rows[k] = row \/
          (k \in DOMAIN sheet.rows /\ sheet'.rows[k] = sheet.rows[k])
    BY <2>3, <2>5, SheetFields
  <2>7. \A k \in DOMAIN sheet'.rows : RowSound(sheet'.rows[k], sheet.order)
    BY <1>2, <2>4, <2>6
  <2>8. QED
    BY <1>1, <1>2, <2>5, <2>7, RowsSound
<1>5. ASSUME NEW i \in DOMAIN sheet.rows, deleteRow(i) PROVE SheetSound'
  <2>1. sheet'.order = sheet.order /\ sheet'.rows = RemoveAt(sheet.rows, i) /\ i > 1
    BY <1>5, SheetFields DEF deleteRow
  <2>2. \A k \in DOMAIN sheet'.rows : \E n \in DOMAIN sheet.rows : sheet'.rows[k] = sheet.rows[n]
    BY <2>1, RowRemoved
  <2>3. \A k \in DOMAIN sheet'.rows : RowSound(sheet'.rows[k], sheet.order)
    BY <1>2, <2>2
  <2>4. QED
    BY <1>1, <1>2, <2>1, <2>3, RowsSound
<1>6. QED
  BY <1>1, <1>3, <1>4, <1>5

----------------------------------------------------------------------------
(* Posts and the page a post loads.                                          *)

LEMMA LoadedSound ==
    ASSUME ServerOK', Loaded(orders')
    PROVE  CreateSound' /\ UpdateSound' /\ SheetSound'
<1>1. /\ create' = EmptyForm /\ update' = EmptyUpdate /\ sheet' = EmptySheet /\ asked' = {}
  BY DEF Loaded
<1>2. CreateSound'
  BY <1>1 DEF CreateSound, EmptyForm
<1>3. update'.id = None /\ update'.options = {} /\ update'.brand = None
  BY <1>1 DEF EmptyUpdate
<1>4. None \notin Order'
  <2>1. Order' \subseteq Nat
    BY DEF ServerOK, Order
  <2>2. QED
    BY <2>1, OrderPageAssumption
<1>5. \A o \in Order' : ~Picked(o)'
  BY <1>1, <1>3, <1>4 DEF Picked
<1>6. UpdateSound'
  BY <1>1, <1>3, <1>5 DEF UpdateSound
<1>7. sheet'.order = None /\ sheet'.rows = <<EmptyRow>>
  BY <1>1 DEF EmptySheet
<1>8. \A i \in DOMAIN sheet'.rows : sheet'.rows[i].branch = None
  BY <1>7 DEF EmptyRow
<1>9. SheetSound'
  BY <1>1, <1>7, <1>8 DEF SheetSound, RowSound
<1>10. QED
  BY <1>2, <1>6, <1>9

\* What is posted was all there when it was.
LEMMA PostedSound ==
    ASSUME ServerOK, PageOK, Careful, CarefulInv, UNCHANGED habits,
           createOrder \/ updateOrder \/ orderInfoDelete \/ registWorkOrder
    PROVE  CarefulInv'
<1>1. asked = {} /\ posts = {}
  BY DEF createOrder, updateOrder, orderInfoDelete, registWorkOrder, Post, MayClick, Quiet
<1>2. ASSUME NEW p, Post(p), PostSound(p) PROVE CarefulInv'
  <2>1. /\ UNCHANGED <<orders, table, create, update, sheet, asked>> /\ posts' = {p}
    BY <1>1, <1>2 DEF Post, page
  <2>2. CreateSound' /\ (habits' = {} => UpdateSound') /\ SheetSound'
    BY <2>1, CreateKept, UpdateKept, SheetKept DEF SameAsks, CarefulInv
  <2>3. PostSound(p)'
    BY <1>2, <2>1 DEF PostSound
  <2>4. BrandOfCompany' /\ OrderHasBrand'
    BY <2>1 DEF CarefulInv, BrandOfCompany, OrderHasBrand, Order
  <2>5. OneAtATime'
    BY <1>1, <2>1 DEF OneAtATime
  <2>6. \A q \in posts' : PostSound(q)'
    BY <2>1, <2>3
  <2>7. QED
    BY <2>2, <2>4, <2>5, <2>6 DEF CarefulInv
<1>3. CASE createOrder
  <2>1. PICK p : p = [what |-> "create", company |-> create.company, brand |-> create.brand]
    OBVIOUS
  <2>2. Post(p) /\ create.company # None
    BY <1>3, <2>1 DEF createOrder
  <2>3. p.what = "create" /\ p.company = create.company /\ p.brand = create.brand
    BY <2>1
  <2>4. /\ create.options = BrandsOf(create.company)
        /\ create.options # {} => create.brand # None
        /\ create.brand # None => create.brand \in create.options
    BY <1>1, <2>2 DEF CarefulInv, CreateSound
  <2>5. PostSound(p)
    BY <2>3, <2>4 DEF PostSound, BrandsOf
  <2>6. QED
    BY <1>2, <2>2, <2>5
<1>4. CASE updateOrder
  <2>1. PICK p : p = [what |-> "update", id |-> update.id, company |-> update.company,
                      brand |-> update.brand]
    OBVIOUS
  <2>2. Post(p) /\ update.id # None
    BY <1>4, <2>1 DEF updateOrder
  <2>3. p.what = "update" /\ p.company = update.company /\ p.brand = update.brand
    BY <2>1
  <2>4. update.id \in Order /\ Picked(update.id)
    BY <2>2 DEF PageOK, OrderOrNone, Picked
  <2>5. habits = {} =>
          /\ update.options \subseteq BrandsOf(orders[update.id].company)
          /\ update.company = orders[update.id].company
          /\ update.brand # None => update.brand \in update.options
    BY <2>2, <2>4 DEF CarefulInv, UpdateSound
  <2>6. PostSound(p)
    BY <2>3, <2>5 DEF PostSound, BrandsOf
  <2>7. QED
    BY <1>2, <2>2, <2>6
<1>5. CASE orderInfoDelete
  <2>1. PICK p : p = [what |-> "delete", id |-> update.id]
    OBVIOUS
  <2>2. Post(p) /\ p.what = "delete"
    BY <1>5, <2>1 DEF orderInfoDelete
  <2>3. QED
    BY <1>2, <2>2 DEF PostSound
<1>6. CASE registWorkOrder
  <2>1. PICK p : p = [what |-> "register", order |-> sheet.order,
                      branches |-> {sheet.rows[i].branch : i \in DOMAIN sheet.rows}]
    OBVIOUS
  <2>2. Post(p) /\ sheet.order # None
    BY <1>6, <2>1 DEF registWorkOrder
  <2>3. /\ p.what = "register" /\ p.order = sheet.order
        /\ \A s \in p.branches : \E i \in DOMAIN sheet.rows : s = sheet.rows[i].branch
    BY <2>1
  <2>4. orders[sheet.order] # None
    BY <2>2 DEF CarefulInv, SheetSound
  <2>5. \A i \in DOMAIN sheet.rows : RowSound(sheet.rows[i], sheet.order)
    BY <1>1 DEF CarefulInv, SheetSound
  <2>6. ASSUME NEW s \in p.branches, s # None
        PROVE  BrandOf[s] = orders[sheet.order].brand
    <3>1. PICK i \in DOMAIN sheet.rows : s = sheet.rows[i].branch
      BY <2>3
    <3>2. s \in BranchesOf(orders[sheet.order].brand)
      BY <2>2, <2>5, <2>6, <3>1 DEF RowSound
    <3>3. QED
      BY <3>2 DEF BranchesOf
  <2>7. PostSound(p)
    BY <2>3, <2>4, <2>6 DEF PostSound
  <2>8. QED
    BY <1>2, <2>2, <2>7
<1>7. QED
  BY <1>3, <1>4, <1>5, <1>6

\* What the server makes of it.
LEMMA ServedSound ==
    ASSUME ServerOK, PageOK, Careful, CarefulInv, UNCHANGED habits, NEW p \in posts, Serve(p)
    PROVE  CarefulInv'
<1>1. PostSound(p) /\ posts = {p} /\ asked = {} /\ posts' = {}
  <2>1. posts = {p} /\ asked = {} /\ PostSound(p)
    BY DEF CarefulInv, OneAtATime
  <2>2. QED
    BY <2>1 DEF Serve
<1>2. ServerOK' /\ PageOK'
  BY ServeType
<1>3. CASE UNCHANGED <<orders, page>>
  <2>1. CreateSound' /\ (habits' = {} => UpdateSound') /\ SheetSound'
    BY <1>3, CreateKept, UpdateKept, SheetKept DEF SameAsks, CarefulInv, page
  <2>2. BrandOfCompany' /\ OrderHasBrand'
    BY <1>3 DEF CarefulInv, BrandOfCompany, OrderHasBrand, Order
  <2>3. QED
    BY <1>1, <2>1, <2>2 DEF CarefulInv, OneAtATime
<1>4. ASSUME Loaded(orders'), BrandOfCompany', OrderHasBrand' PROVE CarefulInv'
  BY <1>1, <1>2, <1>4, LoadedSound DEF CarefulInv, OneAtATime
<1>5. CASE createOrderBasicInfo(p)
  <2>1. /\ Len(orders) \in Nat /\ Order = 1 .. Len(orders) /\ Order' = 1 .. Len(orders) + 1
        /\ \A o \in Order : orders'[o] = orders[o]
        /\ orders'[Len(orders) + 1] = [company |-> p.company, brand |-> p.brand]
        /\ Loaded(orders') /\ p.what = "create"
    <3>1. /\ orders' \in Seq(OrderRow \cup {None}) /\ Len(orders') = Len(orders) + 1
      BY <1>5, CreateServed
    <3>2. QED
      BY <1>5, <3>1, CreateServed, OrderRange DEF createOrderBasicInfo, Order
  <2>2. PICK n : n = Len(orders) + 1
    OBVIOUS
  <2>3. /\ Order' = Order \cup {n} /\ orders'[n].company = p.company /\ orders'[n].brand = p.brand
    BY <2>1, <2>2
  <2>4. /\ p.brand # None => CompanyOf[p.brand] = p.company
        /\ BrandsOf(p.company) # {} => p.brand # None
    BY <1>1, <2>1 DEF PostSound
  <2>5. BrandOfCompany'
    BY <2>1, <2>3, <2>4 DEF CarefulInv, BrandOfCompany
  <2>6. OrderHasBrand'
    BY <2>1, <2>3, <2>4 DEF CarefulInv, OrderHasBrand, BrandsOf
  <2>7. QED
    BY <1>4, <2>1, <2>5, <2>6
<1>6. CASE updateOrderBasicInfo(p) /\ ~Fails(p)
  <2>1. /\ p.id \in Order /\ p.company \in Company /\ p.brand \in Brand
        /\ orders' \in Seq(OrderRow \cup {None}) /\ Len(orders') = Len(orders)
        /\ orders'[p.id] = [company |-> p.company, brand |-> p.brand]
        /\ \A o \in Order \ {p.id} : orders'[o] = orders[o]
        /\ Loaded(orders') /\ p.what = "update"
    BY <1>6, UpdateServed DEF updateOrderBasicInfo
  <2>2. Order' = Order
    BY <2>1, OrderRange DEF Order
  <2>3. orders'[p.id].company = p.company /\ orders'[p.id].brand = p.brand
        /\ p.brand # None /\ p.company # None
    BY <2>1, OrderPageAssumption
  <2>4. habits = {} => CompanyOf[p.brand] = p.company
    BY <1>1, <2>1, <2>3 DEF PostSound
  <2>5. BrandOfCompany'
    BY <2>1, <2>2, <2>3, <2>4 DEF CarefulInv, BrandOfCompany
  <2>6. OrderHasBrand'
    BY <2>1, <2>2, <2>3 DEF CarefulInv, OrderHasBrand, BrandsOf
  <2>7. QED
    BY <1>4, <2>1, <2>5, <2>6
<1>7. CASE /\ deleteOrderBasicInfo(p)
           /\ ~(orders[p.id] = None \/ \E x \in work : x.order = p.id)
  <2>1. /\ p.id \in Order
        /\ orders' \in Seq(OrderRow \cup {None}) /\ Len(orders') = Len(orders)
        /\ orders'[p.id] = None
        /\ \A o \in Order \ {p.id} : orders'[o] = orders[o]
        /\ Loaded(orders')
    BY <1>7, DeleteServed
  <2>2. Order' = Order
    BY <2>1, OrderRange DEF Order
  <2>3. BrandOfCompany' /\ OrderHasBrand'
    BY <2>1, <2>2 DEF CarefulInv, BrandOfCompany, OrderHasBrand, BrandsOf
  <2>4. QED
    BY <1>4, <2>1, <2>3
<1>8. CASE createWorkOrderInfo(p)
  <2>1. orders' = orders /\ Loaded(orders')
    BY <1>8, RegisterServed
  <2>2. BrandOfCompany' /\ OrderHasBrand'
    BY <2>1 DEF CarefulInv, BrandOfCompany, OrderHasBrand, Order
  <2>3. QED
    BY <1>4, <2>1, <2>2
<1>9. QED
  BY <1>3, <1>5, <1>6, <1>7, <1>8 DEF Serve, updateOrderBasicInfo, deleteOrderBasicInfo

\* A step of the page keeps its three parts sound.
LEMMA PageStepSound ==
    ASSUME ServerOK, PageOK, Careful, CarefulInv, UNCHANGED habits, PageStep
    PROVE  CreateSound' /\ (habits = {} => UpdateSound') /\ SheetSound'
<1>1. CreateSound /\ (habits = {} => UpdateSound) /\ SheetSound
  BY DEF CarefulInv
<1>2. ASSUME NEW c \in Company \cup {None}, selectCompany(c)
      PROVE  CreateSound' /\ (habits = {} => UpdateSound') /\ SheetSound'
  <2>1. asked = {} /\ selectBrand(c) /\ update' = update /\ sheet' = sheet /\ orders' = orders
    BY <1>2 DEF selectCompany, MayClick, Quiet
  <2>2. CreateSound' /\ SameAsks({"order", "brandsOfOrder", "branches"})
    BY <2>1, SelectBrandSound
  <2>3. QED
    BY <1>1, <2>1, <2>2, UpdateKept, SheetKept DEF SameAsks
<1>3. ASSUME NEW c \in Company \cup {None}, selectUpdateCompany(c)
      PROVE  CreateSound' /\ (habits = {} => UpdateSound') /\ SheetSound'
  BY <1>1, <1>3, SelectUpdateCompanySound, SheetKept DEF selectUpdateCompany
<1>4. ASSUME NEW b \in Brand, chooseBrand(b)
      PROVE  CreateSound' /\ (habits = {} => UpdateSound') /\ SheetSound'
  BY <1>1, <1>4, ChooseBrandSound, SheetKept DEF chooseBrand, SameAsks
<1>5. ASSUME NEW o \in Listed, MainTrEvt(o)
      PROVE  CreateSound' /\ (habits = {} => UpdateSound') /\ SheetSound'
  BY <1>1, <1>5, MainTrEvtAsks, MainTrEvtSound, CreateKept, SheetKept DEF MainTrEvt, SameAsks
<1>6. ASSUME NEW o \in Listed, MakeWorkOrder(o)
      PROVE  CreateSound' /\ (habits = {} => UpdateSound') /\ SheetSound'
  BY <1>1, <1>6, MakeWorkOrderSound, CreateKept, UpdateKept DEF MakeWorkOrder, SameAsks
<1>7. CASE \/ \E i \in DOMAIN sheet.rows : deleteRow(i) \/ \E s \in Branch : chooseBranch(i, s)
           \/ addWorOrderTr
  <2>1. UNCHANGED <<orders, create, update>>
    BY <1>7 DEF deleteRow, chooseBranch, addWorOrderTr
  <2>2. QED
    BY <1>1, <1>7, <2>1, EditRowsSound, CreateKept, UpdateKept DEF SameAsks
<1>8. ASSUME NEW r \in asked, orderFindBrand(r)
      PROVE  CreateSound' /\ (habits = {} => UpdateSound') /\ SheetSound'
  BY <1>1, <1>8, OrderFindBrandSound, UpdateKept, SheetKept DEF orderFindBrand, SameAsks
<1>9. ASSUME NEW r \in asked, selectOrderInfoById(r)
      PROVE  CreateSound' /\ (habits = {} => UpdateSound') /\ SheetSound'
  BY <1>1, <1>9, AnswerAsks, SelectOrderSound, CreateKept, SheetKept DEF selectOrderInfoById, SameAsks
<1>10. ASSUME NEW r \in asked, selectTr(r)
       PROVE  CreateSound' /\ (habits = {} => UpdateSound') /\ SheetSound'
  BY <1>1, <1>10, AnswerAsks, SelectTrSound, CreateKept, SheetKept DEF selectTr, SameAsks
<1>11. ASSUME NEW r \in asked, setWorkorderBrand(r)
       PROVE  CreateSound' /\ (habits = {} => UpdateSound') /\ SheetSound'
  BY <1>1, <1>11, SetBranchesSound, CreateKept, UpdateKept DEF setWorkorderBrand, SameAsks
<1>12. ASSUME showTab
       PROVE  CreateSound' /\ (habits = {} => UpdateSound') /\ SheetSound'
  BY <1>1, <1>12, CreateKept, UpdateKept, SheetKept DEF showTab, SameAsks
<1>13. QED
  BY <1>12, <1>2, <1>3, <1>4, <1>5, <1>6, <1>7, <1>8, <1>9, <1>10, <1>11 DEF PageStep, Answer

LEMMA CarefulStep ==
    ServerOK /\ PageOK /\ CarefulInv /\ Careful /\ [Next]_vars => CarefulInv'
<1> SUFFICES ASSUME ServerOK, PageOK, CarefulInv, Careful, [Next]_vars
             PROVE  CarefulInv'
  OBVIOUS
<1>1. CASE PageStep /\ UNCHANGED habits
  <2>1. CreateSound' /\ (habits' = {} => UpdateSound') /\ SheetSound'
    BY <1>1, PageStepSound
  <2>2. UNCHANGED <<orders, posts>> /\ posts = {}
    BY <1>1, PageStepType, AloneStep DEF Apart, CarefulInv
  <2>3. BrandOfCompany' /\ OrderHasBrand'
    BY <1>1, <2>2 DEF CarefulInv, BrandOfCompany, OrderHasBrand, Order
  <2>4. QED
    BY <2>1, <2>2, <2>3 DEF CarefulInv, OneAtATime
<1>2. CASE UNCHANGED vars
  <2>1. UNCHANGED <<orders, posts, create, update, sheet, asked, habits>>
    BY <1>2 DEF vars, page
  <2>2. CreateSound' /\ (habits' = {} => UpdateSound') /\ SheetSound'
    BY <2>1, CreateKept, UpdateKept, SheetKept DEF SameAsks, CarefulInv
  <2>3. BrandOfCompany' /\ OrderHasBrand'
    BY <2>1 DEF CarefulInv, BrandOfCompany, OrderHasBrand, Order
  <2>4. \A p \in posts' : PostSound(p)'
    BY <2>1 DEF CarefulInv, PostSound
  <2>5. QED
    BY <2>1, <2>2, <2>3, <2>4 DEF CarefulInv, OneAtATime
<1>3. QED
  BY <1>1, <1>2, StepIs, PostedSound, ServedSound

LEMMA CarefulInit == Init => CarefulInv
<1> SUFFICES ASSUME Init PROVE CarefulInv
  OBVIOUS
<1>1. /\ orders = <<>> /\ create = EmptyForm /\ update = EmptyUpdate /\ sheet = EmptySheet
      /\ asked = {} /\ posts = {}
  BY DEF Init
<1>2. Order = {}
  BY <1>1 DEF Order
<1>3. CreateSound /\ OneAtATime
  BY <1>1 DEF CreateSound, EmptyForm, OneAtATime
<1>4. UpdateSound
  BY <1>1, <1>2 DEF UpdateSound, EmptyUpdate
<1>5. sheet.order = None /\ sheet.rows = <<EmptyRow>>
  BY <1>1 DEF EmptySheet
<1>6. \A i \in DOMAIN sheet.rows : sheet.rows[i].branch = None
  BY <1>5 DEF EmptyRow
<1>7. SheetSound
  BY <1>1, <1>5, <1>6 DEF SheetSound, RowSound
<1>8. BrandOfCompany /\ OrderHasBrand
  BY <1>2 DEF BrandOfCompany, OrderHasBrand
<1>9. QED
  BY <1>1, <1>3, <1>4, <1>7, <1>8 DEF CarefulInv

\* The inductive invariant: what the three forms show belongs together whenever the user
\* may click, so what a post carries does.
LEMMA CarefulCorrect == ASSUME Careful PROVE Spec => []CarefulInv
<1>1. ServerOK /\ PageOK /\ CarefulInv /\ [Next]_vars => CarefulInv'
  BY CarefulStep
<1>2. QED
  BY <1>1, CarefulInit, TypesCorrect, PTL DEF Spec

\* A careful user with neither habit stores only brands of the order's company, in
\* whatever order the answers to one click arrive and whichever form is shown meanwhile.
THEOREM BrandOfCompanyCorrect == ASSUME Careful PROVE Spec => []BrandOfCompany
<1>1. CarefulInv => BrandOfCompany
  BY DEF CarefulInv
<1>2. QED
  BY <1>1, CarefulCorrect, PTL

\* With a careful user no order of a company that has brands is stored without one.
THEOREM OrderHasBrandCorrect == ASSUME Careful PROVE Spec => []OrderHasBrand
<1>1. CarefulInv => OrderHasBrand
  BY DEF CarefulInv
<1>2. QED
  BY <1>1, CarefulCorrect, PTL

LEMMA RegisterStep ==
    ASSUME ServerOK, PageOK, CarefulInv, [Next]_vars, NEW x \in work' \ work
    PROVE  /\ x.order # None
           /\ x.branch # None => BrandOf[x.branch] = orders[x.order].brand
<1>1. PICK p \in posts : createWorkOrderInfo(p)
  <2>1. work' # work
    OBVIOUS
  <2>2. ~(UNCHANGED vars) /\ ~Apart
    BY <2>1 DEF vars, Apart
  <2>3. ~(createOrder \/ updateOrder \/ orderInfoDelete \/ registWorkOrder)
    BY <2>1 DEF createOrder, updateOrder, orderInfoDelete, registWorkOrder, Post
  <2>4. PICK p \in posts : Serve(p)
    BY <2>2, <2>3, StepIs, PageStepType
  <2>5. QED
    BY <2>1, <2>4 DEF Serve, createOrderBasicInfo, updateOrderBasicInfo, deleteOrderBasicInfo
<1>2. p.what = "register" /\ PostSound(p)
  BY <1>1 DEF createWorkOrderInfo, CarefulInv
<1>3. /\ x.order = IF orders[p.order] = None THEN None ELSE p.order
      /\ x.branch \in p.branches /\ p.order \in Order
  BY <1>1, RegisterServed
<1>4. x.order = p.order /\ p.order # None
  BY <1>2, <1>3, OrderRange DEF PostSound
<1>5. QED
  BY <1>2, <1>3, <1>4 DEF PostSound

\* With a careful user a work order is registered for an order that exists and for a
\* shop of that order's brand, whatever sheets were open before.
THEOREM RegisteredCorrect == ASSUME Careful PROVE Spec => RegisteredUnderItsBrand
<1>1. ServerOK /\ PageOK /\ CarefulInv /\ [Next]_vars
        => [\A x \in work' \ work :
              /\ x.order # None
              /\ x.branch # None => BrandOf[x.branch] = orders[x.order].brand]_vars
  BY RegisterStep
<1>2. QED
  BY <1>1, TypesCorrect, CarefulCorrect, PTL DEF Spec, RegisteredUnderItsBrand
=============================================================================
