---------------------------- MODULE OrderPage ----------------------------
(***************************************************************************)
(* The page of received orders and their work orders (OrderInfoForKS.js)   *)
(* in front of the tables it edits.  Every select box of the page is       *)
(* filled by a request of its own, sent when something else is clicked,    *)
(* and the answers come in any order.  A successful post reloads the page, *)
(* which forgets the answers under way but not the posts.                  *)
(***************************************************************************)
EXTENDS Naturals, FiniteSets, SequencesExt

CONSTANTS
    Company,        \* who is billed
    Brand,          \* brands, each of one company
    CompanyOf,      \* Brand -> Company
    Branch,         \* shops, each of one brand
    BrandOf,        \* Branch -> Brand
    None,           \* an empty input
    MaxOrders,      \* bound: orders ever created
    MaxRows,        \* bound: rows of the work order sheet
    MaxWork,        \* bound: no sheet is sent once there are so many work orders
    Careful         \* TRUE: the user waits for the answers before going on,
                    \* and leaves no added row in the sheet of another order

ASSUME OrderPageAssumption ==
    /\ CompanyOf \in [Brand -> Company]
    /\ BrandOf \in [Branch -> Brand]
    /\ None \notin Company \cup Brand \cup Branch \cup Nat
    /\ None \notin [company : Company, brand : Brand \cup {None}]
    /\ MaxOrders \in Nat \ {0} /\ MaxRows \in Nat \ {0}
    /\ MaxWork \in Nat \ {0}
    /\ Careful \in BOOLEAN

VARIABLES
    orders,     \* the orders on the server, by id; None once deleted
    work,       \* work orders on the server: [order, branch]
    table,      \* the orders as the page listed them when it was loaded
    create,     \* the form of a new order
    update,     \* the form of a selected order
    sheet,      \* the work order sheet: its order and its rows
    asked,      \* requests for the contents of a form or a select box
    posts,      \* requests that change the server
    updateTab,  \* whether the update tab is shown, or the one of new orders
    habits      \* what the user also does

\* "moves": the user changes the company of an order.  "strays": the user
\* clicks rows of the table while the tab of new orders is shown.
Habits == {"moves", "strays"}

page == <<table, create, update, sheet, asked, updateTab>>
vars == <<orders, work, page, posts, habits>>

Order == DOMAIN orders
OrderRow == [company : Company, brand : Brand \cup {None}]
Form == [company : Company \cup {None}, options : SUBSET Brand,
         brand : Brand \cup {None}]
UpdateForm == [id : 1 .. MaxOrders \cup {None}, company : Company \cup {None},
               options : SUBSET Brand, brand : Brand \cup {None}]
Row == [options : SUBSET Branch, branch : Branch \cup {None}]
Request == [what : {"brandsOfCompany"}, of : Company]
    \cup [what : {"order", "brandsOfOrder"}, of : 1 .. MaxOrders]
    \cup [what : {"branches"}, of : Brand]

BrandsOf(c) == {b \in Brand : CompanyOf[b] = c}
BranchesOf(b) == {s \in Branch : BrandOf[s] = b}

EmptyForm == [company |-> None, options |-> {}, brand |-> None]
EmptyUpdate == [id |-> None, company |-> None, options |-> {}, brand |-> None]
EmptyRow == [options |-> {}, branch |-> None]
EmptySheet == [order |-> None, rows |-> <<EmptyRow>>]

\* The lists of the orders a load may get.  The newest come first, and the
\* first without a brand ends the list: which are before it is a matter of
\* dates, which are not modelled.
Lists(os) ==
    LET live == {o \in DOMAIN os : os[o] # None}
        branded == {o \in live : os[o].brand # None}
    IN  {[o \in DOMAIN os |-> IF o \in seen THEN os[o] ELSE None] :
            seen \in IF branded = live THEN {live} ELSE SUBSET branded}

\* What a load of the page leaves.
Loaded(os) ==
    /\ table' \in Lists(os)
    /\ create' = EmptyForm
    /\ update' = EmptyUpdate
    /\ sheet' = EmptySheet
    /\ asked' = {}
    /\ updateTab' = FALSE

Init ==
    /\ orders = <<>>
    /\ work = {}
    /\ table = <<>>
    /\ create = EmptyForm
    /\ update = EmptyUpdate
    /\ sheet = EmptySheet
    /\ asked = {}
    /\ posts = {}
    /\ updateTab = FALSE
    /\ habits \in SUBSET Habits

Quiet == asked = {} /\ posts = {}
MayClick == Careful => Quiet

Listed == {o \in DOMAIN table : table[o] # None}

-----------------------------------------------------------------------------
(* Tabs and select boxes of brands *)

\* One of the two forms is shown at a time; the other keeps what it holds.
showTab ==
    /\ MayClick
    /\ updateTab' = ~updateTab
    /\ UNCHANGED <<orders, work, table, create, update, sheet, asked, posts>>

\* Wrong form: nothing is selected until the user does.
WithOptionsUnselected(form, brands) == {[form EXCEPT !.options = @ \cup brands]}

\* Options are appended to a select box; a box without a selection then
\* selects the first option it has got, in the order of the answer.
WithOptions(form, brands) ==
    {[form EXCEPT !.options = @ \cup brands, !.brand = b] :
        b \in IF form.brand # None \/ brands = {} THEN {form.brand} ELSE brands}

\* Wrong form: the brands of the company before stay.
selectBrandKeeps(c) ==
    /\ create' = [create EXCEPT !.company = c]
    /\ asked' = IF c = None THEN asked
                ELSE asked \cup {[what |-> "brandsOfCompany", of |-> c]}

\* The user selects a company for the new order; both company boxes lead here.
selectBrand(c) ==
    /\ create' = [company |-> c, options |-> {}, brand |-> None]
    /\ asked' = IF c = None THEN asked
                ELSE asked \cup {[what |-> "brandsOfCompany", of |-> c]}

selectCompany(c) ==
    /\ MayClick /\ ~updateTab
    /\ selectBrand(c)
    /\ UNCHANGED <<orders, work, table, update, sheet, updateTab, posts>>

\* The user selects another company for the order in the update form: what is
\* refreshed are the brands of the other form.
selectUpdateCompany(c) ==
    /\ MayClick /\ updateTab /\ "moves" \in habits
    /\ update.id # None
    /\ update' = [update EXCEPT !.company = c]
    /\ selectBrand(create.company)
    /\ UNCHANGED <<orders, work, table, sheet, updateTab, posts>>

orderFindBrand(r) ==
    /\ r.what = "brandsOfCompany"
    /\ create' \in WithOptions(create, BrandsOf(r.of))
    /\ asked' = asked \ {r}
    /\ UNCHANGED <<orders, work, table, update, sheet, updateTab, posts>>

chooseBrand(b) ==
    /\ MayClick
    /\ \/ ~updateTab /\ b \in create.options
          /\ create' = [create EXCEPT !.brand = b]
          /\ UNCHANGED update
       \/ updateTab /\ b \in update.options
          /\ update' = [update EXCEPT !.brand = b]
          /\ UNCHANGED create
    /\ UNCHANGED <<orders, work, table, sheet, asked, updateTab, posts>>

-----------------------------------------------------------------------------
(* The update form *)

\* A click on a row of the table empties the brands of the update form and
\* asks for those of the row.  Only if the form is shown are its inputs
\* emptied and the order asked for, too: a hidden one keeps its order and its
\* company, and gets the brands of another order.
MainTrEvt(o) ==
    /\ MayClick
    /\ updateTab \/ "strays" \in habits
    /\ update' = IF updateTab THEN EmptyUpdate
                 ELSE [update EXCEPT !.options = {}, !.brand = None]
    /\ asked' = asked \cup {[what |-> "brandsOfOrder", of |-> o]}
          \cup {[what |-> "order", of |-> x] : x \in IF updateTab THEN {o} ELSE {}}
    /\ UNCHANGED <<orders, work, table, create, sheet, updateTab, posts>>

\* Wrong form: the brand is taken as it is, option or not.
selectOrderInfoByIdLoose(r) ==
    /\ r.what = "order"
    /\ update' = IF orders[r.of] = None THEN update
          ELSE [update EXCEPT !.id = r.of, !.company = orders[r.of].company,
                              !.brand = orders[r.of]]
    /\ asked' = asked \ {r}
    /\ UNCHANGED <<orders, work, table, create, sheet, updateTab, posts>>

\* The order arrives; its brand is selected only if the box has that option.
selectOrderInfoById(r) ==
    /\ r.what = "order"
    /\ update' = IF orders[r.of] = None THEN update
          ELSE [update EXCEPT
                  !.id = r.of,
                  !.company = orders[r.of].company,
                  !.brand = IF orders[r.of].brand \in update.options
                            THEN orders[r.of].brand ELSE None]
    /\ asked' = asked \ {r}
    /\ UNCHANGED <<orders, work, table, create, sheet, updateTab, posts>>

selectTr(r) ==
    /\ r.what = "brandsOfOrder"
    /\ update' \in IF orders[r.of] = None THEN {update}
                   ELSE WithOptions(update, BrandsOf(orders[r.of].company))
    /\ asked' = asked \ {r}
    /\ UNCHANGED <<orders, work, table, create, sheet, updateTab, posts>>

-----------------------------------------------------------------------------
(* The work order sheet *)

\* The sheet is opened for an order of the table.  Its rows stay as the last
\* order left them; the first gets new options when they arrive.
MakeWorkOrder(o) ==
    /\ MayClick
    /\ Careful => Len(sheet.rows) = 1
    /\ sheet' = [sheet EXCEPT !.order = o]
    /\ asked' = asked \cup {[what |-> "branches", of |-> table[o].brand]}
    /\ UNCHANGED <<orders, work, table, create, update, updateTab, posts>>

\* Wrong form: the options of the order before stay.
setWorkorderBrandAdds(r) ==
    /\ r.what = "branches"
    /\ sheet' = [sheet EXCEPT !.rows[1].options = @ \cup BranchesOf(r.of)]
    /\ asked' = asked \ {r}
    /\ UNCHANGED <<orders, work, table, create, update, updateTab, posts>>

setWorkorderBrand(r) ==
    /\ r.what = "branches"
    /\ sheet' = [sheet EXCEPT !.rows[1] =
                    [options |-> BranchesOf(r.of), branch |-> None]]
    /\ asked' = asked \ {r}
    /\ UNCHANGED <<orders, work, table, create, update, updateTab, posts>>

chooseBranch(i, s) ==
    /\ MayClick
    /\ s \in sheet.rows[i].options
    /\ sheet' = [sheet EXCEPT !.rows[i].branch = s]
    /\ UNCHANGED <<orders, work, table, create, update, asked, updateTab, posts>>

\* A row is added as a copy of the first: its options, without the selection.
addWorOrderTr ==
    /\ MayClick
    /\ Len(sheet.rows) < MaxRows
    /\ sheet' = [sheet EXCEPT !.rows =
                    Append(@, [sheet.rows[1] EXCEPT !.branch = None])]
    /\ UNCHANGED <<orders, work, table, create, update, asked, updateTab, posts>>

\* The first row is not deleted.
deleteRow(i) ==
    /\ MayClick
    /\ i > 1
    /\ sheet' = [sheet EXCEPT !.rows = RemoveAt(@, i)]
    /\ UNCHANGED <<orders, work, table, create, update, asked, updateTab, posts>>

-----------------------------------------------------------------------------
(* Posts *)

Post(p) ==
    /\ MayClick
    /\ posts' = posts \cup {p}
    /\ UNCHANGED <<orders, work, page>>

\* A form with an empty or missing brand is not held back: only fields that
\* the form has are tested, and a box without a selection is none of them.
createOrder == ~updateTab /\ create.company # None /\ Len(orders) < MaxOrders
    /\ Post([what |-> "create", company |-> create.company, brand |-> create.brand])
updateOrder == updateTab /\ update.id # None
    /\ Post([what |-> "update", id |-> update.id,
             company |-> update.company, brand |-> update.brand])
orderInfoDelete == updateTab /\ update.id # None
    /\ Post([what |-> "delete", id |-> update.id])
registWorkOrder == sheet.order # None /\ Cardinality(work) < MaxWork
    /\ Post([what |-> "register", order |-> sheet.order,
             branches |-> {sheet.rows[i].branch : i \in DOMAIN sheet.rows}])

\* The server stores a new order, whatever its brand.
createOrderBasicInfo(p) ==
    /\ p.what = "create"
    /\ Len(orders) < MaxOrders
    /\ orders' = Append(orders, [company |-> p.company, brand |-> p.brand])
    /\ Loaded(orders')
    /\ UNCHANGED work

\* It fails on an order that is gone and on a company or a brand that is
\* missing.
Fails(p) ==
    \/ orders[p.id] = None \/ orders[p.id].brand = None
    \/ p.company = None \/ p.brand = None

updateOrderBasicInfo(p) ==
    /\ p.what = "update"
    /\ IF Fails(p)
       THEN UNCHANGED <<orders, page>>
       ELSE /\ orders' = [orders EXCEPT
                  ![p.id] = [company |-> p.company, brand |-> p.brand]]
            /\ Loaded(orders')
    /\ UNCHANGED work

\* Wrong form: work orders are not looked for.
deleteOrderBasicInfoUnchecked(p) ==
    /\ p.what = "delete"
    /\ IF orders[p.id] = None
       THEN UNCHANGED <<orders, page>>
       ELSE /\ orders' = [orders EXCEPT ![p.id] = None]
            /\ Loaded(orders')
    /\ UNCHANGED work

\* An order with work orders stays.
deleteOrderBasicInfo(p) ==
    /\ p.what = "delete"
    /\ IF orders[p.id] = None \/ \E x \in work : x.order = p.id
       THEN UNCHANGED <<orders, page>>
       ELSE /\ orders' = [orders EXCEPT ![p.id] = None]
            /\ Loaded(orders')
    /\ UNCHANGED work

\* One work order per row, each in a transaction of its own; the answer is
\* true whatever becomes of them, and an order that is gone is stored as none.
createWorkOrderInfo(p) ==
    /\ p.what = "register"
    /\ work' = work \cup
          {[order |-> IF orders[p.order] = None THEN None ELSE p.order,
            branch |-> s] : s \in p.branches}
    /\ Loaded(orders)
    /\ UNCHANGED orders

Answer(r) ==
    \/ orderFindBrand(r)
    \/ selectOrderInfoById(r)
    \/ selectTr(r)
    \/ setWorkorderBrand(r)

Serve(p) ==
    /\ posts' = posts \ {p}
    /\ \/ createOrderBasicInfo(p)
       \/ updateOrderBasicInfo(p)
       \/ deleteOrderBasicInfo(p)
       \/ createWorkOrderInfo(p)

Step ==
    \/ showTab
    \/ \E c \in Company \cup {None} : selectCompany(c) \/ selectUpdateCompany(c)
    \/ \E b \in Brand : chooseBrand(b)
    \/ \E o \in Listed : MainTrEvt(o) \/ MakeWorkOrder(o)
    \/ \E i \in DOMAIN sheet.rows :
          deleteRow(i) \/ \E s \in Branch : chooseBranch(i, s)
    \/ addWorOrderTr
    \/ createOrder \/ updateOrder \/ orderInfoDelete \/ registWorkOrder
    \/ \E r \in asked : Answer(r)
    \/ \E p \in posts : Serve(p)

Next == Step /\ UNCHANGED habits

Spec == Init /\ [][Next]_vars

-----------------------------------------------------------------------------
(* Properties *)

TypeOK ==
    /\ \A o \in Order : orders[o] \in OrderRow \cup {None}
    /\ work \subseteq [order : 1 .. MaxOrders \cup {None}, branch : Branch \cup {None}]
    /\ \A o \in DOMAIN table : table[o] \in OrderRow \cup {None}
    /\ create \in Form
    /\ update \in UpdateForm
    /\ sheet.order \in 1 .. MaxOrders \cup {None}
    /\ \A i \in DOMAIN sheet.rows : sheet.rows[i] \in Row
    /\ asked \subseteq Request
    /\ updateTab \in BOOLEAN
    /\ habits \subseteq Habits

\* With a careful user the brand of an order is one of its company's, although
\* company and brand reach the form in two answers that may swap, and the
\* browser selects a brand by itself when the order comes first.  Both habits
\* break it: a company moved keeps the brands of the one before, and a row
\* clicked while the form is hidden leaves it with the brands of another order.
BrandOfCompany == habits = {} => \A o \in Order :
    orders[o] # None /\ orders[o].brand # None =>
        CompanyOf[orders[o].brand] = orders[o].company

\* With a careful user no order is stored without a brand if its company has
\* one; create tests only the fields the form sends, and a box that is still
\* waiting for its options sends none.
OrderHasBrand == \A o \in Order :
    orders[o] # None /\ BrandsOf(orders[o].company) # {} => orders[o].brand # None

\* With a careful user a work order is registered for an order that exists and
\* for a shop of that order's brand: the sheet takes its order from the click,
\* its shops from an answer, and its added rows from an earlier state.
RegisteredUnderItsBrand ==
    [][\A x \in work' \ work :
          /\ x.order # None
          /\ x.branch # None => BrandOf[x.branch] = orders[x.order].brand]_vars

\* Whatever the user does and in whatever order posts and answers cross, an
\* order that has work orders is not deleted.
WorkOrderKeepsOrder == \A x \in work :
    x.order # None => orders[x.order] # None
=============================================================================
