----------------------------- MODULE Branches -----------------------------
(***************************************************************************)
(* Brands and their stores: the page on which the stores of a brand are    *)
(* edited (BrandManagement.js) and the service behind it                   *)
(* (BrandServiceImp.java, GeoCoderService.java).  A brand lists its        *)
(* stores; the list is a join table, in which Hibernate makes the store    *)
(* unique.  A save posts every row of the page, and the service writes     *)
(* each row in a transaction of its own.  Transactions do not overlap;     *)
(* loads, saves and deletions of one page and of several do.               *)
(***************************************************************************)
EXTENDS Naturals, FiniteSets, SequencesExt

CONSTANTS
    Clients,        \* browsers with the page open
    Brands, Titles, Companies,
    Addrs,          \* addresses the geocoder is asked for
    Details,
    Rejoin,         \* what splitting a text at commas, trimming and joining
                    \* the parts, and leaving out brackets, makes of it
    None,           \* an empty input, no brand
    MaxStores,      \* bound: stores ever created
    MaxRows,        \* bound: rows of a page
    MaxLoads,       \* bound: loads of a page under way
    MaxUsed,        \* bound: stores that orders are written for
    MaxPosts,       \* bound: saves of a browser under way
    Careful,        \* TRUE: a user acts when nothing is under way
    PicksCompany    \* TRUE: a user selects a company for every row edited

ASSUME BranchesAssumption ==
    /\ None \notin Titles \cup Companies \cup Addrs \cup Details \cup Brands
    /\ \A t \in Titles : Rejoin[t] \in Titles
    /\ \A a \in Addrs : Rejoin[a] \in Addrs
    /\ MaxStores \in Nat /\ MaxRows \in Nat /\ MaxLoads \in Nat /\ MaxPosts \in Nat
    /\ MaxUsed \in Nat
    /\ Careful \in BOOLEAN /\ PicksCompany \in BOOLEAN

VARIABLES
    store,      \* the table of stores
    list,       \* per brand: the stores in its list
    used,       \* stores that work orders or plans refer to
    brandId,    \* per client: the brand the page saves to
    rows,       \* per client: the rows of the page
    touched,    \* per client: stores whose row was edited since the rows were
                \* emptied
    loads,      \* per client: brands clicked, whose rows have not arrived
    posts,      \* per client: saves under way
    deletes     \* per client: deletions under way

server == <<store, list, used>>
page == <<brandId, rows, touched>>
vars == <<server, page, loads, posts, deletes>>

Id == 1 .. MaxStores
Input == [title : Titles, company : Companies \cup {None},
          addr : Addrs \cup {None}, detail : Details \cup {None}]
Row == [id : Id \cup {0}, in : Input]
Store == [in : Input, brand : Brands, kept : BOOLEAN]
\* The brand of a save, its rows, how many are written, whether the page that
\* sent it still waits, and the stores it was meant to change.
Save == [brand : Brands, rows : Seq(Row), next : Nat \ {0}, waits : BOOLEAN,
         touched : SUBSET Id]
Deletion == [id : Id, brand : Brands \cup {None}]

Kept == {s \in DOMAIN store : store[s].kept}

Init ==
    /\ store = <<>>
    /\ list = [b \in Brands |-> {}]
    /\ used = {}
    /\ brandId = [c \in Clients |-> None]
    /\ rows = [c \in Clients |-> <<>>]
    /\ touched = [c \in Clients |-> {}]
    /\ loads = [c \in Clients |-> <<>>]
    /\ posts = [c \in Clients |-> <<>>]
    /\ deletes = [c \in Clients |-> <<>>]

Idle(c) == loads[c] = <<>> /\ posts[c] = <<>> /\ deletes[c] = <<>>
MayAct(c) == Careful => Idle(c)

-----------------------------------------------------------------------------
(* The page *)

\* A click on a brand empties the rows and asks for its stores.
MainTrEvt(c, b) ==
    /\ MayAct(c)
    /\ Len(loads[c]) < MaxLoads
    /\ rows' = [rows EXCEPT ![c] = <<>>]
    /\ touched' = [touched EXCEPT ![c] = {}]
    /\ loads' = [loads EXCEPT ![c] = Append(@, b)]
    /\ UNCHANGED <<server, brandId, posts, deletes>>

RowOf(s) == [id |-> s, in |-> store[s].in]
RowsOf(q) == [k \in DOMAIN q |-> RowOf(q[k])]

\* The stores arrive and are added to the rows; the page saves to their brand
\* from now on.  Answers may overtake each other, and a list has no order.
SelectBrandById(c, i) ==
    LET b == loads[c][i] IN
    /\ Len(rows[c]) + Cardinality(list[b]) <= MaxRows
    /\ brandId' = [brandId EXCEPT ![c] = b]
    /\ \E q \in SetToSeqs(list[b]) : rows' = [rows EXCEPT ![c] = @ \o RowsOf(q)]
    /\ loads' = [loads EXCEPT ![c] = RemoveAt(@, i)]
    /\ UNCHANGED <<server, touched, posts, deletes>>

\* Or an answer says nothing, as that for a brand without a company does: the
\* page goes on saving to the brand before.
NothingArrives(c, i) ==
    /\ loads' = [loads EXCEPT ![c] = RemoveAt(@, i)]
    /\ UNCHANGED <<server, page, posts, deletes>>

NameTaken(c, title, id) ==
    \E k \in DOMAIN rows[c] : rows[c][k].in.title = title /\ rows[c][k].id # id

\* Wrong form: the first row of the table is taken.
IsFirstOfTable(c, n, id) == n = 1

IsRowOf(c, n, id) ==
    /\ rows[c][n].id = id
    /\ \A j \in DOMAIN rows[c] : rows[c][j].id = id => n <= j

\* A row is clicked, edited and put back, into the first row of its store.
\* The click leaves the company unselected: the select is given a name where
\* its options have ids.
trUpdater(c, k, in) ==
    LET id == rows[c][k].id IN
    /\ MayAct(c)
    /\ id # 0
    /\ ~NameTaken(c, in.title, id)
    /\ PicksCompany => in.company # None
    /\ \E n \in DOMAIN rows[c] :
          /\ IsRowOf(c, n, id)
          /\ rows' = [rows EXCEPT ![c] = [@ EXCEPT ![n] = [rows[c][n] EXCEPT !.in = in]]]
    /\ touched' = [touched EXCEPT ![c] = @ \cup {id}]
    /\ UNCHANGED <<server, brandId, loads, posts, deletes>>

NameIsFree(c, title) == \A k \in DOMAIN rows[c] : rows[c][k].in.title # title

\* The select shows its first company until a row was clicked or added.
addStoreForUpdate(c, in) ==
    /\ MayAct(c)
    /\ Len(rows[c]) < MaxRows
    /\ NameIsFree(c, in.title)
    /\ rows[c] = <<>> \/ PicksCompany => in.company # None
    /\ rows' = [rows EXCEPT ![c] = Append(@, [id |-> 0, in |-> in])]
    /\ UNCHANGED <<server, brandId, touched, loads, posts, deletes>>

\* The row goes at once, whatever becomes of the deletion of its store.
deleteTargetRowU(c, k) ==
    /\ MayAct(c)
    /\ rows' = [rows EXCEPT ![c] = RemoveAt(@, k)]
    /\ IF rows[c][k].id # 0
       THEN /\ Len(deletes[c]) < MaxPosts
            /\ deletes' = [deletes EXCEPT ![c] =
                   Append(@, [id |-> rows[c][k].id, brand |-> brandId[c]])]
       ELSE UNCHANGED deletes
    /\ UNCHANGED <<server, brandId, touched, loads, posts>>

\* All rows are posted with the brand.  A double click posts them twice.
updateBranch(c) ==
    /\ MayAct(c)
    /\ brandId[c] # None /\ rows[c] # <<>>
    /\ Len(posts[c]) < MaxPosts
    /\ posts' = [posts EXCEPT ![c] = Append(@,
           [brand |-> brandId[c], rows |-> rows[c], next |-> 1, waits |-> TRUE,
            touched |-> touched[c]])]
    /\ UNCHANGED <<server, page, loads, deletes>>

-----------------------------------------------------------------------------
(* The service *)

\* Wrong form: a store is put into a second list.
ListableTwice(s) == TRUE

\* The join table takes a store once.
Listable(s) == \A b \in Brands : s \notin list[b]

Listed(b, s) == [list EXCEPT ![b] = @ \cup {s}]

\* A row of a save that posts no other row is stored without its detail.
Stored(in, single) == IF single THEN [in EXCEPT !.detail = None] ELSE in

\* A store that is there is overwritten with the row, of whichever brand it
\* is.  A single row leaves its detail.
UpdatedStore(r, b, single) ==
    /\ r.id \in Kept
    /\ store' = [store EXCEPT ![r.id] = [@ EXCEPT !.in =
           IF single THEN [r.in EXCEPT !.detail = store[r.id].in.detail] ELSE r.in]]
    /\ UNCHANGED <<list, used>>

New(in, b) == [in |-> in, brand |-> b, kept |-> TRUE]

Created(in, b) ==
    /\ Len(store) < MaxStores
    /\ store' = Append(store, New(in, b))
    /\ list' = Listed(b, Len(store) + 1)
    /\ UNCHANGED used

HasAddr(a) == {s \in Kept : store[s].in.addr = a}

\* A store found by the address of a new row is renamed and given to the
\* brand, if the list takes it.
Adopted(r, b, s) ==
    /\ Listable(s)
    /\ store' = [store EXCEPT ![s] = [@ EXCEPT !.brand = b,
           !.in.title = r.in.title, !.in.company = r.in.company]]
    /\ list' = Listed(b, s)
    /\ UNCHANGED used

\* A new row: without an address the store is saved; with one, the address
\* is looked up among the stores, then by the geocoder, which may not know it.
CreatedStore(r, b, single) ==
    IF r.in.addr = None THEN Created(Stored(r.in, single), b)
    ELSE IF HasAddr(r.in.addr) # {}
         THEN \E s \in HasAddr(r.in.addr) : Adopted(r, b, s)
         ELSE \E a \in {r.in.addr, None} :
                 Created([r.in EXCEPT !.addr = a, !.detail = None], b)

\* A row without a company throws (the empty string is no number).
Written(r, b, single) ==
    /\ r.in.company # None
    /\ \/ r.id # 0 /\ UpdatedStore(r, b, single)
       \/ r.id = 0 /\ CreatedStore(r, b, single)

\* What makes a transaction roll back: no company, a store that is gone, a
\* store found by its address that is in a list, a geocoder that does not
\* answer, and the bound on stores.
Fails(r) ==
    \/ r.in.company = None
    \/ r.id # 0 /\ r.id \notin Kept
    \/ r.id = 0 /\ r.in.addr # None
    \/ r.id = 0 /\ Len(store) = MaxStores

Rejoined(in) == [in EXCEPT !.title = Rejoin[@],
                           !.addr = IF @ = None THEN None ELSE Rejoin[@]]

\* What reaches the service of a save's next row.  The parameter of a save
\* that posts a single row is taken for a list of texts with commas between
\* them, and is put together again.
Received(p) ==
    LET r == p.rows[p.next]
    IN  IF Len(p.rows) = 1 THEN [r EXCEPT !.in = Rejoined(@)] ELSE r

\* One row of a save, in a transaction of its own.
saveRow(c, i) ==
    LET p == posts[c][i]
        r == Received(p)
    IN
    /\ p.next <= Len(p.rows)
    /\ \/ Written(r, p.brand, Len(p.rows) = 1)
       \/ Fails(r) /\ UNCHANGED server
    /\ posts' = [posts EXCEPT ![c][i].next = @ + 1]
    /\ UNCHANGED <<page, loads, deletes>>

\* The page says "saved" and is loaded anew; what it sent before goes on, and
\* is not waited for any more.
saved(c, i) ==
    /\ posts[c][i].next > Len(posts[c][i].rows)
    /\ posts' = [posts EXCEPT ![c] =
           LET left == RemoveAt(@, i) IN
           IF posts[c][i].waits
           THEN [j \in DOMAIN left |-> [left[j] EXCEPT !.waits = FALSE]] ELSE left]
    /\ IF posts[c][i].waits
       THEN /\ brandId' = [brandId EXCEPT ![c] = None]
            /\ rows' = [rows EXCEPT ![c] = <<>>]
            /\ touched' = [touched EXCEPT ![c] = {}]
            /\ loads' = [loads EXCEPT ![c] = <<>>]
       ELSE UNCHANGED <<page, loads>>
    /\ UNCHANGED <<server, deletes>>

\* Wrong form: the database lets a store go that orders refer to.
DeletableUsed(d) ==
    /\ d.id \in Kept
    /\ d.brand # None
    /\ \A b \in Brands \ {d.brand} : d.id \notin list[b]

\* A deletion takes the store out of the list of the brand the page had.  It
\* fails if the store is in another's list or is referred to.
Deletable(d) ==
    /\ d.id \in Kept \ used
    /\ d.brand # None
    /\ \A b \in Brands \ {d.brand} : d.id \notin list[b]

deleteBranch(c, i) ==
    LET d == deletes[c][i] IN
    /\ IF Deletable(d)
       THEN /\ store' = [store EXCEPT ![d.id] = [@ EXCEPT !.kept = FALSE]]
            /\ list' = [list EXCEPT ![d.brand] = @ \ {d.id}]
       ELSE UNCHANGED <<store, list>>
    /\ deletes' = [deletes EXCEPT ![c] = RemoveAt(@, i)]
    /\ UNCHANGED <<used, page, loads, posts>>

\* A line of an imported sheet: a store its brand has no namesake of.  Its
\* address is put together of both names; which that is, is left open.
importExcel(b, title) ==
    /\ \A s \in Kept : store[s].brand = b => store[s].in.title # title
    /\ \E a \in Addrs :
          Created([title |-> title, company |-> None, addr |-> a, detail |-> None], b)
    /\ UNCHANGED <<page, loads, posts, deletes>>

\* A work order is written for a store.
refer(s) ==
    /\ Cardinality(used) < MaxUsed
    /\ used' = used \cup {s}
    /\ UNCHANGED <<store, list, page, loads, posts, deletes>>

Serve(c) ==
    \/ \E i \in DOMAIN posts[c] : saveRow(c, i) \/ saved(c, i)
    \/ \E i \in DOMAIN deletes[c] : deleteBranch(c, i)
    \/ \E i \in DOMAIN loads[c] : SelectBrandById(c, i) \/ NothingArrives(c, i)

Next ==
    \/ \E c \in Clients :
          \/ \E b \in Brands : MainTrEvt(c, b)
          \/ \E k \in DOMAIN rows[c], in \in Input : trUpdater(c, k, in)
          \/ \E in \in Input : addStoreForUpdate(c, in)
          \/ \E k \in DOMAIN rows[c] : deleteTargetRowU(c, k)
          \/ updateBranch(c)
          \/ Serve(c)
    \/ \E b \in Brands, t \in Titles : importExcel(b, t)
    \/ \E s \in Kept : refer(s)

Spec == Init /\ [][Next]_vars

-----------------------------------------------------------------------------
(* Properties *)

TypeOK ==
    /\ store \in Seq(Store) /\ Len(store) <= MaxStores
    /\ list \in [Brands -> SUBSET DOMAIN store]
    /\ used \subseteq DOMAIN store
    /\ brandId \in [Clients -> Brands \cup {None}]
    /\ rows \in [Clients -> Seq(Row)]
    /\ touched \in [Clients -> SUBSET Id]
    /\ loads \in [Clients -> Seq(Brands)]
    /\ posts \in [Clients -> Seq(Save)]
    /\ deletes \in [Clients -> Seq(Deletion)]

\* Every store is listed by its own brand and by no other, whatever rows of
\* several brands come to stand on one page, and although an address of one
\* brand's new row may be found at another brand's store.
ListedByItsBrand ==
    /\ \A b \in Brands : list[b] \subseteq Kept
    /\ \A s \in Kept, b \in Brands : s \in list[b] <=> store[s].brand = b

\* A store that orders were written for stays in the table and in its list.
UsedStays == \A s \in used : s \in Kept /\ s \in list[store[s].brand]

\* A save changes no store but those whose row was edited, although it posts
\* all rows of the page, which may be older than the table; except that a page
\* of a single row, edited or not, changes its store by the way it is sent.
UntouchedStays ==
    [][\A s \in Kept \cap Kept' :
          store'[s].in # store[s].in =>
              \E c \in Clients : \E i \in DOMAIN posts[c] :
                  \/ s \in posts[c][i].touched
                  \/ /\ Len(posts[c][i].rows) = 1
                     /\ store'[s].in = Rejoined(store[s].in)]_vars

(* What the page says and the code does not keep; no run states these two. *)

\* No brand has two stores of one name ("there is a store of the same name",
\* says the page, and refuses the row).
NoNamesakes ==
    \A s, t \in Kept :
        s # t /\ store[s].brand = store[t].brand
            => store[s].in.title # store[t].in.title

\* A row is stored: as a store of the brand, with the input of the row.
IsStored(r, b) == \E s \in list[b] : /\ r.id # 0 => s = r.id
                                     /\ store[s].in = r.in

\* When the page says "saved", its rows are in the table.
SaidIsStored ==
    [][\A c \in Clients :
          Len(posts'[c]) < Len(posts[c]) =>
              \E i \in DOMAIN posts[c] :
                  /\ Len(posts'[c]) = Len(posts[c]) - 1
                  /\ \A j \in DOMAIN posts[c][i].rows :
                        IsStored(posts[c][i].rows[j], posts[c][i].brand)]_vars
=============================================================================
