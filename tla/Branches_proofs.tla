-------------------------- MODULE Branches_proofs --------------------------
(* Theorems about Branches, for every set of clients, brands, names and     *)
(* addresses, and every number of stores.                                   *)
EXTENDS Branches, FiniteSetTheorems, TLAPS

-----------------------------------------------------------------------------
(* Facts about sequences. *)

LEMMA EmptyIn == ASSUME NEW S PROVE <<>> \in Seq(S)
OBVIOUS

LEMMA AppendIn ==
    ASSUME NEW S, NEW s \in Seq(S), NEW e \in S
    PROVE  /\ Append(s, e) \in Seq(S)
           /\ Len(Append(s, e)) = Len(s) + 1
           /\ DOMAIN Append(s, e) = DOMAIN s \cup {Len(s) + 1}
           /\ Append(s, e)[Len(s) + 1] = e
           /\ \A i \in DOMAIN s : Append(s, e)[i] = s[i]
OBVIOUS

LEMMA ExceptIn ==
    ASSUME NEW S, NEW s \in Seq(S), NEW i \in DOMAIN s, NEW e \in S
    PROVE  /\ [s EXCEPT ![i] = e] \in Seq(S)
           /\ Len([s EXCEPT ![i] = e]) = Len(s)
           /\ DOMAIN [s EXCEPT ![i] = e] = DOMAIN s
           /\ [s EXCEPT ![i] = e][i] = e
           /\ \A j \in DOMAIN s \ {i} : [s EXCEPT ![i] = e][j] = s[j]
OBVIOUS

LEMMA SameLengthIn ==
    ASSUME NEW S, NEW T, NEW s \in Seq(T), NEW t \in [DOMAIN s -> S]
    PROVE  t \in Seq(S)
OBVIOUS

LEMMA TupleIn ==
    ASSUME NEW S, NEW n \in Nat, NEW t \in [1 .. n -> S]
    PROVE  t \in Seq(S)
OBVIOUS

LEMMA ConcatIn ==
    ASSUME NEW S, NEW s \in Seq(S), NEW t \in Seq(S)
    PROVE  s \o t \in Seq(S)
OBVIOUS

LEMMA RemoveIn ==
    ASSUME NEW S, NEW s \in Seq(S), NEW i \in DOMAIN s
    PROVE  RemoveAt(s, i) \in Seq(S)
<1>1. SubSeq(s, 1, i - 1) \in Seq(S)
  OBVIOUS
<1>2. SubSeq(s, i + 1, Len(s)) \in Seq(S)
  OBVIOUS
<1>3. QED
  BY <1>1, <1>2 DEF RemoveAt

\* What is left of a sequence was in it.
LEMMA RemovedFrom ==
    ASSUME NEW S, NEW s \in Seq(S), NEW i \in DOMAIN s
    PROVE  /\ Len(RemoveAt(s, i)) = Len(s) - 1
           /\ \A j \in DOMAIN RemoveAt(s, i) : \E k \in DOMAIN s : RemoveAt(s, i)[j] = s[k]
<1> DEFINE a == SubSeq(s, 1, i - 1)
           b == SubSeq(s, i + 1, Len(s))
<1>1. a \in Seq(S) /\ Len(a) = i - 1 /\ \A j \in 1 .. (i - 1) : a[j] = s[j]
  OBVIOUS
<1>2. b \in Seq(S) /\ Len(b) = Len(s) - i /\ \A j \in 1 .. (Len(s) - i) : b[j] = s[i + j]
  OBVIOUS
<1>3. RemoveAt(s, i) = a \o b
  BY DEF RemoveAt
<1> HIDE DEF a, b
<1>4. /\ Len(a \o b) = Len(s) - 1 /\ DOMAIN (a \o b) = 1 .. (Len(s) - 1)
      /\ \A j \in 1 .. (Len(s) - 1) :
            (a \o b)[j] = IF j <= i - 1 THEN a[j] ELSE b[j - (i - 1)]
  BY <1>1, <1>2
<1>5. ASSUME NEW j \in 1 .. (Len(s) - 1)
      PROVE  \E k \in DOMAIN s : (a \o b)[j] = s[k]
  <2>1. CASE j <= i - 1
    <3>1. (a \o b)[j] = s[j] /\ j \in DOMAIN s
      BY <1>1, <1>4, <2>1
    <3>2. QED
      BY <3>1
  <2>2. CASE ~(j <= i - 1)
    <3>1. (a \o b)[j] = s[j + 1] /\ j + 1 \in DOMAIN s
      <4>1. j - (i - 1) \in 1 .. (Len(s) - i)
        BY <2>2
      <4>2. b[j - (i - 1)] = s[i + (j - (i - 1))]
        BY <1>2, <4>1
      <4>3. i + (j - (i - 1)) = j + 1 /\ j + 1 \in DOMAIN s
        OBVIOUS
      <4>4. QED
        BY <1>4, <2>2, <4>2, <4>3
    <3>2. QED
      BY <3>1
  <2>3. QED
    BY <2>1, <2>2
<1>6. QED
  BY <1>3, <1>4, <1>5

-----------------------------------------------------------------------------
(* The tables of the service. *)

TableType == store \in Seq(Store) /\ Len(store) <= MaxStores

\* What every step keeps of the tables.
Books ==
    /\ TableType
    /\ list \in [Brands -> SUBSET DOMAIN store]
    /\ ListedByItsBrand
    /\ used \subseteq Kept

LEMMA TableIds ==
    ASSUME TableType
    PROVE  /\ DOMAIN store = 1 .. Len(store)
           /\ DOMAIN store \subseteq Id
           /\ Kept \subseteq DOMAIN store
           /\ \A s \in DOMAIN store : /\ store[s] \in Store
                                      /\ store[s].brand \in Brands
                                      /\ store[s].kept \in BOOLEAN
<1>1. DOMAIN store = 1 .. Len(store) /\ DOMAIN store \subseteq Id
  BY BranchesAssumption DEF TableType, Id
<1>2. \A s \in DOMAIN store : store[s] \in Store
  BY DEF TableType
<1>3. QED
  BY <1>1, <1>2 DEF Kept, Store

\* A store that is there is in a list, so no list takes it: an address found
\* at a store never gives the store to the brand of a new row.
LEMMA NeverAdopted ==
    ASSUME Books, NEW s \in Kept
    PROVE  ~Listable(s)
<1>1. store[s].brand \in Brands
  BY TableIds DEF Books
<1>2. s \in list[store[s].brand]
  BY <1>1 DEF Books, ListedByItsBrand
<1>3. QED
  BY <1>1, <1>2 DEF Listable

LEMMA StoreTypes ==
    ASSUME NEW r \in Store
    PROVE  /\ \A in \in Input :
                 /\ [r EXCEPT !.in = in] \in Store
                 /\ [r EXCEPT !.in = in].brand = r.brand
                 /\ [r EXCEPT !.in = in].kept = r.kept
           /\ [r EXCEPT !.kept = FALSE] \in Store
           /\ [r EXCEPT !.kept = FALSE].brand = r.brand
           /\ [r EXCEPT !.kept = FALSE].kept = FALSE
BY DEF Store

LEMMA InputTypes ==
    ASSUME NEW in \in Input
    PROVE  /\ \A d \in Details \cup {None} : [in EXCEPT !.detail = d] \in Input
           /\ \A a \in Addrs \cup {None} :
                 [in EXCEPT !.addr = a, !.detail = None] \in Input
BY DEF Input

\* Rejoining leaves the detail and the company alone.
LEMMA RejoinedIn ==
    ASSUME NEW in \in Input
    PROVE  Rejoined(in) \in Input /\ Rejoined(in).detail = in.detail
<1> DEFINE t == Rejoin[in.title]
           a == IF in.addr = None THEN None ELSE Rejoin[in.addr]
<1>1. t \in Titles /\ a \in Addrs \cup {None}
  BY BranchesAssumption DEF Input
<1>2. Rejoined(in) = [in EXCEPT !.title = t, !.addr = a]
  BY DEF Rejoined
<1> HIDE DEF t, a
<1>3. QED
  BY <1>1, <1>2 DEF Input

LEMMA ReceivedIn ==
    ASSUME NEW p \in Save, p.next <= Len(p.rows)
    PROVE  /\ p.next \in DOMAIN p.rows /\ p.rows[p.next] \in Row
           /\ Received(p) \in Row /\ Received(p).id = p.rows[p.next].id
           /\ Len(p.rows) # 1 => Received(p) = p.rows[p.next]
           /\ Len(p.rows) = 1 => Received(p).in = Rejoined(p.rows[p.next].in)
<1> DEFINE r == p.rows[p.next]
<1>1. p.rows \in Seq(Row) /\ p.next \in Nat \ {0}
  BY DEF Save
<1>2. p.next \in DOMAIN p.rows /\ r \in Row
  BY <1>1
<1>3. r.in \in Input
  BY <1>2 DEF Row
<1>4. Rejoined(r.in) \in Input
  BY <1>3, RejoinedIn
<1>5. Received(p) = IF Len(p.rows) = 1 THEN [r EXCEPT !.in = Rejoined(r.in)] ELSE r
  BY DEF Received
<1> HIDE DEF r
<1>6. /\ [r EXCEPT !.in = Rejoined(r.in)] \in Row
      /\ [r EXCEPT !.in = Rejoined(r.in)].id = r.id
      /\ [r EXCEPT !.in = Rejoined(r.in)].in = Rejoined(r.in)
  BY <1>2, <1>4 DEF Row
<1>7. /\ Received(p) \in Row /\ Received(p).id = r.id
      /\ Len(p.rows) # 1 => Received(p) = r
      /\ Len(p.rows) = 1 => Received(p).in = Rejoined(r.in)
  BY <1>2, <1>5, <1>6
<1>8. QED
  BY <1>2, <1>7 DEF r

\* A row overwrites the store it names.
LEMMA UpdateBooks ==
    ASSUME Books, NEW s \in Kept, NEW in \in Input,
           store' = [store EXCEPT ![s] = [store[s] EXCEPT !.in = in]],
           UNCHANGED <<list, used>>
    PROVE  Books' /\ DOMAIN store' = DOMAIN store
<1>1. s \in DOMAIN store /\ store[s] \in Store
  BY TableIds DEF Books
<1> DEFINE r == [store[s] EXCEPT !.in = in]
<1>2. r \in Store /\ r.brand = store[s].brand /\ r.kept = store[s].kept
  BY <1>1, StoreTypes
<1> HIDE DEF r
<1>3. store' = [store EXCEPT ![s] = r]
  BY DEF r
<1>4. /\ store' \in Seq(Store) /\ Len(store') = Len(store)
      /\ DOMAIN store' = DOMAIN store
      /\ store'[s] = r /\ \A j \in DOMAIN store \ {s} : store'[j] = store[j]
  BY <1>1, <1>2, <1>3, ExceptIn DEF Books, TableType
<1>5. \A j \in DOMAIN store : /\ store'[j].brand = store[j].brand
                              /\ store'[j].kept = store[j].kept
  BY <1>2, <1>4
<1>6. Kept' = Kept
  BY <1>4, <1>5 DEF Kept
<1>7. ListedByItsBrand'
  BY <1>5, <1>6, TableIds DEF Books, ListedByItsBrand
<1>8. QED
  BY <1>4, <1>6, <1>7 DEF Books, TableType

\* A store is created under its brand.
LEMMA CreateBooks ==
    ASSUME Books, NEW in \in Input, NEW b \in Brands, Created(in, b)
    PROVE  Books' /\ DOMAIN store \subseteq DOMAIN store'
<1> DEFINE n == Len(store) + 1
           r == New(in, b)
<1>1. r \in Store /\ r.brand = b /\ r.kept
  BY DEF New, Store
<1> HIDE DEF r
<1>2. store' = Append(store, r) /\ Len(store) < MaxStores
      /\ list' = [list EXCEPT ![b] = @ \cup {n}] /\ used' = used
  BY DEF Created, Listed, r
<1>3. /\ store' \in Seq(Store) /\ Len(store') = n
      /\ DOMAIN store' = DOMAIN store \cup {n}
      /\ store'[n] = r /\ \A j \in DOMAIN store : store'[j] = store[j]
  BY <1>1, <1>2, AppendIn DEF Books, TableType
<1>4. n \notin DOMAIN store
  BY TableIds DEF Books, TableType
<1>5. Kept' = Kept \cup {n}
  BY <1>1, <1>3 DEF Kept
<1>6. list' \in [Brands -> SUBSET DOMAIN store']
  BY <1>2, <1>3 DEF Books
<1>7. \A c \in Brands : list'[c] \subseteq Kept'
  BY <1>2, <1>5 DEF Books, ListedByItsBrand
<1>8. ASSUME NEW s \in Kept', NEW c \in Brands
      PROVE  s \in list'[c] <=> store'[s].brand = c
  <2>1. CASE s = n
    <3>1. n \notin list[c]
      BY <1>4 DEF Books
    <3>2. QED
      BY <1>1, <1>2, <1>3, <2>1, <3>1 DEF Books
  <2>2. CASE s \in Kept
    <3>1. s \in DOMAIN store /\ s # n
      BY <1>4, <2>2, TableIds DEF Books
    <3>2. s \in list'[c] <=> s \in list[c]
      BY <1>2, <3>1 DEF Books
    <3>3. QED
      BY <1>3, <2>2, <3>1, <3>2 DEF Books, ListedByItsBrand
  <2>3. QED
    BY <1>5, <2>1, <2>2
<1>9. TableType'
  BY <1>2, <1>3, BranchesAssumption DEF Books, TableType
<1>10. QED
  BY <1>2, <1>3, <1>5, <1>6, <1>7, <1>8, <1>9 DEF Books, ListedByItsBrand

\* A row of a save, whatever brand the save is for.
LEMMA WriteBooks ==
    ASSUME Books, NEW r \in Row, NEW b \in Brands, NEW single \in BOOLEAN,
           Written(r, b, single)
    PROVE  Books' /\ DOMAIN store \subseteq DOMAIN store'
<1>0. r.in \in Input
  BY DEF Row
<1>1. CASE r.id # 0 /\ UpdatedStore(r, b, single)
  <2>1. r.id \in Kept /\ store[r.id] \in Store
    BY <1>1, TableIds DEF UpdatedStore, Books
  <2>2. store[r.id].in.detail \in Details \cup {None}
    BY <2>1 DEF Store, Input
  <2> DEFINE in == IF single THEN [r.in EXCEPT !.detail = store[r.id].in.detail]
                   ELSE r.in
  <2>3. in \in Input
    BY <1>0, <2>2, InputTypes
  <2> HIDE DEF in
  <2>4. store' = [store EXCEPT ![r.id] = [store[r.id] EXCEPT !.in = in]]
    BY <1>1 DEF UpdatedStore, in
  <2>5. UNCHANGED <<list, used>>
    BY <1>1 DEF UpdatedStore
  <2>6. QED
    BY <2>1, <2>3, <2>4, <2>5, UpdateBooks
<1>2. CASE r.id = 0 /\ CreatedStore(r, b, single)
  <2>1. CASE r.in.addr = None
    <3>1. Stored(r.in, single) \in Input
      BY <1>0, InputTypes DEF Stored
    <3>2. Created(Stored(r.in, single), b)
      BY <1>2, <2>1 DEF CreatedStore
    <3>3. QED
      BY <3>1, <3>2, CreateBooks
  <2>2. CASE r.in.addr # None /\ HasAddr(r.in.addr) # {}
    <3>1. PICK s \in HasAddr(r.in.addr) : Adopted(r, b, s)
      BY <1>2, <2>2 DEF CreatedStore
    <3>2. s \in Kept /\ Listable(s)
      BY <3>1 DEF HasAddr, Adopted
    <3>3. QED
      BY <3>2, NeverAdopted
  <2>3. CASE r.in.addr # None /\ HasAddr(r.in.addr) = {}
    <3>1. PICK a \in {r.in.addr, None} :
             Created([r.in EXCEPT !.addr = a, !.detail = None], b)
      BY <1>2, <2>3 DEF CreatedStore
    <3>2. [r.in EXCEPT !.addr = a, !.detail = None] \in Input
      <4>1. a \in Addrs \cup {None}
        BY <1>0 DEF Input
      <4>2. QED
        BY <1>0, <4>1, InputTypes
    <3>3. QED
      BY <3>1, <3>2, CreateBooks
  <2>4. QED
    BY <2>1, <2>2, <2>3
<1>3. QED
  BY <1>1, <1>2 DEF Written

\* A store is deleted if it is in no list but that of the page's brand.
LEMMA DeleteBooks ==
    ASSUME Books, NEW d \in Deletion, Deletable(d),
           store' = [store EXCEPT ![d.id] = [store[d.id] EXCEPT !.kept = FALSE]],
           list' = [list EXCEPT ![d.brand] = @ \ {d.id}], used' = used
    PROVE  Books' /\ DOMAIN store' = DOMAIN store
<1>1. d.id \in Kept /\ d.id \notin used /\ d.brand \in Brands
  BY DEF Deletable, Deletion
<1>2. d.id \in DOMAIN store /\ store[d.id] \in Store
  BY <1>1, TableIds DEF Books
<1> DEFINE r == [store[d.id] EXCEPT !.kept = FALSE]
<1>3. r \in Store /\ r.brand = store[d.id].brand /\ r.kept = FALSE
  BY <1>2, StoreTypes
<1> HIDE DEF r
<1>4. store' = [store EXCEPT ![d.id] = r]
  BY DEF r
<1>5. /\ store' \in Seq(Store) /\ Len(store') = Len(store)
      /\ DOMAIN store' = DOMAIN store /\ store'[d.id] = r
      /\ \A j \in DOMAIN store \ {d.id} : store'[j] = store[j]
  BY <1>2, <1>3, <1>4, ExceptIn DEF Books, TableType
<1>6. Kept' = Kept \ {d.id}
  BY <1>3, <1>5 DEF Kept
<1>7. \A b \in Brands : list'[b] = list[b] \ {d.id}
  BY <1>1 DEF Deletable, Books
<1>8. list' \in [Brands -> SUBSET DOMAIN store']
  BY <1>1, <1>5 DEF Books
<1>9. ListedByItsBrand'
  <2>1. \A b \in Brands : list'[b] \subseteq Kept'
    BY <1>6, <1>7 DEF Books, ListedByItsBrand
  <2>2. ASSUME NEW s \in Kept', NEW b \in Brands
        PROVE  s \in list'[b] <=> store'[s].brand = b
    <3>1. s \in Kept /\ s # d.id /\ s \in DOMAIN store
      BY <1>6, TableIds DEF Books
    <3>2. QED
      BY <1>5, <1>7, <3>1 DEF Books, ListedByItsBrand
  <2>3. QED
    BY <2>1, <2>2 DEF ListedByItsBrand
<1>10. QED
  BY <1>1, <1>5, <1>6, <1>8, <1>9 DEF Books, TableType

-----------------------------------------------------------------------------
(* The pages and what they have sent. *)

PageType ==
    /\ brandId \in [Clients -> Brands \cup {None}]
    /\ rows \in [Clients -> Seq(Row)]
    /\ touched \in [Clients -> SUBSET Id]

SentType ==
    /\ loads \in [Clients -> Seq(Brands)]
    /\ posts \in [Clients -> Seq(Save)]
    /\ deletes \in [Clients -> Seq(Deletion)]

Inv == Books /\ PageType /\ SentType

LEMMA InvIsTyped == Inv => TypeOK
BY DEF Inv, Books, TableType, PageType, SentType, TypeOK, Kept

LEMMA SameBooks ==
    ASSUME Books, UNCHANGED server
    PROVE  Books'
BY DEF Books, TableType, ListedByItsBrand, Kept, server

LEMMA EditRow ==
    ASSUME Inv, NEW c \in Clients, NEW k \in DOMAIN rows[c],
           NEW in \in Input, trUpdater(c, k, in)
    PROVE  Inv'
<1>1. PICK n \in DOMAIN rows[c] :
         rows' = [rows EXCEPT ![c] =
                     [rows[c] EXCEPT ![n] = [rows[c][n] EXCEPT !.in = in]]]
  BY DEF trUpdater
<1>2. rows[c] \in Seq(Row) /\ rows[c][n] \in Row /\ rows[c][k] \in Row
  BY DEF Inv, PageType
<1> DEFINE r == [rows[c][n] EXCEPT !.in = in]
<1>3. r \in Row
  BY <1>2 DEF Row
<1>4. rows' = [rows EXCEPT ![c] = [rows[c] EXCEPT ![n] = r]]
  BY <1>1
<1> HIDE DEF r
<1>5. [rows[c] EXCEPT ![n] = r] \in Seq(Row)
  BY <1>2, <1>3, ExceptIn
<1>6. rows[c][k].id \in Id
  BY <1>2 DEF trUpdater, Row
<1>7. PageType'
  BY <1>4, <1>5, <1>6 DEF Inv, PageType, trUpdater
<1>8. QED
  BY <1>7, SameBooks DEF Inv, SentType, trUpdater, server

LEMMA AddRow ==
    ASSUME Inv, NEW c \in Clients, NEW in \in Input, addStoreForUpdate(c, in)
    PROVE  Inv'
<1>1. [id |-> 0, in |-> in] \in Row
  BY DEF Row
<1>2. Append(rows[c], [id |-> 0, in |-> in]) \in Seq(Row)
  BY <1>1, AppendIn DEF Inv, PageType
<1>3. PageType'
  BY <1>2 DEF Inv, PageType, addStoreForUpdate
<1>4. QED
  BY <1>3, SameBooks DEF Inv, SentType, addStoreForUpdate, server

LEMMA DropRow ==
    ASSUME Inv, NEW c \in Clients, NEW k \in DOMAIN rows[c],
           deleteTargetRowU(c, k)
    PROVE  Inv'
<1>1. rows[c] \in Seq(Row) /\ rows[c][k] \in Row
  BY DEF Inv, PageType
<1>2. RemoveAt(rows[c], k) \in Seq(Row)
  BY <1>1, RemoveIn
<1>3. PageType'
  BY <1>2 DEF Inv, PageType, deleteTargetRowU
<1>4. SentType'
  <2>1. CASE rows[c][k].id # 0
    <3> DEFINE d == [id |-> rows[c][k].id, brand |-> brandId[c]]
    <3>1. d \in Deletion
      BY <1>1, <2>1 DEF Row, Deletion, Inv, PageType
    <3>2. deletes' = [deletes EXCEPT ![c] = Append(deletes[c], d)]
      BY <2>1 DEF deleteTargetRowU
    <3> HIDE DEF d
    <3>3. Append(deletes[c], d) \in Seq(Deletion)
      BY <3>1, AppendIn DEF Inv, SentType
    <3>4. QED
      BY <3>2, <3>3 DEF Inv, SentType, deleteTargetRowU
  <2>2. CASE rows[c][k].id = 0
    BY <2>2 DEF Inv, SentType, deleteTargetRowU
  <2>3. QED
    BY <2>1, <2>2
<1>5. QED
  BY <1>3, <1>4, SameBooks DEF Inv, deleteTargetRowU, server

LEMMA PostRows ==
    ASSUME Inv, NEW c \in Clients, updateBranch(c)
    PROVE  Inv'
<1> DEFINE p == [brand |-> brandId[c], rows |-> rows[c], next |-> 1,
                 waits |-> TRUE, touched |-> touched[c]]
<1>1. p \in Save
  BY DEF Save, Inv, PageType, updateBranch
<1>2. posts' = [posts EXCEPT ![c] = Append(posts[c], p)]
  BY DEF updateBranch
<1> HIDE DEF p
<1>3. Append(posts[c], p) \in Seq(Save)
  BY <1>1, AppendIn DEF Inv, SentType
<1>4. SentType'
  BY <1>2, <1>3 DEF Inv, SentType, updateBranch
<1>5. QED
  BY <1>4, SameBooks DEF Inv, PageType, updateBranch, server, page

LEMMA ClickBrand ==
    ASSUME Inv, NEW c \in Clients, NEW b \in Brands, MainTrEvt(c, b)
    PROVE  Inv'
<1>1. Append(loads[c], b) \in Seq(Brands)
  BY AppendIn DEF Inv, SentType
<1>2. SentType'
  BY <1>1 DEF Inv, SentType, MainTrEvt
<1>3. PageType'
  BY EmptyIn DEF Inv, PageType, MainTrEvt
<1>4. QED
  BY <1>2, <1>3, SameBooks DEF Inv, MainTrEvt, server

LEMMA LoadRows ==
    ASSUME Inv, NEW c \in Clients, NEW i \in DOMAIN loads[c],
           SelectBrandById(c, i)
    PROVE  Inv'
<1> DEFINE b == loads[c][i]
<1>1. b \in Brands /\ list[b] \subseteq Kept
  BY DEF Inv, SentType, Books, ListedByItsBrand
<1>2. list[b] \subseteq Id /\ IsFiniteSet(list[b])
  <2>1. list[b] \subseteq DOMAIN store /\ DOMAIN store = 1 .. Len(store)
        /\ DOMAIN store \subseteq Id
    BY <1>1, TableIds DEF Inv, Books
  <2>2. IsFiniteSet(1 .. Len(store))
    BY FS_Interval DEF Inv, Books, TableType
  <2>3. QED
    BY <2>1, <2>2, FS_Subset
<1>3. PICK q \in SetToSeqs(list[b]) :
         rows' = [rows EXCEPT ![c] = @ \o RowsOf(q)]
  BY DEF SelectBrandById
<1>4. RowsOf(q) \in Seq(Row)
  <2>1. Cardinality(list[b]) \in Nat
    BY <1>2, FS_CardinalityType
  <2>2. q \in [1 .. Cardinality(list[b]) -> list[b]]
    BY <1>3 DEF SetToSeqs
  <2>3. \A k \in DOMAIN q : RowOf(q[k]) \in Row
    <3>1. SUFFICES ASSUME NEW k \in DOMAIN q PROVE RowOf(q[k]) \in Row
      OBVIOUS
    <3>2. q[k] \in Id /\ q[k] \in DOMAIN store
      BY <1>1, <1>2, <2>2, TableIds DEF Inv, Books
    <3>3. store[q[k]].in \in Input
      BY <3>2, TableIds DEF Inv, Books, Store
    <3>4. QED
      BY <3>2, <3>3 DEF RowOf, Row
  <2>4. RowsOf(q) \in [1 .. Cardinality(list[b]) -> Row]
    BY <2>2, <2>3 DEF RowsOf
  <2>5. QED
    BY <2>1, <2>4, TupleIn
<1>5. rows[c] \o RowsOf(q) \in Seq(Row)
  BY <1>4, ConcatIn DEF Inv, PageType
<1>6. brandId' = [brandId EXCEPT ![c] = b] /\ touched' = touched
      /\ loads' = [loads EXCEPT ![c] = RemoveAt(loads[c], i)]
      /\ UNCHANGED <<server, posts, deletes>>
  BY DEF SelectBrandById
<1>7. PageType'
  BY <1>1, <1>3, <1>5, <1>6 DEF Inv, PageType
<1>8. RemoveAt(loads[c], i) \in Seq(Brands)
  BY RemoveIn DEF Inv, SentType
<1>9. SentType'
  BY <1>6, <1>8 DEF Inv, SentType
<1>10. QED
  BY <1>6, <1>7, <1>9, SameBooks DEF Inv

LEMMA LoadNothing ==
    ASSUME Inv, NEW c \in Clients, NEW i \in DOMAIN loads[c], NothingArrives(c, i)
    PROVE  Inv'
<1>1. RemoveAt(loads[c], i) \in Seq(Brands)
  BY RemoveIn DEF Inv, SentType
<1>2. SentType' /\ PageType'
  BY <1>1 DEF Inv, SentType, PageType, NothingArrives, page
<1>3. QED
  BY <1>2, SameBooks DEF Inv, NothingArrives

LEMMA SaveRow ==
    ASSUME Inv, NEW c \in Clients, NEW i \in DOMAIN posts[c], saveRow(c, i)
    PROVE  Inv'
<1> DEFINE p == posts[c][i]
           r == Received(p)
<1>1. posts[c] \in Seq(Save) /\ p \in Save
  BY DEF Inv, SentType
<1>2. p.next \in Nat \ {0} /\ p.next <= Len(p.rows) /\ p.rows \in Seq(Row)
      /\ p.brand \in Brands
  BY <1>1 DEF Save, saveRow
<1>3. r \in Row
  BY <1>1, <1>2, ReceivedIn
<1>4. Books'
  <2>1. CASE Written(r, p.brand, Len(p.rows) = 1)
    BY <1>2, <1>3, <2>1, WriteBooks DEF Inv
  <2>2. CASE UNCHANGED server
    BY <2>2, SameBooks DEF Inv
  <2>3. QED
    BY <2>1, <2>2 DEF saveRow
<1> DEFINE q == [p EXCEPT !.next = p.next + 1]
<1>5. q \in Save
  <2>1. p.next + 1 \in Nat \ {0}
    BY <1>2
  <2> DEFINE m == p.next + 1
  <2> HIDE DEF p, m
  <2>2. [p EXCEPT !.next = m] \in Save
    BY <1>1, <2>1 DEF Save, m
  <2>3. QED
    BY <2>2 DEF m
<1>6. posts' = [posts EXCEPT ![c] = [posts[c] EXCEPT ![i] = q]]
  BY <1>1 DEF saveRow
<1> HIDE DEF q
<1>7. [posts[c] EXCEPT ![i] = q] \in Seq(Save)
  BY <1>1, <1>5, ExceptIn
<1>8. SentType'
  BY <1>6, <1>7 DEF Inv, SentType, saveRow
<1>9. PageType'
  BY DEF Inv, PageType, saveRow, page
<1>10. QED
  BY <1>4, <1>8, <1>9 DEF Inv

LEMMA EndSave ==
    ASSUME Inv, NEW c \in Clients, NEW i \in DOMAIN posts[c], saved(c, i)
    PROVE  Inv'
<1> DEFINE left == RemoveAt(posts[c], i)
           cut == [j \in DOMAIN left |-> [left[j] EXCEPT !.waits = FALSE]]
<1>1. left \in Seq(Save)
  BY RemoveIn DEF Inv, SentType
<1>2. posts' = [posts EXCEPT ![c] = IF posts[c][i].waits THEN cut ELSE left]
  BY DEF saved
<1> HIDE DEF left
<1>3. \A j \in DOMAIN left : [left[j] EXCEPT !.waits = FALSE] \in Save
  <2>1. SUFFICES ASSUME NEW j \in DOMAIN left
                 PROVE  [left[j] EXCEPT !.waits = FALSE] \in Save
    OBVIOUS
  <2>2. left[j] \in Save
    BY <1>1
  <2>3. QED
    BY <2>2 DEF Save
<1>4. cut \in Seq(Save)
  <2>1. cut \in [DOMAIN left -> Save]
    BY <1>3
  <2> HIDE DEF cut
  <2>2. QED
    BY <1>1, <2>1, SameLengthIn
<1>5. SentType' /\ PageType'
  <2> HIDE DEF cut
  <2>1. CASE posts[c][i].waits
    <3>1. posts' \in [Clients -> Seq(Save)]
      BY <1>2, <1>4, <2>1 DEF Inv, SentType
    <3>2. loads' \in [Clients -> Seq(Brands)] /\ deletes' = deletes
      BY <2>1, EmptyIn DEF Inv, SentType, saved
    <3>3. PageType'
      <4>1. brandId' \in [Clients -> Brands \cup {None}]
        BY <2>1 DEF Inv, PageType, saved
      <4>2. rows' \in [Clients -> Seq(Row)]
        <5>1. rows' = [rows EXCEPT ![c] = <<>>] /\ <<>> \in Seq(Row)
          BY <2>1, EmptyIn DEF saved
        <5>2. QED
          BY <5>1 DEF Inv, PageType
      <4>3. touched' \in [Clients -> SUBSET Id]
        BY <2>1 DEF Inv, PageType, saved
      <4>4. QED
        BY <4>1, <4>2, <4>3 DEF PageType
    <3>4. QED
      BY <3>1, <3>2, <3>3 DEF Inv, SentType
  <2>2. CASE ~posts[c][i].waits
    BY <1>1, <1>2, <2>2 DEF Inv, SentType, PageType, saved, page
  <2>3. QED
    BY <2>1, <2>2
<1>6. QED
  BY <1>5, SameBooks DEF Inv, saved

LEMMA DeleteStore ==
    ASSUME Inv, NEW c \in Clients, NEW i \in DOMAIN deletes[c],
           deleteBranch(c, i)
    PROVE  Inv'
<1> DEFINE d == deletes[c][i]
<1>1. deletes[c] \in Seq(Deletion) /\ d \in Deletion
  BY DEF Inv, SentType
<1>2. Books'
  <2>1. CASE Deletable(d)
    <3>1. store' = [store EXCEPT ![d.id] = [store[d.id] EXCEPT !.kept = FALSE]]
          /\ list' = [list EXCEPT ![d.brand] = @ \ {d.id}] /\ used' = used
      BY <2>1 DEF deleteBranch
    <3> HIDE DEF d
    <3>2. QED
      BY <1>1, <2>1, <3>1, DeleteBooks DEF Inv
  <2>2. CASE ~Deletable(d)
    BY <2>2, SameBooks DEF Inv, deleteBranch, server
  <2>3. QED
    BY <2>1, <2>2
<1>3. RemoveAt(deletes[c], i) \in Seq(Deletion)
  BY <1>1, RemoveIn
<1>4. SentType'
  BY <1>3 DEF Inv, SentType, deleteBranch
<1>5. PageType'
  BY DEF Inv, PageType, deleteBranch, page
<1>6. QED
  BY <1>2, <1>4, <1>5 DEF Inv

LEMMA ImportStore ==
    ASSUME Inv, NEW b \in Brands, NEW t \in Titles, importExcel(b, t)
    PROVE  Inv'
<1>0. PICK a \in Addrs :
         Created([title |-> t, company |-> None, addr |-> a, detail |-> None], b)
  BY DEF importExcel
<1> DEFINE in == [title |-> t, company |-> None, addr |-> a, detail |-> None]
<1>1. in \in Input
  BY DEF Input
<1>2. Created(in, b)
  BY <1>0
<1> HIDE DEF in
<1>3. Books'
  BY <1>1, <1>2, CreateBooks DEF Inv
<1>4. QED
  BY <1>3 DEF Inv, PageType, SentType, importExcel, page

LEMMA ReferStore ==
    ASSUME Inv, NEW s \in Kept, refer(s)
    PROVE  Inv'
<1>1. Books'
  BY DEF Inv, Books, TableType, ListedByItsBrand, Kept, refer
<1>2. QED
  BY <1>1 DEF Inv, PageType, SentType, refer, page

LEMMA Stutter == Inv /\ UNCHANGED vars => Inv'
<1> SUFFICES ASSUME Inv, UNCHANGED vars PROVE Inv'
  OBVIOUS
<1>1. Books'
  BY SameBooks DEF Inv, vars
<1>2. QED
  BY <1>1 DEF Inv, PageType, SentType, vars, page

LEMMA NextInv == Inv /\ [Next]_vars => Inv'
<1> SUFFICES ASSUME Inv, Next PROVE Inv'
  BY Stutter
<1>1. CASE \E c \in Clients, b \in Brands : MainTrEvt(c, b)
  BY <1>1, ClickBrand
<1>2. CASE \E c \in Clients : \E k \in DOMAIN rows[c], in \in Input :
              trUpdater(c, k, in)
  BY <1>2, EditRow
<1>3. CASE \E c \in Clients, in \in Input : addStoreForUpdate(c, in)
  BY <1>3, AddRow
<1>4. CASE \E c \in Clients : \E k \in DOMAIN rows[c] : deleteTargetRowU(c, k)
  BY <1>4, DropRow
<1>5. CASE \E c \in Clients : updateBranch(c)
  BY <1>5, PostRows
<1>6. CASE \E c \in Clients : Serve(c)
  <2>1. PICK c \in Clients : Serve(c)
    BY <1>6
  <2>2. CASE \E i \in DOMAIN posts[c] : saveRow(c, i) \/ saved(c, i)
    BY <2>2, SaveRow, EndSave
  <2>3. CASE \E i \in DOMAIN deletes[c] : deleteBranch(c, i)
    BY <2>3, DeleteStore
  <2>4. CASE \E i \in DOMAIN loads[c] : SelectBrandById(c, i) \/ NothingArrives(c, i)
    BY <2>4, LoadRows, LoadNothing
  <2>5. QED
    BY <2>1, <2>2, <2>3, <2>4 DEF Serve
<1>7. CASE \E b \in Brands, t \in Titles : importExcel(b, t)
  BY <1>7, ImportStore
<1>8. CASE \E s \in Kept : refer(s)
  BY <1>8, ReferStore
<1>9. QED
  BY <1>1, <1>2, <1>3, <1>4, <1>5, <1>6, <1>7, <1>8 DEF Next

LEMMA InitInv == Init => Inv
<1> SUFFICES ASSUME Init PROVE Inv
  OBVIOUS
<1>1. Kept = {} /\ Books
  BY BranchesAssumption, EmptyIn
     DEF Init, Books, TableType, ListedByItsBrand, Kept
<1>2. PageType /\ SentType
  BY EmptyIn DEF Init, PageType, SentType
<1>3. QED
  BY <1>1, <1>2 DEF Inv

LEMMA InvAlways == Spec => []Inv
BY InitInv, NextInv, PTL DEF Spec

-----------------------------------------------------------------------------
(* The theorems. *)

\* Every variable keeps its type.
THEOREM TypeCorrect == Spec => []TypeOK
BY InvAlways, InvIsTyped, PTL

\* Every store is in the list of its own brand and in no other, for any
\* number of browsers, whether or not their users wait for answers.
THEOREM StoresListed == Spec => []ListedByItsBrand
<1>1. Inv => ListedByItsBrand
  BY DEF Inv, Books
<1>2. QED
  BY <1>1, InvAlways, PTL

\* A store that orders were written for is never deleted.
THEOREM UsedStoresStay == Spec => []UsedStays
<1>1. Inv => UsedStays
  <2> SUFFICES ASSUME Inv, NEW s \in used
               PROVE  s \in Kept /\ s \in list[store[s].brand]
    BY DEF UsedStays
  <2>1. s \in Kept /\ store[s].brand \in Brands
    BY TableIds DEF Inv, Books
  <2>2. QED
    BY <2>1 DEF Inv, Books, ListedByItsBrand
<1>2. QED
  BY <1>1, InvAlways, PTL

-----------------------------------------------------------------------------
(* What a save changes, when one user works and waits for answers: the rows  *)
(* that were not edited still are what the table holds.                      *)

\* A row of a store is as the table has it, unless its store was edited.
FreshRow(r, edited) ==
    r.id # 0 => /\ r.id \in DOMAIN store
                /\ r.id \notin edited => r.in = store[r.id].in

FreshRows(q, edited) == \A k \in DOMAIN q : FreshRow(q[k], edited)

\* The rows of a save that are still to be written.
Due(p, edited) == \A k \in DOMAIN p.rows : k >= p.next => FreshRow(p.rows[k], edited)

\* A page that waits for stores is empty; a page that waits for its save is
\* still the page that was saved.  What a save has written may differ from the
\* page, when it was a single row.
FreshPages ==
    \A c \in Clients :
        /\ posts[c] = <<>> => FreshRows(rows[c], touched[c])
        /\ loads[c] # <<>> => /\ rows[c] = <<>> /\ posts[c] = <<>>
                              /\ Len(loads[c]) = 1
        /\ Len(posts[c]) <= 1
        /\ \A i \in DOMAIN posts[c] :
              /\ posts[c][i].waits /\ posts[c][i].touched = touched[c]
              /\ Due(posts[c][i], touched[c])

\* Stores keep their input in a step, but for the one in s.
Keeps(S) ==
    /\ DOMAIN store \subseteq DOMAIN store'
    /\ \A s \in DOMAIN store \ S : store'[s].in = store[s].in

LEMMA CreateKeeps ==
    ASSUME Books, NEW in \in Input, NEW b \in Brands, Created(in, b)
    PROVE  Keeps({})
<1>1. New(in, b) \in Store
  BY DEF New, Store
<1>2. QED
  BY <1>1, AppendIn DEF Books, TableType, Created, Keeps

\* A row of a save changes the input of its own store only, to what it says.
LEMMA WriteKeeps ==
    ASSUME Books, NEW r \in Row, NEW b \in Brands, NEW single \in BOOLEAN,
           Written(r, b, single)
    PROVE  /\ Keeps({r.id})
           /\ r.id \in DOMAIN store =>
                 store'[r.id].in = IF single THEN [r.in EXCEPT !.detail = store[r.id].in.detail]
                                   ELSE r.in
<1>0. r.in \in Input /\ 0 \notin DOMAIN store
  BY TableIds DEF Row, Books
<1>1. CASE r.id # 0 /\ UpdatedStore(r, b, single)
  <2>1. r.id \in DOMAIN store /\ store[r.id] \in Store
    BY <1>1, TableIds DEF UpdatedStore, Books
  <2>2. store[r.id].in \in Input /\ store[r.id].in.detail \in Details \cup {None}
    BY <2>1 DEF Store, Input
  <2> DEFINE in == IF single THEN [r.in EXCEPT !.detail = store[r.id].in.detail]
                   ELSE r.in
             new == [store[r.id] EXCEPT !.in = in]
  <2>3. in \in Input
    BY <1>0, <2>2, InputTypes
  <2> HIDE DEF in
  <2>5. new \in Store /\ new.in = in
    BY <2>1, <2>3 DEF Store
  <2>6. store' = [store EXCEPT ![r.id] = new]
    BY <1>1 DEF UpdatedStore, in
  <2> HIDE DEF new
  <2>7. /\ DOMAIN store' = DOMAIN store /\ store'[r.id] = new
        /\ \A j \in DOMAIN store \ {r.id} : store'[j] = store[j]
    BY <2>1, <2>5, <2>6, ExceptIn DEF Books, TableType
  <2>8. store'[r.id].in = in
    BY <2>5, <2>7
  <2>9. Keeps({r.id})
    BY <2>7 DEF Keeps
  <2>10. QED
    BY <2>8, <2>9 DEF in
<1>2. CASE r.id = 0 /\ CreatedStore(r, b, single)
  <2>1. ASSUME NEW in \in Input, Created(in, b) PROVE Keeps({r.id})
    BY <2>1, CreateKeeps DEF Keeps
  <2>2. CASE r.in.addr = None
    <3>1. Stored(r.in, single) \in Input
      BY <1>0, InputTypes DEF Stored
    <3>2. Keeps({r.id})
      BY <1>2, <2>1, <2>2, <3>1 DEF CreatedStore
    <3>3. QED
      BY <1>0, <1>2, <3>2
  <2>3. CASE r.in.addr # None /\ HasAddr(r.in.addr) # {}
    <3>1. PICK s \in HasAddr(r.in.addr) : Adopted(r, b, s)
      BY <1>2, <2>3 DEF CreatedStore
    <3>2. s \in Kept /\ Listable(s)
      BY <3>1 DEF HasAddr, Adopted
    <3>3. QED
      BY <3>2, NeverAdopted
  <2>4. CASE r.in.addr # None /\ HasAddr(r.in.addr) = {}
    <3>1. PICK a \in {r.in.addr, None} :
             Created([r.in EXCEPT !.addr = a, !.detail = None], b)
      BY <1>2, <2>4 DEF CreatedStore
    <3>2. a \in Addrs \cup {None}
      BY <1>0 DEF Input
    <3>3. [r.in EXCEPT !.addr = a, !.detail = None] \in Input
      BY <1>0, <3>2, InputTypes
    <3>4. Keeps({r.id})
      BY <2>1, <3>1, <3>3
    <3>5. QED
      BY <1>0, <1>2, <3>4
  <2>5. QED
    BY <2>2, <2>3, <2>4
<1>3. QED
  BY <1>1, <1>2 DEF Written

\* Rows stay fresh while the table changes only what was edited.
LEMMA FreshKept ==
    ASSUME NEW q, NEW edited, FreshRows(q, edited), NEW S, S \subseteq edited, Keeps(S)
    PROVE  FreshRows(q, edited)'
BY DEF FreshRows, FreshRow, Keeps

\* A user who waits acts on a page whose requests have all been answered.
LEMMA IdleFresh ==
    ASSUME Careful, FreshPages, NEW c \in Clients, MayAct(c)
    PROVE  /\ loads[c] = <<>> /\ posts[c] = <<>>
           /\ FreshRows(rows[c], touched[c])
BY DEF MayAct, Idle, FreshPages

\* A click, an edit, a new row, a row less, a save: nothing is in the table yet.
LEMMA ActFresh ==
    ASSUME Careful, \A c, d \in Clients : c = d, Inv, FreshPages, NEW c \in Clients,
           \/ \E b \in Brands : MainTrEvt(c, b)
           \/ \E k \in DOMAIN rows[c], in \in Input : trUpdater(c, k, in)
           \/ \E in \in Input : addStoreForUpdate(c, in)
           \/ \E k \in DOMAIN rows[c] : deleteTargetRowU(c, k)
           \/ updateBranch(c)
    PROVE  FreshPages' /\ store' = store
<1>1. MayAct(c) /\ store' = store
  BY DEF MainTrEvt, trUpdater, addStoreForUpdate, deleteTargetRowU, updateBranch, server
<1>2. loads[c] = <<>> /\ posts[c] = <<>> /\ FreshRows(rows[c], touched[c])
  BY <1>1, IdleFresh
<1>3. \A d \in Clients : d = c
  OBVIOUS
<1>4. \A q, edited : FreshRows(q, edited)' = FreshRows(q, edited)
  BY <1>1 DEF FreshRows, FreshRow
<1>4a. \A p, edited : FreshRows(p.rows, edited) => Due(p, edited)'
  BY <1>1 DEF FreshRows, FreshRow, Due
<1>5. /\ rows \in [Clients -> Seq(Row)] /\ touched \in [Clients -> SUBSET Id]
      /\ loads \in [Clients -> Seq(Brands)] /\ posts \in [Clients -> Seq(Save)]
      /\ rows[c] \in Seq(Row)
  BY DEF Inv, PageType, SentType
<1>6. ASSUME NEW b \in Brands, MainTrEvt(c, b) PROVE FreshPages'
  <2>1. rows'[c] = <<>> /\ posts'[c] = <<>> /\ loads'[c] = Append(<<>>, b)
    BY <1>2, <1>5, <1>6 DEF MainTrEvt
  <2>2. Len(loads'[c]) = 1 /\ Len(posts'[c]) = 0 /\ DOMAIN posts'[c] = {}
    BY <2>1
  <2>3. FreshRows(rows'[c], touched'[c])
    <3>1. DOMAIN rows'[c] = {}
      BY <2>1
    <3>2. QED
      BY <3>1 DEF FreshRows
  <2>4. FreshRows(rows[c], touched[c])'
    BY <1>4, <2>3
  <2>5. \A i \in DOMAIN posts'[c] :
           /\ posts'[c][i].waits /\ posts'[c][i].touched = touched'[c]
           /\ Due(posts[c][i], touched[c])'
    BY <2>2
  <2>6. loads'[c] # <<>> => rows'[c] = <<>> /\ posts'[c] = <<>> /\ Len(loads'[c]) = 1
    BY <2>1, <2>2
  <2>7. Len(posts'[c]) <= 1
    BY <2>2
  <2>8. QED
    BY <1>3, <2>4, <2>5, <2>6, <2>7 DEF FreshPages
<1>7. ASSUME UNCHANGED <<loads, posts>>, FreshRows(rows'[c], touched'[c])
      PROVE  FreshPages'
  BY <1>2, <1>3, <1>4, <1>7 DEF FreshPages
<1>8. ASSUME NEW k \in DOMAIN rows[c], NEW in \in Input, trUpdater(c, k, in)
      PROVE  FreshPages'
  <2> DEFINE id == rows[c][k].id
  <2>1. PICK n \in DOMAIN rows[c] :
           /\ IsRowOf(c, n, id)
           /\ rows' = [rows EXCEPT ![c] =
                         [rows[c] EXCEPT ![n] = [rows[c][n] EXCEPT !.in = in]]]
    BY <1>8 DEF trUpdater
  <2>2. touched'[c] = touched[c] \cup {id} /\ UNCHANGED <<loads, posts>>
    BY <1>5, <1>8 DEF trUpdater
  <2> DEFINE r == [rows[c][n] EXCEPT !.in = in]
  <2>3. rows[c][n] \in Row
    BY <1>5
  <2>4. r \in Row /\ r.id = id
    BY <2>1, <2>3 DEF Row, IsRowOf
  <2>5. rows'[c] = [rows[c] EXCEPT ![n] = r]
    BY <1>5, <2>1
  <2>5a. id \in DOMAIN store
    BY <1>2, <1>8 DEF trUpdater, FreshRows, FreshRow
  <2> HIDE DEF r, id
  <2>6. /\ DOMAIN rows'[c] = DOMAIN rows[c] /\ rows'[c][n] = r
        /\ \A j \in DOMAIN rows[c] \ {n} : rows'[c][j] = rows[c][j]
    BY <1>5, <2>4, <2>5, ExceptIn
  <2>7. FreshRow(r, touched'[c])
    BY <2>2, <2>4, <2>5a DEF FreshRow
  <2>8. FreshRows(rows'[c], touched'[c])
    BY <1>2, <2>2, <2>6, <2>7 DEF FreshRows, FreshRow
  <2>9. QED
    BY <1>7, <2>2, <2>8
<1>9. ASSUME NEW in \in Input, addStoreForUpdate(c, in) PROVE FreshPages'
  <2> DEFINE r == [id |-> 0, in |-> in]
  <2>1. r \in Row /\ r.id = 0
    BY DEF Row
  <2>2. rows' = [rows EXCEPT ![c] = Append(rows[c], r)]
    BY <1>9 DEF addStoreForUpdate
  <2> HIDE DEF r
  <2>3. /\ DOMAIN rows'[c] = DOMAIN rows[c] \cup {Len(rows[c]) + 1}
        /\ rows'[c][Len(rows[c]) + 1] = r
        /\ \A j \in DOMAIN rows[c] : rows'[c][j] = rows[c][j]
    BY <1>5, <2>1, <2>2, AppendIn
  <2>4. UNCHANGED <<loads, posts, touched>>
    BY <1>9 DEF addStoreForUpdate
  <2>5. FreshRows(rows'[c], touched'[c])
    BY <1>2, <2>1, <2>3, <2>4 DEF FreshRows, FreshRow
  <2>6. QED
    BY <1>7, <2>4, <2>5
<1>10. ASSUME NEW k \in DOMAIN rows[c], deleteTargetRowU(c, k) PROVE FreshPages'
  <2>1. rows'[c] = RemoveAt(rows[c], k) /\ UNCHANGED <<loads, posts, touched>>
    BY <1>5, <1>10 DEF deleteTargetRowU
  <2>2. \A j \in DOMAIN RemoveAt(rows[c], k) : \E i \in DOMAIN rows[c] :
           RemoveAt(rows[c], k)[j] = rows[c][i]
    BY <1>5, RemovedFrom
  <2>3. FreshRows(rows'[c], touched'[c])
    BY <1>2, <2>1, <2>2 DEF FreshRows
  <2>4. QED
    BY <1>7, <2>1, <2>3
<1>11. ASSUME updateBranch(c) PROVE FreshPages'
  <2> DEFINE p == [brand |-> brandId[c], rows |-> rows[c], next |-> 1,
                   waits |-> TRUE, touched |-> touched[c]]
  <2>1. p.waits /\ p.touched = touched[c] /\ p.rows = rows[c]
    OBVIOUS
  <2>2. posts' = [posts EXCEPT ![c] = Append(posts[c], p)]
    BY <1>11 DEF updateBranch
  <2> HIDE DEF p
  <2>3. posts'[c] = Append(<<>>, p)
    BY <1>2, <1>5, <2>2
  <2>4. Len(posts'[c]) = 1 /\ DOMAIN posts'[c] = {1} /\ posts'[c][1] = p
    BY <2>3
  <2>5. UNCHANGED <<loads, rows, touched>>
    BY <1>11 DEF updateBranch, page
  <2>6. FreshRows(rows[c], touched[c])' /\ Due(posts[c][1], touched[c])'
    BY <1>2, <1>4, <1>4a, <2>1, <2>4, <2>5
  <2>7. \A i \in DOMAIN posts'[c] :
           /\ posts'[c][i].waits /\ posts'[c][i].touched = touched'[c]
           /\ Due(posts[c][i], touched[c])'
    BY <2>1, <2>4, <2>5, <2>6
  <2>8. loads'[c] = <<>> /\ Len(posts'[c]) <= 1
    BY <1>2, <2>4, <2>5
  <2>9. QED
    BY <1>3, <2>6, <2>7, <2>8 DEF FreshPages
<1>12. FreshPages'
  <2> HIDE <1>1, <1>2, <1>3, <1>4, <1>4a, <1>5, <1>7
  <2>1. QED
    BY <1>6, <1>8, <1>9, <1>10, <1>11
<1>13. QED
  BY <1>1, <1>12

\* What a row of a save may do to a store: nothing, or what was edited, or what
\* the page of a single row does to it.
MayChange(s, p) ==
    \/ s \in p.touched
    \/ Len(p.rows) = 1 /\ store'[s].in = Rejoined(store[s].in)

\* A row of a save is stored.
LEMMA RowChanges ==
    ASSUME Inv, FreshPages, NEW c \in Clients, NEW i \in DOMAIN posts[c],
           Written(Received(posts[c][i]), posts[c][i].brand, Len(posts[c][i].rows) = 1),
           posts[c][i].next <= Len(posts[c][i].rows)
    PROVE  /\ Keeps({Received(posts[c][i]).id})
           /\ \A s \in DOMAIN store :
                 store'[s].in # store[s].in => MayChange(s, posts[c][i])
           /\ Len(posts[c][i].rows) # 1 => Keeps(touched[c])
<1> DEFINE p == posts[c][i]
           r == Received(p)
           old == p.rows[p.next]
           single == Len(p.rows) = 1
<1>0. posts[c] \in Seq(Save) /\ p \in Save
  BY DEF Inv, SentType
<1>1. p \in Save /\ p.brand \in Brands /\ p.next \in Nat
  BY <1>0 DEF Save
<1>2. /\ p.next \in DOMAIN p.rows /\ old \in Row /\ r \in Row /\ r.id = old.id
      /\ ~single => r = old
      /\ single => r.in = Rejoined(old.in)
  BY <1>1, ReceivedIn
<1>3. /\ Keeps({r.id})
      /\ r.id \in DOMAIN store =>
            store'[r.id].in = IF single THEN [r.in EXCEPT !.detail = store[r.id].in.detail]
                              ELSE r.in
  BY <1>1, <1>2, WriteKeeps DEF Inv
<1>4. p.touched = touched[c] /\ FreshRow(old, touched[c])
  BY <1>1, <1>2 DEF FreshPages, Due
<1>5. 0 \notin DOMAIN store
  BY TableIds DEF Inv, Books
<1> HIDE DEF p, r, old, single
<1>6. ASSUME r.id \in DOMAIN store, r.id \notin touched[c]
      PROVE  /\ ~single => store'[r.id].in = store[r.id].in
             /\ single => store'[r.id].in = Rejoined(store[r.id].in)
  <2>1. old.in = store[r.id].in
    BY <1>2, <1>4, <1>5, <1>6 DEF FreshRow
  <2>2. CASE ~single
    BY <1>2, <1>3, <1>6, <2>1, <2>2
  <2>3. CASE single
    <3>1. old.in \in Input
      BY <1>2 DEF Row
    <3>2. Rejoined(old.in) \in Input /\ Rejoined(old.in).detail = old.in.detail
      BY <3>1, RejoinedIn
    <3>3. [Rejoined(old.in) EXCEPT !.detail = old.in.detail] = Rejoined(old.in)
      BY <3>2 DEF Input
    <3>4. QED
      BY <1>2, <1>3, <1>6, <2>1, <2>3, <3>3
  <2>4. QED
    BY <2>2, <2>3
<1>7. ASSUME NEW s \in DOMAIN store, store'[s].in # store[s].in
      PROVE  MayChange(s, p)
  <2>1. s = r.id
    BY <1>3, <1>7 DEF Keeps
  <2>2. s \notin touched[c] => single /\ store'[s].in = Rejoined(store[s].in)
    BY <1>6, <1>7, <2>1
  <2>3. QED
    BY <1>4, <2>2 DEF MayChange, single
<1>8. ~single => Keeps(touched[c])
  BY <1>3, <1>6 DEF Keeps
<1>9. QED
  BY <1>3, <1>7, <1>8 DEF p, r, single

LEMMA SaveFresh ==
    ASSUME \A c, d \in Clients : c = d, Inv, FreshPages,
           NEW c \in Clients, NEW i \in DOMAIN posts[c], saveRow(c, i)
    PROVE  /\ FreshPages'
           /\ \A s \in DOMAIN store :
                 store'[s].in # store[s].in => MayChange(s, posts[c][i])
<1> DEFINE p == posts[c][i]
           r == Received(p)
<1>1. posts \in [Clients -> Seq(Save)] /\ posts[c] \in Seq(Save) /\ p \in Save
  BY DEF Inv, SentType
<1>2. p.next \in Nat \ {0} /\ p.next <= Len(p.rows) /\ p.rows \in Seq(Row)
      /\ p.brand \in Brands
  BY <1>1 DEF Save, saveRow
<1>4. p.waits /\ p.touched = touched[c] /\ Due(p, touched[c])
  BY DEF FreshPages
<1>5. \/ Written(r, p.brand, Len(p.rows) = 1)
      \/ UNCHANGED server
  BY DEF saveRow
<1>6. \A s \in DOMAIN store : store'[s].in # store[s].in => MayChange(s, p)
  BY <1>2, <1>5, RowChanges DEF server
<1>7. Len(p.rows) # 1 => Keeps(touched[c])
  BY <1>2, <1>5, RowChanges DEF server, Keeps
<1>8. UNCHANGED <<rows, touched, loads>>
  BY DEF saveRow, page
<1> DEFINE q == [p EXCEPT !.next = p.next + 1]
<1>9. q \in Save /\ q.waits = p.waits /\ q.touched = p.touched /\ q.rows = p.rows
      /\ q.next = p.next + 1
  <2> DEFINE m == p.next + 1
  <2>1. m \in Nat \ {0}
    BY <1>2
  <2> HIDE DEF p, m
  <2>2. /\ [p EXCEPT !.next = m] \in Save /\ [p EXCEPT !.next = m].waits = p.waits
        /\ [p EXCEPT !.next = m].touched = p.touched
        /\ [p EXCEPT !.next = m].rows = p.rows
        /\ [p EXCEPT !.next = m].next = m
    BY <1>1, <2>1 DEF Save
  <2>3. QED
    BY <2>2 DEF m
<1>10. posts' = [posts EXCEPT ![c] = [posts[c] EXCEPT ![i] = q]]
  BY <1>1 DEF saveRow
<1> HIDE DEF q
<1>11. /\ Len(posts'[c]) = Len(posts[c]) /\ DOMAIN posts'[c] = DOMAIN posts[c]
       /\ posts'[c][i] = q
  BY <1>1, <1>9, <1>10, ExceptIn
<1>12. posts[c] # <<>> /\ posts'[c] # <<>>
  BY <1>1, <1>11
<1>13. \A d \in Clients : d = c
  OBVIOUS
<1>13a. DOMAIN posts[c] = {i}
  <2>1. Len(posts[c]) <= 1
    BY DEF FreshPages
  <2>2. QED
    BY <1>1, <2>1
<1>14. Due(posts[c][i], touched[c])'
  <2>1. SUFFICES ASSUME NEW k \in DOMAIN q.rows, k >= q.next
                 PROVE  FreshRow(posts[c][i].rows[k], touched[c])'
    BY <1>11 DEF Due
  <2>2. k \in DOMAIN p.rows /\ k > p.next
    BY <1>2, <1>9, <2>1
  <2>3. FreshRow(p.rows[k], touched[c]) /\ Len(p.rows) # 1
    BY <1>2, <1>4, <2>2 DEF Due
  <2>4. posts'[c][i].rows[k] = p.rows[k]
    BY <1>9, <1>11
  <2>5. QED
    BY <1>7, <1>8, <2>3, <2>4 DEF FreshRow, Keeps
<1>15. FreshPages'
  <2>1. loads'[c] = <<>>
    BY <1>8, <1>12 DEF FreshPages
  <2>2. Len(posts'[c]) <= 1
    BY <1>11 DEF FreshPages
  <2>3. ASSUME NEW j \in DOMAIN posts'[c]
        PROVE  /\ posts'[c][j].waits /\ posts'[c][j].touched = touched'[c]
               /\ Due(posts[c][j], touched[c])'
    <3>1. j = i /\ posts'[c][j] = q
      BY <1>11, <1>13a
    <3>2. QED
      BY <1>4, <1>8, <1>9, <1>14, <3>1
  <2>4. QED
    BY <1>12, <1>13, <2>1, <2>2, <2>3 DEF FreshPages
<1>16. QED
  BY <1>6, <1>15

\* The stores of a brand arrive, on a page that waited for them.
LEMMA LoadFresh ==
    ASSUME \A c, d \in Clients : c = d, Inv, FreshPages,
           NEW c \in Clients, NEW i \in DOMAIN loads[c], SelectBrandById(c, i)
    PROVE  FreshPages' /\ store' = store
<1>1. /\ rows \in [Clients -> Seq(Row)] /\ touched \in [Clients -> SUBSET Id]
      /\ loads \in [Clients -> Seq(Brands)] /\ posts \in [Clients -> Seq(Save)]
      /\ loads[c] \in Seq(Brands)
  BY DEF Inv, PageType, SentType
<1>2. rows[c] = <<>> /\ posts[c] = <<>> /\ Len(loads[c]) = 1
  <2>1. loads[c] # <<>>
    BY <1>1
  <2>2. QED
    BY <2>1 DEF FreshPages
<1> DEFINE b == loads[c][i]
<1>3. b \in Brands /\ list[b] \subseteq DOMAIN store
  BY <1>1 DEF Inv, Books
<1>4. PICK q \in SetToSeqs(list[b]) :
         rows' = [rows EXCEPT ![c] = @ \o RowsOf(q)]
  BY DEF SelectBrandById
<1>5. /\ loads' = [loads EXCEPT ![c] = RemoveAt(loads[c], i)]
      /\ UNCHANGED <<store, touched, posts>>
  BY DEF SelectBrandById, server
<1>6. RowsOf(q) \in Seq(Row) /\ \A k \in DOMAIN RowsOf(q) : FreshRow(RowsOf(q)[k], {})
  <2>1. list[b] \subseteq Id /\ IsFiniteSet(list[b])
    <3>1. DOMAIN store = 1 .. Len(store) /\ DOMAIN store \subseteq Id
      BY TableIds DEF Inv, Books
    <3>2. IsFiniteSet(1 .. Len(store))
      BY FS_Interval DEF Inv, Books, TableType
    <3>3. QED
      BY <1>3, <3>1, <3>2, FS_Subset
  <2>2. Cardinality(list[b]) \in Nat
    BY <2>1, FS_CardinalityType
  <2>3. q \in [1 .. Cardinality(list[b]) -> list[b]]
    BY <1>4 DEF SetToSeqs
  <2>4. ASSUME NEW k \in DOMAIN q
        PROVE  RowOf(q[k]) \in Row /\ FreshRow(RowOf(q[k]), {})
    <3>1. q[k] \in Id /\ q[k] \in DOMAIN store
      BY <1>3, <2>1, <2>3, <2>4
    <3>2. store[q[k]].in \in Input
      BY <3>1, TableIds DEF Inv, Books, Store
    <3>3. QED
      BY <3>1, <3>2 DEF RowOf, Row, FreshRow
  <2>5. RowsOf(q) \in [1 .. Cardinality(list[b]) -> Row]
    BY <2>3, <2>4 DEF RowsOf
  <2>6. QED
    BY <2>2, <2>3, <2>4, <2>5, TupleIn DEF RowsOf
<1>7. rows'[c] = RowsOf(q)
  <2>1. <<>> \o RowsOf(q) = RowsOf(q)
    BY <1>6
  <2>2. QED
    BY <1>1, <1>2, <1>4, <2>1
<1>8. loads'[c] = <<>>
  <2>1. RemoveAt(loads[c], i) \in Seq(Brands)
    BY <1>1, RemoveIn
  <2>2. Len(RemoveAt(loads[c], i)) = Len(loads[c]) - 1
    BY <1>1, RemovedFrom
  <2>3. RemoveAt(loads[c], i) = <<>>
    BY <1>2, <2>1, <2>2
  <2>4. QED
    BY <1>1, <1>5, <2>3
<1>9. FreshRows(rows[c], touched[c])'
  BY <1>5, <1>6, <1>7 DEF FreshRows, FreshRow
<1>10. posts'[c] = <<>> /\ Len(posts'[c]) = 0 /\ DOMAIN posts'[c] = {}
  BY <1>2, <1>5
<1>11. /\ Len(posts'[c]) <= 1
       /\ \A j \in DOMAIN posts'[c] :
             /\ posts'[c][j].waits /\ posts'[c][j].touched = touched'[c]
             /\ Due(posts[c][j], touched[c])'
  BY <1>10
<1>12. \A d \in Clients : d = c
  OBVIOUS
<1>13. FreshPages'
  BY <1>8, <1>9, <1>11, <1>12 DEF FreshPages
<1>14. QED
  BY <1>5, <1>13

\* Or nothing arrives.
LEMMA NothingFresh ==
    ASSUME \A c, d \in Clients : c = d, Inv, FreshPages,
           NEW c \in Clients, NEW i \in DOMAIN loads[c], NothingArrives(c, i)
    PROVE  FreshPages' /\ store' = store
<1>1. loads \in [Clients -> Seq(Brands)] /\ loads[c] \in Seq(Brands)
  BY DEF Inv, SentType
<1>2. rows[c] = <<>> /\ posts[c] = <<>> /\ Len(loads[c]) = 1
  <2>1. loads[c] # <<>>
    BY <1>1
  <2>2. QED
    BY <2>1 DEF FreshPages
<1>3. UNCHANGED <<store, rows, touched, posts>>
  BY DEF NothingArrives, server, page
<1>4. loads'[c] = <<>>
  <2>1. RemoveAt(loads[c], i) \in Seq(Brands)
    BY <1>1, RemoveIn
  <2>2. Len(RemoveAt(loads[c], i)) = Len(loads[c]) - 1
    BY <1>1, RemovedFrom
  <2>3. RemoveAt(loads[c], i) = <<>>
    BY <1>2, <2>1, <2>2
  <2>4. QED
    BY <1>1, <2>3 DEF NothingArrives
<1>5. DOMAIN rows'[c] = {} /\ DOMAIN posts'[c] = {} /\ Len(posts'[c]) = 0
  BY <1>2, <1>3
<1>6. FreshRows(rows[c], touched[c])'
  BY <1>5 DEF FreshRows
<1>7. /\ Len(posts'[c]) <= 1
      /\ \A j \in DOMAIN posts'[c] :
             /\ posts'[c][j].waits /\ posts'[c][j].touched = touched'[c]
             /\ Due(posts[c][j], touched[c])'
  BY <1>5
<1>8. \A d \in Clients : d = c
  OBVIOUS
<1>9. FreshPages'
  BY <1>4, <1>6, <1>7, <1>8 DEF FreshPages
<1>10. QED
  BY <1>3, <1>9

\* The page is loaded anew when its save is answered.
LEMMA SavedFresh ==
    ASSUME \A c, d \in Clients : c = d, Inv, FreshPages,
           NEW c \in Clients, NEW i \in DOMAIN posts[c], saved(c, i)
    PROVE  FreshPages' /\ store' = store
<1>1. /\ rows \in [Clients -> Seq(Row)] /\ loads \in [Clients -> Seq(Brands)]
      /\ posts \in [Clients -> Seq(Save)] /\ posts[c] \in Seq(Save)
  BY DEF Inv, PageType, SentType
<1>2. posts[c][i].waits /\ Len(posts[c]) = 1
  <2>1. posts[c][i].waits
    BY DEF FreshPages
  <2>2. Len(posts[c]) <= 1
    BY DEF FreshPages
  <2>3. Len(posts[c]) \in Nat /\ i \in 1 .. Len(posts[c])
    BY <1>1
  <2>4. Len(posts[c]) = 1
    <3>1. \A n \in Nat : \A j \in 1 .. n : n <= 1 => n = 1
      OBVIOUS
    <3>2. QED
      BY <2>2, <2>3, <3>1
  <2>5. QED
    BY <2>1, <2>4
<1>3. rows'[c] = <<>> /\ loads'[c] = <<>> /\ store' = store
  BY <1>1, <1>2 DEF saved, server
<1> DEFINE left == RemoveAt(posts[c], i)
<1>4. DOMAIN left = {}
  <2>1. left \in Seq(Save)
    BY <1>1, RemoveIn
  <2>2. Len(left) = Len(posts[c]) - 1
    BY <1>1, RemovedFrom
  <2> HIDE DEF left
  <2>3. QED
    BY <1>2, <2>1, <2>2
<1>5. posts'[c] = [j \in DOMAIN left |-> [left[j] EXCEPT !.waits = FALSE]]
  BY <1>1, <1>2 DEF saved
<1> HIDE DEF left
<1>6. posts'[c] = <<>>
  <2>1. posts'[c] \in [{} -> Save]
    BY <1>4, <1>5
  <2>2. QED
    BY <2>1
<1>7. DOMAIN rows'[c] = {} /\ DOMAIN posts'[c] = {} /\ Len(posts'[c]) = 0
  BY <1>3, <1>6
<1>8. FreshRows(rows[c], touched[c])'
  BY <1>7 DEF FreshRows
<1>9. /\ Len(posts'[c]) <= 1
      /\ \A j \in DOMAIN posts'[c] :
             /\ posts'[c][j].waits /\ posts'[c][j].touched = touched'[c]
             /\ Due(posts[c][j], touched[c])'
  BY <1>7
<1>10. \A d \in Clients : d = c
  OBVIOUS
<1>11. FreshPages'
  BY <1>3, <1>8, <1>9, <1>10 DEF FreshPages
<1>12. QED
  BY <1>3, <1>11

\* Steps that leave the page and its requests alone, and no store's input.
LEMMA OtherFresh ==
    ASSUME FreshPages, Keeps({}), UNCHANGED <<rows, touched, loads, posts>>
    PROVE  FreshPages'
<1>1. \A q, edited : FreshRows(q, edited) => FreshRows(q, edited)'
  BY FreshKept
<1>1a. \A p, edited : Due(p, edited) => Due(p, edited)'
  BY DEF Due, FreshRow, Keeps
<1>2. ASSUME NEW c \in Clients
      PROVE  /\ posts'[c] = <<>> => FreshRows(rows[c], touched[c])'
             /\ \A i \in DOMAIN posts'[c] : Due(posts[c][i], touched[c])'
  BY <1>1, <1>1a DEF FreshPages
<1>3. QED
  BY <1>2 DEF FreshPages

LEMMA DeleteKeeps ==
    ASSUME Inv, NEW c \in Clients, NEW i \in DOMAIN deletes[c], deleteBranch(c, i)
    PROVE  Keeps({})
<1> DEFINE d == deletes[c][i]
           new == [store[d.id] EXCEPT !.kept = FALSE]
<1>1. CASE Deletable(d)
  <2>1. d.id \in DOMAIN store /\ store[d.id] \in Store
    BY <1>1, TableIds DEF Inv, Books, Deletable
  <2>2. new \in Store /\ new.in = store[d.id].in
    BY <2>1 DEF Store
  <2>3. store' = [store EXCEPT ![d.id] = new]
    BY <1>1 DEF deleteBranch
  <2> HIDE DEF new, d
  <2>4. /\ DOMAIN store' = DOMAIN store /\ store'[d.id] = new
        /\ \A j \in DOMAIN store \ {d.id} : store'[j] = store[j]
    BY <2>1, <2>2, <2>3, ExceptIn DEF Inv, Books, TableType
  <2>5. QED
    BY <2>2, <2>4 DEF Keeps
<1>2. CASE ~Deletable(d)
  BY <1>2 DEF deleteBranch, Keeps
<1>3. QED
  BY <1>1, <1>2

LEMMA OneUserStep ==
    ASSUME Careful, \A c, d \in Clients : c = d, Inv, FreshPages, [Next]_vars
    PROVE  /\ FreshPages'
           /\ \A s \in Kept \cap Kept' :
                 store'[s].in # store[s].in =>
                    \E c \in Clients : \E i \in DOMAIN posts[c] : MayChange(s, posts[c][i])
<1> DEFINE Said == \A s \in Kept \cap Kept' :
                 store'[s].in # store[s].in =>
                    \E c \in Clients : \E i \in DOMAIN posts[c] : MayChange(s, posts[c][i])
<1>0. Kept \subseteq DOMAIN store
  BY TableIds DEF Inv, Books
<1>1. Keeps({}) => Said
  BY <1>0 DEF Keeps
<1>2. store' = store => Keeps({})
  BY DEF Keeps
<1>3. ASSUME NEW c \in Clients,
             \/ \E b \in Brands : MainTrEvt(c, b)
             \/ \E k \in DOMAIN rows[c], in \in Input : trUpdater(c, k, in)
             \/ \E in \in Input : addStoreForUpdate(c, in)
             \/ \E k \in DOMAIN rows[c] : deleteTargetRowU(c, k)
             \/ updateBranch(c)
      PROVE  FreshPages' /\ Said
  <2>1. FreshPages' /\ store' = store
    BY <1>3, ActFresh
  <2>2. QED
    BY <1>1, <1>2, <2>1
<1>4. ASSUME NEW c \in Clients, Serve(c) PROVE FreshPages' /\ Said
  <2>1. CASE \E i \in DOMAIN posts[c] : saveRow(c, i)
    <3>1. PICK i \in DOMAIN posts[c] : saveRow(c, i)
      BY <2>1
    <3>2. /\ FreshPages'
          /\ \A s \in DOMAIN store :
                store'[s].in # store[s].in => MayChange(s, posts[c][i])
      BY <3>1, SaveFresh
    <3>3. Said
      BY <1>0, <3>2
    <3>4. QED
      BY <3>2, <3>3
  <2>2. CASE \E i \in DOMAIN posts[c] : saved(c, i)
    <3>1. FreshPages' /\ store' = store
      BY <2>2, SavedFresh
    <3>2. QED
      BY <1>1, <1>2, <3>1
  <2>3. CASE \E i \in DOMAIN deletes[c] : deleteBranch(c, i)
    <3>1. Keeps({})
      BY <2>3, DeleteKeeps
    <3>2. UNCHANGED <<rows, touched, loads, posts>>
      BY <2>3 DEF deleteBranch, page
    <3>3. QED
      BY <1>1, <3>1, <3>2, OtherFresh
  <2>4. CASE \E i \in DOMAIN loads[c] : SelectBrandById(c, i)
    <3>1. FreshPages' /\ store' = store
      BY <2>4, LoadFresh
    <3>2. QED
      BY <1>1, <1>2, <3>1
  <2>5. CASE \E i \in DOMAIN loads[c] : NothingArrives(c, i)
    <3>1. FreshPages' /\ store' = store
      BY <2>5, NothingFresh
    <3>2. QED
      BY <1>1, <1>2, <3>1
  <2>6. QED
    BY <1>4, <2>1, <2>2, <2>3, <2>4, <2>5 DEF Serve
<1>5. ASSUME NEW b \in Brands, NEW t \in Titles, importExcel(b, t)
      PROVE  FreshPages' /\ Said
  <2>0. PICK a \in Addrs :
           Created([title |-> t, company |-> None, addr |-> a, detail |-> None], b)
    BY <1>5 DEF importExcel
  <2> DEFINE in == [title |-> t, company |-> None, addr |-> a, detail |-> None]
  <2>1. in \in Input /\ Created(in, b)
    BY <2>0 DEF Input
  <2> HIDE DEF in
  <2>2. Keeps({})
    BY <2>1, CreateKeeps DEF Inv
  <2>3. UNCHANGED <<rows, touched, loads, posts>>
    BY <1>5 DEF importExcel, page
  <2>4. QED
    BY <1>1, <2>2, <2>3, OtherFresh
<1>6. ASSUME NEW s \in Kept, refer(s) PROVE FreshPages' /\ Said
  <2>1. store' = store /\ UNCHANGED <<rows, touched, loads, posts>>
    BY <1>6 DEF refer, page
  <2>2. QED
    BY <1>1, <1>2, <2>1, OtherFresh
<1>7. ASSUME UNCHANGED vars PROVE FreshPages' /\ Said
  <2>1. store' = store /\ UNCHANGED <<rows, touched, loads, posts>>
    BY <1>7 DEF vars, server, page
  <2>2. QED
    BY <1>1, <1>2, <2>1, OtherFresh
<1> HIDE DEF Said
<1>8. FreshPages' /\ Said
  BY <1>3, <1>4, <1>5, <1>6, <1>7 DEF Next
<1>9. QED
  BY <1>8 DEF Said

\* When one user works and waits for answers, a save changes no store whose row
\* was not edited, although it posts every row of the page and the page may be
\* older than the table; but for a page of a single row, which changes its store
\* by no more than the splitting and rejoining of its texts.
THEOREM UntouchedStores ==
    ASSUME Careful, \A c, d \in Clients : c = d
    PROVE  Spec => UntouchedStays
<1> DEFINE FInv == Inv /\ FreshPages
<1>1. Init => FInv
  <2> SUFFICES ASSUME Init PROVE FreshPages
    BY InitInv
  <2>1. \A c \in Clients : /\ rows[c] = <<>> /\ loads[c] = <<>> /\ posts[c] = <<>>
    BY DEF Init
  <2>2. DOMAIN <<>> = {} /\ Len(<<>>) = 0
    OBVIOUS
  <2>3. \A e : FreshRows(<<>>, e)
    BY DEF FreshRows
  <2>4. QED
    BY <2>1, <2>2, <2>3 DEF FreshPages
<1>2. FInv /\ [Next]_vars => FInv'
  BY NextInv, OneUserStep
<1>3. FInv /\ [Next]_vars =>
         [\A s \in Kept \cap Kept' :
             store'[s].in # store[s].in =>
                \E c \in Clients : \E i \in DOMAIN posts[c] :
                   \/ s \in posts[c][i].touched
                   \/ /\ Len(posts[c][i].rows) = 1
                      /\ store'[s].in = Rejoined(store[s].in)]_vars
  BY OneUserStep DEF MayChange
<1>4. QED
  BY <1>1, <1>2, <1>3, PTL DEF Spec, UntouchedStays
=============================================================================
