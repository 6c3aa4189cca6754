----------------------- MODULE DesignDocument_proofs -----------------------
(* Theorems about DesignDocument, for every set of orders, contents and     *)
(* connections, and every number of documents.                              *)
EXTENDS DesignDocument, TLAPS

-----------------------------------------------------------------------------
(* Type correctness. *)

PageType ==
    /\ listed \subseteq DOMAIN docs
    /\ form \in DOMAIN docs \cup {None}
    /\ picked \in DOMAIN docs \cup {None}
    /\ marked \in Seq(DOMAIN docs)
    /\ asked \subseteq DOMAIN docs
    /\ submitted \in BOOLEAN

DocsType == docs \in Seq(Document) /\ Len(docs) <= MaxDocs
PostsType == posts \in [Connections -> Post \cup {None}]

LEMMA TypeParts == TypeOK <=> DocsType /\ PageType /\ PostsType /\ careful \in BOOLEAN
BY DEF TypeOK, DocsType, PageType, PostsType

LEMMA DocsDomain ==
    ASSUME DocsType
    PROVE  DOMAIN docs = 1 .. Len(docs)
BY DEF DocsType

\* Facts about sequences.
LEMMA EmptyIn == ASSUME NEW S PROVE <<>> \in Seq(S)
OBVIOUS

LEMMA TailIn ==
    ASSUME NEW S, NEW s \in Seq(S), s # <<>>
    PROVE  /\ Tail(s) \in Seq(S)
           /\ \A i \in DOMAIN Tail(s) : i + 1 \in DOMAIN s /\ Tail(s)[i] = s[i + 1]
OBVIOUS

LEMMA AppendIn ==
    ASSUME NEW S, NEW s \in Seq(S), NEW e \in S
    PROVE  /\ Append(s, e) \in Seq(S)
           /\ Len(Append(s, e)) = Len(s) + 1
           /\ DOMAIN Append(s, e) = DOMAIN s \cup {Len(s) + 1}
           /\ Append(s, e)[Len(s) + 1] = e
           /\ \A i \in DOMAIN s : Append(s, e)[i] = s[i]
OBVIOUS

LEMMA ExceptIn ==
    ASSUME NEW S, NEW s \in Seq(S), NEW i \in DOMAIN s, NEW e \in S
    PROVE  /\ [s EXCEPT ![i] = e] \in Seq(S)
           /\ Len([s EXCEPT ![i] = e]) = Len(s)
           /\ DOMAIN [s EXCEPT ![i] = e] = DOMAIN s
OBVIOUS

LEMMA SameLengthIn ==
    ASSUME NEW S, NEW s \in Seq(S), NEW t \in [DOMAIN s -> S]
    PROVE  t \in Seq(S) /\ Len(t) = Len(s)
OBVIOUS

LEMMA WiderIn ==
    ASSUME NEW S, NEW T, S \subseteq T, NEW s \in Seq(S)
    PROVE  s \in Seq(T)
OBVIOUS

\* The rows the service writes.
LEMMA RowTypes ==
    ASSUME NEW r \in Document
    PROVE  /\ \A t \in Contents : [r EXCEPT !.content = t] \in Document
           /\ [r EXCEPT !.confirmed = TRUE, !.making = FALSE] \in Document
           /\ \A b \in BOOLEAN : [r EXCEPT !.disabled = b] \in Document
BY DEF Document

\* The fields a post has, by what it asks for.
LEMMA PostKind ==
    ASSUME NEW p \in Post
    PROVE  /\ p.what \in {"register", "update", "confirm", "delete"}
           /\ p.what = "register" => p.of \in Orders /\ p.content \in Contents
           /\ p.what = "update" => p.id \in DOMAIN docs /\ p.content \in Contents
           /\ p.what = "confirm" => p.id \in DOMAIN docs
           /\ p.what = "delete" => p.ids \in SUBSET DOMAIN docs
BY DEF Post

\* Documents are never removed from their table, so a post stays well-typed.
LEMMA PostsGrow ==
    ASSUME PostsType, DOMAIN docs \subseteq (DOMAIN docs)', posts' = posts
    PROVE  PostsType'
BY DEF PostsType, Post

LEMMA AnsweredType ==
    ASSUME PostsType, DOMAIN docs \subseteq (DOMAIN docs)',
           NEW c \in Connections, Answered(c)
    PROVE  PostsType'
BY DEF PostsType, Post, Answered

\* A loaded page names only documents there are.
LEMMA LoadedType ==
    ASSUME Loaded(docs')
    PROVE  PageType'
<1>1. listed' \subseteq DOMAIN docs'
  BY DEF Loaded, selectMakingDesignDoc
<1>2. marked' \in Seq(DOMAIN docs')
  BY EmptyIn DEF Loaded
<1>3. QED
  BY <1>1, <1>2 DEF Loaded, PageType

LEMMA SendType ==
    ASSUME TypeOK, careful' = careful,
           NEW p \in Post, Send(p), submitted' \in BOOLEAN
    PROVE  TypeOK'
<1>1. DocsType' /\ PageType'
  BY TypeParts DEF Send, DocsType, PageType
<1>2. PostsType'
  BY DEF TypeOK, PostsType, Post, Send
<1>3. QED
  BY <1>1, <1>2 DEF TypeOK, DocsType, PageType, PostsType

\* What is left to show of a step that answers with a load of the page.
LEMMA AnswerType ==
    ASSUME TypeOK, careful' = careful,
           NEW c \in Connections, Answered(c), Loaded(docs'),
           DocsType', DOMAIN docs \subseteq (DOMAIN docs)'
    PROVE  TypeOK'
<1>1. PageType'
  BY LoadedType
<1>2. PostsType'
  BY AnsweredType, TypeParts
<1>3. QED
  BY <1>1, <1>2 DEF TypeOK, DocsType, PageType, PostsType

LEMMA InsertType ==
    ASSUME TypeOK, careful' = careful,
           NEW c \in Connections, posts[c] \in Post,
           posts[c].what = "register", Insert(c)
    PROVE  TypeOK'
<1>1. NewDocument(posts[c]) \in Document
  BY PostKind DEF NewDocument, Document
<1>2. DocsType' /\ DOMAIN docs \subseteq (DOMAIN docs)'
  BY <1>1, AppendIn, DesignDocumentAssumption DEF TypeOK, DocsType, Insert
<1>3. QED
  BY <1>2, AnswerType DEF Insert

LEMMA RegisterType ==
    ASSUME TypeOK, careful' = careful,
           NEW c \in Connections, posts[c] \in Post,
           registerDesignDocument(c)
    PROVE  TypeOK'
<1>1. posts[c].what = "register"
  BY DEF registerDesignDocument
<1>2. CASE Refuse(c)
  <2>1. docs' = docs /\ Answered(c) /\ Loaded(docs')
    BY <1>2 DEF Refuse, Loaded
  <2>2. DocsType'
    BY <2>1, TypeParts DEF DocsType
  <2>3. QED
    BY <2>1, <2>2, AnswerType
<1>3. CASE Insert(c)
  BY <1>1, <1>3, InsertType
<1>4. CASE /\ UNCHANGED <<docs, page>>
           /\ posts' = [posts EXCEPT ![c] =
                [what |-> "register", of |-> posts[c].of,
                 content |-> posts[c].content, checked |-> TRUE]]
  <2>1. [what |-> "register", of |-> posts[c].of,
         content |-> posts[c].content, checked |-> TRUE] \in Post
    BY <1>1, PostKind DEF Post
  <2>2. PostsType'
    BY <1>4, <2>1 DEF TypeOK, PostsType, Post
  <2>3. QED
    BY <1>4, <2>2 DEF TypeOK, PostsType, page
<1>5. QED
  BY <1>2, <1>3, <1>4 DEF registerDesignDocument

LEMMA UpdateType ==
    ASSUME TypeOK, careful' = careful,
           NEW c \in Connections, posts[c] \in Post,
           updateDesignDocument(c)
    PROVE  TypeOK'
<1>1. posts[c].content \in Contents /\ posts[c].id \in DOMAIN docs
  BY PostKind DEF updateDesignDocument
<1>2. docs[posts[c].id] \in Document
  BY <1>1 DEF TypeOK
<1>3. [docs[posts[c].id] EXCEPT !.content = posts[c].content] \in Document
  BY <1>1, <1>2, RowTypes
<1>4. DocsType' /\ DOMAIN docs \subseteq (DOMAIN docs)'
  BY <1>1, <1>3, ExceptIn DEF TypeOK, DocsType, updateDesignDocument
<1>5. QED
  BY <1>4, AnswerType DEF updateDesignDocument

LEMMA ConfirmType ==
    ASSUME TypeOK, careful' = careful,
           NEW c \in Connections, posts[c] \in Post,
           confirmCustomer(c)
    PROVE  TypeOK'
<1>1. posts[c].id \in DOMAIN docs
  BY PostKind DEF confirmCustomer
<1>2. docs[posts[c].id] \in Document
  BY <1>1 DEF TypeOK
<1>3. [docs[posts[c].id] EXCEPT !.confirmed = TRUE, !.making = FALSE] \in Document
  BY <1>2, RowTypes
<1>4. DocsType' /\ DOMAIN docs \subseteq (DOMAIN docs)'
  BY <1>1, <1>3, ExceptIn DEF TypeOK, DocsType, confirmCustomer
<1>5. QED
  BY <1>4, AnswerType DEF confirmCustomer

LEMMA DeleteType ==
    ASSUME TypeOK, careful' = careful,
           NEW c \in Connections, posts[c] \in Post,
           deleteDesignDocument(c)
    PROVE  TypeOK'
<1>1. ASSUME NEW d \in DOMAIN docs
      PROVE  [docs[d] EXCEPT !.disabled = @ \/ d \in posts[c].ids] \in Document
  <2>1. docs[d] \in Document
    BY DEF TypeOK
  <2>2. (docs[d].disabled \/ d \in posts[c].ids) \in BOOLEAN
    OBVIOUS
  <2>3. QED
    BY <2>1, <2>2, RowTypes
<1>2. docs' \in [DOMAIN docs -> Document]
  BY <1>1 DEF deleteDesignDocument
<1>3. DocsType' /\ DOMAIN docs \subseteq (DOMAIN docs)'
  BY <1>2, SameLengthIn DEF TypeOK, DocsType
<1>4. QED
  BY <1>3, AnswerType DEF deleteDesignDocument

LEMMA ClickType ==
    ASSUME TypeOK, careful' = careful,
           NEW d \in listed, trToUpdate(d) \/ createTableRow(d)
    PROVE  TypeOK'
<1>1. d \in DOMAIN docs
  BY DEF TypeOK
<1>2. CASE trToUpdate(d)
  BY <1>1, <1>2 DEF TypeOK, Post, trToUpdate
<1>3. CASE createTableRow(d)
  <2>1. marked' \in Seq(DOMAIN docs)
    BY <1>1, <1>3, AppendIn DEF TypeOK, createTableRow
  <2>2. QED
    BY <1>3, <2>1 DEF TypeOK, Post, createTableRow
<1>4. QED
  BY <1>2, <1>3

LEMMA PostType ==
    ASSUME TypeOK, careful' = careful,
           \/ \E o \in Orders, t \in Contents : registerDesign(o, t)
           \/ \E t \in Contents : updateDesign(t)
           \/ approvalForCustomer
           \/ deletForDocument
    PROVE  TypeOK'
<1>1. form # None => form \in DOMAIN docs
  BY DEF TypeOK
<1>2. ToSet(marked) \subseteq DOMAIN docs
  BY DEF TypeOK, ToSet
<1>3. submitted \in BOOLEAN
  BY DEF TypeOK
<1>4. ASSUME NEW o \in Orders, NEW t \in Contents, registerDesign(o, t)
      PROVE  TypeOK'
  <2>1. [what |-> "register", of |-> o, content |-> t, checked |-> FALSE] \in Post
    BY DEF Post
  <2>2. QED
    BY <1>3, <1>4, <2>1, SendType DEF registerDesign
<1>5. ASSUME NEW t \in Contents, updateDesign(t) PROVE TypeOK'
  <2>1. [what |-> "update", id |-> form, content |-> t] \in Post
    BY <1>1, <1>5 DEF Post, updateDesign
  <2>2. QED
    BY <1>3, <1>5, <2>1, SendType DEF updateDesign
<1>6. CASE approvalForCustomer
  <2>1. [what |-> "confirm", id |-> form] \in Post
    BY <1>1, <1>6 DEF Post, approvalForCustomer
  <2>2. QED
    BY <1>6, <2>1, SendType DEF approvalForCustomer
<1>7. CASE deletForDocument
  <2>1. [what |-> "delete", ids |-> ToSet(marked)] \in Post
    BY <1>2 DEF Post
  <2>2. QED
    BY <1>3, <1>7, <2>1, SendType DEF deletForDocument
<1>8. QED
  BY <1>4, <1>5, <1>6, <1>7

LEMMA ServeType ==
    ASSUME TypeOK, careful' = careful, NEW c \in Connections, Serve(c)
    PROVE  TypeOK'
<1>1. posts[c] \in Post
  BY DEF TypeOK, Serve
<1>2. CASE saveDesignDocument(c)
  BY <1>1, <1>2, InsertType DEF saveDesignDocument
<1>3. QED
  BY <1>1, <1>2, RegisterType, UpdateType, ConfirmType, DeleteType DEF Serve

LEMMA NextType == TypeOK /\ [Next]_vars => TypeOK'
<1> SUFFICES ASSUME TypeOK, [Next]_vars PROVE TypeOK'
  OBVIOUS
<1>0. CASE UNCHANGED vars
  BY <1>0 DEF TypeOK, Post, vars, page
<1> SUFFICES ASSUME Step, careful' = careful PROVE TypeOK'
  BY <1>0 DEF Next
<1>1. CASE \E d \in asked : selectDocToId(d)
  BY <1>1 DEF TypeOK, Post, selectDocToId
<1>2. CASE trash
  <2>1. marked' \in Seq(DOMAIN docs)
    BY <1>2, TailIn DEF TypeOK, trash
  <2>2. QED
    BY <1>2, <2>1 DEF TypeOK, Post, trash
<1>3. CASE reload
  <2>1. docs' = docs /\ posts' = posts /\ Loaded(docs')
    BY <1>3 DEF reload, Loaded
  <2>2. PageType'
    BY <2>1, LoadedType
  <2>3. PostsType'
    BY <2>1, PostsGrow, TypeParts
  <2>4. QED
    BY <2>1, <2>2, <2>3 DEF TypeOK, PageType, PostsType
<1>4. QED
  BY <1>1, <1>2, <1>3, ClickType, PostType, ServeType DEF Step

LEMMA InitType == Init => TypeOK
<1> SUFFICES ASSUME Init PROVE TypeOK
  OBVIOUS
<1>1. docs \in Seq(Document) /\ Len(docs) <= MaxDocs
  BY DesignDocumentAssumption, EmptyIn DEF Init
<1>2. marked \in Seq(DOMAIN docs)
  BY EmptyIn DEF Init
<1>3. QED
  BY <1>1, <1>2 DEF Init, TypeOK

\* The table, the form and the list of the page name documents there are.
THEOREM TypeCorrect == Spec => []TypeOK
BY InitType, NextType, PTL DEF Spec
-----------------------------------------------------------------------------
(* One document per order, when registrations do not overlap. *)

NoneHalfDone == \A c \in Connections :
    posts[c] # None /\ posts[c].what = "register" => ~posts[c].checked

\* Any change that keeps the orders and never enables a document.
LEMMA KeepsOnePerOrder ==
    ASSUME OnePerOrder, DOMAIN docs' = DOMAIN docs,
           \A d \in DOMAIN docs : /\ docs'[d].of = docs[d].of
                                  /\ docs[d].disabled => docs'[d].disabled
    PROVE  OnePerOrder'
<1> SUFFICES ASSUME NEW d \in DOMAIN docs, NEW e \in DOMAIN docs,
                    docs'[d].of = docs'[e].of,
                    ~docs'[d].disabled, ~docs'[e].disabled
             PROVE  d = e
  BY DEF OnePerOrder
<1>1. docs[d].of = docs[e].of /\ ~docs[d].disabled /\ ~docs[e].disabled
  OBVIOUS
<1>2. QED
  BY <1>1 DEF OnePerOrder

LEMMA InsertOnePerOrder ==
    ASSUME TypeOK, OnePerOrder, NEW c \in Connections, posts[c] \in Post,
           posts[c].what = "register", ~Registered(posts[c].of), Insert(c)
    PROVE  OnePerOrder'
<1> DEFINE n == Len(docs) + 1
<1>1. NewDocument(posts[c]) \in Document
  BY PostKind DEF NewDocument, Document
<1>2. /\ DOMAIN docs' = DOMAIN docs \cup {n}
      /\ docs'[n] = NewDocument(posts[c])
      /\ \A d \in DOMAIN docs : docs'[d] = docs[d]
  BY <1>1, AppendIn DEF TypeOK, Insert
<1>3. docs'[n].of = posts[c].of
  BY <1>2 DEF NewDocument
<1>4. \A d \in DOMAIN docs : docs[d].of = posts[c].of => docs[d].disabled
  BY DEF Registered, Live
<1> HIDE DEF n
<1>5. QED
  BY <1>2, <1>3, <1>4 DEF OnePerOrder

LEMMA ServeOnePerOrder ==
    ASSUME TypeOK, OnePerOrder, NoneHalfDone, ~Overlap,
           NEW c \in Connections, Serve(c)
    PROVE  OnePerOrder'
<1>1. posts[c] \in Post
  BY DEF TypeOK, Serve
<1>2. CASE registerDesignDocument(c)
  <2>1. CASE UNCHANGED docs
    BY <2>1 DEF OnePerOrder
  <2>2. CASE ~Registered(posts[c].of) /\ Insert(c)
    BY <1>1, <1>2, <2>2, InsertOnePerOrder DEF registerDesignDocument
  <2>3. QED
    BY <1>2, <2>1, <2>2 DEF registerDesignDocument, Refuse
<1>3. CASE saveDesignDocument(c)
  BY <1>3 DEF saveDesignDocument, NoneHalfDone, Serve
<1>4. CASE updateDesignDocument(c)
  <2>1. \A d \in DOMAIN docs :
          docs'[d] = docs[d] \/ docs'[d] = [docs[d] EXCEPT !.content = posts[c].content]
    BY <1>4 DEF updateDesignDocument
  <2>2. \A d \in DOMAIN docs : docs[d] \in Document
    BY DEF TypeOK
  <2>3. \A r \in Document : LET s == [r EXCEPT !.content = posts[c].content]
                            IN  s.of = r.of /\ s.disabled = r.disabled
    BY DEF Document
  <2>4. DOMAIN docs' = DOMAIN docs
    BY <1>4 DEF updateDesignDocument
  <2>5. \A d \in DOMAIN docs : docs'[d].of = docs[d].of
    BY <2>1, <2>2, <2>3
  <2>6. \A d \in DOMAIN docs : docs'[d].disabled = docs[d].disabled
    BY <2>1, <2>2, <2>3
  <2>7. QED
    BY <2>4, <2>5, <2>6, KeepsOnePerOrder
<1>5. CASE confirmCustomer(c)
  <2>1. \A d \in DOMAIN docs :
          \/ docs'[d] = docs[d]
          \/ docs'[d] = [docs[d] EXCEPT !.confirmed = TRUE, !.making = FALSE]
    BY <1>5 DEF confirmCustomer
  <2>2. \A d \in DOMAIN docs : docs[d] \in Document
    BY DEF TypeOK
  <2>3. \A r \in Document : LET s == [r EXCEPT !.confirmed = TRUE, !.making = FALSE]
                            IN  s.of = r.of /\ s.disabled = r.disabled
    BY DEF Document
  <2>4. DOMAIN docs' = DOMAIN docs
    BY <1>5 DEF confirmCustomer
  <2>5. \A d \in DOMAIN docs : docs'[d].of = docs[d].of
    BY <2>1, <2>2, <2>3
  <2>6. \A d \in DOMAIN docs : docs'[d].disabled = docs[d].disabled
    BY <2>1, <2>2, <2>3
  <2>7. QED
    BY <2>4, <2>5, <2>6, KeepsOnePerOrder
<1>6. CASE deleteDesignDocument(c)
  <2>1. \A d \in DOMAIN docs :
          docs'[d] = [docs[d] EXCEPT !.disabled = @ \/ d \in posts[c].ids]
    BY <1>6 DEF deleteDesignDocument
  <2>2. \A d \in DOMAIN docs : docs[d] \in Document
    BY DEF TypeOK
  <2>3. \A r \in Document, b \in BOOLEAN :
          LET s == [r EXCEPT !.disabled = b] IN s.of = r.of /\ s.disabled = b
    BY DEF Document
  <2>4. \A d \in DOMAIN docs : (docs[d].disabled \/ d \in posts[c].ids) \in BOOLEAN
    OBVIOUS
  <2>5. DOMAIN docs' = DOMAIN docs
    BY <1>6 DEF deleteDesignDocument
  <2>6. \A d \in DOMAIN docs : /\ docs'[d].of = docs[d].of
                               /\ docs[d].disabled => docs'[d].disabled
    BY <2>1, <2>2, <2>3, <2>4
  <2>7. QED
    BY <2>5, <2>6, KeepsOnePerOrder
<1>7. QED
  BY <1>2, <1>3, <1>4, <1>5, <1>6 DEF Serve

LEMMA NextNoneHalfDone ==
    ASSUME TypeOK, NoneHalfDone, ~Overlap, [Next]_vars
    PROVE  NoneHalfDone'
<1>1. ASSUME NEW p, Send(p), p.what = "register" => ~p.checked
      PROVE  NoneHalfDone'
  BY <1>1 DEF NoneHalfDone, Send, TypeOK
<1>2. ASSUME NEW c \in Connections, Answered(c) PROVE NoneHalfDone'
  BY <1>2 DEF NoneHalfDone, Answered, TypeOK
<1>3. CASE posts' = posts
  BY <1>3 DEF NoneHalfDone
<1>4. CASE \E c \in Connections : Serve(c)
  BY <1>2, <1>4 DEF Serve, registerDesignDocument, saveDesignDocument,
     updateDesignDocument, confirmCustomer, deleteDesignDocument, Insert, Refuse
<1>5. ASSUME NEW o \in Orders, NEW t \in Contents, registerDesign(o, t)
      PROVE  NoneHalfDone'
  BY <1>1, <1>5 DEF registerDesign
<1>6. ASSUME NEW t \in Contents, updateDesign(t) PROVE NoneHalfDone'
  BY <1>1, <1>6 DEF updateDesign
<1>7. CASE approvalForCustomer
  BY <1>1, <1>7 DEF approvalForCustomer
<1>8. CASE deletForDocument
  BY <1>1, <1>8 DEF deletForDocument
<1>9. QED
  BY <1>3, <1>4, <1>5, <1>6, <1>7, <1>8
     DEF Next, Step, vars, trToUpdate, createTableRow, selectDocToId, trash, reload

\* When the service handles one registration at a time, no order ever has two
\* documents in use, however the user posts.
THEOREM OneDocument == ASSUME ~Overlap PROVE Spec => []OnePerOrder
<1> DEFINE Inv == TypeOK /\ OnePerOrder /\ NoneHalfDone
<1>1. Init => Inv
  BY InitType DEF Init, OnePerOrder, NoneHalfDone
<1>2. Inv /\ [Next]_vars => Inv'
  <2> SUFFICES ASSUME Inv, [Next]_vars PROVE Inv'
    OBVIOUS
  <2>1. TypeOK' /\ NoneHalfDone'
    BY NextType, NextNoneHalfDone
  <2>2. docs' = docs => OnePerOrder'
    BY DEF OnePerOrder
  <2>3. (\E c \in Connections : Serve(c)) => OnePerOrder'
    BY ServeOnePerOrder
  <2>4. OnePerOrder'
    BY <2>2, <2>3 DEF Next, Step, vars, trToUpdate, createTableRow, selectDocToId,
       trash, reload, registerDesign, updateDesign, approvalForCustomer,
       deletForDocument, Send
  <2>5. QED
    BY <2>1, <2>4
<1>3. QED
  BY <1>1, <1>2, PTL DEF Spec

-----------------------------------------------------------------------------
(* A submitted design is final, when the user waits for answers. *)

\* What a post may not do to a final document.
Harmless(p) ==
    /\ p.what \in {"update", "confirm"} => ~Final(p.id)
    /\ p.what = "delete" => \A d \in p.ids : ~Final(d)

\* The page offers no final document, and what it has posted concerns none:
\* at most one post is under way, so none is overtaken by a submission.
CarefulInv ==
    /\ \A c, e \in Connections : posts[c] # None /\ posts[e] # None => c = e
    /\ \A d \in listed \cup asked \cup ToSet(marked) : ~Final(d)
    /\ form # None => ~Final(form)
    /\ \A c \in Connections : posts[c] # None => Harmless(posts[c])

LEMMA LoadedCareful ==
    ASSUME TypeOK, CarefulInv, NEW c \in Connections, posts[c] # None,
           Answered(c), Loaded(docs')
    PROVE  CarefulInv'
<1>1. \A e \in Connections : posts'[e] = None
  BY DEF Answered, CarefulInv, TypeOK
<1>2. \A d \in listed' : ~Final(d)'
  BY DEF Loaded, selectMakingDesignDoc, Final
<1>3. asked' = {} /\ ToSet(marked)' = {} /\ form' = None
  BY DEF Loaded, ToSet
<1>4. QED
  BY <1>1, <1>2, <1>3 DEF CarefulInv

LEMMA SendCareful ==
    ASSUME TypeOK, CarefulInv, careful, NEW p \in Post, Harmless(p), Send(p)
    PROVE  CarefulInv'
<1>1. PICK c \in Connections : posts' = [posts EXCEPT ![c] = p]
  BY DEF Send
<1>2. \A e \in Connections : posts[e] = None
  BY DEF Send, MayClick, Quiet
<1>3. \A e \in Connections : posts'[e] # None => e = c /\ posts'[e] = p
  BY <1>1, <1>2 DEF TypeOK
<1>4. UNCHANGED <<docs, listed, asked, marked, form>>
  BY DEF Send
<1>5. \A d : Final(d)' = Final(d)
  BY <1>4 DEF Final
<1>6. Harmless(p)'
  BY <1>5 DEF Harmless
<1>7. QED
  BY <1>3, <1>4, <1>5, <1>6 DEF CarefulInv, ToSet, Harmless

\* A served post changes no final document.
LEMMA ServeFinal ==
    ASSUME TypeOK, CarefulInv, NEW c \in Connections, Serve(c),
           NEW d \in DOMAIN docs, Final(d)
    PROVE  docs'[d] = docs[d]
<1>1. posts[c] \in Post /\ Harmless(posts[c])
  BY DEF TypeOK, Serve, CarefulInv
<1>2. CASE UNCHANGED docs
  BY <1>2
<1>3. CASE Insert(c) /\ posts[c].what = "register"
  <2>1. NewDocument(posts[c]) \in Document
    BY <1>1, <1>3, PostKind DEF NewDocument, Document
  <2>2. QED
    BY <1>3, <2>1, AppendIn DEF Insert, TypeOK
<1>4. CASE updateDesignDocument(c)
  BY <1>1, <1>4 DEF updateDesignDocument, Harmless, TypeOK
<1>5. CASE confirmCustomer(c)
  BY <1>1, <1>5 DEF confirmCustomer, Harmless, TypeOK
<1>6. CASE deleteDesignDocument(c)
  <2>1. d \notin posts[c].ids
    BY <1>1, <1>6 DEF deleteDesignDocument, Harmless
  <2>2. docs[d] \in Document /\ docs[d].disabled \in BOOLEAN
    <3>1. docs[d] \in Document
      BY DEF TypeOK
    <3>2. \A r \in Document : r.disabled \in BOOLEAN
      BY DEF Document
    <3>3. QED
      BY <3>1, <3>2
  <2>3. docs'[d] = [docs[d] EXCEPT !.disabled = docs[d].disabled \/ d \in posts[c].ids]
    BY <1>6 DEF deleteDesignDocument
  <2>4. (docs[d].disabled \/ d \in posts[c].ids) = docs[d].disabled
    BY <2>1, <2>2
  <2>5. \A r \in Document : [r EXCEPT !.disabled = r.disabled] = r
    BY DEF Document
  <2>6. QED
    BY <2>2, <2>3, <2>4, <2>5
<1>7. QED
  BY <1>2, <1>3, <1>4, <1>5, <1>6
     DEF Serve, registerDesignDocument, saveDesignDocument, Refuse

LEMMA ServeCareful ==
    ASSUME TypeOK, CarefulInv, NEW c \in Connections, Serve(c)
    PROVE  CarefulInv'
<1>1. posts[c] # None /\ posts[c] \in Post
  BY DEF Serve, TypeOK
<1>2. CASE Answered(c) /\ (Loaded(docs') \/ (docs' = docs /\ Loaded(docs)))
  BY <1>1, <1>2, LoadedCareful DEF Loaded
<1>3. CASE /\ UNCHANGED <<docs, page>>
           /\ posts' = [posts EXCEPT ![c] =
                [what |-> "register", of |-> posts[c].of,
                 content |-> posts[c].content, checked |-> TRUE]]
  <2>1. \A d : Final(d)' = Final(d)
    BY <1>3 DEF Final
  <2>2. \A e \in Connections : posts'[e] # None => e = c
    BY <1>1, <1>3 DEF CarefulInv, TypeOK
  <2>3. posts'[c].what = "register"
    BY <1>3 DEF TypeOK
  <2>4. QED
    BY <1>3, <2>1, <2>2, <2>3 DEF CarefulInv, Harmless, page, ToSet
<1>4. QED
  BY <1>2, <1>3 DEF Serve, registerDesignDocument, saveDesignDocument,
     updateDesignDocument, confirmCustomer, deleteDesignDocument, Insert, Refuse

LEMMA NextCareful ==
    ASSUME TypeOK, CarefulInv, careful, [Next]_vars
    PROVE  CarefulInv'
<1> DEFINE Same == UNCHANGED <<docs, posts>>
<1>0. Same => \A d : Final(d)' = Final(d)
  BY DEF Final
<1>00. Same => \A p : Harmless(p)' = Harmless(p)
  BY <1>0 DEF Harmless
<1>1. ASSUME NEW d \in listed, trToUpdate(d) PROVE CarefulInv'
  BY <1>0, <1>00, <1>1 DEF CarefulInv, trToUpdate, ToSet
<1>2. ASSUME NEW d \in listed, createTableRow(d) PROVE CarefulInv'
  <2>1. ToSet(marked)' \subseteq ToSet(marked) \cup {d}
    <3>1. marked \in Seq(DOMAIN docs) /\ d \in DOMAIN docs
      BY DEF TypeOK
    <3>2. QED
      BY <1>2, <3>1, AppendIn DEF createTableRow, ToSet
  <2>2. QED
    BY <1>0, <1>00, <1>2, <2>1 DEF CarefulInv, createTableRow
<1>3. ASSUME NEW d \in asked, selectDocToId(d) PROVE CarefulInv'
  BY <1>0, <1>00, <1>3 DEF CarefulInv, selectDocToId, ToSet
<1>4. CASE trash
  <2>1. ToSet(marked)' \subseteq ToSet(marked)
    BY <1>4, TailIn DEF trash, ToSet, TypeOK
  <2>2. QED
    BY <1>0, <1>00, <1>4, <2>1 DEF CarefulInv, trash
<1>5. CASE reload
  <2>1. \A d \in listed' : ~Final(d)
    BY <1>5 DEF reload, Loaded, selectMakingDesignDoc, Final
  <2>2. asked' = {} /\ ToSet(marked)' = {} /\ form' = None
    BY <1>5 DEF reload, Loaded, ToSet
  <2>3. QED
    BY <1>0, <1>00, <1>5, <2>1, <2>2 DEF CarefulInv, reload
<1>6. ASSUME NEW o \in Orders, NEW t \in Contents, registerDesign(o, t)
      PROVE  CarefulInv'
  <2>1. [what |-> "register", of |-> o, content |-> t, checked |-> FALSE] \in Post
    BY DEF Post
  <2>2. QED
    BY <1>6, <2>1, SendCareful DEF registerDesign, Harmless
<1>7. ASSUME NEW t \in Contents, updateDesign(t) PROVE CarefulInv'
  <2>1. [what |-> "update", id |-> form, content |-> t] \in Post
    BY <1>7 DEF Post, updateDesign, TypeOK
  <2>2. ~Final(form)
    BY <1>7 DEF updateDesign, CarefulInv
  <2>3. QED
    BY <1>7, <2>1, <2>2, SendCareful DEF updateDesign, Harmless
<1>8. CASE approvalForCustomer
  <2>1. [what |-> "confirm", id |-> form] \in Post
    BY <1>8 DEF Post, approvalForCustomer, TypeOK
  <2>2. ~Final(form)
    BY <1>8 DEF approvalForCustomer, CarefulInv
  <2>3. QED
    BY <1>8, <2>1, <2>2, SendCareful DEF approvalForCustomer, Harmless
<1>9. CASE deletForDocument
  <2>1. [what |-> "delete", ids |-> ToSet(marked)] \in Post
    BY DEF Post, TypeOK, ToSet
  <2>2. QED
    BY <1>9, <2>1, SendCareful DEF deletForDocument, Harmless, CarefulInv
<1>10. CASE UNCHANGED vars
  BY <1>0, <1>00, <1>10 DEF vars, page, CarefulInv, ToSet
<1>11. QED
  BY <1>1, <1>2, <1>3, <1>4, <1>5, <1>6, <1>7, <1>8, <1>9, <1>10, ServeCareful
     DEF Next, Step

\* When the user waits for answers, a submitted design is never changed or
\* deleted again, whether or not registrations overlap on the server.
THEOREM SubmittedFinal == Spec => SubmittedIsFinal
<1> DEFINE Inv == TypeOK /\ (careful => CarefulInv)
           Steady == careful =>
                        \A d \in DOMAIN docs : Final(d) => docs'[d] = docs[d]
<1>1. Init => Inv
  <2> SUFFICES ASSUME Init PROVE CarefulInv
    BY InitType
  <2>1. QED
    BY DEF Init, CarefulInv, ToSet
<1>2. Inv /\ [Next]_vars => Inv'
  BY NextType, NextCareful DEF Next, vars
<1>3. Inv /\ [Next]_vars => [Steady]_vars
  <2> SUFFICES ASSUME Inv, Next, careful PROVE Steady
    OBVIOUS
  <2>1. CASE docs' = docs
    BY <2>1
  <2>2. CASE \E c \in Connections : Serve(c)
    BY <2>2, ServeFinal
  <2>3. QED
    BY <2>1, <2>2 DEF Next, Step, trToUpdate, createTableRow, selectDocToId,
       trash, reload, registerDesign, updateDesign, approvalForCustomer,
       deletForDocument, Send
<1>4. QED
  BY <1>1, <1>2, <1>3, PTL DEF Spec, SubmittedIsFinal

-----------------------------------------------------------------------------
(* What is posted is the document that was clicked, when the user waits. *)

\* The one answer awaited is that of the last click; without one the form
\* shows the document of that click, or nothing.
PickedInv ==
    /\ asked \subseteq {picked}
    /\ asked = {} => form \in {picked, None}

LEMMA NextPicked ==
    ASSUME PickedInv, careful, [Next]_vars
    PROVE  PickedInv'
<1>1. ASSUME NEW d \in listed, trToUpdate(d) PROVE PickedInv'
  BY <1>1 DEF PickedInv, trToUpdate, MayClick, Quiet
<1>2. ASSUME NEW d \in asked, selectDocToId(d) PROVE PickedInv'
  BY <1>2 DEF PickedInv, selectDocToId
<1>3. CASE UNCHANGED <<asked, picked, form>>
  BY <1>3 DEF PickedInv
<1>4. CASE asked' = {} /\ form' = None
  BY <1>4 DEF PickedInv
<1>5. ASSUME NEW c \in Connections, Serve(c)
      PROVE  UNCHANGED <<asked, picked, form>> \/ (asked' = {} /\ form' = None)
  BY <1>5 DEF Serve, registerDesignDocument, saveDesignDocument, updateDesignDocument,
     confirmCustomer, deleteDesignDocument, Insert, Refuse, Loaded, page
<1>6. QED
  BY <1>1, <1>2, <1>3, <1>4, <1>5
     DEF Next, Step, vars, page, createTableRow, trash, reload, Loaded, registerDesign,
         updateDesign, approvalForCustomer, deletForDocument, Send

\* When the user waits for answers, an update or a submission is posted for the
\* row that was clicked last, though its id comes from an answer.
THEOREM ActsOnPickedCorrect == Spec => ActsOnPicked
<1> DEFINE Inv == TypeOK /\ (careful => PickedInv)
           Chosen == careful => \A c \in Connections :
                        /\ posts[c] = None /\ posts'[c] # None
                        /\ posts'[c].what \in {"update", "confirm"}
                        => posts'[c].id = picked
<1>1. Init => Inv
  BY InitType DEF Init, PickedInv
<1>2. Inv /\ [Next]_vars => Inv'
  BY NextType, NextPicked DEF Next, vars
<1>3. Inv /\ [Next]_vars => [Chosen]_vars
  <2> SUFFICES ASSUME Inv, Next, careful, NEW c \in Connections,
                      posts[c] = None, posts'[c] # None,
                      posts'[c].what \in {"update", "confirm"}
               PROVE  posts'[c].id = picked
    OBVIOUS
  <2>1. ASSUME NEW p, Send(p) PROVE posts'[c] = p /\ form \in {picked, None}
    BY <2>1 DEF Send, MayClick, Quiet, PickedInv, TypeOK
  <2>2. ASSUME NEW o \in Orders, NEW t \in Contents PROVE ~registerDesign(o, t)
    <3>1. SUFFICES ASSUME registerDesign(o, t) PROVE FALSE
      OBVIOUS
    <3>2. posts'[c] = [what |-> "register", of |-> o, content |-> t, checked |-> FALSE]
      BY <2>1, <3>1 DEF registerDesign
    <3>3. QED
      BY <3>2
  <2>3. ASSUME NEW t \in Contents, updateDesign(t) PROVE posts'[c].id = picked
    BY <2>1, <2>3 DEF updateDesign
  <2>4. CASE approvalForCustomer
    BY <2>1, <2>4 DEF approvalForCustomer
  <2>5. ~deletForDocument
    <3>1. SUFFICES ASSUME deletForDocument PROVE FALSE
      OBVIOUS
    <3>2. posts'[c] = [what |-> "delete", ids |-> ToSet(marked)]
      BY <2>1, <3>1 DEF deletForDocument
    <3>3. QED
      BY <3>2
  <2>6. ASSUME NEW e \in Connections PROVE ~Serve(e)
    <3>1. SUFFICES ASSUME Serve(e) PROVE FALSE
      OBVIOUS
    <3>2. \E p : posts' = [posts EXCEPT ![e] = p]
      BY <3>1 DEF Serve, registerDesignDocument, saveDesignDocument, updateDesignDocument,
         confirmCustomer, deleteDesignDocument, Insert, Refuse, Answered
    <3>3. e # c
      BY <3>1 DEF Serve
    <3>4. QED
      BY <3>2, <3>3 DEF TypeOK
  <2>7. QED
    BY <2>2, <2>3, <2>4, <2>5, <2>6
       DEF Next, Step, trToUpdate, createTableRow, selectDocToId, trash, reload
<1>4. QED
  BY <1>1, <1>2, <1>3, PTL DEF Spec, ActsOnPicked
=============================================================================
