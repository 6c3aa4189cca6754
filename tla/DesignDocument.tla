-------------------------- MODULE DesignDocument --------------------------
(***************************************************************************)
(* Design documents: the page on which a designer registers, edits,        *)
(* submits and deletes them (DocumentForApproval.js) in front of the       *)
(* service that keeps them (DocumentForWorkOrderImp.java).                 *)
(*                                                                         *)
(* The page was filled when it was loaded; the form is filled by answers,  *)
(* which come in any order.  Every answer to a post reloads the page.  The *)
(* box of products has one entry, "none": the service lists no products,   *)
(* so a document is identified by its order alone.                         *)
(***************************************************************************)
EXTENDS Naturals, FiniteSets, SequencesExt

CONSTANTS
    Orders,         \* received orders a document can be made for
    Contents,       \* what a document says: title, remark and designs
    Connections,    \* bound: posts of the page that are under way
    None,
    MaxDocs,        \* bound: documents ever registered
    Overlap         \* TRUE: the server runs two registrations at once

ASSUME DesignDocumentAssumption ==
    /\ None \notin Nat \cup Orders
    /\ MaxDocs \in Nat
    /\ Overlap \in BOOLEAN

VARIABLES
    docs,       \* the documents on the server
    listed,     \* the documents in the table of the page
    form,       \* the id in the update form
    picked,     \* the row the user clicked last
    marked,     \* the ids in the list of documents to delete
    asked,      \* ids whose contents are asked for
    submitted,  \* the button that submits is hidden
    posts,      \* per connection: the post under way
    careful     \* whether the user waits for answers before going on

page == <<listed, form, picked, marked, asked, submitted>>
vars == <<docs, page, posts, careful>>

Document == [of : Orders, content : Contents,
             disabled : BOOLEAN, confirmed : BOOLEAN, making : BOOLEAN]
Post == [what : {"register"}, of : Orders, content : Contents, checked : BOOLEAN]
    \cup [what : {"update"}, id : DOMAIN docs, content : Contents]
    \cup [what : {"confirm"}, id : DOMAIN docs]
    \cup [what : {"delete"}, ids : SUBSET DOMAIN docs]

\* Wrong form: confirmed documents are in the table as well.
MakingAll(ds) == {d \in DOMAIN ds : ~ds[d].disabled}

\* The documents in the table: those that are not yet submitted.
selectMakingDesignDoc(ds) ==
    {d \in DOMAIN ds : ~ds[d].disabled /\ ~ds[d].confirmed /\ ds[d].making}

\* What a load of the page leaves.
Loaded(ds) ==
    /\ listed' = selectMakingDesignDoc(ds)
    /\ form' = None
    /\ picked' = None
    /\ marked' = <<>>
    /\ asked' = {}
    /\ submitted' = FALSE

Init ==
    /\ docs = <<>>
    /\ listed = {}
    /\ form = None
    /\ picked = None
    /\ marked = <<>>
    /\ asked = {}
    /\ submitted = FALSE
    /\ posts = [c \in Connections |-> None]
    /\ careful \in BOOLEAN

Quiet == asked = {} /\ \A c \in Connections : posts[c] = None
MayClick == careful => Quiet

-----------------------------------------------------------------------------
(* Clicks on the table *)

\* In the tab of updates, a click asks for the document ...
trToUpdate(d) ==
    /\ MayClick
    /\ picked' = d
    /\ asked' = asked \cup {d}
    /\ UNCHANGED <<docs, listed, form, marked, submitted, posts>>

\* Wrong form: the id of the form is not filled in with the rest.
selectDocToIdKeepsId(d) ==
    /\ form' = IF form = None THEN d ELSE form
    /\ asked' = asked \ {d}
    /\ UNCHANGED <<docs, listed, picked, marked, submitted, posts>>

\* ... whose answer fills the form, whatever has been clicked since.
selectDocToId(d) ==
    /\ form' = d
    /\ asked' = asked \ {d}
    /\ UNCHANGED <<docs, listed, picked, marked, submitted, posts>>

\* In the tab of deletions, a click puts the document on the list, once.
createTableRow(d) ==
    /\ MayClick
    /\ \A i \in DOMAIN marked : marked[i] # d
    /\ marked' = Append(marked, d)
    /\ UNCHANGED <<docs, listed, form, picked, asked, submitted, posts>>

\* Whichever row's bin is clicked, the row taken off is the first: the bin
\* reads a property that rows do not have.
trash ==
    /\ MayClick
    /\ marked # <<>>
    /\ marked' = Tail(marked)
    /\ UNCHANGED <<docs, listed, form, picked, asked, submitted, posts>>

\* The user reloads the page, which forgets the answers but not the posts.
reload ==
    /\ MayClick
    /\ Loaded(docs)
    /\ UNCHANGED <<docs, posts>>

-----------------------------------------------------------------------------
(* Posts *)

Send(p) ==
    /\ MayClick
    /\ \E c \in Connections :
          posts[c] = None /\ posts' = [posts EXCEPT ![c] = p]
    /\ UNCHANGED <<docs, listed, form, picked, marked, asked>>

Registering == {c \in Connections : posts[c] # None /\ posts[c].what = "register"}

registerDesign(o, t) ==
    /\ Len(docs) + Cardinality(Registering) < MaxDocs
    /\ Send([what |-> "register", of |-> o, content |-> t, checked |-> FALSE])
    /\ UNCHANGED submitted

updateDesign(t) ==
    /\ form # None
    /\ Send([what |-> "update", id |-> form, content |-> t])
    /\ UNCHANGED submitted

\* The button disappears with the request and is back with the next load.
approvalForCustomer ==
    /\ form # None
    /\ ~submitted
    /\ Send([what |-> "confirm", id |-> form])
    /\ submitted' = TRUE

deletForDocument ==
    /\ marked # <<>>
    /\ Send([what |-> "delete", ids |-> ToSet(marked)])
    /\ UNCHANGED submitted

-----------------------------------------------------------------------------
(* The service *)

Answered(c) == posts' = [posts EXCEPT ![c] = None]

Live(o) == {d \in DOMAIN docs : docs[d].of = o /\ ~docs[d].disabled}

\* Wrong form: disabled documents are looked at, live ones are not.
RegisteredDisabled(o) == \E d \in DOMAIN docs : docs[d].of = o /\ docs[d].disabled

\* The query for a document of the same order: with one the answer is "already
\* registered", with several the query throws and the answer is "error".
Registered(o) == Live(o) # {}

NewDocument(p) == [of |-> p.of, content |-> p.content, disabled |-> FALSE,
                   confirmed |-> FALSE, making |-> TRUE]

Insert(c) ==
    /\ Len(docs) < MaxDocs
    /\ docs' = Append(docs, NewDocument(posts[c]))
    /\ Answered(c)
    /\ Loaded(docs')

Refuse(c) ==
    /\ UNCHANGED docs
    /\ Answered(c)
    /\ Loaded(docs)

registerDesignDocument(c) ==
    /\ posts[c].what = "register"
    /\ ~posts[c].checked
    /\ \/ Registered(posts[c].of) /\ Refuse(c)
       \/ ~Overlap /\ ~Registered(posts[c].of) /\ Insert(c)
       \/ /\ Overlap /\ ~Registered(posts[c].of)
          /\ posts' = [posts EXCEPT ![c] =
                [what |-> "register", of |-> posts[c].of,
                 content |-> posts[c].content, checked |-> TRUE]]
          /\ UNCHANGED <<docs, page>>

\* The second half of a registration that overlaps another.
saveDesignDocument(c) ==
    /\ posts[c].what = "register"
    /\ posts[c].checked
    /\ Insert(c)

\* An update does not look at the state of the document.
updateDesignDocument(c) ==
    /\ posts[c].what = "update"
    /\ docs' = [docs EXCEPT ![posts[c].id] = [@ EXCEPT !.content = posts[c].content]]
    /\ Answered(c)
    /\ Loaded(docs')

confirmCustomer(c) ==
    /\ posts[c].what = "confirm"
    /\ docs' = [docs EXCEPT ![posts[c].id] =
                    [@ EXCEPT !.confirmed = TRUE, !.making = FALSE]]
    /\ Answered(c)
    /\ Loaded(docs')

deleteDesignDocument(c) ==
    /\ posts[c].what = "delete"
    /\ docs' = [d \in DOMAIN docs |->
          [docs[d] EXCEPT !.disabled = @ \/ d \in posts[c].ids]]
    /\ Answered(c)
    /\ Loaded(docs')

Serve(c) ==
    /\ posts[c] # None
    /\ \/ registerDesignDocument(c)
       \/ saveDesignDocument(c)
       \/ updateDesignDocument(c)
       \/ confirmCustomer(c)
       \/ deleteDesignDocument(c)

Step ==
    \/ \E d \in listed : trToUpdate(d) \/ createTableRow(d)
    \/ \E d \in asked : selectDocToId(d)
    \/ trash \/ reload
    \/ \E o \in Orders, t \in Contents : registerDesign(o, t)
    \/ \E t \in Contents : updateDesign(t)
    \/ approvalForCustomer
    \/ deletForDocument
    \/ \E c \in Connections : Serve(c)

Next == Step /\ UNCHANGED careful

Spec == Init /\ [][Next]_vars

-----------------------------------------------------------------------------
(* Properties *)

TypeOK ==
    /\ docs \in Seq(Document) /\ Len(docs) <= MaxDocs
    /\ listed \subseteq DOMAIN docs
    /\ form \in DOMAIN docs \cup {None}
    /\ picked \in DOMAIN docs \cup {None}
    /\ marked \in Seq(DOMAIN docs)
    /\ asked \subseteq DOMAIN docs
    /\ submitted \in BOOLEAN
    /\ posts \in [Connections -> Post \cup {None}]
    /\ careful \in BOOLEAN

\* However often and however fast the user registers and deletes, an order has
\* at most one document in use (the alert "already registered"); the service
\* relies on it: with two, its query for the document throws ever after.
OnePerOrder == \A d, e \in DOMAIN docs :
    /\ docs[d].of = docs[e].of
    /\ ~docs[d].disabled /\ ~docs[e].disabled
    => d = e

Final(d) == docs[d].confirmed /\ ~docs[d].disabled

\* With a careful user a design that was submitted to the customer neither
\* changes nor disappears (the dialog before it: "the document's editing is
\* completed").  No handler of the service checks that; it is the table of the
\* page that keeps users away from such documents.
SubmittedIsFinal ==
    [][careful => \A d \in DOMAIN docs : Final(d) => docs'[d] = docs[d]]_vars

\* With a careful user, what is submitted or updated is the document whose row
\* was clicked last: the id comes from an answer, not from the click.
ActsOnPicked ==
    [][careful => \A c \in Connections :
          /\ posts[c] = None /\ posts'[c] # None
          /\ posts'[c].what \in {"update", "confirm"}
          => posts'[c].id = picked]_vars
=============================================================================
