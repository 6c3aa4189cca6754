--------------------------- MODULE LocationTree ---------------------------
(***************************************************************************)
(* The tree of storage locations: the page on which it is edited           *)
(* (locationEvents.js) and the service that keeps it                       *)
(* (LocationMasterImp.java, LocationMasterDAO.java).  The children of a    *)
(* location are mapped with orphanRemoval: what is taken out of the set of *)
(* children is deleted from the table, with everything beneath.  A         *)
(* location that stock refers to cannot be deleted: the transaction that   *)
(* tries is rolled back.  Transactions do not overlap; what the pages show *)
(* is as old as their last load.                                           *)
(***************************************************************************)
EXTENDS Naturals, FiniteSets, SequencesExt

CONSTANTS
    Clients,        \* browsers with the page open
    None,           \* no location, the entry "none"
    MaxLocations,   \* bound: locations ever created
    MaxMarks,       \* bound: locations on a list of deletions
    MaxHandlers,    \* bound, per client: clicks on the tab of deletions
                    \* between loads
    SubRows,        \* rows of the table of sub-locations
    PicksSelf       \* TRUE: a location may be chosen as its own parent

ASSUME LocationTreeAssumption ==
    /\ None \notin Nat
    /\ MaxLocations \in Nat /\ MaxMarks \in Nat /\ MaxHandlers \in [Clients -> Nat]
    /\ SubRows \in Nat
    /\ PicksSelf \in BOOLEAN

VARIABLES
    loc,        \* the table of locations
    used,       \* locations that lots or rows of the stock history refer to
    tops,       \* per client: the rows and options of the page, as loaded
    shown,      \* per client: the locations it has shown since: the form and
                \* the list of deletions are filled from their rows
    deletes     \* per client: requests to delete that are under way

page == <<tops, shown>>
vars == <<loc, used, page, deletes>>

Id == 1 .. MaxLocations
Location == [parent : Id \cup {None}, level : Nat, disabled : BOOLEAN,
             kept : BOOLEAN]
Deletion == [ids : Seq(Id), next : Nat]

Kept == {l \in DOMAIN loc : loc[l].kept}
Live == {l \in Kept : ~loc[l].disabled}

ClosedBelow(S) == \A k \in Kept : loc[k].parent \in S => k \in S

\* A location and everything beneath it.
Below(l) == {k \in Kept : \A S \in SUBSET Kept : l \in S /\ ClosedBelow(S) => k \in S}

Children(l) == {k \in Kept : loc[k].parent = l}

SelectByLevel0 == {l \in Live : loc[l].level = 0}

\* What a load of the page leaves at a client; its requests go on.
Loaded(c, ts) ==
    /\ tops' = [tops EXCEPT ![c] = ts]
    /\ shown' = [shown EXCEPT ![c] = ts]

Init ==
    /\ loc = <<>>
    /\ used = {}
    /\ tops = [c \in Clients |-> {}]
    /\ shown = [c \in Clients |-> {}]
    /\ deletes = [c \in Clients |-> <<>>]

-----------------------------------------------------------------------------
(* The page *)

reload(c) ==
    /\ Loaded(c, SelectByLevel0)
    /\ UNCHANGED <<loc, used, deletes>>

\* The sub-locations of a row that was clicked arrive, as many as the table
\* has rows for.  Which of the requests under way is answered is left open.
getSubData(c, l) ==
    /\ l \in Live
    /\ \E came \in SUBSET (Children(l) \cap Live) :
          /\ Cardinality(came) <= SubRows
          /\ came # {}
          /\ shown' = [shown EXCEPT ![c] = @ \cup came]
    /\ UNCHANGED <<loc, used, tops, deletes>>

\* The locations on the list are sent to be deleted.  Every click on the tab
\* of deletions has hung another handler on the button, and each sends a
\* request of its own.
deleteEvt(c, ids, handlers) ==
    /\ deletes[c] = <<>>
    /\ deletes' = [deletes EXCEPT ![c] =
          [h \in 1 .. handlers |-> [ids |-> ids, next |-> 1]]]
    /\ UNCHANGED <<loc, used, page>>

-----------------------------------------------------------------------------
(* The service *)

NewLocation(parent, level) ==
    Append(loc, [parent |-> parent, level |-> level,
                 disabled |-> FALSE, kept |-> TRUE])

\* Wrong form: the parent is what the page says, there or not.
createLocationUnder(c, p) ==
    /\ Len(loc) < MaxLocations
    /\ loc' = IF p = None THEN NewLocation(None, 0)
              ELSE NewLocation(p, loc[p].level + 1)
    /\ Loaded(c, SelectByLevel0')
    /\ UNCHANGED <<used, deletes>>

\* Under a parent that is no longer there nothing is created.
createLocation(c, p) ==
    /\ Len(loc) < MaxLocations
    /\ loc' = IF p = None THEN NewLocation(None, 0)
              ELSE IF p \in Live THEN NewLocation(p, loc[p].level + 1)
              ELSE loc
    /\ Loaded(c, SelectByLevel0')
    /\ UNCHANGED <<used, deletes>>

\* The rows of S are deleted.
Without(S) == [k \in DOMAIN loc |-> [loc[k] EXCEPT !.kept = @ /\ k \notin S]]

\* The database keeps a row that others refer to.
Deletable(S) == S \cap used = {}

\* Wrong form: the location is moved, its level stays.
MovedLevelStays(l, p) == [Without(Below(l) \ {l}) EXCEPT
    ![l] = [@ EXCEPT !.parent = p]]

Moved(l, p) == [Without(Below(l) \ {l}) EXCEPT
    ![l] = [@ EXCEPT !.parent = p, !.level = loc[p].level + 1]]

\* Wrong form: a location may be moved under one that goes with its children.
MovableUnder(l, p) == l \in Live /\ p \in Kept /\ Deletable(Below(l) \ {l})

\* An update clears the children of the location, which deletes them, and sets
\* its parent.  Without a parent it fails, as it does if the new parent is one
\* of the deleted.
Movable(l, p) ==
    /\ l \in Live /\ p \in Kept
    /\ Deletable(Below(l) \ {l})
    /\ p \notin Below(l) \ {l}

updateLocation(c, l, p) ==
    /\ p = l => PicksSelf
    /\ loc' = IF Movable(l, p) THEN Moved(l, p) ELSE loc
    /\ Loaded(c, SelectByLevel0')
    /\ UNCHANGED <<used, deletes>>

\* A location at the top is disabled.  Any other is also taken out of the
\* children of its parent, which deletes it with everything beneath.
Deleted(l) ==
    IF l \notin Kept THEN loc
    ELSE IF loc[l].parent = None THEN [loc EXCEPT ![l].disabled = TRUE]
    ELSE IF Deletable(Below(l)) THEN Without(Below(l))
    ELSE loc

\* The way up from a location ends.  Where it does not, deleteLocation does
\* not return.
Ends(l) == l \in Kept => \E t \in Kept : loc[t].parent = None /\ l \in Below(t)

\* One location of a request, in a transaction of its own.
deleteLocation(c, i) ==
    LET d == deletes[c][i] IN
    /\ d.next <= Len(d.ids)
    /\ deletes' = [deletes EXCEPT ![c][i].next = @ + 1]
    /\ Ends(d.ids[d.next])
    /\ loc' = Deleted(d.ids[d.next])
    /\ UNCHANGED <<used, page>>

\* When all are done the page says "deleted" and is loaded anew.
eraseDelete(c, i) ==
    /\ deletes[c][i].next > Len(deletes[c][i].ids)
    /\ deletes' = [deletes EXCEPT ![c] = RemoveAt(@, i)]
    /\ Loaded(c, SelectByLevel0)
    /\ UNCHANGED <<loc, used>>

\* Stock is put into a location.  That the lot leaves it again changes nothing
\* here: the row of the stock history that says so names the location.
addLot(l) ==
    /\ l \in Live
    /\ used' = used \cup {l}
    /\ UNCHANGED <<loc, page, deletes>>

\* What a list of deletions may hold: locations the page has shown, each once.
Lists(S) == UNION {SetToSeqs(T) : T \in {U \in SUBSET S :
                                            Cardinality(U) \in 1 .. MaxMarks}}

\* A step of the server in a request it has.
Serve(c) == \E i \in DOMAIN deletes[c] : deleteLocation(c, i) \/ eraseDelete(c, i)

Next ==
    \/ \E c \in Clients :
          \/ reload(c)
          \/ \E l \in shown[c] : getSubData(c, l)
          \/ \E ids \in Lists(shown[c]), h \in 1 .. MaxHandlers[c] : deleteEvt(c, ids, h)
          \/ \E p \in tops[c] \cup {None} : createLocation(c, p)
          \/ \E l \in shown[c], p \in tops[c] \cup {None} : updateLocation(c, l, p)
          \/ Serve(c)
    \/ \E l \in Live : addLot(l)

Spec == Init /\ [][Next]_vars

\* The clients that may have requests at all.
Deleters == {c \in Clients : MaxHandlers[c] > 0}

\* The server goes on with the requests it has.
FairSpec == Spec /\ \A c \in Deleters : WF_vars(Serve(c))

-----------------------------------------------------------------------------
(* Properties *)

TypeOK ==
    /\ loc \in Seq(Location) /\ Len(loc) <= MaxLocations
    /\ used \subseteq DOMAIN loc
    /\ tops \in [Clients -> SUBSET Id]
    /\ shown \in [Clients -> SUBSET Id]
    /\ deletes \in [Clients -> Seq(Deletion)]

\* The level a location keeps is its distance from the top, and its parent is
\* still there, whatever two clients with pages of different age create, move
\* and delete.  The level is computed once, from the parent of that moment.
LevelIsDepth == \A l \in Kept :
    IF loc[l].parent = None THEN loc[l].level = 0
    ELSE loc[l].parent \in Kept /\ loc[l].level = loc[loc[l].parent].level + 1

\* Walking up from any location one arrives at the top ("the highest index is
\* the topmost", says the code that walks; makeName and deleteLocation loop
\* until they are there): no page, however old, brings about a circle or a
\* location whose parent is gone.
ReachesTop == \A l \in Kept : Ends(l)

\* If the server goes on, every request to delete comes to an end: the loop
\* over the parents of a location is left, although other clients move the
\* location and its parents while the request is under way.
DeletesEnd == \A c \in Deleters : deletes[c] # <<>> ~> deletes[c] = <<>>

(* What messages say and the code does not keep; no run states these two. *)

\* A location vanishes only while some client deletes.
OnlyDeletesRemove ==
    [][(\A c \in Clients : deletes[c] = <<>>) => Kept \subseteq Kept']_vars

\* When the page says "deleted", what was on the list is no longer live.
DeletedIsGone ==
    [][\A c \in Clients :
          Len(deletes'[c]) < Len(deletes[c]) =>
              \E i \in DOMAIN deletes[c] :
                  /\ deletes'[c] = RemoveAt(deletes[c], i)
                  /\ ToSet(deletes[c][i].ids) \cap Live = {}]_vars
=============================================================================
