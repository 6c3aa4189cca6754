---------------------------- MODULE TabStrip ----------------------------
(***************************************************************************)
(* The strip of page tabs of the web client (TabFuncs.js, TabInit.js).     *)
(* Every browser window has its tabs and its own sessionStorage, which     *)
(* remembers them across a reload; localStorage, which all windows share,  *)
(* remembers the one tab that is open.  The content of a tab is loaded     *)
(* asynchronously; when the answer arrives its handlers are attached, and  *)
(* its search box is filled if the page is the open one at that moment.    *)
(***************************************************************************)
EXTENDS Naturals, FiniteSets, SequencesExt

CONSTANTS
    Windows,        \* browser windows of one profile
    Home,           \* the window of a user who keeps to one
    Pages,          \* menu entries
    UrlOf,          \* the url of each menu entry; entries may share one
    Blank,          \* the empty url
    Searched,       \* pages with a search box
    NoOpen,         \* localStorage has no "Open"
    NoTab,          \* the tab key or url of an "Open" that names none
    MaxLoads,       \* bound: loads of one tab that are under way
    SortedKeys,     \* TRUE: the browser lists the items of sessionStorage in
                    \* the order of their keys; FALSE: in any order
    MaxTabs,        \* bound: tabs of a window, and keys they are stored under
    Room            \* bound: tabs that are opened in each window

ASSUME TabStripAssumption ==
    /\ Home \in Windows
    /\ DOMAIN UrlOf = Pages
    /\ Searched \subseteq Pages
    /\ NoTab \notin Nat \cup {UrlOf[p] : p \in Pages}
    /\ MaxLoads \in Nat \ {0}
    /\ SortedKeys \in BOOLEAN
    /\ MaxTabs \in Nat /\ Room \in [Windows -> 0 .. MaxTabs]

VARIABLES
    strip,      \* per window: the tabs in the order of the strip
    session,    \* per window: sessionStorage, "tab<n>" -> the page stored
    open,       \* localStorage "Open", shared by all windows
    tidy,       \* whether the user closes tabs from the end only
    alone       \* whether the user keeps to the window Home

user == <<tidy, alone>>
vars == <<strip, session, open, user>>

Urls == {UrlOf[p] : p \in Pages}
Keys == 0 .. MaxTabs - 1
Tab == [page : Pages, key : Keys, waiting : 0 .. MaxLoads,
        wired : BOOLEAN, filled : BOOLEAN, shown : BOOLEAN]
Open == [key : Keys \cup {NoTab}, url : Urls \cup {NoTab}]

ASSUME OpenAssumption == NoOpen \notin Open

Init ==
    /\ strip = [w \in Windows |-> <<>>]
    /\ session = [w \in Windows |-> <<>>]
    /\ open = NoOpen
    /\ tidy \in BOOLEAN /\ alone \in BOOLEAN

-----------------------------------------------------------------------------
Length(s) == Cardinality(DOMAIN s)

\* sessionStorage.setItem and removeItem.
SetItem(s, k, p) == [j \in DOMAIN s \cup {k} |-> IF j = k THEN p ELSE s[j]]
RemoveItem(s, k) == [j \in DOMAIN s \ {k} |-> s[j]]

Hide(tabs) == [i \in DOMAIN tabs |-> [tabs[i] EXCEPT !.shown = FALSE]]

\* OpenTabContent: hide the others, show this one and load its page.
OpenTabContent(tabs, i) ==
    [Hide(tabs) EXCEPT ![i].shown = TRUE, ![i].waiting = @ + 1]

\* storedOpenPage
storedOpenPage(k, url) == [key |-> k, url |-> url]

\* The key of a new tab is its position in the strip, whether or not another
\* tab has that key already.
StoredTab(tabs) == Len(tabs)

\* createTab once the page is known not to be open.
AddTab(st, p) ==
    LET key == StoredTab(st.strip)
        tab == [page |-> p, key |-> key, waiting |-> 0,
                wired |-> FALSE, filled |-> FALSE, shown |-> FALSE]
    IN  [strip |-> OpenTabContent(Append(st.strip, tab), key + 1),
         session |-> SetItem(st.session, key, p)]

\* Wrong forms: skip a gap as reloadTabPage does; stop one
\* item early.
OpenedPageCheckSkipsGaps(s, p) ==
    \A i \in 0 .. Length(s) - 1 : i \in DOMAIN s => s[i] # p
OpenedPageCheckEndsEarly(s, p) ==
    \A i \in 0 .. Length(s) - 2 : i \in DOMAIN s /\ s[i] # p

\* OpenedPageCheck reads tab0, tab1, ... and throws at the first that is
\* missing; a page that is found is not opened again.
OpenedPageCheck(s, p) ==
    \A i \in 0 .. Length(s) - 1 : i \in DOMAIN s /\ s[i] # p

\* A tab has its url as its id: the ones found by the id of page p.  No
\* element is found by an empty id.
Same(tabs, p) == {i \in DOMAIN tabs :
    UrlOf[tabs[i].page] = UrlOf[p] /\ UrlOf[p] # Blank}

\* reOpen shows, without loading it, the first tab with the stored url.  It
\* throws before it hides anything if nothing is stored, and after that if no
\* such tab is in the strip.
reOpen(tabs, s, k) ==
    IF k \notin DOMAIN s THEN tabs
    ELSE IF Same(tabs, s[k]) = {} THEN Hide(tabs)
    ELSE LET first == CHOOSE i \in Same(tabs, s[k]) :
                          \A j \in Same(tabs, s[k]) : i <= j
         IN  [Hide(tabs) EXCEPT ![first].shown = TRUE]

reOpenThrows(tabs, s, k) == k \notin DOMAIN s \/ Same(tabs, s[k]) = {}

-----------------------------------------------------------------------------
\* A click on a menu entry.  The entry is also a link to /main, which the
\* browser follows afterwards, whatever createTab did: TabInit.
createTab(w, p) ==
    /\ Len(strip[w]) < Room[w]
    /\ OpenedPageCheck(session[w], p)
    /\ LET st == AddTab([strip |-> strip[w], session |-> session[w]], p)
       IN  /\ strip' = [strip EXCEPT ![w] = st.strip]
           /\ session' = [session EXCEPT ![w] = st.session]
    /\ open' = storedOpenPage(StoredTab(strip[w]), UrlOf[p])
    /\ UNCHANGED user

\* Wrong form: the open tab is not stored.
openPageUnstored(w, i) ==
    /\ strip[w][i].waiting < MaxLoads
    /\ strip' = [strip EXCEPT ![w] = OpenTabContent(@, i)]
    /\ UNCHANGED <<session, open, user>>

\* A click on a tab: it is shown and loaded again.
openPage(w, i) ==
    /\ strip[w][i].waiting < MaxLoads
    /\ strip' = [strip EXCEPT ![w] = OpenTabContent(@, i)]
    /\ open' = storedOpenPage(strip[w][i].key, UrlOf[strip[w][i].page])
    /\ UNCHANGED <<session, user>>

\* The method of Events for a page: it attaches the handlers of the page,
\* whichever is open.  InfoSearch fills the search box if the page is the one
\* that localStorage names, and throws, with what follows it, if there is none.
Events(tab) == [tab EXCEPT
    !.waiting = @ - 1,
    !.wired = tab.page \in Searched => open # NoOpen,
    !.filled = tab.page \in Searched /\ open # NoOpen /\ open.url = UrlOf[tab.page]]

\* Wrong form: an answer is handled that nobody waits for.
AssignEvtFuncTwice(w, i) ==
    /\ strip' = [strip EXCEPT ![w][i] = Events(@)]
    /\ UNCHANGED <<session, open, user>>

\* The page of a tab arrives and replaces its content.
AssignEvtFunc(w, i) ==
    /\ strip[w][i].waiting > 0
    /\ strip' = [strip EXCEPT ![w][i] = Events(@)]
    /\ UNCHANGED <<session, open, user>>

\* The tab leaves storage and the strip; the last one clears localStorage.
Discard(w, i, tabs, o) ==
    LET s == RemoveItem(session[w], strip[w][i].key)
    IN  /\ session' = [session EXCEPT ![w] = s]
        /\ open' = IF DOMAIN s = {} THEN NoOpen ELSE o
        /\ strip' = [strip EXCEPT ![w] = RemoveAt(tabs, i)]
        /\ UNCHANGED user

\* sessionStorage.key(0) may be k.
MayBeFirst(s, k) ==
    k \in DOMAIN s /\ (SortedKeys => \A j \in DOMAIN s : k <= j)

\* The close button of a tab that is not the open one, or is the first of
\* sessionStorage.
closePage(w, i) ==
    /\ open # NoOpen
    /\ \/ strip[w][i].key # open.key
       \/ MayBeFirst(session[w], strip[w][i].key)
    /\ Discard(w, i, strip[w], open)

\* The close button of the open tab: the tab stored one key before is opened
\* first.  When that fails the handler stops there, with the tab in place.
preTabOpen(w, i) ==
    LET key == strip[w][i].key
        pre == IF key = 0 THEN NoTab ELSE key - 1
        url == IF pre \in DOMAIN session[w] THEN UrlOf[session[w][pre]] ELSE NoTab
        tabs == reOpen(strip[w], session[w], pre)
    IN  /\ open # NoOpen
        /\ key = open.key
        /\ \/ DOMAIN session[w] = {}
           \/ \E k \in DOMAIN session[w] \ {key} : MayBeFirst(session[w], k)
        /\ IF reOpenThrows(strip[w], session[w], pre)
           THEN /\ strip' = [strip EXCEPT ![w] = tabs]
                /\ open' = storedOpenPage(pre, url)
                /\ UNCHANGED <<session, user>>
           ELSE Discard(w, i, tabs, storedOpenPage(pre, url))

MayClose(w, i) == tidy => i = Len(strip[w])

\* Wrong form: the length of sessionStorage less one.
reloadTabPageEndsEarly(s) ==
    LET made[i \in 0 .. MaxTabs] ==
          IF i = 0 THEN [strip |-> <<>>, session |-> s]
          ELSE LET st == made[i - 1]
               IN  IF i < Length(st.session) /\ (i - 1) \in DOMAIN st.session
                   THEN AddTab(st, st.session[i - 1]) ELSE st
    IN  made[MaxTabs]

\* reloadTabPage: the tabs are made again for i = 0, 1, ... while i is less
\* than the length of sessionStorage, to which each new tab may add an item.
reloadTabPage(s) ==
    LET made[i \in 0 .. MaxTabs] ==
          IF i = 0 THEN [strip |-> <<>>, session |-> s]
          ELSE LET st == made[i - 1]
               IN  IF i - 1 < Length(st.session) /\ (i - 1) \in DOMAIN st.session
                   THEN AddTab(st, st.session[i - 1]) ELSE st
    IN  made[MaxTabs]

\* The window is loaded again (TabInit), after a click on a menu entry or by
\* the user; checkCurrentPage then shows the tab that localStorage names.
TabInit(w) ==
    /\ LET st == reloadTabPage(session[w])
           current == session[w] # <<>> /\ open # NoOpen
       IN  /\ strip' = [strip EXCEPT ![w] =
                 IF current THEN reOpen(st.strip, st.session, open.key)
                 ELSE st.strip]
           /\ session' = [session EXCEPT ![w] = st.session]
    /\ UNCHANGED <<open, user>>

\* The login page clears sessionStorage after a logout; the tabs are gone.
sessionClear(w) ==
    /\ strip' = [strip EXCEPT ![w] = <<>>]
    /\ session' = [session EXCEPT ![w] = <<>>]
    /\ UNCHANGED <<open, user>>

\* The windows in use.
Used == IF alone THEN {Home} ELSE Windows

Next == \E w \in Used :
    \/ \E p \in Pages : createTab(w, p)
    \/ \E i \in DOMAIN strip[w] :
          \/ openPage(w, i)
          \/ AssignEvtFunc(w, i)
          \/ MayClose(w, i) /\ (closePage(w, i) \/ preTabOpen(w, i))
    \/ TabInit(w)
    \/ sessionClear(w)

\* The server answers every load; the user owes nothing.
Spec ==
    /\ Init
    /\ [][Next]_vars
    /\ \A w \in Windows, i \in 1 .. MaxTabs :
          WF_vars(i \in DOMAIN strip[w] /\ AssignEvtFunc(w, i))

-----------------------------------------------------------------------------
(* Properties *)

TypeOK ==
    /\ DOMAIN strip = Windows
    /\ \A w \in Windows :
          /\ Len(strip[w]) <= MaxTabs
          /\ \A i \in DOMAIN strip[w] : strip[w][i] \in Tab
    /\ DOMAIN session = Windows
    /\ \A w \in Windows :
          /\ DOMAIN session[w] \subseteq Keys
          /\ \A k \in DOMAIN session[w] : session[w][k] \in Pages
    /\ open \in Open \cup {NoOpen}
    /\ tidy \in BOOLEAN /\ alone \in BOOLEAN

\* Whatever tabs are closed in whatever order, in however many windows, and
\* whenever a window is reloaded: no two tabs of a window share a key, though a
\* key is a position of the strip, and each tab is stored under its own.  It is
\* the exception of OpenedPageCheck at a gap that protects this.  If tabs are
\* only closed from the end, sessionStorage holds nothing else.
SessionIsStrip == \A w \in Windows :
    LET keys == {strip[w][i].key : i \in DOMAIN strip[w]}
    IN  /\ keys \subseteq DOMAIN session[w]
        /\ \A i \in DOMAIN strip[w] : session[w][strip[w][i].key] = strip[w][i].page
        /\ \A i, j \in DOMAIN strip[w] :
              strip[w][i].key = strip[w][j].key => i = j
        /\ tidy => DOMAIN session[w] = keys

\* "The page is already open": no page has two tabs in one window, if tabs are
\* only closed from the end.
PagesOpenOnce == tidy => \A w \in Windows : \A i, j \in DOMAIN strip[w] :
    strip[w][i].page = strip[w][j].page => i = j

\* A window with tabs shows one, of the url that localStorage says is open, so
\* that a reload comes back to it (one window, tabs closed from the end); only
\* a tab without a url is not found again.
ShownIsOpen == tidy /\ alone =>
    LET shown == {i \in DOMAIN strip[Home] : strip[Home][i].shown}
    IN  /\ \A i, j \in shown : i = j
        /\ \A i \in shown :
              open # NoOpen /\ open.url = UrlOf[strip[Home][i].page]
        /\ strip[Home] # <<>> /\ open.url # Blank => shown # {}

PagesOf(tabs) == [i \in DOMAIN tabs |-> tabs[i].page]

\* A reload brings back the tabs that were there, in their order, and leaves
\* in storage what they left there (tabs closed from the end).
ReloadKeepsTabs ==
    [][tidy => \A w \in Windows : TabInit(w) =>
          /\ PagesOf(strip[w]') = PagesOf(strip[w])
          /\ session[w]' = session[w]]_vars

\* A page that is shown while it loads gets its handlers and its search box,
\* unless the user turns to another tab, closes it or leaves before its answer
\* is there: what InfoSearch compares is then this page's url.
ShownPageComesAlive == \A i \in 1 .. MaxTabs :
    (/\ tidy /\ alone /\ i \in DOMAIN strip[Home]
     /\ strip[Home][i].shown /\ strip[Home][i].waiting > 0)
        ~> (i \in DOMAIN strip[Home] /\ strip[Home][i].shown =>
              /\ strip[Home][i].wired
              /\ strip[Home][i].page \in Searched => strip[Home][i].filled)

(* What comments say and the code does not keep; no run states it.           *)

\* "Fills the search box" (Events.js): a page that is shown and not loading has
\* its search box.  A reload fills only the one that is open, and closing that
\* one shows another without loading it.
ShownIsSearchable == tidy /\ alone => \A i \in DOMAIN strip[Home] :
    LET tab == strip[Home][i]
    IN  tab.shown /\ tab.waiting = 0 /\ tab.page \in Searched => tab.filled
=============================================================================
