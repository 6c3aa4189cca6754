-------------------------- MODULE TabStrip_proofs --------------------------
(* Theorems about TabStrip, for every set of windows and menu entries and    *)
(* every number of tabs.                                                     *)
EXTENDS TabStrip, FiniteSetTheorems, WellFoundedInduction, TLAPS

-----------------------------------------------------------------------------
(* Sets of numbers. *)

LEMMA Least ==
    ASSUME NEW T \in SUBSET Nat, T # {}
    PROVE  \E x \in T : \A y \in T : x <= y
<1> DEFINE R == OpToRel(<, Nat)
<1>1. IsWellFoundedOn(R, Nat)
  BY NatLessThanWellFounded
<1>2. \A x, y \in Nat : y < x => <<y, x>> \in R
  BY DEF OpToRel
<1> HIDE DEF R
<1>3. PICK x \in T : \A y \in T : <<y, x>> \notin R
  BY <1>1, WFMin
<1>4. \A y \in T : ~(y < x)
  BY <1>2, <1>3
<1>5. \A y \in T : x <= y
  BY <1>4
<1>6. QED
  BY <1>5

LEMMA NatSetInduction ==
    ASSUME NEW S, 0 \in S, \A n \in Nat : n \in S => n + 1 \in S
    PROVE  Nat \subseteq S
<1> DEFINE T == Nat \ S
<1>1. CASE T # {}
  <2>1. PICK x \in T : \A y \in T : x <= y
    BY <1>1, Least
  <2>2. x \in Nat /\ x # 0
    OBVIOUS
  <2>3. x - 1 \in Nat /\ x - 1 \notin T
    BY <2>1, <2>2
  <2>4. x - 1 \in S
    BY <2>3
  <2>5. (x - 1) + 1 \in S
    BY <2>3, <2>4
  <2>6. QED
    BY <2>2, <2>5
<1>2. CASE T = {}
  BY <1>2
<1>3. QED
  BY <1>1, <1>2

-----------------------------------------------------------------------------
(* What the operators on strips return. *)

\* The same pages under the same keys.
Alike(t, u) ==
    /\ Len(t) = Len(u)
    /\ \A i \in 1 .. Len(u) : t[i].page = u[i].page /\ t[i].key = u[i].key

LEMMA FunctionIsSequence ==
    ASSUME NEW S, NEW n \in Nat, NEW f \in [1 .. n -> S]
    PROVE  f \in Seq(S) /\ Len(f) = n /\ DOMAIN f = 1 .. n
OBVIOUS

LEMMA ConcatIn ==
    ASSUME NEW S, NEW s \in Seq(S), NEW t \in Seq(S)
    PROVE  /\ s \o t \in Seq(S)
           /\ Len(s \o t) = Len(s) + Len(t)
           /\ \A j \in 1 .. Len(s) : (s \o t)[j] = s[j]
           /\ \A j \in Len(s) + 1 .. Len(s) + Len(t) : (s \o t)[j] = t[j - Len(s)]
OBVIOUS

LEMMA TabFields ==
    ASSUME NEW t \in Tab
    PROVE  /\ [t EXCEPT !.shown = TRUE] \in Tab
           /\ [t EXCEPT !.shown = FALSE] \in Tab
           /\ \A b \in BOOLEAN :
                 /\ [t EXCEPT !.shown = b].page = t.page
                 /\ [t EXCEPT !.shown = b].key = t.key
                 /\ [t EXCEPT !.shown = b].waiting = t.waiting
                 /\ [t EXCEPT !.shown = b].shown = b
BY DEF Tab

LEMMA SameTab ==
    ASSUME NEW t \in Tab, NEW u \in Tab,
           t.page = u.page, t.key = u.key, t.waiting = u.waiting,
           t.wired = u.wired, t.filled = u.filled, t.shown = u.shown
    PROVE  t = u
BY DEF Tab

LEMMA ShownSet ==
    ASSUME NEW t \in Tab, NEW u \in Tab, NEW b \in BOOLEAN,
           t.page = u.page, t.key = u.key, t.waiting = u.waiting,
           t.wired = u.wired, t.filled = u.filled, u.shown = b
    PROVE  [t EXCEPT !.shown = b] = u
<1>1. [t EXCEPT !.shown = b] \in Tab
  BY DEF Tab
<1>2. /\ [t EXCEPT !.shown = b].page = t.page
      /\ [t EXCEPT !.shown = b].key = t.key
      /\ [t EXCEPT !.shown = b].waiting = t.waiting
      /\ [t EXCEPT !.shown = b].wired = t.wired
      /\ [t EXCEPT !.shown = b].filled = t.filled
      /\ [t EXCEPT !.shown = b].shown = b
  BY DEF Tab
<1> DEFINE v == [t EXCEPT !.shown = b]
<1> HIDE DEF v
<1>3. v = u
  BY <1>1, <1>2, SameTab DEF v
<1>4. QED
  BY <1>3 DEF v

LEMMA WaitingSet ==
    ASSUME NEW t \in Tab, NEW u \in Tab, NEW n, u.waiting = n,
           t.page = u.page, t.key = u.key,
           t.wired = u.wired, t.filled = u.filled, t.shown = u.shown
    PROVE  [t EXCEPT !.waiting = n] = u
<1>0. n \in 0 .. MaxLoads
  BY DEF Tab
<1>1. [t EXCEPT !.waiting = n] \in Tab
  BY <1>0 DEF Tab
<1>2. /\ [t EXCEPT !.waiting = n].page = t.page
      /\ [t EXCEPT !.waiting = n].key = t.key
      /\ [t EXCEPT !.waiting = n].waiting = n
      /\ [t EXCEPT !.waiting = n].wired = t.wired
      /\ [t EXCEPT !.waiting = n].filled = t.filled
      /\ [t EXCEPT !.waiting = n].shown = t.shown
  BY DEF Tab
<1> DEFINE v == [t EXCEPT !.waiting = n]
<1> HIDE DEF v
<1>3. v = u
  BY <1>1, <1>2, SameTab DEF v
<1>4. QED
  BY <1>3 DEF v

LEMMA HideFacts ==
    ASSUME NEW tabs \in Seq(Tab)
    PROVE  /\ Hide(tabs) \in Seq(Tab)
           /\ Alike(Hide(tabs), tabs)
           /\ \A i \in 1 .. Len(tabs) :
                 /\ Hide(tabs)[i].waiting = tabs[i].waiting
                 /\ Hide(tabs)[i].shown = FALSE
<1>1. DOMAIN tabs = 1 .. Len(tabs) /\ Len(tabs) \in Nat
  OBVIOUS
<1>2. Hide(tabs) = [i \in 1 .. Len(tabs) |-> [tabs[i] EXCEPT !.shown = FALSE]]
  BY <1>1 DEF Hide
<1>3. \A i \in 1 .. Len(tabs) : tabs[i] \in Tab
  OBVIOUS
<1>4. \A i \in 1 .. Len(tabs) : [tabs[i] EXCEPT !.shown = FALSE] \in Tab
  BY <1>3, TabFields
<1>5. Hide(tabs) \in Seq(Tab)
  BY <1>1, <1>2, <1>4
<1>6. Len(Hide(tabs)) = Len(tabs)
  BY <1>1, <1>2
<1>7. \A i \in 1 .. Len(tabs) :
         /\ Hide(tabs)[i].page = tabs[i].page
         /\ Hide(tabs)[i].key = tabs[i].key
         /\ Hide(tabs)[i].waiting = tabs[i].waiting
         /\ Hide(tabs)[i].shown = FALSE
  <2> TAKE i \in 1 .. Len(tabs)
  <2>1. Hide(tabs)[i] = [tabs[i] EXCEPT !.shown = FALSE]
    BY <1>2
  <2>2. tabs[i] \in Tab
    BY <1>3
  <2>3. QED
    BY <2>1, <2>2, TabFields
<1>8. QED
  BY <1>5, <1>6, <1>7 DEF Alike

\* One tab shown in a strip that was hidden.
LEMMA ShowFacts ==
    ASSUME NEW tabs \in Seq(Tab), NEW c
    PROVE  LET u == [Hide(tabs) EXCEPT ![c].shown = TRUE]
           IN  /\ u \in Seq(Tab)
               /\ Alike(u, tabs)
               /\ \A i \in 1 .. Len(tabs) : u[i].shown <=> i = c
<1> DEFINE h == Hide(tabs)
           u == [h EXCEPT ![c].shown = TRUE]
<1>1. h \in Seq(Tab) /\ Alike(h, tabs) /\ \A i \in 1 .. Len(tabs) : ~h[i].shown
  BY HideFacts
<1>2. DOMAIN h = 1 .. Len(tabs) /\ Len(h) = Len(tabs) /\ Len(tabs) \in Nat
  BY <1>1 DEF Alike
<1>3. \A i \in 1 .. Len(tabs) : h[i] \in Tab
  BY <1>1, <1>2
<1> HIDE DEF h
<1>4. u = [i \in 1 .. Len(tabs) |->
             IF i = c THEN [h[i] EXCEPT !.shown = TRUE] ELSE h[i]]
  BY <1>2
<1>5. \A i \in 1 .. Len(tabs) : u[i] \in Tab
  BY <1>3, <1>4, TabFields
<1> HIDE DEF u
<1>6. u \in Seq(Tab) /\ Len(u) = Len(tabs)
  <2>1. u \in [1 .. Len(tabs) -> Tab]
    BY <1>4, <1>5
  <2>2. QED
    BY <1>2, <2>1, FunctionIsSequence
<1>7. \A i \in 1 .. Len(tabs) :
         u[i].page = h[i].page /\ u[i].key = h[i].key /\ (u[i].shown <=> i = c)
  <2> TAKE i \in 1 .. Len(tabs)
  <2>1. CASE i = c
    <3>1. u[i] = [h[i] EXCEPT !.shown = TRUE]
      BY <1>4, <2>1
    <3>2. QED
      BY <1>3, <2>1, <3>1, TabFields
  <2>2. CASE i # c
    <3>1. u[i] = h[i]
      BY <1>4, <2>2
    <3>2. QED
      BY <1>1, <2>2, <3>1
  <2>3. QED
    BY <2>1, <2>2
<1>8. Alike(u, tabs)
  BY <1>1, <1>2, <1>6, <1>7 DEF Alike
<1>9. QED
  BY <1>6, <1>7, <1>8 DEF h, u

LEMMA OpenFacts ==
    ASSUME NEW tabs \in Seq(Tab), NEW i \in 1 .. Len(tabs),
           tabs[i].waiting < MaxLoads
    PROVE  /\ OpenTabContent(tabs, i) \in Seq(Tab)
           /\ Alike(OpenTabContent(tabs, i), tabs)
           /\ \A j \in 1 .. Len(tabs) :
                 OpenTabContent(tabs, i)[j].shown <=> j = i
<1> DEFINE g == [Hide(tabs) EXCEPT ![i].shown = TRUE]
           u == [g EXCEPT ![i].waiting = @ + 1]
<1>1. /\ g \in Seq(Tab)
      /\ Alike(g, tabs)
      /\ \A j \in 1 .. Len(tabs) : g[j].shown <=> j = i
  BY ShowFacts
<1>2. g[i].waiting = tabs[i].waiting
  <2>1. Hide(tabs) \in Seq(Tab) /\ Len(Hide(tabs)) = Len(tabs)
        /\ Hide(tabs)[i].waiting = tabs[i].waiting
    BY HideFacts DEF Alike
  <2>2. i \in DOMAIN Hide(tabs)
    BY <2>1
  <2>3. g[i] = [Hide(tabs)[i] EXCEPT !.shown = TRUE]
    BY <2>2
  <2>4. Hide(tabs)[i] \in Tab
    BY <2>1, <2>2
  <2>5. QED
    BY <2>1, <2>3, <2>4, TabFields
<1>3. OpenTabContent(tabs, i) = u
  BY DEF OpenTabContent
<1>4. DOMAIN g = 1 .. Len(tabs) /\ Len(tabs) \in Nat
  BY <1>1 DEF Alike
<1> HIDE DEF g
<1>5. u = [j \in 1 .. Len(tabs) |->
             IF j = i THEN [g[i] EXCEPT !.waiting = @ + 1] ELSE g[j]]
  BY <1>4
<1>6. g[i] \in Tab /\ g[i].waiting + 1 \in 0 .. MaxLoads
  <2>1. g[i] \in Tab
    BY <1>1, <1>4
  <2>2. tabs[i] \in Tab
    OBVIOUS
  <2>3. QED
    BY <2>1, <2>2, <1>2, TabStripAssumption DEF Tab
<1>7. /\ [g[i] EXCEPT !.waiting = @ + 1] \in Tab
      /\ [g[i] EXCEPT !.waiting = @ + 1].page = g[i].page
      /\ [g[i] EXCEPT !.waiting = @ + 1].key = g[i].key
      /\ [g[i] EXCEPT !.waiting = @ + 1].shown = g[i].shown
  BY <1>6 DEF Tab
<1>8. \A j \in 1 .. Len(tabs) :
         /\ u[j] \in Tab /\ u[j].page = g[j].page
         /\ u[j].key = g[j].key /\ u[j].shown = g[j].shown
  <2> TAKE j \in 1 .. Len(tabs)
  <2>1. CASE j = i
    BY <1>5, <1>7, <2>1
  <2>2. CASE j # i
    <3>1. u[j] = g[j]
      BY <1>5, <2>2
    <3>2. g[j] \in Tab
      BY <1>1, <1>4
    <3>3. QED
      BY <3>1, <3>2
  <2>3. QED
    BY <2>1, <2>2
<1>9. u \in Seq(Tab) /\ Len(u) = Len(tabs)
  <2> HIDE DEF u
  <2>1. u \in [1 .. Len(tabs) -> Tab]
    BY <1>5, <1>8
  <2>2. QED
    BY <1>4, <2>1, FunctionIsSequence
<1>10. Alike(u, tabs)
  BY <1>1, <1>8, <1>9 DEF Alike
<1>11. \A j \in 1 .. Len(tabs) : u[j].shown <=> j = i
  BY <1>1, <1>8
<1>12. QED
  BY <1>3, <1>9, <1>10, <1>11

LEMMA AddFacts ==
    ASSUME NEW st, st.strip \in Seq(Tab), Len(st.strip) < MaxTabs,
           NEW p \in Pages
    PROVE  LET u == AddTab(st, p).strip
               n == Len(st.strip)
           IN  /\ AddTab(st, p).session = SetItem(st.session, n, p)
               /\ u \in Seq(Tab)
               /\ Len(u) = n + 1
               /\ \A i \in 1 .. n :
                     u[i].page = st.strip[i].page /\ u[i].key = st.strip[i].key
               /\ u[n + 1].page = p /\ u[n + 1].key = n
               /\ \A i \in 1 .. n + 1 : u[i].shown <=> i = n + 1
<1> DEFINE n == Len(st.strip)
           tab == [page |-> p, key |-> n, waiting |-> 0,
                   wired |-> FALSE, filled |-> FALSE, shown |-> FALSE]
           t == Append(st.strip, tab)
<1>1. n \in Nat /\ n \in Keys
  BY TabStripAssumption DEF Keys
<1>2. tab \in Tab /\ tab.page = p /\ tab.key = n /\ tab.waiting = 0
  BY <1>1, TabStripAssumption DEF Tab
<1> HIDE DEF tab
<1>3. /\ t \in Seq(Tab) /\ Len(t) = n + 1 /\ t[n + 1] = tab
      /\ \A i \in 1 .. n : t[i] = st.strip[i]
  BY <1>2
<1>4. AddTab(st, p) = [strip |-> OpenTabContent(t, n + 1),
                       session |-> SetItem(st.session, n, p)]
  BY DEF AddTab, StoredTab, tab
<1> HIDE DEF t
<1>5. n + 1 \in 1 .. Len(t) /\ t[n + 1].waiting < MaxLoads
  BY <1>1, <1>2, <1>3, TabStripAssumption
<1>6. /\ OpenTabContent(t, n + 1) \in Seq(Tab)
      /\ Alike(OpenTabContent(t, n + 1), t)
      /\ \A j \in 1 .. Len(t) : OpenTabContent(t, n + 1)[j].shown <=> j = n + 1
  BY <1>3, <1>5, OpenFacts
<1> DEFINE u == OpenTabContent(t, n + 1)
<1>7. AddTab(st, p).strip = u /\ AddTab(st, p).session = SetItem(st.session, n, p)
  BY <1>4
<1> HIDE DEF u
<1>8. u \in Seq(Tab) /\ Alike(u, t) /\ \A j \in 1 .. Len(t) : u[j].shown <=> j = n + 1
  BY <1>6 DEF u
<1>9. Len(u) = n + 1 /\ u[n + 1].page = p /\ u[n + 1].key = n
      /\ \A i \in 1 .. n :
            u[i].page = st.strip[i].page /\ u[i].key = st.strip[i].key
  BY <1>1, <1>2, <1>3, <1>8 DEF Alike
<1>10. \A i \in 1 .. n + 1 : u[i].shown <=> i = n + 1
  BY <1>3, <1>8
<1>11. QED
  BY <1>7, <1>8, <1>9, <1>10

LEMMA RemoveFacts ==
    ASSUME NEW tabs \in Seq(Tab), NEW i \in 1 .. Len(tabs)
    PROVE  /\ RemoveAt(tabs, i) \in Seq(Tab)
           /\ Len(RemoveAt(tabs, i)) = Len(tabs) - 1
           /\ \A j \in 1 .. Len(tabs) - 1 :
                 RemoveAt(tabs, i)[j] = IF j < i THEN tabs[j] ELSE tabs[j + 1]
<1> DEFINE a == SubSeq(tabs, 1, i - 1)
           b == SubSeq(tabs, i + 1, Len(tabs))
<1>1. a \in Seq(Tab) /\ Len(a) = i - 1 /\ \A j \in 1 .. i - 1 : a[j] = tabs[j]
  OBVIOUS
<1>2. b \in Seq(Tab) /\ Len(b) = Len(tabs) - i
      /\ \A j \in 1 .. Len(tabs) - i : b[j] = tabs[i + j]
  OBVIOUS
<1>3. RemoveAt(tabs, i) = a \o b
  BY DEF RemoveAt
<1>n. Len(tabs) \in Nat /\ i \in Nat
  OBVIOUS
<1> HIDE DEF a, b
<1>4. a \o b \in Seq(Tab) /\ Len(a \o b) = Len(tabs) - 1
  <2>1. a \o b \in Seq(Tab)
    BY <1>1, <1>2
  <2>2. Len(a \o b) = Len(a) + Len(b)
    BY <1>1, <1>2, ConcatIn
  <2>3. QED
    BY <1>1, <1>2, <1>n, <2>1, <2>2
<1>5. \A j \in 1 .. Len(tabs) - 1 :
         (a \o b)[j] = IF j < i THEN tabs[j] ELSE tabs[j + 1]
  <2> TAKE j \in 1 .. Len(tabs) - 1
  <2>1. CASE j < i
    BY <1>1, <1>2, <2>1
  <2>2. CASE ~(j < i)
    <3>1. (a \o b)[j] = b[j - (i - 1)]
      BY <1>1, <1>2, <2>2
    <3>2. j - (i - 1) \in 1 .. Len(tabs) - i /\ i + (j - (i - 1)) = j + 1
      BY <2>2
    <3>3. QED
      BY <1>2, <2>2, <3>1, <3>2
  <2>3. QED
    BY <2>1, <2>2
<1>6. QED
  BY <1>3, <1>4, <1>5

\* The first tab with the stored url is shown, or there is none.
Reopened(tabs, s, k, u) ==
    /\ u \in Seq(Tab)
    /\ Alike(u, tabs)
    /\ ~reOpenThrows(tabs, s, k) =>
          \E c \in 1 .. Len(tabs) :
             /\ UrlOf[tabs[c].page] = UrlOf[s[k]]
             /\ \A j \in 1 .. Len(tabs) :
                   UrlOf[tabs[j].page] = UrlOf[s[k]] => c <= j
             /\ \A j \in 1 .. Len(tabs) : u[j].shown <=> j = c
    /\ (k \in DOMAIN s /\ reOpenThrows(tabs, s, k)) =>
          \A j \in 1 .. Len(tabs) :
             /\ ~u[j].shown
             /\ UrlOf[tabs[j].page] = UrlOf[s[k]] => UrlOf[s[k]] = Blank

LEMMA ReOpenFacts ==
    ASSUME NEW tabs \in Seq(Tab), NEW s, NEW k
    PROVE  Reopened(tabs, s, k, reOpen(tabs, s, k))
<1> DEFINE same == Same(tabs, s[k])
           c == CHOOSE i \in same : \A j \in same : i <= j
<1>0. DOMAIN tabs = 1 .. Len(tabs) /\ Alike(tabs, tabs)
  BY DEF Alike
<1>s. \A i : i \in same <=> /\ i \in 1 .. Len(tabs)
                            /\ UrlOf[tabs[i].page] = UrlOf[s[k]]
                            /\ UrlOf[s[k]] # Blank
  BY <1>0 DEF Same
<1>1. CASE k \notin DOMAIN s
  <2>1. reOpen(tabs, s, k) = tabs /\ reOpenThrows(tabs, s, k)
    BY <1>1 DEF reOpen, reOpenThrows
  <2>2. QED
    BY <1>0, <1>1, <2>1 DEF Reopened
<1>2. CASE k \in DOMAIN s /\ same = {}
  <2>1. reOpen(tabs, s, k) = Hide(tabs)
    BY <1>2 DEF reOpen
  <2>2. reOpenThrows(tabs, s, k)
    BY <1>2 DEF reOpenThrows
  <2> HIDE DEF same
  <2>3. \A j \in 1 .. Len(tabs) :
           UrlOf[tabs[j].page] = UrlOf[s[k]] => UrlOf[s[k]] = Blank
    BY <1>2, <1>s
  <2>4. QED
    BY <2>1, <2>2, <2>3, HideFacts DEF Reopened
<1>3. CASE k \in DOMAIN s /\ same # {}
  <2>1. reOpen(tabs, s, k) = [Hide(tabs) EXCEPT ![c].shown = TRUE]
    BY <1>3 DEF reOpen
  <2>2. ~reOpenThrows(tabs, s, k)
    BY <1>3 DEF reOpenThrows
  <2> HIDE DEF same
  <2>3. same \in SUBSET Nat
    BY <1>s
  <2>4. \E x \in same : \A y \in same : x <= y
    BY <1>3, <2>3, Least
  <2>5. c \in same /\ \A y \in same : c <= y
    BY <2>4
  <2> HIDE DEF c
  <2>6. /\ c \in 1 .. Len(tabs) /\ UrlOf[tabs[c].page] = UrlOf[s[k]]
        /\ \A j \in 1 .. Len(tabs) : UrlOf[tabs[j].page] = UrlOf[s[k]] => c <= j
    BY <1>s, <2>5
  <2> DEFINE u == [Hide(tabs) EXCEPT ![c].shown = TRUE]
  <2>7. /\ u \in Seq(Tab)
        /\ Alike(u, tabs)
        /\ \A i \in 1 .. Len(tabs) : u[i].shown <=> i = c
    BY ShowFacts
  <2>8. reOpen(tabs, s, k) = u
    BY <2>1
  <2> HIDE DEF u
  <2>9. QED
    BY <2>2, <2>6, <2>7, <2>8 DEF Reopened
<1>4. QED
  BY <1>1, <1>2, <1>3

-----------------------------------------------------------------------------
(* What a reload makes of a sessionStorage without gaps. *)

NoGaps(s, n) ==
    /\ n \in 0 .. MaxTabs
    /\ DOMAIN s = 0 .. n - 1
    /\ s \in [DOMAIN s -> Pages]

\* The strip of the first m items of s, each loading once, the last one shown.
Rebuilt(s, m) ==
    [i \in 1 .. m |-> [page |-> s[i - 1], key |-> i - 1, waiting |-> 1,
                       wired |-> FALSE, filled |-> FALSE, shown |-> i = m]]

LEMMA LengthIs ==
    ASSUME NEW s, NEW n \in Nat, DOMAIN s = 0 .. n - 1
    PROVE  Length(s) = n
<1>1. Cardinality(0 .. n - 1) = IF 0 > n - 1 THEN 0 ELSE (n - 1) - 0 + 1
  BY FS_Interval
<1>2. QED
  BY <1>1 DEF Length

LEMMA RebuiltTyped ==
    ASSUME NEW s, NEW n, NoGaps(s, n), NEW m \in 0 .. n
    PROVE  /\ Rebuilt(s, m) \in Seq(Tab)
           /\ Len(Rebuilt(s, m)) = m
           /\ DOMAIN Rebuilt(s, m) = 1 .. m
<1>1. n \in Nat /\ m \in Nat /\ n <= MaxTabs /\ m <= n /\ MaxTabs \in Nat
  BY TabStripAssumption DEF NoGaps
<1>2. ASSUME NEW i \in 1 .. m
      PROVE  Rebuilt(s, m)[i] \in Tab
  <2>1. i - 1 \in 0 .. n - 1 /\ i - 1 \in Keys
    BY <1>1 DEF Keys
  <2>2. s[i - 1] \in Pages
    BY <2>1 DEF NoGaps
  <2>3. 1 \in 0 .. MaxLoads
    BY TabStripAssumption
  <2>4. Rebuilt(s, m)[i] = [page |-> s[i - 1], key |-> i - 1, waiting |-> 1,
                            wired |-> FALSE, filled |-> FALSE, shown |-> i = m]
    BY DEF Rebuilt
  <2>5. (i = m) \in BOOLEAN
    OBVIOUS
  <2>6. QED
    BY <2>1, <2>2, <2>3, <2>4, <2>5 DEF Tab
<1>3. Rebuilt(s, m) \in [1 .. m -> Tab]
  BY <1>2 DEF Rebuilt
<1>4. QED
  BY <1>1, <1>3, FunctionIsSequence

\* The next item of sessionStorage makes the next tab and stores it where it
\* was.
LEMMA RebuiltStep ==
    ASSUME NEW s, NEW n, NoGaps(s, n), NEW m \in 0 .. n - 1
    PROVE  AddTab([strip |-> Rebuilt(s, m), session |-> s], s[m])
             = [strip |-> Rebuilt(s, m + 1), session |-> s]
<1> DEFINE st == [strip |-> Rebuilt(s, m), session |-> s]
           tab == [page |-> s[m], key |-> m, waiting |-> 0,
                   wired |-> FALSE, filled |-> FALSE, shown |-> FALSE]
           t == Append(Rebuilt(s, m), tab)
           h == Hide(t)
           g == [h EXCEPT ![m + 1].shown = TRUE]
           u == [g EXCEPT ![m + 1].waiting = @ + 1]
<1>1. n \in Nat /\ m \in Nat /\ m + 1 <= n /\ n <= MaxTabs /\ m \in 0 .. n
      /\ MaxTabs \in Nat
  BY TabStripAssumption DEF NoGaps
<1>2. /\ Rebuilt(s, m) \in Seq(Tab) /\ Len(Rebuilt(s, m)) = m
      /\ DOMAIN Rebuilt(s, m) = 1 .. m
  BY <1>1, RebuiltTyped
<1>3. tab \in Tab
  <2>1. s[m] \in Pages /\ m \in Keys
    BY <1>1 DEF NoGaps, Keys
  <2>2. QED
    BY <2>1, TabStripAssumption DEF Tab
<1>4. /\ t \in Seq(Tab) /\ Len(t) = m + 1 /\ DOMAIN t = 1 .. m + 1
      /\ t[m + 1] = tab
      /\ \A i \in 1 .. m : t[i] = Rebuilt(s, m)[i]
  <2> HIDE DEF tab
  <2>1. QED
    BY <1>2, <1>3
<1>5. AddTab(st, s[m]) = [strip |-> OpenTabContent(t, m + 1),
                          session |-> SetItem(s, m, s[m])]
  <2>1. st.strip = Rebuilt(s, m) /\ st.session = s
    OBVIOUS
  <2> HIDE DEF st
  <2>2. QED
    BY <1>2, <2>1 DEF AddTab, StoredTab
<1>6. OpenTabContent(t, m + 1) = u
  BY DEF OpenTabContent
<1>7. SetItem(s, m, s[m]) = s
  <2>1. m \in DOMAIN s
    BY <1>1 DEF NoGaps
  <2>2. s = [j \in DOMAIN s |-> s[j]]
    BY DEF NoGaps
  <2>3. SetItem(s, m, s[m]) = [j \in DOMAIN s |-> IF j = m THEN s[m] ELSE s[j]]
    BY <2>1 DEF SetItem
  <2>4. \A j \in DOMAIN s : (IF j = m THEN s[m] ELSE s[j]) = s[j]
    OBVIOUS
  <2>5. QED
    BY <2>2, <2>3, <2>4
<1>8. u = Rebuilt(s, m + 1)
  <2> DEFINE Row(i, sh) == [page |-> s[i - 1], key |-> i - 1, waiting |-> 1,
                            wired |-> FALSE, filled |-> FALSE, shown |-> sh]
  <2>0. \A i \in 1 .. m + 1, b \in BOOLEAN : Row(i, b) \in Tab
    <3> TAKE i \in 1 .. m + 1, b \in BOOLEAN
    <3>1. i - 1 \in 0 .. n - 1 /\ i - 1 \in Keys /\ 1 \in 0 .. MaxLoads
      BY <1>1, TabStripAssumption DEF Keys
    <3>2. s[i - 1] \in Pages
      BY <3>1 DEF NoGaps
    <3>3. QED
      BY <3>1, <3>2 DEF Tab
  <2>1. h = [i \in 1 .. m + 1 |-> [t[i] EXCEPT !.shown = FALSE]]
    BY <1>4 DEF Hide
  <2> HIDE DEF h, t
  <2>2. \A i \in 1 .. m : h[i] = Row(i, FALSE)
    <3> TAKE i \in 1 .. m
    <3>1. i \in 1 .. m + 1
      BY <1>1
    <3>2. h[i] = [t[i] EXCEPT !.shown = FALSE] /\ t[i] = Rebuilt(s, m)[i]
      BY <1>4, <2>1, <3>1
    <3>3. Rebuilt(s, m)[i] = Row(i, i = m)
      BY DEF Rebuilt
    <3>4. [Row(i, i = m) EXCEPT !.shown = FALSE] = Row(i, FALSE)
      <4>1. (i = m) \in BOOLEAN /\ FALSE \in BOOLEAN
        OBVIOUS
      <4>2. Row(i, i = m) \in Tab /\ Row(i, FALSE) \in Tab
        BY <2>0, <3>1, <4>1
      <4>3. \A b : /\ Row(i, b).page = s[i - 1] /\ Row(i, b).key = i - 1
                   /\ Row(i, b).waiting = 1 /\ Row(i, b).wired = FALSE
                   /\ Row(i, b).filled = FALSE /\ Row(i, b).shown = b
        OBVIOUS
      <4> DEFINE a == Row(i, i = m)
                 b == Row(i, FALSE)
      <4>4. /\ a \in Tab /\ b \in Tab /\ b.shown = FALSE
            /\ a.page = b.page /\ a.key = b.key /\ a.waiting = b.waiting
            /\ a.wired = b.wired /\ a.filled = b.filled
        <5> HIDE DEF Row
        <5>1. QED
          BY <4>2, <4>3
      <4> HIDE DEF Row, a, b
      <4>5. [a EXCEPT !.shown = FALSE] = b
        BY <4>1, <4>4, ShownSet
      <4>6. QED
        BY <4>5 DEF a, b
    <3>5. QED
      BY <3>2, <3>3, <3>4
  <2>3. h[m + 1] = tab
    <3>1. m + 1 \in 1 .. m + 1
      BY <1>1
    <3>2. h[m + 1] = [t[m + 1] EXCEPT !.shown = FALSE]
      BY <2>1, <3>1
    <3>3. [tab EXCEPT !.shown = FALSE] = tab
      <4>1. tab.shown = FALSE
        OBVIOUS
      <4> HIDE DEF tab
      <4>2. QED
        BY <1>3, <4>1, ShownSet
    <3>4. QED
      BY <1>4, <3>2, <3>3
  <2>4. DOMAIN h = 1 .. m + 1 /\ m + 1 \in 1 .. m + 1
    BY <1>1, <2>1
  <2>5. /\ DOMAIN g = 1 .. m + 1
        /\ g[m + 1] = [tab EXCEPT !.shown = TRUE]
        /\ \A i \in 1 .. m : g[i] = h[i]
    <3> HIDE DEF tab
    <3>1. g = [i \in 1 .. m + 1 |->
                IF i = m + 1 THEN [h[i] EXCEPT !.shown = TRUE] ELSE h[i]]
      BY <2>4
    <3>2. \A i \in 1 .. m : i \in 1 .. m + 1 /\ i # m + 1
      BY <1>1
    <3> HIDE DEF g
    <3>3. QED
      BY <2>3, <2>4, <3>1, <3>2
  <2> HIDE DEF g
  <2>7. /\ DOMAIN u = 1 .. m + 1
        /\ u[m + 1] = [g[m + 1] EXCEPT !.waiting = @ + 1]
        /\ \A i \in 1 .. m : u[i] = h[i]
        /\ u = [i \in 1 .. m + 1 |-> u[i]]
    <3> HIDE DEF tab
    <3>1. u = [i \in 1 .. m + 1 |->
                IF i = m + 1 THEN [g[i] EXCEPT !.waiting = @ + 1] ELSE g[i]]
      BY <2>5
    <3>2. \A i \in 1 .. m : i \in 1 .. m + 1 /\ i # m + 1
      BY <1>1
    <3> HIDE DEF u
    <3>3. QED
      BY <2>4, <2>5, <3>1, <3>2
  <2>8. u[m + 1] = Row(m + 1, TRUE)
    <3>1. (m + 1) - 1 = m /\ 0 + 1 = 1
      BY <1>1
    <3>2. tab.page = s[m] /\ tab.key = m /\ tab.waiting = 0 /\ tab.wired = FALSE
         /\ tab.filled = FALSE
      OBVIOUS
    <3>3. Row(m + 1, TRUE) \in Tab
      <4>1. m + 1 \in 1 .. m + 1 /\ TRUE \in BOOLEAN
        BY <1>1
      <4> HIDE DEF Row
      <4>2. QED
        BY <2>0, <4>1
    <3>4. /\ Row(m + 1, TRUE).page = s[m] /\ Row(m + 1, TRUE).key = m
          /\ Row(m + 1, TRUE).waiting = 1 /\ Row(m + 1, TRUE).wired = FALSE
          /\ Row(m + 1, TRUE).filled = FALSE
          /\ Row(m + 1, TRUE).shown = TRUE
      BY <3>1
    <3> DEFINE on == [tab EXCEPT !.shown = TRUE]
    <3> HIDE DEF tab, Row, u
    <3>5. /\ on \in Tab /\ on.page = tab.page /\ on.key = tab.key
          /\ on.waiting = 0 /\ on.wired = tab.wired /\ on.filled = tab.filled
          /\ on.shown = TRUE
      BY <1>3, <3>2 DEF Tab
    <3>6. g[m + 1] = on /\ u[m + 1] = [g[m + 1] EXCEPT !.waiting = @ + 1]
      BY <2>5, <2>7
    <3> HIDE DEF on
    <3>7. u[m + 1] = [on EXCEPT !.waiting = 1]
      BY <3>1, <3>5, <3>6
    <3>8. [on EXCEPT !.waiting = 1] = Row(m + 1, TRUE)
      BY <3>2, <3>3, <3>4, <3>5, WaitingSet
    <3>9. QED
      BY <3>7, <3>8
  <2> HIDE DEF u
  <2>9. \A i \in 1 .. m + 1 : u[i] = Row(i, i = m + 1)
    <3> TAKE i \in 1 .. m + 1
    <3>1. CASE i = m + 1
      <4>1. (i = m + 1) = TRUE
        BY <3>1
      <4>2. QED
        BY <2>8, <3>1, <4>1
    <3>2. CASE i # m + 1
      <4>1. (i = m + 1) = FALSE /\ i \in 1 .. m
        BY <1>1, <3>2
      <4>2. QED
        BY <2>2, <2>7, <4>1
    <3>3. QED
      BY <3>1, <3>2
  <2>10. Rebuilt(s, m + 1) = [i \in 1 .. m + 1 |-> Row(i, i = m + 1)]
    BY DEF Rebuilt
  <2> HIDE DEF Row
  <2>11. QED
    BY <2>7, <2>9, <2>10
<1>9. QED
  BY <1>5, <1>6, <1>7, <1>8

\* One turn of the loop of reloadTabPage, and the whole loop.
Turn(st, i) ==
    IF i - 1 < Length(st.session) /\ (i - 1) \in DOMAIN st.session
    THEN AddTab(st, st.session[i - 1]) ELSE st

Turns(f, s, n) == \A i \in 0 .. n :
    f[i] = IF i = 0 THEN [strip |-> <<>>, session |-> s] ELSE Turn(f[i - 1], i)

LEMMA ReloadTurns ==
    ASSUME NEW s
    PROVE  \E f : Turns(f, s, MaxTabs) /\ reloadTabPage(s) = f[MaxTabs]
<1> DEFINE first == [strip |-> <<>>, session |-> s]
           Body(f) == [i \in 0 .. MaxTabs |->
                         IF i = 0 THEN first ELSE Turn(f[i - 1], i)]
           made == CHOOSE f : f = Body(f)
           S == {n \in Nat : \E f : Turns(f, s, n)}
<1>1. MaxTabs \in Nat
  BY TabStripAssumption
<1>2. reloadTabPage(s) = made[MaxTabs]
  BY DEF reloadTabPage, Turn
<1>3. 0 \in S
  <2> DEFINE f == [i \in {0} |-> first]
  <2>1. \A i \in 0 .. 0 : i = 0 /\ f[i] = first
    OBVIOUS
  <2> HIDE DEF f
  <2>2. Turns(f, s, 0)
    BY <2>1 DEF Turns
  <2>3. QED
    BY <2>2
<1>4. ASSUME NEW n \in Nat, n \in S
      PROVE  n + 1 \in S
  <2>1. PICK f : Turns(f, s, n)
    BY <1>4
  <2> DEFINE g == [i \in 0 .. n + 1 |-> IF i = n + 1 THEN Turn(f[n], n + 1) ELSE f[i]]
  <2>2. \A i \in 0 .. n + 1 : g[i] = IF i = n + 1 THEN Turn(f[n], n + 1) ELSE f[i]
    OBVIOUS
  <2> HIDE DEF g
  <2>3. ASSUME NEW i \in 0 .. n + 1
        PROVE  g[i] = IF i = 0 THEN first ELSE Turn(g[i - 1], i)
    <3>1. CASE i = n + 1
      <4>1. i # 0 /\ i - 1 = n /\ n \in 0 .. n + 1 /\ n # n + 1
        BY <3>1
      <4>2. g[i] = Turn(f[n], n + 1) /\ g[n] = f[n]
        BY <2>2, <3>1, <4>1
      <4>3. QED
        BY <3>1, <4>1, <4>2
    <3>2. CASE i # n + 1
      <4>1. i \in 0 .. n
        BY <3>2
      <4>2. g[i] = f[i]
        BY <2>2, <3>2
      <4>3. f[i] = IF i = 0 THEN first ELSE Turn(f[i - 1], i)
        BY <2>1, <4>1 DEF Turns
      <4>4. i # 0 => i - 1 \in 0 .. n + 1 /\ i - 1 # n + 1
        BY <4>1
      <4>5. i # 0 => g[i - 1] = f[i - 1]
        BY <2>2, <4>4
      <4>6. QED
        BY <4>2, <4>3, <4>5
    <3>3. QED
      BY <3>1, <3>2
  <2>4. Turns(g, s, n + 1)
    BY <2>3 DEF Turns
  <2>5. QED
    BY <2>4
<1>5. \E f : Turns(f, s, MaxTabs)
  <2>1. Nat \subseteq S
    <3> HIDE DEF S
    <3>1. QED
      BY <1>3, <1>4, NatSetInduction
  <2>2. MaxTabs \in S
    BY <1>1, <2>1
  <2>3. QED
    BY <2>2
<1>6. \E f : f = Body(f)
  <2>1. PICK f : Turns(f, s, MaxTabs)
    BY <1>5
  <2> DEFINE g == [i \in 0 .. MaxTabs |-> f[i]]
  <2>2. \A i \in 0 .. MaxTabs : g[i] = IF i = 0 THEN first ELSE Turn(g[i - 1], i)
    <3> TAKE i \in 0 .. MaxTabs
    <3>1. g[i] = f[i] /\ (i # 0 => i - 1 \in 0 .. MaxTabs)
      BY <1>1
    <3>2. i # 0 => g[i - 1] = f[i - 1]
      BY <3>1
    <3>3. f[i] = IF i = 0 THEN first ELSE Turn(f[i - 1], i)
      BY <2>1 DEF Turns
    <3>4. QED
      BY <3>1, <3>2, <3>3
  <2>3. g = [i \in 0 .. MaxTabs |-> g[i]]
    OBVIOUS
  <2> HIDE DEF g
  <2>4. g = Body(g)
    BY <2>2, <2>3
  <2>5. QED
    BY <2>4
<1>7. made = Body(made)
  <2> HIDE DEF Body
  <2>1. QED
    BY <1>6
<1> HIDE DEF made
<1>8. Turns(made, s, MaxTabs)
  <2>1. \A i \in 0 .. MaxTabs :
           Body(made)[i] = IF i = 0 THEN first ELSE Turn(made[i - 1], i)
    OBVIOUS
  <2> HIDE DEF Body
  <2>2. QED
    BY <1>7, <2>1 DEF Turns
<1>9. QED
  BY <1>2, <1>8

LEMMA ReloadFacts ==
    ASSUME NEW s, NEW n, NoGaps(s, n)
    PROVE  reloadTabPage(s) = [strip |-> Rebuilt(s, n), session |-> s]
<1> DEFINE Stage(k) == [strip |-> Rebuilt(s, IF k <= n THEN k ELSE n),
                        session |-> s]
<1>1. n \in Nat /\ n <= MaxTabs /\ MaxTabs \in Nat
  BY TabStripAssumption DEF NoGaps
<1>2. Stage(0) = [strip |-> <<>>, session |-> s]
  <2>1. Rebuilt(s, 0) = <<>>
    BY DEF Rebuilt
  <2>2. QED
    BY <1>1, <2>1
<1>3. ASSUME NEW i \in 1 .. MaxTabs
      PROVE  Turn(Stage(i - 1), i) = Stage(i)
  <2>1. i - 1 \in Nat /\ i \in Nat
    BY <1>1
  <2>2. Length(s) = n
    BY <1>1, LengthIs DEF NoGaps
  <2>3. CASE i <= n
    <3>1. Stage(i - 1) = [strip |-> Rebuilt(s, i - 1), session |-> s]
      BY <1>1, <2>1, <2>3
    <3>2. Stage(i) = [strip |-> Rebuilt(s, i), session |-> s]
      BY <2>3
    <3>3. i - 1 < n /\ i - 1 \in DOMAIN s /\ i - 1 \in 0 .. n - 1
      BY <1>1, <2>1, <2>3 DEF NoGaps
    <3>4. Stage(i - 1).session = s
      BY <3>1
    <3>5. Turn(Stage(i - 1), i) = AddTab(Stage(i - 1), s[i - 1])
      <4> HIDE DEF Stage
      <4>1. QED
        BY <2>2, <3>3, <3>4 DEF Turn
    <3>6. (i - 1) + 1 = i
      BY <2>1
    <3>7. AddTab([strip |-> Rebuilt(s, i - 1), session |-> s], s[i - 1])
            = [strip |-> Rebuilt(s, (i - 1) + 1), session |-> s]
      BY <3>3, RebuiltStep
    <3> HIDE DEF Stage
    <3>8. QED
      BY <3>1, <3>2, <3>5, <3>6, <3>7
  <2>4. CASE ~(i <= n)
    <3>1. Stage(i) = [strip |-> Rebuilt(s, n), session |-> s]
      BY <2>4
    <3>2. Stage(i - 1) = [strip |-> Rebuilt(s, n), session |-> s]
      <4>1. CASE i - 1 = n
        BY <1>1, <4>1
      <4>2. CASE i - 1 # n
        <5>1. ~(i - 1 <= n)
          BY <1>1, <2>1, <2>4, <4>2
        <5>2. QED
          BY <5>1
      <4>3. QED
        BY <4>1, <4>2
    <3>3. ~(i - 1 < n)
      BY <1>1, <2>1, <2>4
    <3>4. Stage(i - 1).session = s
      BY <3>2
    <3>5. Turn(Stage(i - 1), i) = Stage(i - 1)
      <4> HIDE DEF Stage
      <4>1. QED
        BY <2>2, <3>3, <3>4 DEF Turn
    <3>6. QED
      BY <3>1, <3>2, <3>5
  <2>5. QED
    BY <2>3, <2>4
<1>4. PICK f : Turns(f, s, MaxTabs) /\ reloadTabPage(s) = f[MaxTabs]
  BY ReloadTurns
<1> HIDE DEF Stage
<1> DEFINE S == {k \in Nat : k <= MaxTabs => f[k] = Stage(k)}
<1>5. 0 \in S
  BY <1>1, <1>2, <1>4 DEF Turns
<1>6. ASSUME NEW k \in Nat, k \in S
      PROVE  k + 1 \in S
  <2>1. CASE k + 1 <= MaxTabs
    <3>1. /\ k + 1 \in 1 .. MaxTabs /\ k + 1 \in 0 .. MaxTabs /\ k <= MaxTabs
          /\ (k + 1) - 1 = k /\ k + 1 # 0
      BY <1>1, <2>1
    <3>2. f[k] = Stage(k)
      BY <1>6, <3>1
    <3>3. f[k + 1] = Turn(f[k], k + 1)
      BY <1>4, <3>1 DEF Turns
    <3>4. Turn(Stage((k + 1) - 1), k + 1) = Stage(k + 1)
      BY <1>3, <3>1
    <3>5. f[k + 1] = Stage(k + 1)
      BY <3>1, <3>2, <3>3, <3>4
    <3>6. QED
      BY <3>5
  <2>2. CASE ~(k + 1 <= MaxTabs)
    BY <2>2
  <2>3. QED
    BY <2>1, <2>2
<1>7. Nat \subseteq S
  <2> HIDE DEF S
  <2>1. QED
    BY <1>5, <1>6, NatSetInduction
<1>8. f[MaxTabs] = Stage(MaxTabs)
  BY <1>1, <1>7
<1>9. Stage(MaxTabs) = [strip |-> Rebuilt(s, n), session |-> s]
  <2>1. CASE MaxTabs = n
    BY <1>1, <2>1 DEF Stage
  <2>2. CASE MaxTabs # n
    <3>1. ~(MaxTabs <= n)
      BY <1>1, <2>2
    <3>2. QED
      BY <3>1 DEF Stage
  <2>3. QED
    BY <2>1, <2>2
<1>10. QED
  BY <1>4, <1>8, <1>9

-----------------------------------------------------------------------------
(* One window: its sessionStorage describes its strip. *)

\* Whatever is closed or reloaded: every tab is stored under its key, keys grow
\* along the strip, and what else is stored has a greater key.
Sound(t, s) ==
    /\ t \in Seq(Tab)
    /\ s \in [DOMAIN s -> Pages]
    /\ DOMAIN s \in SUBSET Keys
    /\ \A i \in DOMAIN t : t[i].key \in DOMAIN s /\ s[t[i].key] = t[i].page
    /\ \A i, j \in DOMAIN t : i < j => t[i].key < t[j].key
    /\ \A k \in DOMAIN s :
          (\E i \in DOMAIN t : t[i].key = k) \/ (\A i \in DOMAIN t : t[i].key < k)

\* The keys are the positions of the strip.
InOrder(t) == \A i \in DOMAIN t : t[i].key = i - 1

\* If tabs are only closed from the end, nothing else is stored, and no page
\* twice.
Exact(t, s) ==
    /\ InOrder(t)
    /\ DOMAIN s = 0 .. Len(t) - 1
    /\ \A i, j \in DOMAIN t : t[i].page = t[j].page => i = j

LEMMA SoundAlike ==
    ASSUME NEW t, NEW s, NEW u \in Seq(Tab), Sound(t, s), Alike(u, t)
    PROVE  /\ Sound(u, s)
           /\ DOMAIN u = DOMAIN t
           /\ Exact(t, s) => Exact(u, s)
<1>1. DOMAIN u = 1 .. Len(t) /\ DOMAIN t = 1 .. Len(t) /\ Len(u) = Len(t)
  BY DEF Sound, Alike
<1>2. \A i \in DOMAIN t : u[i].page = t[i].page /\ u[i].key = t[i].key
  BY <1>1 DEF Alike
<1>3. Sound(u, s)
  BY <1>1, <1>2 DEF Sound
<1>4. Exact(t, s) => Exact(u, s)
  BY <1>1, <1>2 DEF Exact, InOrder
<1>5. QED
  BY <1>1, <1>3, <1>4

\* A strip in order is sound with whatever else is stored.
LEMMA InOrderSound ==
    ASSUME NEW t \in Seq(Tab), NEW s, InOrder(t),
           s \in [DOMAIN s -> Pages], DOMAIN s \in SUBSET Keys,
           \A i \in DOMAIN t : t[i].key \in DOMAIN s /\ s[t[i].key] = t[i].page
    PROVE  Sound(t, s)
<1>1. DOMAIN t = 1 .. Len(t) /\ Len(t) \in Nat
  OBVIOUS
<1>2. \A i, j \in DOMAIN t : i < j => t[i].key < t[j].key
  BY <1>1 DEF InOrder
<1>3. ASSUME NEW k \in DOMAIN s, ~(\E i \in DOMAIN t : t[i].key = k),
             NEW i \in DOMAIN t
      PROVE  t[i].key < k
  <2>1. k \in Nat /\ i \in 1 .. Len(t) /\ t[i].key = i - 1
    BY <1>1 DEF InOrder, Keys
  <2>2. CASE k < Len(t)
    <3>1. k + 1 \in DOMAIN t /\ (k + 1) - 1 = k
      BY <1>1, <2>1, <2>2
    <3>2. t[k + 1].key = k
      BY <3>1 DEF InOrder
    <3>3. QED
      BY <1>3, <3>1, <3>2
  <2>3. CASE ~(k < Len(t))
    BY <1>1, <2>1, <2>3
  <2>4. QED
    BY <2>2, <2>3
<1>4. QED
  BY <1>2, <1>3 DEF Sound

\* The exception of OpenedPageCheck at a gap: where it passes there is none.
LEMMA NoGapWherePassed ==
    ASSUME NEW t, NEW s, Sound(t, s), NEW p, OpenedPageCheck(s, p)
    PROVE  /\ Length(s) \in Nat
           /\ DOMAIN s = 0 .. Length(s) - 1
           /\ \A k \in DOMAIN s : s[k] # p
<1>1. MaxTabs \in Nat /\ Keys = 0 .. MaxTabs - 1
  BY TabStripAssumption DEF Keys
<1>2. IsFiniteSet(Keys)
  BY <1>1, FS_Interval
<1>3. IsFiniteSet(DOMAIN s) /\ Length(s) \in Nat
  <2>1. DOMAIN s \in SUBSET Keys
    BY DEF Sound
  <2>2. IsFiniteSet(DOMAIN s)
    BY <1>2, <2>1, FS_Subset
  <2>3. QED
    BY <2>2, FS_CardinalityType DEF Length
<1> DEFINE n == Length(s)
<1>4. 0 .. n - 1 \subseteq DOMAIN s /\ \A i \in 0 .. n - 1 : s[i] # p
  BY DEF OpenedPageCheck
<1>5. Cardinality(0 .. n - 1) = n
  <2>1. Cardinality(0 .. n - 1) = IF 0 > n - 1 THEN 0 ELSE (n - 1) - 0 + 1
    BY <1>3, FS_Interval
  <2>2. QED
    BY <1>3, <2>1
<1>6. DOMAIN s = 0 .. n - 1
  <2>1. Cardinality(DOMAIN s) = Cardinality(0 .. n - 1)
    BY <1>5 DEF Length
  <2>2. 0 .. n - 1 \in SUBSET DOMAIN s
    BY <1>4
  <2>3. QED
    BY <1>3, <2>1, <2>2, FS_Subset
<1>7. QED
  BY <1>3, <1>4, <1>6

\* Without a gap in storage the keys are the positions.
LEMMA NoGapInOrder ==
    ASSUME NEW t, NEW s, Sound(t, s), NEW n \in Nat, DOMAIN s = 0 .. n - 1
    PROVE  InOrder(t)
<1> DEFINE T == {i \in DOMAIN t : t[i].key # i - 1}
<1>1. t \in Seq(Tab) /\ DOMAIN t = 1 .. Len(t) /\ Len(t) \in Nat
  BY DEF Sound
<1>2. \A i \in DOMAIN t : t[i].key \in 0 .. n - 1
  BY DEF Sound
<1>3. CASE T # {}
  <2>1. T \in SUBSET Nat
    BY <1>1
  <2>2. PICK i \in T : \A j \in T : i <= j
    BY <1>3, <2>1, Least
  <2>3. i \in DOMAIN t /\ i \in Nat /\ i >= 1 /\ t[i].key # i - 1
    BY <1>1
  <2>4. \A j \in DOMAIN t : j < i => t[j].key = j - 1
    <3> TAKE j \in DOMAIN t
    <3> HAVE j < i
    <3>1. j \in Nat /\ ~(i <= j)
      BY <1>1, <2>3
    <3>2. j \notin T
      BY <2>2, <3>1
    <3>3. QED
      BY <3>2
  <2>5. t[i].key > i - 1
    <3>1. CASE i = 1
      BY <1>2, <2>3, <3>1
    <3>2. CASE i # 1
      <4>1. i - 1 \in DOMAIN t /\ i - 1 < i
        BY <1>1, <2>3, <3>2
      <4>2. t[i - 1].key = (i - 1) - 1
        BY <2>4, <4>1
      <4>3. t[i - 1].key < t[i].key
        BY <2>3, <4>1 DEF Sound
      <4>4. QED
        BY <1>2, <2>3, <4>2, <4>3
    <3>3. QED
      BY <3>1, <3>2
  <2>6. i - 1 \in DOMAIN s
    BY <1>2, <2>3, <2>5
  <2>7. ~(\A j \in DOMAIN t : t[j].key < i - 1)
    BY <1>2, <2>3, <2>5
  <2>8. PICK j \in DOMAIN t : t[j].key = i - 1
    BY <2>6, <2>7 DEF Sound
  <2>9. CASE j < i
    BY <1>1, <2>3, <2>4, <2>8, <2>9
  <2>10. CASE j = i
    BY <2>3, <2>8, <2>10
  <2>11. CASE j > i
    <3>1. t[i].key < t[j].key
      BY <2>3, <2>11 DEF Sound
    <3>2. QED
      BY <1>2, <2>3, <2>5, <2>8, <3>1
  <2>12. QED
    BY <1>1, <2>3, <2>9, <2>10, <2>11
<1>4. CASE T = {}
  BY <1>4 DEF InOrder
<1>5. QED
  BY <1>3, <1>4

\* What another tab adds to a window in order: it comes last, under the next
\* key, and is shown.
Added(t, s, p, u, z) ==
    /\ Sound(u, z)
    /\ InOrder(u)
    /\ Len(u) = Len(t) + 1
    /\ DOMAIN z = DOMAIN s \cup {Len(t)}
    /\ z[Len(t)] = p
    /\ u[Len(t) + 1].key = Len(t)
    /\ u[Len(t) + 1].page = p
    /\ \A i \in 1 .. Len(t) : u[i].page = t[i].page
    /\ \A i \in 1 .. Len(t) + 1 : u[i].shown <=> i = Len(t) + 1

LEMMA AddedFacts ==
    ASSUME NEW st, Sound(st.strip, st.session), InOrder(st.strip),
           Len(st.strip) < MaxTabs, NEW p \in Pages
    PROVE  Added(st.strip, st.session, p,
                 AddTab(st, p).strip, AddTab(st, p).session)
<1> DEFINE t == st.strip
           s == st.session
           n == Len(t)
           u == AddTab(st, p).strip
           z == AddTab(st, p).session
<1>1. t \in Seq(Tab) /\ n \in Nat /\ DOMAIN t = 1 .. n /\ n \in Keys
  BY TabStripAssumption DEF Sound, Keys
<1>2. /\ z = SetItem(s, n, p)
      /\ u \in Seq(Tab)
      /\ Len(u) = n + 1
      /\ \A i \in 1 .. n : u[i].page = t[i].page /\ u[i].key = t[i].key
      /\ u[n + 1].page = p /\ u[n + 1].key = n
      /\ \A i \in 1 .. n + 1 : u[i].shown <=> i = n + 1
  BY <1>1, AddFacts
<1> HIDE DEF u, z
<1>3. DOMAIN u = 1 .. n + 1 /\ \A i \in DOMAIN u : i \in 1 .. n \/ i = n + 1
  BY <1>1, <1>2
<1>4. /\ DOMAIN z = DOMAIN s \cup {n}
      /\ z[n] = p /\ \A k \in DOMAIN s : k # n => z[k] = s[k]
      /\ z \in [DOMAIN z -> Pages]
      /\ DOMAIN z \in SUBSET Keys
  <2>1. z = [j \in DOMAIN s \cup {n} |-> IF j = n THEN p ELSE s[j]]
    BY <1>2 DEF SetItem
  <2>2. \A k \in DOMAIN s : s[k] \in Pages
    BY DEF Sound
  <2>3. DOMAIN s \in SUBSET Keys
    BY DEF Sound
  <2>4. QED
    BY <1>1, <2>1, <2>2, <2>3
<1>5. \A i \in 1 .. n : /\ t[i].key \in DOMAIN s /\ s[t[i].key] = t[i].page
                        /\ t[i].key = i - 1 /\ t[i].key # n
  BY <1>1 DEF Sound, InOrder
<1>6. InOrder(u)
  BY <1>1, <1>2, <1>3, <1>5 DEF InOrder
<1>7. \A i \in DOMAIN u : u[i].key \in DOMAIN z /\ z[u[i].key] = u[i].page
  BY <1>2, <1>3, <1>4, <1>5
<1>8. Sound(u, z)
  BY <1>2, <1>4, <1>6, <1>7, InOrderSound
<1>9. QED
  BY <1>2, <1>4, <1>6, <1>8 DEF Added, u, z

\* A click that passes OpenedPageCheck adds a page that is not there.
LEMMA SoundAdd ==
    ASSUME NEW t, NEW s, Sound(t, s), Len(t) < MaxTabs,
           NEW p \in Pages, OpenedPageCheck(s, p)
    PROVE  LET st == AddTab([strip |-> t, session |-> s], p)
           IN  /\ Added(t, s, p, st.strip, st.session)
               /\ Exact(t, s) => Exact(st.strip, st.session)
<1> DEFINE st0 == [strip |-> t, session |-> s]
           n == Len(t)
           u == AddTab(st0, p).strip
           z == AddTab(st0, p).session
<1>1. st0.strip = t /\ st0.session = s /\ t \in Seq(Tab) /\ n \in Nat
      /\ DOMAIN t = 1 .. n
  BY DEF Sound
<1> HIDE DEF st0
<1>2. /\ Length(s) \in Nat /\ DOMAIN s = 0 .. Length(s) - 1
      /\ \A k \in DOMAIN s : s[k] # p
  BY NoGapWherePassed
<1>3. InOrder(t)
  BY <1>2, NoGapInOrder
<1>4. Added(t, s, p, u, z)
  BY <1>1, <1>3, AddedFacts
<1> HIDE DEF u, z
<1>5. ASSUME Exact(t, s) PROVE Exact(u, z)
  <2>1. DOMAIN u = 1 .. n + 1 /\ \A i \in DOMAIN u : i \in 1 .. n \/ i = n + 1
    BY <1>1, <1>4 DEF Added, Sound
  <2>2. DOMAIN z = 0 .. Len(u) - 1
    BY <1>1, <1>4, <1>5 DEF Added, Exact
  <2>3. \A i \in 1 .. n : t[i].page # p
    BY <1>1, <1>2 DEF Sound
  <2>4. \A i, j \in 1 .. n : t[i].page = t[j].page => i = j
    BY <1>1, <1>5 DEF Exact
  <2>5. \A i \in 1 .. n : u[i].page = t[i].page
    BY <1>4 DEF Added
  <2>6. u[n + 1].page = p
    BY <1>4 DEF Added
  <2>7. \A i, j \in DOMAIN u : u[i].page = u[j].page => i = j
    BY <2>1, <2>3, <2>4, <2>5, <2>6
  <2>8. QED
    BY <1>4, <2>2, <2>7 DEF Exact, Added
<1>6. QED
  BY <1>4, <1>5 DEF u, z, st0

\* What is left of a sound window when tab i leaves.
Removed(t, s, i, u, z) ==
    /\ Sound(u, z)
    /\ Len(u) = Len(t) - 1
    /\ DOMAIN z = DOMAIN s \ {t[i].key}
    /\ \A k \in DOMAIN z : z[k] = s[k]
    /\ \A j \in 1 .. Len(t) - 1 : u[j] = IF j < i THEN t[j] ELSE t[j + 1]
    /\ (Exact(t, s) /\ i = Len(t)) => Exact(u, z)

LEMMA SoundRemove ==
    ASSUME NEW t, NEW s, Sound(t, s), NEW i \in DOMAIN t,
           NEW u, u = RemoveAt(t, i),
           NEW z, z = RemoveItem(s, t[i].key)
    PROVE  Removed(t, s, i, u, z)
<1> DEFINE n == Len(t)
           at(j) == IF j < i THEN j ELSE j + 1
<1>1. t \in Seq(Tab) /\ n \in Nat /\ DOMAIN t = 1 .. n /\ i \in 1 .. n
  BY DEF Sound
<1>2. /\ u \in Seq(Tab) /\ Len(u) = n - 1
      /\ \A j \in 1 .. n - 1 : u[j] = IF j < i THEN t[j] ELSE t[j + 1]
  BY <1>1, RemoveFacts
<1>3. /\ DOMAIN z = DOMAIN s \ {t[i].key}
      /\ \A k \in DOMAIN z : z[k] = s[k]
      /\ z \in [DOMAIN z -> Pages]
      /\ DOMAIN z \in SUBSET Keys
  BY DEF RemoveItem, Sound
<1>4. DOMAIN u = 1 .. n - 1
  BY <1>1, <1>2
<1>5. \A j \in 1 .. n - 1 : at(j) \in 1 .. n \ {i} /\ u[j] = t[at(j)]
  BY <1>1, <1>2
<1>6. \A j, k \in 1 .. n - 1 : j < k => at(j) < at(k)
  BY <1>1
<1>7. \A m \in 1 .. n \ {i} : \E j \in 1 .. n - 1 : at(j) = m
  <2> TAKE m \in 1 .. n \ {i}
  <2>1. CASE m < i
    <3>1. m \in 1 .. n - 1 /\ at(m) = m
      BY <1>1, <2>1
    <3>2. QED
      BY <3>1
  <2>2. CASE ~(m < i)
    <3>1. m - 1 \in 1 .. n - 1 /\ at(m - 1) = m
      BY <1>1, <2>2
    <3>2. QED
      BY <3>1
  <2>3. QED
    BY <2>1, <2>2
<1> HIDE DEF at
<1>8. \A m \in 1 .. n \ {i} : t[m].key \in DOMAIN z /\ z[t[m].key] = t[m].page
  <2> TAKE m \in 1 .. n \ {i}
  <2>1. t[m].key \in DOMAIN s /\ s[t[m].key] = t[m].page
    BY <1>1 DEF Sound
  <2>2. \A j \in 1 .. n : t[j].key \in Nat
    BY <1>1 DEF Sound, Keys
  <2>3. (m < i => t[m].key < t[i].key) /\ (i < m => t[i].key < t[m].key)
    BY <1>1 DEF Sound
  <2>4. m < i \/ i < m
    BY <1>1
  <2>5. t[m].key # t[i].key
    BY <1>1, <2>2, <2>3, <2>4
  <2>6. QED
    BY <1>3, <2>1, <2>5
<1>9. \A j \in DOMAIN u : u[j].key \in DOMAIN z /\ z[u[j].key] = u[j].page
  BY <1>4, <1>5, <1>8
<1>10. \A j, k \in DOMAIN u : j < k => u[j].key < u[k].key
  <2> TAKE j, k \in DOMAIN u
  <2> HAVE j < k
  <2>1. /\ at(j) \in DOMAIN t /\ at(k) \in DOMAIN t /\ at(j) < at(k)
        /\ u[j] = t[at(j)] /\ u[k] = t[at(k)]
    BY <1>1, <1>4, <1>5, <1>6
  <2>2. QED
    BY <2>1 DEF Sound
<1>11. ASSUME NEW k \in DOMAIN z
       PROVE  (\E j \in DOMAIN u : u[j].key = k) \/ (\A j \in DOMAIN u : u[j].key < k)
  <2>1. k \in DOMAIN s /\ k # t[i].key
    BY <1>3
  <2>2. CASE \E m \in DOMAIN t : t[m].key = k
    <3>1. PICK m \in 1 .. n : t[m].key = k
      BY <1>1, <2>2
    <3>2. m \in 1 .. n \ {i}
      BY <2>1, <3>1
    <3>3. PICK j \in 1 .. n - 1 : at(j) = m
      BY <1>7, <3>2
    <3>4. QED
      BY <1>4, <1>5, <3>1, <3>3
  <2>3. CASE \A m \in DOMAIN t : t[m].key < k
    BY <1>1, <1>4, <1>5, <2>3
  <2>4. QED
    BY <2>1, <2>2, <2>3 DEF Sound
<1>12. Sound(u, z)
  BY <1>2, <1>3, <1>9, <1>10, <1>11 DEF Sound
<1>13. (Exact(t, s) /\ i = n) => Exact(u, z)
  <2> SUFFICES ASSUME Exact(t, s), i = n PROVE Exact(u, z)
    OBVIOUS
  <2>1. \A j \in DOMAIN u : j \in DOMAIN t /\ u[j] = t[j]
    <3>1. \A j \in 1 .. n - 1 : j < i /\ j \in 1 .. n
      BY <1>1
    <3>2. QED
      BY <1>1, <1>2, <1>4, <3>1
  <2>2. t[i].key = n - 1 /\ DOMAIN s = 0 .. n - 1
    BY <1>1 DEF Exact, InOrder
  <2>3. DOMAIN z = 0 .. Len(u) - 1
    <3>1. DOMAIN z = (0 .. n - 1) \ {n - 1}
      BY <1>3, <2>2
    <3>2. Len(u) - 1 = n - 2
      BY <1>1, <1>2
    <3>3. (0 .. n - 1) \ {n - 1} = 0 .. n - 2
      BY <1>1
    <3>4. QED
      BY <3>1, <3>2, <3>3
  <2>4. InOrder(u)
    BY <2>1 DEF Exact, InOrder
  <2>5. \A j, k \in DOMAIN u : u[j].page = u[k].page => j = k
    BY <2>1 DEF Exact
  <2>6. QED
    BY <2>3, <2>4, <2>5 DEF Exact
<1>14. QED
  BY <1>2, <1>3, <1>12, <1>13 DEF Removed

\* A reload of a strip in order with nothing else stored makes the same tabs
\* and stores what was stored.
LEMMA ExactReload ==
    ASSUME NEW t, NEW s, Sound(t, s), Exact(t, s), Len(t) <= MaxTabs
    PROVE  /\ reloadTabPage(s) = [strip |-> Rebuilt(s, Len(t)), session |-> s]
           /\ Rebuilt(s, Len(t)) \in Seq(Tab)
           /\ Alike(Rebuilt(s, Len(t)), t)
<1> DEFINE n == Len(t)
<1>1. n \in Nat /\ n \in 0 .. MaxTabs /\ DOMAIN t = 1 .. n
  BY TabStripAssumption DEF Sound
<1>2. NoGaps(s, n)
  BY <1>1 DEF NoGaps, Sound, Exact
<1>3. /\ Rebuilt(s, n) \in Seq(Tab) /\ Len(Rebuilt(s, n)) = n
  <2>1. n \in 0 .. n
    BY <1>1
  <2>2. QED
    BY <1>2, <2>1, RebuiltTyped
<1>4. \A i \in 1 .. n : /\ Rebuilt(s, n)[i].page = t[i].page
                        /\ Rebuilt(s, n)[i].key = t[i].key
  <2> TAKE i \in 1 .. n
  <2>1. Rebuilt(s, n)[i].page = s[i - 1] /\ Rebuilt(s, n)[i].key = i - 1
    BY DEF Rebuilt
  <2>2. t[i].key = i - 1 /\ s[t[i].key] = t[i].page
    BY <1>1 DEF Exact, InOrder, Sound
  <2>3. QED
    BY <2>1, <2>2
<1>5. reloadTabPage(s) = [strip |-> Rebuilt(s, n), session |-> s]
  BY <1>2, ReloadFacts
<1>6. QED
  BY <1>3, <1>4, <1>5 DEF Alike

\* A reload with gaps or with more stored than there were tabs: it may lose
\* tabs and make others twice, but the strip it makes is in order.  No tab and
\* no item is beyond those stored before.
LEMMA AnyReload ==
    ASSUME NEW s, s \in [DOMAIN s -> Pages], NEW room \in 0 .. MaxTabs,
           DOMAIN s \in SUBSET (0 .. room - 1)
    PROVE  /\ Sound(reloadTabPage(s).strip, reloadTabPage(s).session)
           /\ Len(reloadTabPage(s).strip) <= room
           /\ DOMAIN reloadTabPage(s).session \in SUBSET (0 .. room - 1)
<1> DEFINE Good(st, i) ==
              /\ Sound(st.strip, st.session)
              /\ InOrder(st.strip)
              /\ Len(st.strip) <= i
              /\ Len(st.strip) <= room
              /\ DOMAIN st.session \in SUBSET (0 .. room - 1)
<1>1. MaxTabs \in Nat /\ room \in Nat /\ room <= MaxTabs
  BY TabStripAssumption
<1>2. PICK f : Turns(f, s, MaxTabs) /\ reloadTabPage(s) = f[MaxTabs]
  BY ReloadTurns
<1>3. ASSUME NEW st, st.strip = <<>>, st.session = s
      PROVE  Good(st, 0)
  <2>1. st.strip \in Seq(Tab) /\ DOMAIN st.strip = {} /\ Len(st.strip) = 0
    BY <1>3
  <2>2. DOMAIN s \in SUBSET Keys
    BY <1>1 DEF Keys
  <2>3. InOrder(st.strip)
    BY <2>1 DEF InOrder
  <2>4. Sound(st.strip, s)
    BY <2>1, <2>2, <2>3, InOrderSound
  <2>5. QED
    BY <1>1, <1>3, <2>1, <2>3, <2>4
<1>4. ASSUME NEW st, NEW i \in 1 .. MaxTabs, Good(st, i - 1)
      PROVE  Good(Turn(st, i), i)
  <2> DEFINE n == Len(st.strip)
  <2>1. n \in Nat /\ n <= i - 1 /\ n < MaxTabs /\ n <= room
    BY <1>1, <1>4 DEF Sound
  <2>2. CASE i - 1 \in DOMAIN st.session /\ i - 1 < Length(st.session)
    <3> DEFINE p == st.session[i - 1]
               u == AddTab(st, p).strip
               z == AddTab(st, p).session
    <3>1. Turn(st, i) = AddTab(st, p)
      BY <2>2 DEF Turn
    <3>2. p \in Pages /\ i - 1 \in 0 .. room - 1
      BY <1>4, <2>2 DEF Sound
    <3>3. Added(st.strip, st.session, p, u, z)
      <4> HIDE DEF p
      <4>1. QED
        BY <1>4, <2>1, <3>2, AddedFacts
    <3>4. n \in 0 .. room - 1
      BY <2>1, <3>2
    <3> HIDE DEF u, z
    <3>5. /\ Sound(u, z) /\ InOrder(u) /\ Len(u) = n + 1
          /\ DOMAIN z = DOMAIN st.session \cup {n}
      BY <3>3 DEF Added
    <3>6. Len(u) <= i /\ Len(u) <= room /\ DOMAIN z \in SUBSET (0 .. room - 1)
      BY <1>1, <1>4, <2>1, <3>4, <3>5
    <3>7. QED
      BY <3>1, <3>5, <3>6 DEF u, z
  <2>3. CASE ~(i - 1 \in DOMAIN st.session /\ i - 1 < Length(st.session))
    <3>1. Turn(st, i) = st
      BY <2>3 DEF Turn
    <3>2. QED
      BY <1>4, <2>1, <3>1
  <2>4. QED
    BY <2>2, <2>3
<1> DEFINE S == {k \in Nat : k <= MaxTabs => Good(f[k], k)}
<1>5. 0 \in S
  <2>1. f[0] = [strip |-> <<>>, session |-> s]
    BY <1>1, <1>2 DEF Turns
  <2>2. f[0].strip = <<>> /\ f[0].session = s
    BY <2>1
  <2> HIDE DEF Good
  <2>3. QED
    BY <1>3, <2>2
<1>6. ASSUME NEW k \in Nat, k \in S
      PROVE  k + 1 \in S
  <2> HIDE DEF Good
  <2>1. CASE k + 1 <= MaxTabs
    <3>1. /\ k + 1 \in 1 .. MaxTabs /\ k + 1 \in 0 .. MaxTabs /\ k <= MaxTabs
          /\ (k + 1) - 1 = k /\ k + 1 # 0
      BY <1>1, <2>1
    <3>2. f[k + 1] = Turn(f[k], k + 1)
      BY <1>2, <3>1 DEF Turns
    <3>3. Good(f[k], (k + 1) - 1)
      BY <1>6, <3>1
    <3>4. Good(Turn(f[k], k + 1), k + 1)
      BY <1>4, <3>1, <3>3
    <3>5. QED
      BY <3>2, <3>4
  <2>2. CASE ~(k + 1 <= MaxTabs)
    BY <2>2
  <2>3. QED
    BY <2>1, <2>2
<1>7. Nat \subseteq S
  <2> HIDE DEF S
  <2>1. QED
    BY <1>5, <1>6, NatSetInduction
<1>8. Good(f[MaxTabs], MaxTabs)
  <2> HIDE DEF Good
  <2>1. QED
    BY <1>1, <1>7
<1>9. QED
  BY <1>2, <1>8

-----------------------------------------------------------------------------
(* The invariants.  The first holds for every user; the second, about what   *)
(* is shown, needs a browser that lists sessionStorage by key.               *)

StoresOK ==
    /\ DOMAIN strip = Windows
    /\ DOMAIN session = Windows
    /\ open \in Open \cup {NoOpen}
    /\ tidy \in BOOLEAN
    /\ alone \in BOOLEAN

Fits(t, s, room) == Len(t) <= room /\ DOMAIN s \in SUBSET (0 .. room - 1)

WindowsSound == \A w \in Windows :
    Sound(strip[w], session[w]) /\ Fits(strip[w], session[w], Room[w])

WindowsExact == tidy => \A w \in Windows : Exact(strip[w], session[w])

StripInv == StoresOK /\ WindowsSound /\ WindowsExact

\* If there is a tab, "Open" names one that is stored.  What is shown has its
\* url and comes no later in the strip (reOpen takes the first with the url),
\* and nothing is shown only if that url is empty.
Showing(t, s, o) ==
    /\ Len(t) > 0 => /\ o # NoOpen
                     /\ o.key \in DOMAIN s
                     /\ o = storedOpenPage(o.key, UrlOf[s[o.key]])
    /\ \A i \in DOMAIN t : t[i].shown =>
          /\ o.url = UrlOf[t[i].page]
          /\ t[i].key <= o.key
          /\ \A j \in DOMAIN t : t[j].shown => i = j
    /\ Len(t) > 0 /\ o.url # Blank => \E i \in DOMAIN t : t[i].shown

OpenInv == tidy /\ alone => Showing(strip[Home], session[Home], open)

\* A step that makes t and s of one window and leaves the others alone.
Moved(w, t, s) ==
    /\ DOMAIN strip' = Windows
    /\ DOMAIN session' = Windows
    /\ strip'[w] = t
    /\ session'[w] = s
    /\ \A v \in Windows \ {w} : strip'[v] = strip[v] /\ session'[v] = session[v]
    /\ tidy' = tidy /\ alone' = alone

LEMMA WindowFacts ==
    ASSUME StripInv, NEW w \in Windows
    PROVE  /\ Sound(strip[w], session[w])
           /\ Fits(strip[w], session[w], Room[w])
           /\ Room[w] \in 0 .. MaxTabs /\ MaxTabs \in Nat
           /\ strip[w] \in Seq(Tab)
           /\ DOMAIN strip[w] = 1 .. Len(strip[w])
           /\ Len(strip[w]) \in Nat
           /\ Len(strip[w]) <= MaxTabs
           /\ tidy => Exact(strip[w], session[w])
           /\ \A i \in DOMAIN strip[w] :
                 /\ strip[w][i] \in Tab
                 /\ strip[w][i].key \in DOMAIN session[w]
                 /\ session[w][strip[w][i].key] = strip[w][i].page
<1>1. /\ Sound(strip[w], session[w]) /\ Fits(strip[w], session[w], Room[w])
      /\ tidy => Exact(strip[w], session[w])
  BY DEF StripInv, WindowsSound, WindowsExact
<1>2. strip[w] \in Seq(Tab)
  BY <1>1 DEF Sound
<1>3. Room[w] \in 0 .. MaxTabs /\ MaxTabs \in Nat
  BY TabStripAssumption
<1>4. /\ DOMAIN strip[w] = 1 .. Len(strip[w]) /\ Len(strip[w]) \in Nat
      /\ Len(strip[w]) <= MaxTabs
  BY <1>1, <1>2, <1>3 DEF Fits
<1>5. \A i \in DOMAIN strip[w] : strip[w][i] \in Tab
  BY <1>2
<1>6. QED
  BY <1>1, <1>2, <1>3, <1>4, <1>5 DEF Sound

LEMMA UsedIn ==
    ASSUME NEW w \in Used
    PROVE  w \in Windows /\ (alone => w = Home)
BY TabStripAssumption DEF Used

LEMMA MovedKeeps ==
    ASSUME StripInv, NEW w \in Windows, NEW t, NEW s, Moved(w, t, s),
           Sound(t, s), Fits(t, s, Room[w]), tidy => Exact(t, s),
           open' \in Open \cup {NoOpen}
    PROVE  StripInv'
<1>1. StoresOK'
  BY DEF StripInv, StoresOK, Moved
<1>2. WindowsSound'
  BY DEF StripInv, WindowsSound, Moved
<1>3. WindowsExact'
  BY DEF StripInv, WindowsExact, Moved
<1>4. QED
  BY <1>1, <1>2, <1>3 DEF StripInv

LEMMA MovedShows ==
    ASSUME OpenInv, NEW w \in Used, NEW t, NEW s, Moved(w, t, s),
           tidy /\ alone => Showing(t, s, open')
    PROVE  OpenInv'
BY UsedIn DEF OpenInv, Moved

LEMMA StoredIsOpen ==
    ASSUME NEW k \in Keys \cup {NoTab}, NEW u \in Urls \cup {NoTab}
    PROVE  /\ storedOpenPage(k, u) \in Open
           /\ storedOpenPage(k, u) # NoOpen
           /\ storedOpenPage(k, u).key = k
           /\ storedOpenPage(k, u).url = u
<1>1. storedOpenPage(k, u) \in Open
  BY DEF storedOpenPage, Open
<1>2. QED
  BY <1>1, OpenAssumption DEF storedOpenPage

LEMMA UrlIn == \A p \in Pages : UrlOf[p] \in Urls
BY DEF Urls

-----------------------------------------------------------------------------
(* One lemma per action: it keeps both invariants. *)

LEMMA CreateKeeps ==
    ASSUME StripInv, NEW w \in Used, NEW p \in Pages, createTab(w, p)
    PROVE  StripInv' /\ (OpenInv => OpenInv')
<1> DEFINE n == Len(strip[w])
           st == AddTab([strip |-> strip[w], session |-> session[w]], p)
           t == st.strip
           s == st.session
<1>1. w \in Windows
  BY UsedIn
<1>2. /\ Sound(strip[w], session[w]) /\ n \in Nat
      /\ tidy => Exact(strip[w], session[w])
      /\ Fits(strip[w], session[w], Room[w])
      /\ MaxTabs \in Nat /\ Room[w] \in 0 .. MaxTabs
  BY <1>1, WindowFacts
<1>3. n < Room[w] /\ n < MaxTabs /\ OpenedPageCheck(session[w], p)
  BY <1>2 DEF createTab
<1>4. /\ Added(strip[w], session[w], p, t, s)
      /\ Exact(strip[w], session[w]) => Exact(t, s)
  BY <1>2, <1>3, SoundAdd
<1>5. Moved(w, t, s)
  BY <1>1 DEF createTab, user, StripInv, StoresOK, Moved
<1>6. n \in Keys /\ UrlOf[p] \in Urls /\ open' = storedOpenPage(n, UrlOf[p])
  <2>1. open' = storedOpenPage(n, UrlOf[p])
    BY DEF createTab, StoredTab
  <2>2. QED
    BY <1>2, <1>3, <2>1, UrlIn DEF Keys
<1>7. /\ open' \in Open /\ open' # NoOpen /\ open'.key = n
      /\ open'.url = UrlOf[p]
  BY <1>6, StoredIsOpen
<1> HIDE DEF t, s
<1>8. StripInv'
  <2>1. Fits(t, s, Room[w])
    BY <1>2, <1>3, <1>4 DEF Fits, Added
  <2>2. Sound(t, s) /\ (tidy => Exact(t, s))
    BY <1>2, <1>4 DEF Added
  <2>3. QED
    BY <1>1, <1>5, <1>7, <2>1, <2>2, MovedKeeps
<1>9. Showing(t, s, open')
  <2>1. DOMAIN t = 1 .. n + 1 /\ Len(t) = n + 1 /\ n + 1 \in DOMAIN t
    BY <1>2, <1>4 DEF Added, Sound
  <2>2. /\ t[n + 1].key = n /\ t[n + 1].page = p /\ n <= n
        /\ \A i \in DOMAIN t : t[i].shown <=> i = n + 1
    BY <1>2, <1>4, <2>1 DEF Added
  <2>3. n \in DOMAIN s /\ s[n] = p
    BY <1>4 DEF Added
  <2>4. QED
    BY <1>6, <1>7, <2>1, <2>2, <2>3 DEF Showing
<1>10. QED
  BY <1>5, <1>8, <1>9, MovedShows

LEMMA OpenPageKeeps ==
    ASSUME StripInv, NEW w \in Used, NEW i \in DOMAIN strip[w], openPage(w, i)
    PROVE  StripInv' /\ (OpenInv => OpenInv')
<1> DEFINE t == OpenTabContent(strip[w], i)
           s == session[w]
<1>1. w \in Windows
  BY UsedIn
<1>2. /\ Sound(strip[w], s) /\ strip[w] \in Seq(Tab)
      /\ Fits(strip[w], s, Room[w])
      /\ DOMAIN strip[w] = 1 .. Len(strip[w])
      /\ tidy => Exact(strip[w], s)
      /\ strip[w][i] \in Tab /\ strip[w][i].key \in DOMAIN s
      /\ s[strip[w][i].key] = strip[w][i].page
  BY <1>1, WindowFacts
<1>3. /\ t \in Seq(Tab) /\ Alike(t, strip[w])
      /\ \A j \in 1 .. Len(strip[w]) : t[j].shown <=> j = i
  BY <1>2, OpenFacts DEF openPage
<1>4. Moved(w, t, s)
  BY <1>1 DEF openPage, user, StripInv, StoresOK, Moved
<1> HIDE DEF t
<1>5. /\ Sound(t, s) /\ DOMAIN t = DOMAIN strip[w]
      /\ (Exact(strip[w], s) => Exact(t, s))
  BY <1>2, <1>3, SoundAlike
<1>6. open' = storedOpenPage(strip[w][i].key, UrlOf[strip[w][i].page])
  BY DEF openPage
<1>7. strip[w][i].key \in Keys /\ UrlOf[strip[w][i].page] \in Urls
  BY <1>2, UrlIn DEF Tab
<1>8. /\ open' \in Open /\ open' # NoOpen /\ open'.key = strip[w][i].key
      /\ open'.url = UrlOf[strip[w][i].page]
  BY <1>6, <1>7, StoredIsOpen
<1>9. StripInv'
  <2>1. Fits(t, s, Room[w]) /\ (tidy => Exact(t, s))
    BY <1>2, <1>3, <1>5 DEF Alike, Fits
  <2>2. QED
    BY <1>1, <1>4, <1>5, <1>8, <2>1, MovedKeeps
<1>10. Showing(t, s, open')
  <2>1. t[i].key = strip[w][i].key /\ t[i].page = strip[w][i].page
    BY <1>2, <1>3 DEF Alike
  <2>2. t[i].key <= t[i].key
    BY <1>7, <2>1 DEF Keys
  <2>3. \A j \in DOMAIN t : t[j].shown <=> j = i
    BY <1>2, <1>3, <1>5
  <2>4. QED
    BY <1>2, <1>5, <1>6, <1>8, <2>1, <2>2, <2>3 DEF Showing
<1>11. QED
  BY <1>4, <1>9, <1>10, MovedShows

\* An answer changes what a tab waits for, its handlers and its search box,
\* nothing else.
LEMMA EventsFacts ==
    ASSUME NEW tab \in Tab, tab.waiting > 0
    PROVE  /\ Events(tab) \in Tab
           /\ Events(tab).page = tab.page
           /\ Events(tab).key = tab.key
           /\ Events(tab).shown = tab.shown
<1> DEFINE b == tab.page \in Searched => open # NoOpen
           c == /\ tab.page \in Searched /\ open # NoOpen
                /\ open.url = UrlOf[tab.page]
           q == [tab EXCEPT !.waiting = @ - 1]
           r == [q EXCEPT !.wired = b]
           e == [r EXCEPT !.filled = c]
<1>1. b \in BOOLEAN /\ c \in BOOLEAN
  OBVIOUS
<1>2. Events(tab) = e
  BY DEF Events, Tab
<1> HIDE DEF b, c
<1>3. tab.waiting - 1 \in 0 .. MaxLoads
  BY TabStripAssumption DEF Tab
<1>4. /\ q \in Tab /\ q.page = tab.page /\ q.key = tab.key
      /\ q.shown = tab.shown
  BY <1>3 DEF Tab
<1> HIDE DEF q
<1>5. r \in Tab /\ r.page = q.page /\ r.key = q.key /\ r.shown = q.shown
  BY <1>1, <1>4 DEF Tab
<1> HIDE DEF r
<1>6. e \in Tab /\ e.page = r.page /\ e.key = r.key /\ e.shown = r.shown
  BY <1>1, <1>5 DEF Tab
<1> HIDE DEF e
<1>7. QED
  BY <1>2, <1>4, <1>5, <1>6

LEMMA AssignKeeps ==
    ASSUME StripInv, NEW w \in Used, NEW i \in DOMAIN strip[w],
           AssignEvtFunc(w, i)
    PROVE  StripInv' /\ (OpenInv => OpenInv')
<1> DEFINE r == Events(strip[w][i])
           t == [strip[w] EXCEPT ![i] = r]
           s == session[w]
<1>1. w \in Windows
  BY UsedIn
<1>2. /\ Sound(strip[w], s) /\ strip[w] \in Seq(Tab)
      /\ Fits(strip[w], s, Room[w])
      /\ DOMAIN strip[w] = 1 .. Len(strip[w]) /\ Len(strip[w]) \in Nat
      /\ tidy => Exact(strip[w], s)
      /\ strip[w][i] \in Tab
  BY <1>1, WindowFacts
<1>3. /\ r \in Tab /\ r.page = strip[w][i].page /\ r.key = strip[w][i].key
      /\ r.shown = strip[w][i].shown
  BY <1>2, EventsFacts DEF AssignEvtFunc
<1>4. Moved(w, t, s)
  <2>1. strip' = [strip EXCEPT ![w] = t]
    BY <1>1, <1>2 DEF AssignEvtFunc, StripInv, StoresOK
  <2> HIDE DEF t
  <2>2. QED
    BY <1>1, <2>1 DEF AssignEvtFunc, user, StripInv, StoresOK, Moved
<1> HIDE DEF r
<1>5. /\ t \in Seq(Tab) /\ Len(t) = Len(strip[w])
      /\ t[i] = r /\ \A j \in 1 .. Len(strip[w]) : j # i => t[j] = strip[w][j]
  BY <1>2, <1>3
<1> HIDE DEF t
<1>6. \A j \in 1 .. Len(strip[w]) :
         /\ t[j].page = strip[w][j].page /\ t[j].key = strip[w][j].key
         /\ t[j].shown = strip[w][j].shown
  BY <1>3, <1>5
<1>7. Alike(t, strip[w])
  BY <1>5, <1>6 DEF Alike
<1>8. /\ Sound(t, s) /\ DOMAIN t = DOMAIN strip[w]
      /\ (Exact(strip[w], s) => Exact(t, s))
  BY <1>2, <1>5, <1>7, SoundAlike
<1>9. open' = open /\ open \in Open \cup {NoOpen}
  BY DEF AssignEvtFunc, StripInv, StoresOK
<1>10. StripInv'
  <2>1. Fits(t, s, Room[w]) /\ (tidy => Exact(t, s))
    BY <1>2, <1>5, <1>8 DEF Fits
  <2>2. QED
    BY <1>1, <1>4, <1>8, <1>9, <2>1, MovedKeeps
<1>11. ASSUME OpenInv, tidy, alone
       PROVE  Showing(t, s, open')
  <2>1. Showing(strip[w], s, open)
    BY <1>11, UsedIn DEF OpenInv
  <2>2. QED
    BY <1>2, <1>5, <1>6, <1>8, <1>9, <2>1 DEF Showing
<1>12. QED
  BY <1>4, <1>10, <1>11, MovedShows

\* A tab leaves, whatever was shown or stored before it does.
LEMMA DiscardKeeps ==
    ASSUME StripInv, NEW w \in Used, NEW i \in DOMAIN strip[w],
           tidy => i = Len(strip[w]),
           NEW tabs \in Seq(Tab), Alike(tabs, strip[w]),
           NEW o \in Open \cup {NoOpen}, Discard(w, i, tabs, o)
    PROVE  LET u == RemoveAt(tabs, i)
               z == RemoveItem(session[w], strip[w][i].key)
           IN  /\ StripInv'
               /\ Moved(w, u, z)
               /\ Removed(tabs, session[w], i, u, z)
               /\ open' = IF DOMAIN z = {} THEN NoOpen ELSE o
<1> DEFINE k == strip[w][i].key
           u == RemoveAt(tabs, i)
           z == RemoveItem(session[w], k)
<1>1. w \in Windows
  BY UsedIn
<1>2. /\ Sound(strip[w], session[w])
      /\ tidy => Exact(strip[w], session[w])
      /\ Fits(strip[w], session[w], Room[w])
      /\ Room[w] \in 0 .. MaxTabs /\ MaxTabs \in Nat
      /\ DOMAIN strip[w] = 1 .. Len(strip[w]) /\ Len(strip[w]) \in Nat
  BY <1>1, WindowFacts
<1>3. /\ Sound(tabs, session[w]) /\ DOMAIN tabs = DOMAIN strip[w]
      /\ Exact(strip[w], session[w]) => Exact(tabs, session[w])
  BY <1>2, SoundAlike
<1>4. Len(tabs) = Len(strip[w]) /\ tabs[i].key = k
  BY <1>2 DEF Alike
<1>5. Removed(tabs, session[w], i, u, z)
  <2>1. i \in DOMAIN tabs
    BY <1>3
  <2>2. u = RemoveAt(tabs, i) /\ z = RemoveItem(session[w], tabs[i].key)
    BY <1>4
  <2> HIDE DEF u, z
  <2>3. QED
    BY <1>3, <2>1, <2>2, SoundRemove, Zenon
<1>6. Moved(w, u, z)
  BY <1>1 DEF Discard, user, StripInv, StoresOK, Moved
<1>7. open' = IF DOMAIN z = {} THEN NoOpen ELSE o
  BY DEF Discard
<1> HIDE DEF u, z
<1>8. Sound(u, z) /\ Fits(u, z, Room[w]) /\ (tidy => Exact(u, z))
  BY <1>2, <1>3, <1>4, <1>5 DEF Removed, Fits
<1>9. StripInv'
  BY <1>1, <1>6, <1>7, <1>8, MovedKeeps
<1>10. QED
  BY <1>5, <1>6, <1>7, <1>9 DEF u, z

\* The close button of another tab.  What is open stays open: the tab that
\* leaves is the last one, and it is not the open one unless it is alone.
LEMMA ClosePageKeeps ==
    ASSUME StripInv, NEW w \in Used, NEW i \in DOMAIN strip[w],
           tidy => i = Len(strip[w]), closePage(w, i)
    PROVE  StripInv' /\ (SortedKeys /\ OpenInv => OpenInv')
<1> DEFINE t == strip[w]
           s == session[w]
           k == t[i].key
           n == Len(t)
           u == RemoveAt(t, i)
           z == RemoveItem(s, k)
<1>1. w \in Windows
  BY UsedIn
<1>2. /\ tidy => Exact(t, s)
      /\ t \in Seq(Tab) /\ DOMAIN t = 1 .. n /\ n \in Nat
  BY <1>1, WindowFacts
<1>3. Alike(t, t) /\ open \in Open \cup {NoOpen}
  BY DEF Alike, StripInv, StoresOK
<1>4. Discard(w, i, t, open)
  BY DEF closePage
<1>5. /\ StripInv' /\ Moved(w, u, z)
      /\ Removed(t, s, i, u, z)
      /\ open' = IF DOMAIN z = {} THEN NoOpen ELSE open
  BY <1>2, <1>3, <1>4, DiscardKeeps
<1> HIDE DEF u, z
<1>6. ASSUME SortedKeys, OpenInv, tidy, alone
      PROVE  Showing(u, z, open')
  <2>1. i = n /\ InOrder(t) /\ DOMAIN s = 0 .. n - 1 /\ k = n - 1 /\ n > 0
    BY <1>2, <1>6 DEF Exact, InOrder
  <2>2. Showing(t, s, open)
    BY <1>6, UsedIn DEF OpenInv
  <2>3. Len(u) = n - 1 /\ DOMAIN u = 1 .. n - 1
    BY <1>2, <1>5 DEF Removed, Sound
  <2>4. \A j \in 1 .. n - 1 : j \in DOMAIN t /\ j # n /\ u[j] = t[j] /\ t[j].key = j - 1
    <3>1. \A j \in 1 .. n - 1 : j < i /\ j \in 1 .. n
      BY <1>2, <2>1
    <3>2. \A j \in 1 .. n - 1 : u[j] = t[j]
      BY <1>5, <3>1 DEF Removed
    <3>3. \A j \in 1 .. n - 1 : j \in DOMAIN t /\ j # n
      BY <1>2, <2>1, <3>1
    <3>4. \A j \in 1 .. n - 1 : t[j].key = j - 1
      BY <2>1, <3>3 DEF InOrder
    <3>5. QED
      BY <3>2, <3>3, <3>4
  <2>5. DOMAIN z = DOMAIN s \ {k} /\ \A m \in DOMAIN z : z[m] = s[m]
    BY <1>5 DEF Removed
  <2>6. CASE n = 1
    <3>1. DOMAIN u = {} /\ ~(Len(u) > 0)
      BY <2>3, <2>6
    <3>2. QED
      BY <3>1 DEF Showing
  <2>7. CASE n # 1
    <3> HIDE DEF k, n
    <3>1. n - 1 > 0 /\ 0 \in DOMAIN s /\ 0 \in DOMAIN z
      <4>1. n - 1 > 0 /\ 0 \in 0 .. n - 1 /\ 0 # n - 1
        BY <1>2, <2>1, <2>7
      <4>2. QED
        BY <2>1, <2>5, <4>1
    <3>2. open' = open
      BY <1>5, <3>1
    <3>3. ~MayBeFirst(s, k)
      BY <1>6, <2>1, <3>1 DEF MayBeFirst
    <3>4. open # NoOpen /\ k # open.key
      BY <3>3 DEF closePage, k
    <3>5. /\ open.key \in DOMAIN s
          /\ open = storedOpenPage(open.key, UrlOf[s[open.key]])
      BY <1>2, <2>1, <2>2 DEF Showing, n
    <3>6. /\ open.key \in DOMAIN z /\ open.key < k
          /\ open = storedOpenPage(open.key, UrlOf[z[open.key]])
      <4>1. open.key \in 0 .. n - 1
        BY <2>1, <3>5
      <4>2. open.key \in DOMAIN z /\ open.key < k
        BY <1>2, <2>1, <2>5, <3>4, <3>5, <4>1
      <4>3. QED
        BY <2>5, <3>5, <4>2
    <3>7. \A j \in DOMAIN u : u[j].shown =>
             /\ open.url = UrlOf[u[j].page]
             /\ u[j].key <= open.key
             /\ \A m \in DOMAIN u : u[m].shown => j = m
      BY <2>2, <2>3, <2>4 DEF Showing
    <3>8. open.url # Blank => \E j \in DOMAIN u : u[j].shown
      <4> SUFFICES ASSUME open.url # Blank PROVE \E j \in DOMAIN u : u[j].shown
        OBVIOUS
      <4>1. PICK j \in DOMAIN t : t[j].shown
        BY <1>2, <2>1, <2>2 DEF Showing, n
      <4>2. t[j].key <= open.key /\ t[j].key = j - 1 /\ j \in 1 .. n
        BY <1>2, <2>1, <2>2, <4>1 DEF Showing, InOrder
      <4>3. open.key \in Nat
        BY <2>1, <3>5
      <4>4. j \in 1 .. n - 1
        BY <1>2, <2>1, <3>6, <4>2, <4>3
      <4>5. QED
        BY <2>3, <2>4, <4>1, <4>4
    <3>9. QED
      BY <3>2, <3>4, <3>6, <3>7, <3>8 DEF Showing
  <2>8. QED
    BY <2>6, <2>7
<1>7. QED
  BY <1>5, <1>6, MovedShows

\* The close button of the open tab.  A tidy user closes the last one; the one
\* before it, or the first with its url, is opened first.
LEMMA PreTabOpenKeeps ==
    ASSUME StripInv, NEW w \in Used, NEW i \in DOMAIN strip[w],
           tidy => i = Len(strip[w]), preTabOpen(w, i)
    PROVE  StripInv' /\ (OpenInv => OpenInv')
<1> DEFINE t == strip[w]
           s == session[w]
           k == t[i].key
           n == Len(t)
           pre == IF k = 0 THEN NoTab ELSE k - 1
           url == IF pre \in DOMAIN s THEN UrlOf[s[pre]] ELSE NoTab
           tabs == reOpen(t, s, pre)
           o == storedOpenPage(pre, url)
           u == RemoveAt(tabs, i)
           z == RemoveItem(s, k)
<1>1. w \in Windows
  BY UsedIn
<1>2. /\ Sound(t, s) /\ (tidy => Exact(t, s)) /\ Fits(t, s, Room[w])
      /\ t \in Seq(Tab) /\ DOMAIN t = 1 .. n /\ n \in Nat
      /\ n <= MaxTabs /\ k \in DOMAIN s /\ t[i] \in Tab
  BY <1>1, WindowFacts
<1>3. pre \in Keys \cup {NoTab}
  <2>1. k \in 0 .. MaxTabs - 1
    BY <1>2 DEF Tab, Keys
  <2>2. QED
    BY <2>1, TabStripAssumption DEF Keys
<1>4. url \in Urls \cup {NoTab}
  BY <1>2, UrlIn DEF Sound
<1>5. o \in Open /\ o # NoOpen /\ o.key = pre /\ o.url = url
  <2> HIDE DEF pre, url
  <2>1. QED
    BY <1>3, <1>4, StoredIsOpen
<1>6. /\ open # NoOpen /\ k = open.key
      /\ DOMAIN s = {} \/ \E m \in DOMAIN s \ {k} : MayBeFirst(s, m)
      /\ IF reOpenThrows(t, s, pre)
         THEN /\ strip' = [strip EXCEPT ![w] = tabs]
              /\ open' = o
              /\ UNCHANGED <<session, user>>
         ELSE Discard(w, i, tabs, o)
  BY DEF preTabOpen
<1>7. /\ tabs \in Seq(Tab)
      /\ Alike(tabs, t)
      /\ ~reOpenThrows(t, s, pre) =>
            \E c \in 1 .. n :
               /\ UrlOf[t[c].page] = UrlOf[s[pre]]
               /\ \A j \in 1 .. n : UrlOf[t[j].page] = UrlOf[s[pre]] => c <= j
               /\ \A j \in 1 .. n : tabs[j].shown <=> j = c
      /\ (pre \in DOMAIN s /\ reOpenThrows(t, s, pre)) =>
            \A j \in 1 .. n :
               /\ ~tabs[j].shown
               /\ UrlOf[t[j].page] = UrlOf[s[pre]] => UrlOf[s[pre]] = Blank
  <2> HIDE DEF pre
  <2>1. t \in Seq(Tab)
    BY <1>2
  <2>2. Reopened(t, s, pre, tabs)
    BY <2>1, ReOpenFacts
  <2> HIDE DEF tabs
  <2>3. QED
    BY <2>2 DEF Reopened
<1> HIDE DEF tabs, o
<1>8. /\ Sound(tabs, s) /\ DOMAIN tabs = DOMAIN t /\ Len(tabs) = n
      /\ (tidy => Exact(tabs, s)) /\ Fits(tabs, s, Room[w])
  BY <1>2, <1>7, SoundAlike DEF Alike, Fits
\* What is closed is not the first: the one before it is stored.
<1>9. ASSUME tidy
      PROVE  /\ i = n /\ k = n - 1 /\ k \in 1 .. n - 1 /\ DOMAIN s = 0 .. n - 1
             /\ pre = k - 1 /\ k - 1 \in DOMAIN s
             /\ InOrder(t) /\ s[k - 1] = t[k].page
  <2>1. i = n /\ k = n - 1 /\ DOMAIN s = 0 .. n - 1 /\ n > 0 /\ InOrder(t)
    BY <1>2, <1>9 DEF Exact, InOrder
  <2>2. PICK m \in DOMAIN s \ {k} : TRUE
    BY <1>2, <1>6
  <2>3. k # 0 /\ k - 1 \in DOMAIN s /\ k \in 1 .. n - 1 /\ k \in DOMAIN t
    BY <1>2, <2>1, <2>2
  <2>4. pre = k - 1
    BY <2>3
  <2>5. t[k].key = k - 1
    BY <2>1, <2>3 DEF InOrder
  <2>6. s[k - 1] = t[k].page
    BY <1>2, <2>3, <2>5 DEF Sound
  <2>7. QED
    BY <2>1, <2>3, <2>4, <2>6
<1> HIDE DEF pre
<1>10. tidy => o = storedOpenPage(k - 1, UrlOf[s[k - 1]])
  BY <1>9 DEF o
<1>11. tidy => o.key = k - 1 /\ o.url = UrlOf[s[k - 1]]
  BY <1>5, <1>9
<1> HIDE DEF url
<1>12. CASE reOpenThrows(t, s, pre)
  <2>1. Moved(w, tabs, s) /\ open' = o
    BY <1>1, <1>6, <1>12 DEF user, StripInv, StoresOK, Moved
  <2>2. StripInv'
    BY <1>1, <1>5, <1>8, <2>1, MovedKeeps
  <2>3. ASSUME tidy
        PROVE  Showing(tabs, s, open')
    <3>1. pre \in DOMAIN s /\ k \in 1 .. n /\ UrlOf[t[k].page] = UrlOf[s[pre]]
      BY <1>2, <1>9, <2>3
    <3>2. \A j \in DOMAIN tabs : ~tabs[j].shown
      BY <1>2, <1>7, <1>8, <1>12, <3>1
    <3>3. UrlOf[s[pre]] = Blank
      BY <1>7, <1>12, <3>1
    <3>4. o.url = Blank /\ o.key \in DOMAIN s
          /\ o = storedOpenPage(o.key, UrlOf[s[o.key]])
      BY <1>9, <1>10, <1>11, <2>3, <3>3
    <3>5. QED
      BY <1>5, <2>1, <3>2, <3>4 DEF Showing
  <2>4. QED
    BY <2>1, <2>2, <2>3, MovedShows
<1>13. CASE ~reOpenThrows(t, s, pre)
  <2>1. Discard(w, i, tabs, o)
    BY <1>6, <1>13
  <2>2. /\ StripInv' /\ Moved(w, u, z)
        /\ Removed(tabs, s, i, u, z)
        /\ open' = IF DOMAIN z = {} THEN NoOpen ELSE o
    BY <1>5, <1>7, <2>1, DiscardKeeps
  <2> HIDE DEF u, z
  <2>3. ASSUME tidy
        PROVE  Showing(u, z, open')
    <3>1. /\ i = n /\ k = n - 1 /\ k \in 1 .. n - 1 /\ DOMAIN s = 0 .. n - 1
          /\ pre = k - 1 /\ k - 1 \in DOMAIN s
          /\ InOrder(t) /\ s[k - 1] = t[k].page
      BY <1>9, <2>3
    <3>2. PICK c \in 1 .. n :
             /\ UrlOf[t[c].page] = UrlOf[s[pre]]
             /\ \A j \in 1 .. n : UrlOf[t[j].page] = UrlOf[s[pre]] => c <= j
             /\ \A j \in 1 .. n : tabs[j].shown <=> j = c
      BY <1>7, <1>13
    <3>3. k \in 1 .. n /\ UrlOf[t[k].page] = UrlOf[s[pre]]
      BY <1>2, <3>1
    <3>4. c <= k
      BY <3>2, <3>3
    <3>5. c \in 1 .. n - 1 /\ k \in Nat
      BY <1>2, <3>1, <3>2, <3>4
    <3>6. /\ Len(u) = n - 1 /\ DOMAIN u = 1 .. n - 1
          /\ DOMAIN z = DOMAIN s \ {tabs[i].key}
          /\ \A m \in DOMAIN z : z[m] = s[m]
      BY <1>2, <1>8, <2>2 DEF Removed, Sound
    <3>7. tabs[i].key = k
      BY <1>2, <1>7, <1>8 DEF Alike
    <3>8. k - 1 \in DOMAIN z /\ z[k - 1] = s[k - 1]
      <4>1. k - 1 # k
        BY <3>5
      <4> HIDE DEF k
      <4>2. QED
        BY <3>1, <3>6, <3>7, <4>1
    <3>9. open' = o /\ o # NoOpen /\ o.key = k - 1
          /\ o = storedOpenPage(k - 1, UrlOf[z[k - 1]])
          /\ o.url = UrlOf[s[k - 1]]
      <4>1. open' = o
        BY <2>2, <3>8
      <4>2. QED
        BY <1>5, <1>10, <1>11, <2>3, <3>8, <4>1
    <3>10. \A j \in 1 .. n - 1 : j \in 1 .. n /\ u[j] = tabs[j]
      <4>1. \A j \in 1 .. n - 1 : j < i /\ j \in 1 .. n
        BY <1>2, <3>1
      <4>2. QED
        BY <1>8, <2>2, <4>1 DEF Removed
    <3>11. \A j \in DOMAIN u : u[j].shown <=> j = c
      BY <3>2, <3>6, <3>10
    <3>12. u[c].page = t[c].page /\ u[c].key = c - 1
      <4>1. u[c].page = t[c].page /\ u[c].key = t[c].key
        BY <1>7, <3>2, <3>5, <3>10 DEF Alike
      <4>2. t[c].key = c - 1
        BY <1>2, <3>1, <3>2 DEF InOrder
      <4>3. QED
        BY <4>1, <4>2
    <3>13. u[c].key <= k - 1
      BY <3>4, <3>5, <3>12
    <3>14. o.url = UrlOf[u[c].page]
      BY <3>1, <3>2, <3>9, <3>12
    <3>15. c \in DOMAIN u /\ u[c].shown
      BY <3>5, <3>6, <3>11
    <3>16. QED
      BY <3>8, <3>9, <3>11, <3>13, <3>14, <3>15 DEF Showing
  <2>4. QED
    BY <2>2, <2>3, MovedShows
<1>14. QED
  BY <1>12, <1>13

\* A reload leaves a sound window, and, for a tidy user, the same tabs and
\* store.
LEMMA TabInitFacts ==
    ASSUME StripInv, NEW w \in Windows, TabInit(w)
    PROVE  /\ Moved(w, strip'[w], session'[w])
           /\ Sound(strip'[w], session'[w])
           /\ Fits(strip'[w], session'[w], Room[w])
           /\ open' = open
           /\ tidy => /\ session'[w] = session[w]
                      /\ strip'[w] \in Seq(Tab)
                      /\ Alike(strip'[w], strip[w])
                      /\ Showing(strip[w], session[w], open)
                           => Showing(strip'[w], session[w], open)
<1> DEFINE t == strip[w]
           s == session[w]
           n == Len(strip[w])
           made == reloadTabPage(s)
           again == reOpen(made.strip, made.session, open.key)
           current == s # <<>> /\ open # NoOpen
           u == IF current THEN again ELSE made.strip
<1>1. /\ Sound(t, s) /\ Fits(t, s, Room[w]) /\ (tidy => Exact(t, s))
      /\ DOMAIN t = 1 .. n /\ n \in Nat /\ n <= MaxTabs /\ t \in Seq(Tab)
      /\ Room[w] \in 0 .. MaxTabs
  BY WindowFacts
<1>2. /\ strip' = [strip EXCEPT ![w] = u]
      /\ session' = [session EXCEPT ![w] = made.session]
      /\ open' = open /\ user' = user
  BY DEF TabInit
<1>3. /\ Sound(made.strip, made.session)
      /\ Fits(made.strip, made.session, Room[w])
  <2>1. s \in [DOMAIN s -> Pages] /\ DOMAIN s \in SUBSET (0 .. Room[w] - 1)
    BY <1>1 DEF Sound, Fits
  <2>2. QED
    BY <1>1, <2>1, AnyReload DEF Fits
<1>4. Reopened(made.strip, made.session, open.key, again)
  <2>1. made.strip \in Seq(Tab)
    BY <1>3 DEF Sound
  <2>2. QED
    BY <2>1, ReOpenFacts
<1> HIDE DEF made, again
<1>5. u \in Seq(Tab) /\ Alike(u, made.strip)
  BY <1>3, <1>4 DEF Reopened, Alike, Sound
<1>6. Sound(u, made.session) /\ Fits(u, made.session, Room[w])
  BY <1>3, <1>5, SoundAlike DEF Alike, Fits
<1>7. strip'[w] = u /\ session'[w] = made.session /\ Moved(w, u, made.session)
  BY <1>2 DEF user, StripInv, StoresOK, Moved
<1>8. ASSUME tidy
      PROVE  made.session = s /\ made.strip \in Seq(Tab) /\ Alike(made.strip, t)
  <2>1. /\ made = [strip |-> Rebuilt(s, n), session |-> s]
        /\ Rebuilt(s, n) \in Seq(Tab)
        /\ Alike(Rebuilt(s, n), t)
    BY <1>1, <1>8, ExactReload DEF made
  <2>2. made.session = s /\ made.strip = Rebuilt(s, n)
    BY <2>1
  <2>3. QED
    BY <2>1, <2>2
<1>9. ASSUME tidy
      PROVE  Alike(u, t)
  BY <1>5, <1>8, <1>9 DEF Alike
<1>10. ASSUME tidy, Showing(t, s, open)
       PROVE  Showing(u, s, open)
  <2>1. /\ DOMAIN u = 1 .. n /\ Len(u) = n
        /\ InOrder(t) /\ DOMAIN s = 0 .. n - 1
    BY <1>1, <1>5, <1>9, <1>10 DEF Alike, Exact
  <2>2. CASE n = 0
    <3>1. ~(Len(u) > 0) /\ DOMAIN u = {}
      BY <2>1, <2>2
    <3>2. QED
      BY <3>1 DEF Showing
  <2>3. CASE n # 0
    <3>1. /\ open # NoOpen /\ open.key \in DOMAIN s
          /\ open = storedOpenPage(open.key, UrlOf[s[open.key]])
      BY <1>1, <1>10, <2>3 DEF Showing
    <3>2. s # <<>>
      <4>1. DOMAIN s # DOMAIN <<>>
        BY <3>1
      <4>2. QED
        BY <4>1
    <3>3. u = again
      BY <3>1, <3>2
    <3>4. open.url = UrlOf[s[open.key]]
      BY <3>1 DEF storedOpenPage
    <3> DEFINE k == open.key
               tabs == made.strip
    <3>5. k \in Nat /\ k + 1 \in 1 .. n /\ (k + 1) - 1 = k
      BY <1>1, <2>1, <3>1
    <3>6. t[k + 1].page = s[k]
      <4>1. t[k + 1].key = k
        BY <1>1, <2>1, <3>5 DEF InOrder
      <4>2. s[t[k + 1].key] = t[k + 1].page
        BY <1>1, <3>5 DEF Sound
      <4>3. QED
        BY <4>1, <4>2
    <3>7. Len(tabs) = n /\ \A j \in 1 .. n : tabs[j].page = t[j].page
      BY <1>1, <1>8, <1>10 DEF Alike
    <3>8. Reopened(tabs, s, k, u)
      BY <1>4, <1>8, <1>10, <3>3
    <3>9. UrlOf[tabs[k + 1].page] = open.url
      BY <3>4, <3>5, <3>6, <3>7
    <3>10. \A j \in 1 .. n : u[j].page = t[j].page /\ u[j].key = j - 1
      BY <1>1, <1>9, <1>10, <2>1 DEF Alike, InOrder
    <3> HIDE DEF k, tabs, u
    <3>11. CASE reOpenThrows(tabs, s, k)
      <4>1. /\ \A j \in 1 .. n : ~u[j].shown
            /\ open.url = Blank
        BY <3>1, <3>4, <3>5, <3>7, <3>8, <3>9, <3>11 DEF Reopened, k
      <4>2. QED
        BY <2>1, <3>1, <4>1 DEF Showing
    <3>12. CASE ~reOpenThrows(tabs, s, k)
      <4>1. PICK c \in 1 .. n :
               /\ UrlOf[tabs[c].page] = UrlOf[s[k]]
               /\ \A j \in 1 .. n : UrlOf[tabs[j].page] = UrlOf[s[k]] => c <= j
               /\ \A j \in 1 .. n : u[j].shown <=> j = c
        BY <3>7, <3>8, <3>12 DEF Reopened
      <4>2. c <= k + 1
        BY <3>4, <3>5, <3>9, <4>1 DEF k
      <4>3. u[c].key <= k /\ open.url = UrlOf[u[c].page]
        BY <3>4, <3>5, <3>7, <3>10, <4>1, <4>2 DEF k
      <4>4. c \in DOMAIN u /\ u[c].shown
        BY <2>1, <4>1
      <4>5. \A j \in DOMAIN u : u[j].shown => j = c
        BY <2>1, <4>1
      <4>6. QED
        BY <3>1, <4>3, <4>4, <4>5 DEF Showing, k
    <3>13. QED
      BY <3>11, <3>12
  <2>4. QED
    BY <2>2, <2>3
<1> HIDE DEF u
<1>11. QED
  BY <1>2, <1>5, <1>6, <1>7, <1>8, <1>9, <1>10

LEMMA TabInitKeeps ==
    ASSUME StripInv, NEW w \in Used, TabInit(w)
    PROVE  StripInv' /\ (OpenInv => OpenInv')
<1> DEFINE u == strip'[w]
           z == session'[w]
<1>1. w \in Windows
  BY UsedIn
<1>2. /\ Moved(w, u, z) /\ Sound(u, z) /\ Fits(u, z, Room[w])
      /\ open' = open
      /\ tidy => /\ z = session[w]
                 /\ u \in Seq(Tab)
                 /\ Alike(u, strip[w])
                 /\ Showing(strip[w], session[w], open)
                      => Showing(u, session[w], open)
  BY <1>1, TabInitFacts
<1>3. Sound(strip[w], session[w]) /\ (tidy => Exact(strip[w], session[w]))
  BY <1>1, WindowFacts
<1> HIDE DEF u, z
<1>4. tidy => Exact(u, z)
  BY <1>2, <1>3, SoundAlike
<1>5. open \in Open \cup {NoOpen}
  BY DEF StripInv, StoresOK
<1>6. StripInv'
  BY <1>1, <1>2, <1>4, <1>5, MovedKeeps
<1>7. ASSUME OpenInv, tidy, alone
      PROVE  Showing(u, z, open')
  BY <1>2, <1>7, UsedIn DEF OpenInv
<1>8. QED
  BY <1>2, <1>6, <1>7, MovedShows

LEMMA NothingThere ==
    /\ Sound(<<>>, <<>>) /\ Exact(<<>>, <<>>)
    /\ \A room \in Nat : Fits(<<>>, <<>>, room)
    /\ \A o : Showing(<<>>, <<>>, o)
<1>1. DOMAIN <<>> = {} /\ <<>> \in Seq(Tab) /\ <<>> \in [{} -> Pages]
      /\ Len(<<>>) = 0 /\ {} = 0 .. 0 - 1
  OBVIOUS
<1>2. QED
  BY <1>1 DEF Sound, Exact, InOrder, Fits, Showing

LEMMA ClearKeeps ==
    ASSUME StripInv, NEW w \in Used, sessionClear(w)
    PROVE  StripInv' /\ (OpenInv => OpenInv')
<1>1. w \in Windows /\ Room[w] \in Nat
  BY UsedIn, TabStripAssumption
<1>2. Moved(w, <<>>, <<>>)
  BY <1>1 DEF sessionClear, user, StripInv, StoresOK, Moved
<1>3. open' \in Open \cup {NoOpen}
  BY DEF sessionClear, StripInv, StoresOK
<1>4. StripInv'
  <2>1. /\ Fits(<<>>, <<>>, Room[w]) /\ Sound(<<>>, <<>>)
        /\ tidy => Exact(<<>>, <<>>)
    BY <1>1, NothingThere
  <2>2. QED
    BY <1>1, <1>2, <1>3, <2>1, MovedKeeps
<1>5. QED
  BY <1>2, <1>4, NothingThere, MovedShows

-----------------------------------------------------------------------------
(* The invariants of every behaviour. *)

LEMMA InitKeeps == Init => StripInv /\ OpenInv
<1> SUFFICES ASSUME Init PROVE StripInv /\ OpenInv
  OBVIOUS
<1>1. \A w \in Windows : strip[w] = <<>> /\ session[w] = <<>>
  BY DEF Init
<1>2. StoresOK
  BY DEF Init, StoresOK
<1>3. WindowsSound
  <2>1. \A w \in Windows : Room[w] \in Nat
    BY TabStripAssumption
  <2>2. QED
    BY <1>1, <2>1, NothingThere DEF WindowsSound
<1>4. WindowsExact
  BY <1>1, NothingThere DEF WindowsExact
<1>5. OpenInv
  BY <1>1, NothingThere, TabStripAssumption DEF OpenInv
<1>6. QED
  BY <1>2, <1>3, <1>4, <1>5 DEF StripInv

LEMMA StepKeeps ==
    ASSUME StripInv, [Next]_vars
    PROVE  /\ StripInv'
           /\ SortedKeys /\ OpenInv => OpenInv'
<1>1. CASE UNCHANGED vars
  BY <1>1 DEF vars, user, StripInv, StoresOK, WindowsSound, WindowsExact, OpenInv
<1>2. CASE Next
  <2>1. PICK w \in Used :
           \/ \E p \in Pages : createTab(w, p)
           \/ \E i \in DOMAIN strip[w] :
                 \/ openPage(w, i)
                 \/ AssignEvtFunc(w, i)
                 \/ MayClose(w, i) /\ (closePage(w, i) \/ preTabOpen(w, i))
           \/ TabInit(w)
           \/ sessionClear(w)
    BY <1>2 DEF Next
  <2>2. CASE \E p \in Pages : createTab(w, p)
    BY <2>2, CreateKeeps
  <2>3. CASE \E i \in DOMAIN strip[w] : openPage(w, i)
    BY <2>3, OpenPageKeeps
  <2>4. CASE \E i \in DOMAIN strip[w] : AssignEvtFunc(w, i)
    BY <2>4, AssignKeeps
  <2>5. CASE \E i \in DOMAIN strip[w] : MayClose(w, i) /\ closePage(w, i)
    BY <2>5, ClosePageKeeps DEF MayClose
  <2>6. CASE \E i \in DOMAIN strip[w] : MayClose(w, i) /\ preTabOpen(w, i)
    BY <2>6, PreTabOpenKeeps DEF MayClose
  <2>7. CASE TabInit(w)
    BY <2>7, TabInitKeeps
  <2>8. CASE sessionClear(w)
    BY <2>8, ClearKeeps
  <2>9. QED
    BY <2>1, <2>2, <2>3, <2>4, <2>5, <2>6, <2>7, <2>8
<1>3. QED
  BY <1>1, <1>2

\* In every reachable state each window's storage holds its tabs, whose keys
\* grow along the strip, and for a user who closes from the end the keys are
\* the positions of the strip (createTab, closePage, preTabOpen and
\* reloadTabPage).
THEOREM StripInvariant == Spec => []StripInv
<1>1. Init => StripInv
  BY InitKeeps
<1>2. StripInv /\ [Next]_vars => StripInv'
  BY StepKeeps
<1>3. QED
  BY <1>1, <1>2, PTL DEF Spec

\* The strips, the two storages and the user are what the declarations say.
THEOREM TypeCorrect == Spec => []TypeOK
<1>1. StripInv => TypeOK
  <2> SUFFICES ASSUME StripInv PROVE TypeOK
    OBVIOUS
  <2>1. ASSUME NEW w \in Windows
        PROVE  /\ Len(strip[w]) <= MaxTabs
               /\ \A i \in DOMAIN strip[w] : strip[w][i] \in Tab
               /\ DOMAIN session[w] \subseteq Keys
               /\ \A k \in DOMAIN session[w] : session[w][k] \in Pages
    BY WindowFacts DEF Sound
  <2>2. QED
    BY <2>1 DEF StripInv, StoresOK, TypeOK
<1>2. QED
  BY <1>1, StripInvariant, PTL

\* Whatever the user closes and reloads in however many windows, no two tabs
\* of a window share a key and each is stored under its own; whoever closes
\* from the end has nothing else in storage (createTab, closePage, preTabOpen,
\* reloadTabPage).
THEOREM SessionIsStripCorrect == Spec => []SessionIsStrip
<1>1. ASSUME StripInv, NEW w \in Windows
      PROVE  LET keys == {strip[w][i].key : i \in DOMAIN strip[w]}
             IN  /\ keys \subseteq DOMAIN session[w]
                 /\ \A i \in DOMAIN strip[w] :
                       session[w][strip[w][i].key] = strip[w][i].page
                 /\ \A i, j \in DOMAIN strip[w] :
                       strip[w][i].key = strip[w][j].key => i = j
                 /\ tidy => DOMAIN session[w] = keys
  <2> DEFINE t == strip[w]
             s == session[w]
             keys == {t[i].key : i \in DOMAIN t}
  <2>1. /\ Sound(t, s) /\ (tidy => Exact(t, s))
        /\ DOMAIN t = 1 .. Len(t) /\ Len(t) \in Nat
        /\ \A i \in DOMAIN t : t[i].key \in DOMAIN s /\ s[t[i].key] = t[i].page
    BY <1>1, WindowFacts
  <2>2. \A i, j \in DOMAIN t : t[i].key = t[j].key => i = j
    <3> TAKE i, j \in DOMAIN t
    <3>1. t[i].key \in Nat /\ t[j].key \in Nat
      BY <2>1 DEF Sound, Keys
    <3>2. (i < j => t[i].key < t[j].key) /\ (j < i => t[j].key < t[i].key)
      BY <2>1 DEF Sound
    <3>3. i < j \/ j < i \/ i = j
      BY <2>1
    <3>4. QED
      BY <3>1, <3>2, <3>3
  <2>3. tidy => DOMAIN s = keys
    <3> SUFFICES ASSUME tidy PROVE DOMAIN s = keys
      OBVIOUS
    <3>1. InOrder(t) /\ DOMAIN s = 0 .. Len(t) - 1
      BY <2>1 DEF Exact
    <3>2. ASSUME NEW k \in DOMAIN s
          PROVE  k \in keys
      <4>1. k + 1 \in DOMAIN t /\ (k + 1) - 1 = k
        BY <2>1, <3>1
      <4>2. t[k + 1].key = k
        BY <3>1, <4>1 DEF InOrder
      <4>3. QED
        BY <4>1, <4>2
    <3>3. QED
      BY <2>1, <3>2
  <2>4. QED
    BY <2>1, <2>2, <2>3
<1>2. StripInv => SessionIsStrip
  BY <1>1 DEF SessionIsStrip
<1>3. QED
  BY <1>2, StripInvariant, PTL

\* No page has two tabs in one window, for a user who closes tabs from the end
\* (OpenedPageCheck).
THEOREM PagesOpenOnceCorrect == Spec => []PagesOpenOnce
<1>1. StripInv => PagesOpenOnce
  BY WindowFacts DEF PagesOpenOnce, Exact
<1>2. QED
  BY <1>1, StripInvariant, PTL

\* A window with tabs shows one, of the url that localStorage says is open, for
\* a user who keeps to one window and closes tabs from the end, in a browser
\* that lists sessionStorage by key; menu entries may share urls or have none.
THEOREM ShownIsOpenCorrect ==
    ASSUME SortedKeys
    PROVE  Spec => []ShownIsOpen
<1>1. Init => StripInv /\ OpenInv
  BY InitKeeps
<1>2. StripInv /\ OpenInv /\ [Next]_vars => StripInv' /\ OpenInv'
  BY StepKeeps
<1>3. StripInv /\ OpenInv => ShownIsOpen
  <2> SUFFICES ASSUME StripInv, OpenInv, tidy, alone PROVE ShownIsOpen
    BY DEF ShownIsOpen
  <2> DEFINE t == strip[Home]
             shown == {i \in DOMAIN t : t[i].shown}
  <2>1. t \in Seq(Tab)
    BY TabStripAssumption, WindowFacts
  <2>2. Showing(t, session[Home], open)
    BY DEF OpenInv
  <2> HIDE DEF t
  <2>3. \A i, j \in shown : i = j
    BY <2>2 DEF Showing
  <2>4. \A i \in shown : open # NoOpen /\ open.url = UrlOf[t[i].page]
    <3> TAKE i \in shown
    <3>1. i \in DOMAIN t /\ t[i].shown /\ Len(t) > 0
      BY <2>1
    <3>2. QED
      BY <2>2, <3>1 DEF Showing
  <2>5. t # <<>> /\ open.url # Blank => shown # {}
    <3> SUFFICES ASSUME t # <<>>, open.url # Blank PROVE shown # {}
      OBVIOUS
    <3>1. Len(t) > 0
      BY <2>1
    <3>2. PICK i \in DOMAIN t : t[i].shown
      BY <2>2, <3>1 DEF Showing
    <3>3. QED
      BY <3>2
  <2>6. QED
    BY <2>3, <2>4, <2>5 DEF ShownIsOpen, t
<1>4. QED
  BY <1>1, <1>2, <1>3, PTL DEF Spec

\* For a user who closes tabs from the end, a reload brings back the tabs that
\* were there, in their order, and leaves in storage what they left there
\* (TabInit and reloadTabPage).
THEOREM ReloadKeepsTabsCorrect == Spec => ReloadKeepsTabs
<1>1. ASSUME StripInv, tidy, NEW w \in Windows, TabInit(w)
      PROVE  PagesOf(strip[w]') = PagesOf(strip[w]) /\ session[w]' = session[w]
  <2>1. /\ Moved(w, strip'[w], session'[w])
        /\ session'[w] = session[w]
        /\ strip'[w] \in Seq(Tab)
        /\ Alike(strip'[w], strip[w])
    BY <1>1, TabInitFacts
  <2>2. strip[w] \in Seq(Tab)
    BY <1>1, WindowFacts
  <2> DEFINE u == strip'[w]
  <2>3. DOMAIN u = DOMAIN strip[w] /\ \A i \in DOMAIN u : u[i].page = strip[w][i].page
    BY <2>1, <2>2 DEF Alike
  <2> HIDE DEF u
  <2>4. PagesOf(u) = PagesOf(strip[w])
    BY <2>3 DEF PagesOf
  <2>5. QED
    BY <2>1, <2>4 DEF u
<1>2. StripInv /\ [Next]_vars
        => [tidy => \A w \in Windows : TabInit(w) =>
              /\ PagesOf(strip[w]') = PagesOf(strip[w])
              /\ session[w]' = session[w]]_vars
  BY <1>1
<1>3. QED
  BY <1>2, StripInvariant, PTL DEF Spec, ReloadKeepsTabs
=============================================================================
