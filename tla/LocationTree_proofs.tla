------------------------ MODULE LocationTree_proofs ------------------------
(* Theorems about LocationTree, for every number of locations, clients,     *)
(* marks and handlers.                                                      *)
EXTENDS LocationTree, WellFoundedInduction, TLAPS

-----------------------------------------------------------------------------
(* Facts about sequences. *)

LEMMA AppendIn ==
    ASSUME NEW S, NEW s \in Seq(S), NEW e \in S
    PROVE  /\ Append(s, e) \in Seq(S)
           /\ Len(Append(s, e)) = Len(s) + 1
           /\ DOMAIN Append(s, e) = DOMAIN s \cup {Len(s) + 1}
           /\ Append(s, e)[Len(s) + 1] = e
           /\ \A i \in DOMAIN s : Append(s, e)[i] = s[i]
OBVIOUS

LEMMA ExceptIn ==
    ASSUME NEW S, NEW s \in Seq(S), NEW i \in DOMAIN s, NEW e \in S
    PROVE  /\ [s EXCEPT ![i] = e] \in Seq(S)
           /\ Len([s EXCEPT ![i] = e]) = Len(s)
           /\ DOMAIN [s EXCEPT ![i] = e] = DOMAIN s
OBVIOUS

LEMMA SameLengthIn ==
    ASSUME NEW S, NEW s \in Seq(S), NEW t \in [DOMAIN s -> S]
    PROVE  t \in Seq(S) /\ Len(t) = Len(s)
OBVIOUS

LEMMA TupleIn ==
    ASSUME NEW S, NEW n \in Nat, NEW t \in [1 .. n -> S]
    PROVE  t \in Seq(S)
OBVIOUS

LEMMA RemoveIn ==
    ASSUME NEW S, NEW s \in Seq(S), NEW i \in DOMAIN s
    PROVE  RemoveAt(s, i) \in Seq(S)
<1>1. SubSeq(s, 1, i - 1) \in Seq(S)
  OBVIOUS
<1>2. SubSeq(s, i + 1, Len(s)) \in Seq(S)
  OBVIOUS
<1>3. QED
  BY <1>1, <1>2 DEF RemoveAt

-----------------------------------------------------------------------------
(* What is beneath a location. *)

LEMMA BelowIsClosed ==
    ASSUME NEW l
    PROVE  /\ Below(l) \subseteq Kept
           /\ l \in Kept => l \in Below(l)
           /\ ClosedBelow(Below(l))
<1>1. Below(l) \subseteq Kept /\ (l \in Kept => l \in Below(l))
  BY DEF Below
<1>2. ASSUME NEW k \in Kept, loc[k].parent \in Below(l)
      PROVE  k \in Below(l)
  <2>1. ASSUME NEW S \in SUBSET Kept, l \in S, ClosedBelow(S)
        PROVE  k \in S
    <3>1. loc[k].parent \in S
      BY <1>2, <2>1 DEF Below
    <3>2. QED
      BY <2>1, <3>1 DEF ClosedBelow
  <2>2. QED
    BY <2>1 DEF Below
<1>3. QED
  BY <1>1, <1>2 DEF ClosedBelow

-----------------------------------------------------------------------------
(* The table of locations: its type, and the invariant of its levels. *)

TableType == loc \in Seq(Location) /\ Len(loc) <= MaxLocations

LEMMA TableIds ==
    ASSUME TableType
    PROVE  /\ DOMAIN loc = 1 .. Len(loc)
           /\ DOMAIN loc \subseteq Id
           /\ Kept \subseteq DOMAIN loc
           /\ Live \subseteq Kept
           /\ None \notin DOMAIN loc
BY LocationTreeAssumption DEF TableType, Id, Kept, Live

LEMMA RowTypes ==
    ASSUME NEW r \in Location
    PROVE  /\ \A b \in BOOLEAN : [r EXCEPT !.kept = r.kept /\ b] \in Location
           /\ [r EXCEPT !.disabled = TRUE] \in Location
           /\ \A p \in Id \cup {None}, n \in Nat :
                 [r EXCEPT !.parent = p, !.level = n] \in Location
BY DEF Location

\* What a deletion leaves of the table.
LEMMA WithoutRows ==
    ASSUME TableType, NEW S
    PROVE  /\ Without(S) \in Seq(Location)
           /\ Len(Without(S)) = Len(loc)
           /\ DOMAIN Without(S) = DOMAIN loc
           /\ \A k \in DOMAIN loc :
                 /\ Without(S)[k].parent = loc[k].parent
                 /\ Without(S)[k].level = loc[k].level
                 /\ Without(S)[k].disabled = loc[k].disabled
                 /\ Without(S)[k].kept <=> (loc[k].kept /\ k \notin S)
<1>1. \A k \in DOMAIN loc : loc[k] \in Location
  BY DEF TableType
<1>2. \A k \in DOMAIN loc :
         /\ Without(S)[k] = [loc[k] EXCEPT !.kept = loc[k].kept /\ k \notin S]
         /\ Without(S)[k] \in Location
  BY <1>1, RowTypes DEF Without
<1>3. Without(S) \in [DOMAIN loc -> Location]
  BY <1>2 DEF Without
<1>4. Without(S) \in Seq(Location) /\ Len(Without(S)) = Len(loc)
  BY <1>3, SameLengthIn DEF TableType
<1>5. \A k \in DOMAIN loc :
         /\ Without(S)[k].parent = loc[k].parent
         /\ Without(S)[k].level = loc[k].level
         /\ Without(S)[k].disabled = loc[k].disabled
         /\ Without(S)[k].kept <=> (loc[k].kept /\ k \notin S)
  BY <1>1, <1>2 DEF Location
<1>6. QED
  BY <1>3, <1>4, <1>5

\* A location that is deleted takes all beneath it along, so no other loses
\* its parent.
LEMMA CutBelow ==
    ASSUME TableType, LevelIsDepth, NEW l, loc' = Without(Below(l))
    PROVE  LevelIsDepth'
<1>1. Kept' = Kept \ Below(l)
  BY WithoutRows, TableIds DEF Kept
<1>2. SUFFICES ASSUME NEW k \in Kept'
               PROVE  IF loc'[k].parent = None THEN loc'[k].level = 0
                      ELSE /\ loc'[k].parent \in Kept'
                           /\ loc'[k].level = loc'[loc'[k].parent].level + 1
  BY DEF LevelIsDepth
<1>3. k \in Kept /\ k \notin Below(l) /\ k \in DOMAIN loc
  BY <1>1, TableIds
<1>4. loc'[k].parent = loc[k].parent /\ loc'[k].level = loc[k].level
  BY <1>3, WithoutRows
<1>5. CASE loc[k].parent = None
  BY <1>3, <1>4, <1>5 DEF LevelIsDepth
<1>6. CASE loc[k].parent # None
  <2>1. /\ loc[k].parent \in Kept
        /\ loc[k].level = loc[loc[k].parent].level + 1
    BY <1>3, <1>6 DEF LevelIsDepth
  <2>2. loc[k].parent \notin Below(l)
    BY <1>3, BelowIsClosed DEF ClosedBelow
  <2>3. loc'[loc[k].parent].level = loc[loc[k].parent].level
    BY <2>1, WithoutRows, TableIds
  <2>4. QED
    BY <1>1, <1>4, <1>6, <2>1, <2>2, <2>3
<1>7. QED
  BY <1>5, <1>6

LEMMA MovedRows ==
    ASSUME TableType, NEW l \in Kept, NEW p \in Kept
    PROVE  /\ Moved(l, p) \in Seq(Location)
           /\ Len(Moved(l, p)) = Len(loc)
           /\ DOMAIN Moved(l, p) = DOMAIN loc
           /\ Moved(l, p)[l].parent = p
           /\ Moved(l, p)[l].level = loc[p].level + 1
           /\ Moved(l, p)[l].kept
           /\ \A k \in DOMAIN loc \ {l} :
                 Moved(l, p)[k] = Without(Below(l) \ {l})[k]
<1> DEFINE w == Without(Below(l) \ {l})
<1>1. /\ w \in Seq(Location) /\ Len(w) = Len(loc) /\ DOMAIN w = DOMAIN loc
      /\ w[l].kept
  BY WithoutRows, TableIds DEF Kept
<1>2. l \in DOMAIN w /\ w[l] \in Location
  <2> HIDE DEF w
  <2>1. QED
    BY <1>1, TableIds
<1>3. p \in Id /\ loc[p].level + 1 \in Nat
  <2>1. p \in DOMAIN loc /\ p \in Id
    BY TableIds
  <2>2. loc[p] \in Location
    BY <2>1 DEF TableType
  <2>3. QED
    BY <2>1, <2>2 DEF Location
<1> DEFINE r == [w[l] EXCEPT !.parent = p, !.level = loc[p].level + 1]
<1>4. r \in Location /\ r.parent = p /\ r.level = loc[p].level + 1 /\ r.kept
  BY <1>1, <1>2, <1>3, RowTypes DEF Location
<1>5. Moved(l, p) = [w EXCEPT ![l] = r]
  BY <1>1, <1>2 DEF Moved
<1> HIDE DEF w, r
<1>6. /\ [w EXCEPT ![l] = r] \in Seq(Location)
      /\ Len([w EXCEPT ![l] = r]) = Len(w)
      /\ DOMAIN [w EXCEPT ![l] = r] = DOMAIN w
      /\ [w EXCEPT ![l] = r][l] = r
      /\ \A k \in DOMAIN w \ {l} : [w EXCEPT ![l] = r][k] = w[k]
  BY <1>1, <1>2, <1>4, ExceptIn
<1>7. QED
  BY <1>1, <1>4, <1>5, <1>6 DEF w

\* A location that is moved loses what was beneath it and is placed under one
\* that stays.
LEMMA MoveKeepsLevels ==
    ASSUME TableType, LevelIsDepth, NEW l, NEW p, p # l, Movable(l, p),
           loc' = Moved(l, p)
    PROVE  LevelIsDepth'
<1> DEFINE S == Below(l) \ {l}
<1>1. l \in Kept /\ p \in Kept /\ p \notin S
  BY TableIds DEF Movable
<1>2. \A k \in DOMAIN loc \ {l} :
         /\ loc'[k].parent = loc[k].parent
         /\ loc'[k].level = loc[k].level
         /\ loc'[k].kept <=> (loc[k].kept /\ k \notin S)
  <2>1. \A k \in DOMAIN loc \ {l} : loc'[k] = Without(S)[k]
    BY <1>1, MovedRows
  <2>2. QED
    BY <2>1, WithoutRows
<1>3. /\ loc'[l].parent = p /\ loc'[l].level = loc[p].level + 1
      /\ loc'[l].kept /\ DOMAIN loc' = DOMAIN loc
  BY <1>1, MovedRows
<1>4. Kept' = Kept \ S
  BY <1>1, <1>2, <1>3, TableIds DEF Kept
<1>5. SUFFICES ASSUME NEW k \in Kept'
               PROVE  IF loc'[k].parent = None THEN loc'[k].level = 0
                      ELSE /\ loc'[k].parent \in Kept'
                           /\ loc'[k].level = loc'[loc'[k].parent].level + 1
  BY DEF LevelIsDepth
<1>6. CASE k = l
  <2>1. p \in Kept' /\ p # None
    BY <1>1, <1>4, TableIds
  <2>2. loc'[p].level = loc[p].level
    BY <1>1, <1>2, TableIds
  <2>3. QED
    BY <1>3, <1>6, <2>1, <2>2
<1>7. CASE k # l
  <2>1. k \in Kept /\ k \notin Below(l) /\ k \in DOMAIN loc \ {l}
    BY <1>4, <1>7, TableIds
  <2>2. loc'[k].parent = loc[k].parent /\ loc'[k].level = loc[k].level
    BY <1>2, <2>1
  <2>3. CASE loc[k].parent = None
    BY <2>1, <2>2, <2>3 DEF LevelIsDepth
  <2>4. CASE loc[k].parent # None
    <3>1. /\ loc[k].parent \in Kept
          /\ loc[k].level = loc[loc[k].parent].level + 1
      BY <2>1, <2>4 DEF LevelIsDepth
    <3>2. loc[k].parent \notin Below(l) /\ loc[k].parent # l
      BY <1>1, <2>1, BelowIsClosed DEF ClosedBelow
    <3>3. loc'[loc[k].parent].level = loc[loc[k].parent].level
      BY <1>2, <3>1, <3>2, TableIds
    <3>4. QED
      BY <1>4, <2>2, <2>4, <3>1, <3>2, <3>3
  <2>5. QED
    BY <2>3, <2>4
<1>8. QED
  BY <1>6, <1>7

-----------------------------------------------------------------------------
(* What the handlers do to the table. *)

PageType ==
    /\ tops \in [Clients -> SUBSET Id]
    /\ shown \in [Clients -> SUBSET Id]

RequestsType == deletes \in [Clients -> Seq(Deletion)]
UsedType == used \subseteq DOMAIN loc

LEMMA TypeParts ==
    TypeOK <=> TableType /\ UsedType /\ PageType /\ RequestsType
BY DEF TypeOK, TableType, UsedType, PageType, RequestsType

\* What every step keeps of the table.
Sound == TableType /\ LevelIsDepth /\ used \subseteq Kept

\* A location is added at the top or under one that is there.
LEMMA AddKeepsLevels ==
    ASSUME Sound, Len(loc) < MaxLocations,
           NEW p, NEW n,
           \/ p = None /\ n = 0
           \/ p \in Kept /\ n = loc[p].level + 1,
           loc' = NewLocation(p, n), used' = used
    PROVE  Sound' /\ DOMAIN loc \subseteq DOMAIN loc'
<1> DEFINE r == [parent |-> p, level |-> n, disabled |-> FALSE, kept |-> TRUE]
<1>1. /\ p \in Id \cup {None} /\ n \in Nat
      /\ p # None => p \in DOMAIN loc /\ loc[p].level \in Nat
  <2>1. CASE p = None /\ n = 0
    BY <2>1
  <2>2. CASE p \in Kept /\ n = loc[p].level + 1
    <3>1. p \in DOMAIN loc /\ p \in Id
      BY <2>2, TableIds DEF Sound
    <3>2. loc[p] \in Location
      BY <3>1 DEF Sound, TableType
    <3>3. QED
      BY <2>2, <3>1, <3>2 DEF Location
  <2>3. QED
    BY <2>1, <2>2
<1>2. r \in Location
  BY <1>1 DEF Location
<1>3. loc' = Append(loc, r)
  BY DEF NewLocation
<1>4. r.parent = p /\ r.level = n /\ r.kept
  OBVIOUS
<1> HIDE DEF r
<1>5. /\ loc' \in Seq(Location) /\ Len(loc') = Len(loc) + 1
      /\ DOMAIN loc' = DOMAIN loc \cup {Len(loc) + 1}
      /\ loc'[Len(loc) + 1] = r
      /\ \A k \in DOMAIN loc : loc'[k] = loc[k]
  BY <1>2, <1>3, AppendIn DEF Sound, TableType
<1>6. TableType'
  BY <1>5, LocationTreeAssumption DEF Sound, TableType
<1>7. Kept' = Kept \cup {Len(loc) + 1}
  BY <1>4, <1>5 DEF Kept
<1>8. LevelIsDepth'
  <2>1. SUFFICES ASSUME NEW k \in Kept'
                 PROVE  IF loc'[k].parent = None THEN loc'[k].level = 0
                        ELSE /\ loc'[k].parent \in Kept'
                             /\ loc'[k].level = loc'[loc'[k].parent].level + 1
    BY DEF LevelIsDepth
  <2>2. CASE k = Len(loc) + 1
    <3>1. CASE p = None /\ n = 0
      BY <1>4, <1>5, <2>2, <3>1
    <3>2. CASE p \in Kept /\ n = loc[p].level + 1
      <4>1. p \in DOMAIN loc /\ p # None
        BY <3>2, TableIds DEF Sound
      <4>2. loc'[p] = loc[p] /\ p \in Kept'
        BY <1>5, <1>7, <3>2, <4>1
      <4>3. loc'[k].parent = p /\ loc'[k].level = loc[p].level + 1
        BY <1>4, <1>5, <2>2, <3>2
      <4>4. QED
        BY <4>1, <4>2, <4>3
    <3>3. QED
      BY <3>1, <3>2
  <2>3. CASE k \in Kept
    <3>1. k \in DOMAIN loc /\ loc'[k] = loc[k]
      BY <1>5, <2>3, TableIds DEF Sound
    <3>2. loc[k].parent # None => /\ loc[k].parent \in Kept
                                  /\ loc[k].parent \in DOMAIN loc
      BY <2>3, TableIds DEF Sound, LevelIsDepth
    <3>3. QED
      BY <1>5, <1>7, <2>3, <3>1, <3>2 DEF Sound, LevelIsDepth
  <2>4. QED
    BY <1>7, <2>2, <2>3
<1>9. QED
  BY <1>5, <1>6, <1>7, <1>8 DEF Sound

LEMMA CreateSound ==
    ASSUME Sound, NEW c \in Clients, NEW p, createLocation(c, p)
    PROVE  Sound' /\ DOMAIN loc \subseteq DOMAIN loc'
<1>1. CASE p = None
  BY <1>1, AddKeepsLevels DEF createLocation
<1>2. CASE p # None /\ p \in Live
  BY <1>2, AddKeepsLevels, TableIds DEF createLocation, Sound
<1>3. CASE p # None /\ p \notin Live
  BY <1>3 DEF createLocation, Sound, TableType, LevelIsDepth, Kept
<1>4. QED
  BY <1>1, <1>2, <1>3

LEMMA UpdateSound ==
    ASSUME ~PicksSelf, Sound, NEW c \in Clients, NEW l, NEW p,
           updateLocation(c, l, p)
    PROVE  Sound' /\ DOMAIN loc \subseteq DOMAIN loc'
<1>1. CASE Movable(l, p)
  <2>1. loc' = Moved(l, p) /\ p # l /\ used' = used
    BY <1>1 DEF updateLocation
  <2>2. l \in Kept /\ p \in Kept /\ used \cap (Below(l) \ {l}) = {}
    BY <1>1, TableIds DEF Movable, Deletable, Sound
  <2>3. LevelIsDepth'
    BY <1>1, <2>1, MoveKeepsLevels DEF Sound
  <2>4. TableType' /\ DOMAIN loc' = DOMAIN loc
    BY <2>1, <2>2, MovedRows DEF Sound, TableType
  <2>5. \A k \in Kept : k \notin Below(l) \ {l} => k \in Kept'
    <3>1. loc'[l].kept /\ DOMAIN loc' = DOMAIN loc
      BY <2>1, <2>2, MovedRows DEF Sound
    <3>2. \A k \in DOMAIN loc \ {l} : loc'[k] = Without(Below(l) \ {l})[k]
      BY <2>1, <2>2, MovedRows DEF Sound
    <3>3. QED
      BY <3>1, <3>2, WithoutRows DEF Sound, Kept
  <2>6. QED
    BY <2>1, <2>2, <2>3, <2>4, <2>5 DEF Sound
<1>2. CASE ~Movable(l, p)
  BY <1>2 DEF updateLocation, Sound, TableType, LevelIsDepth, Kept
<1>3. QED
  BY <1>1, <1>2

LEMMA DeletedSound ==
    ASSUME Sound, NEW l, loc' = Deleted(l), used' = used
    PROVE  Sound' /\ DOMAIN loc \subseteq DOMAIN loc'
<1>1. CASE loc' = loc
  BY <1>1 DEF Sound, TableType, LevelIsDepth, Kept
<1>2. CASE l \in Kept /\ loc[l].parent = None
  <2>1. l \in DOMAIN loc
    BY <1>2, TableIds DEF Sound
  <2>2. loc[l] \in Location
    BY <2>1 DEF Sound, TableType
  <2> DEFINE r == [loc[l] EXCEPT !.disabled = TRUE]
  <2>3. /\ r \in Location /\ r.parent = loc[l].parent
        /\ r.level = loc[l].level /\ r.kept = loc[l].kept
    BY <2>2, RowTypes DEF Location
  <2>4. loc' = [loc EXCEPT ![l] = r]
    BY <1>2, <2>1 DEF Deleted
  <2> HIDE DEF r
  <2>5. /\ loc' \in Seq(Location) /\ Len(loc') = Len(loc)
        /\ DOMAIN loc' = DOMAIN loc /\ loc'[l] = r
        /\ \A k \in DOMAIN loc \ {l} : loc'[k] = loc[k]
    BY <2>1, <2>3, <2>4, ExceptIn DEF Sound, TableType
  <2>6. \A k \in DOMAIN loc : /\ loc'[k].parent = loc[k].parent
                              /\ loc'[k].level = loc[k].level
                              /\ loc'[k].kept = loc[k].kept
    BY <2>3, <2>5
  <2>7. Kept' = Kept
    BY <2>5, <2>6 DEF Kept
  <2>8. LevelIsDepth'
    BY <2>6, <2>7, TableIds DEF Sound, LevelIsDepth
  <2>9. QED
    BY <2>5, <2>7, <2>8 DEF Sound, TableType
<1>3. CASE loc' = Without(Below(l)) /\ Deletable(Below(l))
  <2>1. LevelIsDepth'
    BY <1>3, CutBelow DEF Sound
  <2>2. TableType' /\ DOMAIN loc' = DOMAIN loc
    BY <1>3, WithoutRows DEF Sound, TableType
  <2>3. \A k \in Kept : k \notin Below(l) => k \in Kept'
    BY <1>3, WithoutRows DEF Sound, Kept
  <2>4. QED
    BY <1>3, <2>1, <2>2, <2>3 DEF Sound, Deletable
<1>4. QED
  BY <1>1, <1>2, <1>3 DEF Deleted

LEMMA SameTable ==
    ASSUME Sound, loc' = loc, used' = used
    PROVE  Sound' /\ DOMAIN loc \subseteq DOMAIN loc'
BY DEF Sound, TableType, LevelIsDepth, Kept

LEMMA ServeSound ==
    ASSUME Sound, NEW c \in Clients, Serve(c)
    PROVE  Sound' /\ DOMAIN loc \subseteq DOMAIN loc'
<1>1. PICK i \in DOMAIN deletes[c] :
         deleteLocation(c, i) \/ eraseDelete(c, i)
  BY DEF Serve
<1>2. CASE deleteLocation(c, i)
  BY <1>2, DeletedSound DEF deleteLocation
<1>3. CASE eraseDelete(c, i)
  BY <1>3, SameTable DEF eraseDelete
<1>4. QED
  BY <1>1, <1>2, <1>3

LEMMA AddLotSound ==
    ASSUME Sound, NEW l \in Live, addLot(l)
    PROVE  Sound' /\ DOMAIN loc \subseteq DOMAIN loc'
<1>1. l \in Kept
  BY DEF Live
<1>2. QED
  BY <1>1 DEF addLot, Sound, TableType, LevelIsDepth, Kept

LEMMA NextSound ==
    ASSUME ~PicksSelf, Sound, Next
    PROVE  Sound' /\ DOMAIN loc \subseteq DOMAIN loc'
<1>1. CASE \E c \in Clients : reload(c)
  BY <1>1, SameTable DEF reload
<1>2. CASE \E c \in Clients : \E l \in shown[c] : getSubData(c, l)
  BY <1>2, SameTable DEF getSubData
<1>3. CASE \E c \in Clients : \E ids \in Lists(shown[c]), h \in 1 .. MaxHandlers[c] :
              deleteEvt(c, ids, h)
  BY <1>3, SameTable DEF deleteEvt
<1>4. CASE \E c \in Clients : \E p \in tops[c] \cup {None} : createLocation(c, p)
  BY <1>4, CreateSound
<1>5. CASE \E c \in Clients : \E l \in shown[c], p \in tops[c] \cup {None} :
              updateLocation(c, l, p)
  BY <1>5, UpdateSound
<1>6. CASE \E c \in Clients : Serve(c)
  BY <1>6, ServeSound
<1>7. CASE \E l \in Live : addLot(l)
  BY <1>7, AddLotSound
<1>8. QED
  BY <1>1, <1>2, <1>3, <1>4, <1>5, <1>6, <1>7 DEF Next

LEMMA InitSound == Init => Sound
BY LocationTreeAssumption
   DEF Init, Sound, TableType, LevelIsDepth, Kept

LEMMA SoundAlways == ASSUME ~PicksSelf PROVE Spec => []Sound
<1>1. Sound /\ UNCHANGED vars => Sound'
  BY SameTable DEF vars
<1>2. Sound /\ [Next]_vars => Sound'
  BY <1>1, NextSound
<1>3. QED
  BY <1>2, InitSound, PTL DEF Spec

\* When no location is made its own parent, the level a location keeps is its
\* distance from the top, in every history of pages of different age.
THEOREM LevelsAreDepths == ASSUME ~PicksSelf PROVE Spec => []LevelIsDepth
<1>1. Sound => LevelIsDepth
  BY DEF Sound
<1>2. QED
  BY <1>1, SoundAlways, PTL

-----------------------------------------------------------------------------
(* The way up ends. *)

LEMMA Least ==
    ASSUME NEW T \in SUBSET Nat, T # {}
    PROVE  \E x \in T : \A y \in T : x <= y
<1> DEFINE R == OpToRel(<, Nat)
<1>1. IsWellFoundedOn(R, Nat)
  BY NatLessThanWellFounded
<1>2. \A x, y \in Nat : y < x => <<y, x>> \in R
  BY DEF OpToRel
<1> HIDE DEF R
<1>3. PICK x \in T : \A y \in T : <<y, x>> \notin R
  BY <1>1, WFMin
<1>4. \A y \in T : ~(y < x)
  BY <1>2, <1>3
<1>5. QED
  BY <1>4

\* Levels fall on the way up: of the locations from which the way did not end,
\* one of the lowest level would have a parent from which it does.
LEMMA DepthReachesTop ==
    ASSUME TableType, LevelIsDepth
    PROVE  ReachesTop
<1> DEFINE Lost == {l \in Kept : ~Ends(l)}
           levels == {loc[l].level : l \in Lost}
<1>1. \A l \in Kept : loc[l].level \in Nat
  <2>1. \A l \in Kept : loc[l] \in Location
    BY TableIds DEF TableType
  <2>2. QED
    BY <2>1 DEF Location
<1>2. ASSUME NEW l \in Kept, loc[l].parent = None
      PROVE  Ends(l)
  BY <1>2, BelowIsClosed DEF Ends
<1>3. ASSUME NEW l \in Kept, loc[l].parent # None
      PROVE  /\ loc[l].parent \in Kept
             /\ loc[l].level = loc[loc[l].parent].level + 1
             /\ Ends(loc[l].parent) => Ends(l)
  <2>1. /\ loc[l].parent \in Kept
        /\ loc[l].level = loc[loc[l].parent].level + 1
    BY <1>3 DEF LevelIsDepth
  <2>2. ASSUME NEW t \in Kept, loc[l].parent \in Below(t)
        PROVE  l \in Below(t)
    BY <2>2, BelowIsClosed DEF ClosedBelow
  <2>3. QED
    BY <2>1, <2>2 DEF Ends
<1>4. CASE Lost # {}
  <2>1. levels \in SUBSET Nat /\ levels # {}
    BY <1>1, <1>4
  <2> HIDE DEF levels
  <2>2. PICK n \in levels : \A m \in levels : n <= m
    BY <2>1, Least
  <2>3. PICK l \in Lost : loc[l].level = n
    BY <2>2 DEF levels
  <2>4. l \in Kept /\ ~Ends(l)
    BY <2>3
  <2>5. loc[l].parent # None
    BY <1>2, <2>4
  <2> DEFINE p == loc[l].parent
  <2>6. p \in Kept /\ loc[l].level = loc[p].level + 1 /\ ~Ends(p)
    BY <1>3, <2>4, <2>5
  <2>7. p \in Lost
    BY <2>6
  <2>8. loc[p].level \in levels
    BY <2>7 DEF levels
  <2> HIDE DEF p
  <2>9. loc[p].level \in Nat /\ n \in Nat /\ n <= loc[p].level
    BY <1>1, <2>1, <2>2, <2>6, <2>8
  <2>10. QED
    BY <2>3, <2>6, <2>9
<1>5. CASE Lost = {}
  BY <1>5 DEF ReachesTop
<1>6. QED
  BY <1>4, <1>5

\* Where no location is its own parent, the way up from any location ends at
\* one without a parent, whatever pages of different age create, move and
\* delete.  deleteLocation waits for nothing else: a request that is not yet
\* through can always go on.
THEOREM WalksEnd == ASSUME ~PicksSelf PROVE Spec => []ReachesTop
<1>1. Sound => ReachesTop
  BY DepthReachesTop DEF Sound
<1>2. QED
  BY <1>1, SoundAlways, PTL

-----------------------------------------------------------------------------
(* Type correctness of the pages and the requests. *)

LEMMA ListsType ==
    ASSUME NEW S \in SUBSET Id, NEW ids \in Lists(S)
    PROVE  ids \in Seq(Id)
<1>1. PICK T \in SUBSET S : /\ Cardinality(T) \in 1 .. MaxMarks
                            /\ ids \in SetToSeqs(T)
  BY DEF Lists
<1>2. ids \in [1 .. Cardinality(T) -> T]
  BY <1>1 DEF SetToSeqs
<1>3. Cardinality(T) \in Nat
  BY <1>1, LocationTreeAssumption
<1>4. ids \in [1 .. Cardinality(T) -> Id]
  BY <1>1, <1>2
<1>5. QED
  BY <1>3, <1>4, TupleIn

LEMMA LoadedType ==
    ASSUME PageType, TableType, NEW c \in Clients, NEW ts \in SUBSET Id,
           Loaded(c, ts)
    PROVE  PageType'
BY DEF PageType, Loaded

LEMMA TopsType == TableType => SelectByLevel0 \in SUBSET Id
BY TableIds DEF SelectByLevel0

LEMMA TopsTypeNext == TableType' => SelectByLevel0' \in SUBSET Id
BY LocationTreeAssumption
   DEF TableType, SelectByLevel0, Live, Kept, Id

LEMMA ServeType ==
    ASSUME TypeOK, NEW c \in Clients, Serve(c)
    PROVE  PageType' /\ RequestsType'
<1>1. PICK i \in DOMAIN deletes[c] :
         deleteLocation(c, i) \/ eraseDelete(c, i)
  BY DEF Serve
<1>2. deletes[c] \in Seq(Deletion) /\ deletes \in [Clients -> Seq(Deletion)]
  BY DEF TypeOK
<1>3. CASE deleteLocation(c, i)
  <2>1. deletes[c][i] \in Deletion
    BY <1>2
  <2> DEFINE d == [deletes[c][i] EXCEPT !.next = deletes[c][i].next + 1]
  <2>2. d \in Deletion
    BY <2>1 DEF Deletion
  <2>3. deletes' = [deletes EXCEPT ![c] = [deletes[c] EXCEPT ![i] = d]]
    BY <1>2, <1>3, <2>1 DEF deleteLocation, Deletion
  <2> HIDE DEF d
  <2>4. [deletes[c] EXCEPT ![i] = d] \in Seq(Deletion)
    BY <1>2, <2>2, ExceptIn
  <2>5. RequestsType'
    BY <1>2, <2>3, <2>4 DEF RequestsType
  <2>6. PageType'
    BY <1>3, TypeParts DEF deleteLocation, page, PageType
  <2>7. QED
    BY <2>5, <2>6
<1>4. CASE eraseDelete(c, i)
  <2>1. RemoveAt(deletes[c], i) \in Seq(Deletion)
    BY <1>2, RemoveIn
  <2>2. RequestsType'
    BY <1>2, <1>4, <2>1 DEF RequestsType, eraseDelete
  <2>3. PageType'
    BY <1>4, TypeParts, TopsType, LoadedType DEF eraseDelete
  <2>4. QED
    BY <2>2, <2>3
<1>5. QED
  BY <1>1, <1>3, <1>4

LEMMA NextPages ==
    ASSUME TypeOK, TableType', Next
    PROVE  PageType' /\ RequestsType'
<1>0. PageType /\ RequestsType /\ TableType
  BY TypeParts
<1>1. ASSUME NEW c \in Clients, reload(c)
      PROVE  PageType' /\ RequestsType'
  BY <1>0, <1>1, TopsType, LoadedType DEF reload, RequestsType
<1>2. ASSUME NEW c \in Clients, NEW l \in shown[c], getSubData(c, l)
      PROVE  PageType' /\ RequestsType'
  <2>1. PICK came \in SUBSET (Children(l) \cap Live) :
           shown' = [shown EXCEPT ![c] = @ \cup came]
    BY <1>2 DEF getSubData
  <2>2. came \in SUBSET Id
    BY <1>0, TableIds
  <2>3. QED
    BY <1>0, <1>2, <2>1, <2>2 DEF getSubData, PageType, RequestsType
<1>3. ASSUME NEW c \in Clients, NEW ids \in Lists(shown[c]),
             NEW h \in 1 .. MaxHandlers[c], deleteEvt(c, ids, h)
      PROVE  PageType' /\ RequestsType'
  <2>1. ids \in Seq(Id)
    BY <1>0, ListsType DEF PageType
  <2> DEFINE t == [j \in 1 .. h |-> [ids |-> ids, next |-> 1]]
  <2>2. t \in [1 .. h -> Deletion] /\ h \in Nat
    BY <2>1, LocationTreeAssumption DEF Deletion
  <2>3. t \in Seq(Deletion)
    BY <2>2, TupleIn
  <2>4. deletes' = [deletes EXCEPT ![c] = t]
    BY <1>3 DEF deleteEvt
  <2> HIDE DEF t
  <2>5. QED
    BY <1>0, <1>3, <2>3, <2>4 DEF deleteEvt, page, PageType, RequestsType
<1>4. ASSUME NEW c \in Clients, NEW p \in tops[c] \cup {None}, createLocation(c, p)
      PROVE  PageType' /\ RequestsType'
  BY <1>0, <1>4, TopsTypeNext, LoadedType DEF createLocation, RequestsType
<1>5. ASSUME NEW c \in Clients, NEW l \in shown[c],
             NEW p \in tops[c] \cup {None}, updateLocation(c, l, p)
      PROVE  PageType' /\ RequestsType'
  BY <1>0, <1>5, TopsTypeNext, LoadedType DEF updateLocation, RequestsType
<1>6. ASSUME NEW l \in Live, addLot(l)
      PROVE  PageType' /\ RequestsType'
  BY <1>0, <1>6 DEF addLot, page, PageType, RequestsType
<1>7. QED
  BY <1>1, <1>2, <1>3, <1>4, <1>5, <1>6, ServeType DEF Next

\* Every variable keeps its type, when no location is made its own parent.
THEOREM TypeCorrect == ASSUME ~PicksSelf PROVE Spec => []TypeOK
<1> DEFINE Inv == Sound /\ TypeOK
<1>1. Init => Inv
  <2> SUFFICES ASSUME Init PROVE TypeOK
    BY InitSound
  <2>1. TableType
    BY InitSound DEF Sound
  <2>2. deletes \in [Clients -> Seq(Deletion)]
    BY DEF Init
  <2>3. QED
    BY <2>1, <2>2 DEF Init, TypeOK, TableType
<1>2. Inv /\ [Next]_vars => Inv'
  <2> SUFFICES ASSUME Inv, [Next]_vars PROVE Inv'
    OBVIOUS
  <2>1. CASE Next
    <3>1. Sound' /\ DOMAIN loc \subseteq DOMAIN loc'
      BY <2>1, NextSound
    <3>2. TableType' /\ UsedType'
      BY <3>1 DEF Sound, UsedType, Kept
    <3>3. PageType' /\ RequestsType'
      BY <2>1, <3>2, NextPages
    <3>4. QED
      BY <3>1, <3>2, <3>3
         DEF TypeOK, TableType, UsedType, PageType, RequestsType
  <2>2. CASE UNCHANGED vars
    BY <2>2, SameTable DEF vars, page, TypeOK
  <2>3. QED
    BY <2>1, <2>2
<1>3. QED
  BY <1>1, <1>2, PTL DEF Spec
=============================================================================
