---------------------------- MODULE WorkOrders_proofs ----------------------------
(* Theorems about Construction, for every bound on ids and requests that may   *)
(* or may not name a site of another plan, and about WorkOrders, for every set  *)
(* of sessions, orders and counts and every bound.                              *)
EXTENDS WorkOrders, TLAPS

LEMMA IdNat == IdOrNone \subseteq Nat /\ Id \subseteq IdOrNone /\ 0 \notin Id
BY ConstructionAssumption DEF Id, IdOrNone

LEMMA BlankRows == NoPlan \in PlanRow /\ NoSite \in SiteRow
BY ConstructionAssumption DEF NoPlan, NoSite, PlanRow, SiteRow, IdOrNone

LEMMA InitType == ConstructionInit => ConstructionTypeOK
BY BlankRows, ConstructionAssumption
   DEF ConstructionInit, ConstructionTypeOK, IdOrNone, Visit

\* The op field tells which kind of record a session holds.
LEMMA VisitKind ==
    ASSUME NEW v \in Visit
    PROVE  /\ v.op \in {"idle", "upload", "confirm"}
           /\ v.op = "upload" => v \in UploadVisit
           /\ v.op = "confirm" => v \in ConfirmVisit
<1>1. v = Waiting => v.op = "idle"
  BY DEF Waiting
<1>2. v \in UploadVisit => v.op = "upload"
  BY DEF UploadVisit
<1>3. v \in ConfirmVisit => v.op = "confirm"
  BY DEF ConfirmVisit
<1>4. QED
  BY <1>1, <1>2, <1>3 DEF Visit

LEMMA UploadFields ==
    ASSUME NEW v \in UploadVisit
    PROVE  /\ v.plan \in Id /\ v.was \in PlanRow /\ v.site \in Id
           /\ v.result \in IdOrNone /\ v.rest \in BOOLEAN
BY DEF UploadVisit

LEMMA ConfirmFields ==
    ASSUME NEW v \in ConfirmVisit
    PROVE  v.plan \in Id /\ v.was \in PlanRow
BY DEF ConfirmVisit

LEMMA RowTypes ==
    /\ \A was \in PlanRow : ConfirmedPlan(was) \in PlanRow
    /\ \A was \in PlanRow, b \in BOOLEAN : BuiltPlan(was, b) \in PlanRow
    /\ \A row \in SiteRow : BuiltSite(row) \in SiteRow
<1>1. ASSUME NEW was \in PlanRow, NEW b \in BOOLEAN
      PROVE  ConfirmedPlan(was) \in PlanRow /\ BuiltPlan(was, b) \in PlanRow
  <2>1. was = [work |-> was.work, complete |-> was.complete, confirm |-> was.confirm]
        /\ was.work \in IdOrNone /\ was.complete \in BOOLEAN /\ was.confirm \in BOOLEAN
    BY DEF PlanRow
  <2>2. (was.complete \/ b) \in BOOLEAN
    BY <2>1
  <2>3. QED
    BY <2>1, <2>2 DEF PlanRow, ConfirmedPlan, BuiltPlan
<1>2. ASSUME NEW row \in SiteRow PROVE BuiltSite(row) \in SiteRow
  BY DEF SiteRow, BuiltSite
<1>3. QED
  BY <1>1, <1>2

\* A session that becomes idle keeps the type.
LEMMA LeaveType ==
    ASSUME ConstructionTypeOK, NEW f \in Fitter, Leave(f)
    PROVE  visit' \in [Fitter -> Visit]
BY DEF ConstructionTypeOK, Leave, Visit

----------------------------------------------------------------------------
(* Type correctness, action by action. *)

LEMMA PlanWorkType ==
    ASSUME ConstructionTypeOK, NEW w \in Id, PlanWork(w)
    PROVE  ConstructionTypeOK'
<1>1. seq \in Nat /\ MaxId \in Nat /\ seq + 2 <= MaxId /\ seq' = seq + 2
  BY IdNat, ConstructionAssumption DEF ConstructionTypeOK, PlanWork, PlanId
<1>2. seq' \in IdOrNone /\ SiteId \in Id /\ PlanId \in Id
  BY <1>1 DEF IdOrNone, Id, SiteId, PlanId
<1>3. w \in IdOrNone /\ PlanId \in IdOrNone
  BY <1>2, IdNat
<1>4. [plan |-> PlanId, complete |-> FALSE] \in SiteRow
  BY <1>3 DEF SiteRow
<1>5. [NoPlan EXCEPT !.work = w] \in PlanRow
  BY <1>3 DEF NoPlan, PlanRow
<1>6. QED
  BY <1>2, <1>4, <1>5 DEF ConstructionTypeOK, PlanWork

LEMMA OtherRowType ==
    ASSUME ConstructionTypeOK, OtherRow
    PROVE  ConstructionTypeOK'
<1>1. seq' \in IdOrNone
  BY ConstructionAssumption DEF ConstructionTypeOK, OtherRow, IdOrNone
<1>2. QED
  BY <1>1 DEF ConstructionTypeOK, OtherRow

LEMMA BeginUploadType ==
    ASSUME ConstructionTypeOK, NEW f \in Fitter, BeginUpload(f)
    PROVE  ConstructionTypeOK'
<1>1. PICK p \in Planned, c \in Sited :
        \E r \in IF ResultsFound(p) = {} THEN {0} ELSE ResultsFound(p) :
          visit' = [visit EXCEPT ![f] =
            [op |-> "upload", plan |-> p, was |-> plans[p], site |-> c,
             result |-> r, rest |-> RestBuilt(p, c)]]
  BY DEF BeginUpload
<1>2. PICK r \in IF ResultsFound(p) = {} THEN {0} ELSE ResultsFound(p) :
          visit' = [visit EXCEPT ![f] =
            [op |-> "upload", plan |-> p, was |-> plans[p], site |-> c,
             result |-> r, rest |-> RestBuilt(p, c)]]
  BY <1>1
<1> DEFINE v == [op |-> "upload", plan |-> p, was |-> plans[p], site |-> c,
                 result |-> r, rest |-> RestBuilt(p, c)]
<1>3. p \in Id /\ c \in Id /\ plans[p] \in PlanRow
  BY DEF Planned, Sited, ConstructionTypeOK
<1>4. r \in IdOrNone
  BY IdNat, ConstructionAssumption DEF ResultsFound, IdOrNone
<1>5. RestBuilt(p, c) \in BOOLEAN
  BY DEF RestBuilt
<1>6. v \in UploadVisit
  BY <1>3, <1>4, <1>5 DEF UploadVisit
<1> HIDE DEF v
<1>7. visit' = [visit EXCEPT ![f] = v]
  BY <1>2 DEF v
<1>8. visit' \in [Fitter -> Visit]
  BY <1>6, <1>7 DEF ConstructionTypeOK, Visit
<1>9. QED
  BY <1>8 DEF ConstructionTypeOK, BeginUpload

LEMMA CommitUploadType ==
    ASSUME ConstructionTypeOK, NEW f \in Fitter, CommitUpload(f)
    PROVE  ConstructionTypeOK'
<1> DEFINE v == visit[f]
           row == BuiltPlan(v.was, v.rest)
<1>1. v \in UploadVisit
  BY VisitKind DEF ConstructionTypeOK, CommitUpload
<1>2. v.plan \in Id /\ v.site \in Id /\ row \in PlanRow
  BY <1>1, UploadFields, RowTypes
<1>3. plans' \in [Id -> PlanRow]
  BY <1>2 DEF ConstructionTypeOK, CommitUpload
<1>4. BuiltSite(sites[v.site]) \in SiteRow
  BY <1>2, RowTypes DEF ConstructionTypeOK
<1>5. sites' \in [Id -> SiteRow]
  BY <1>2, <1>4 DEF ConstructionTypeOK, CommitUpload
<1>6. seq' \in IdOrNone
  BY ConstructionAssumption DEF ConstructionTypeOK, CommitUpload, IdOrNone
<1>7. results' \in [Id -> IdOrNone]
  BY <1>2, IdNat DEF ConstructionTypeOK, CommitUpload
<1>8. visit' \in [Fitter -> Visit] /\ cleared' = cleared
  BY LeaveType DEF CommitUpload
<1>9. QED
  BY <1>3, <1>5, <1>6, <1>7, <1>8 DEF ConstructionTypeOK

LEMMA BeginConfirmType ==
    ASSUME ConstructionTypeOK, NEW f \in Fitter, BeginConfirm(f)
    PROVE  ConstructionTypeOK'
<1>1. PICK p \in Planned :
        visit' = [visit EXCEPT ![f] = [op |-> "confirm", plan |-> p, was |-> plans[p]]]
  BY DEF BeginConfirm
<1> DEFINE v == [op |-> "confirm", plan |-> p, was |-> plans[p]]
<1>2. v \in ConfirmVisit
  BY DEF Planned, ConstructionTypeOK, ConfirmVisit
<1> HIDE DEF v
<1>3. visit' = [visit EXCEPT ![f] = v]
  BY <1>1 DEF v
<1>4. visit' \in [Fitter -> Visit]
  BY <1>2, <1>3 DEF ConstructionTypeOK, Visit
<1>5. QED
  BY <1>4 DEF ConstructionTypeOK, BeginConfirm

LEMMA CommitConfirmType ==
    ASSUME ConstructionTypeOK, NEW f \in Fitter, CommitConfirm(f)
    PROVE  ConstructionTypeOK'
<1>1. visit[f] \in ConfirmVisit
  BY VisitKind DEF ConstructionTypeOK, CommitConfirm
<1>2. visit[f].plan \in Id /\ ConfirmedPlan(visit[f].was) \in PlanRow
  BY <1>1, ConfirmFields, RowTypes
<1>3. QED
  BY <1>2, LeaveType DEF ConstructionTypeOK, CommitConfirm

LEMMA DeleteResultType ==
    ASSUME ConstructionTypeOK, DeleteResult
    PROVE  ConstructionTypeOK'
<1>1. PICK r \in Id : /\ results[r] # 0
                      /\ results' = [results EXCEPT ![r] = 0]
                      /\ cleared' = cleared \cup {results[r]}
  BY DEF DeleteResult
<1>2. results[r] \in Id
  BY <1>1 DEF ConstructionTypeOK, IdOrNone, Id
<1>3. 0 \in IdOrNone
  BY ConstructionAssumption DEF IdOrNone
<1>4. QED
  BY <1>1, <1>2, <1>3 DEF ConstructionTypeOK, DeleteResult

LEMMA StutterType ==
    ASSUME ConstructionTypeOK, UNCHANGED cvars
    PROVE  ConstructionTypeOK'
BY DEF ConstructionTypeOK, cvars

LEMMA NextType == ConstructionTypeOK /\ [ConstructionNext]_cvars => ConstructionTypeOK'
<1> SUFFICES ASSUME ConstructionTypeOK, [ConstructionNext]_cvars
             PROVE  ConstructionTypeOK'
  OBVIOUS
<1>1. CASE DeleteResult
  BY <1>1, DeleteResultType
<1>2. ASSUME NEW f \in Fitter, VisitStep(f) PROVE ConstructionTypeOK'
  <2>1. CASE BeginUpload(f)
    BY <2>1, BeginUploadType
  <2>2. CASE CommitUpload(f)
    BY <2>2, CommitUploadType
  <2>3. CASE BeginConfirm(f)
    BY <2>3, BeginConfirmType
  <2>4. CASE CommitConfirm(f)
    BY <2>4, CommitConfirmType
  <2>5. CASE Abandon(f)
    BY <2>5, LeaveType DEF ConstructionTypeOK, Abandon
  <2>6. QED
    BY <1>2, <2>1, <2>2, <2>3, <2>4, <2>5 DEF VisitStep
<1>3. CASE OtherRow
  BY <1>3, OtherRowType
<1>4. ASSUME NEW w \in Id, PlanWork(w) PROVE ConstructionTypeOK'
  BY <1>4, PlanWorkType
<1>5. CASE UNCHANGED cvars
  BY <1>5, StutterType
<1>6. QED
  BY <1>1, <1>2, <1>3, <1>4, <1>5 DEF ConstructionNext, ConstructionStep

\* Every reachable state of the construction side is of its type.
THEOREM ConstructionTypeCorrect == ConstructionSpec => []ConstructionTypeOK
BY InitType, NextType, PTL DEF ConstructionSpec
----------------------------------------------------------------------------
(* The invariant, action by action.                                          *)

\* What every step keeps: plans stay, of their work order and with their sites, and
\* built sites stay built.
Grows ==
    /\ Planned \subseteq Planned'
    /\ \A p \in Planned : plans'[p].work = plans[p].work
    /\ \A p \in Planned : SitesOf(p)' = SitesOf(p)
    /\ Sited \subseteq Sited'
    /\ \A c \in Id : sites[c].complete => sites'[c].complete

LEMMA SameSitesGrow ==
    ASSUME sites' = sites, \A p \in Planned : plans'[p].work = plans[p].work
    PROVE  Grows
BY DEF Grows, Planned, SitesOf, Sited

\* Under such a step what another session read stays sound.
LEMMA SoundPersists ==
    ASSUME Grows, NEW f \in Fitter, VisitSound(f), visit'[f] = visit[f]
    PROVE  VisitSound(f)'
<1> DEFINE v == visit[f]
<1>1. ASSUME v.op # "idle"
      PROVE  /\ v.plan \in Planned' /\ v.was.work = plans'[v.plan].work
             /\ v.was.complete => Built(v.plan)'
  <2>1. /\ v.plan \in Planned /\ v.was.work = plans[v.plan].work
        /\ v.was.complete => Built(v.plan)
    BY <1>1 DEF VisitSound
  <2>2. SitesOf(v.plan)' = SitesOf(v.plan)
    BY <2>1 DEF Grows
  <2>3. QED
    BY <2>1, <2>2 DEF Grows, Built, SitesOf
<1>2. ASSUME v.op = "upload"
      PROVE  /\ v.site \in Sited' /\ v.result = 0
             /\ v.rest => \A c \in SitesOf(v.plan)' \ {v.site} : sites'[c].complete
  <2>1. /\ v.site \in Sited /\ v.result = 0 /\ v.plan \in Planned
        /\ v.rest => \A c \in SitesOf(v.plan) \ {v.site} : sites[c].complete
    BY <1>2 DEF VisitSound
  <2>2. SitesOf(v.plan)' = SitesOf(v.plan)
    BY <2>1 DEF Grows
  <2>3. QED
    BY <2>1, <2>2 DEF Grows, SitesOf
<1>3. QED
  BY <1>1, <1>2 DEF VisitSound, Built, SitesOf

LEMMA LeaveSound ==
    ASSUME ConstructionTypeOK, Grows, NEW f \in Fitter, Leave(f),
           \A g \in Fitter : VisitSound(g)
    PROVE  (\A g \in Fitter : VisitSound(g))'
<1>1. ASSUME NEW g \in Fitter PROVE VisitSound(g)'
  <2>1. CASE g = f
    <3>1. visit'[g] = Waiting
      BY <2>1 DEF Leave, ConstructionTypeOK
    <3>2. visit'[g].op = "idle"
      BY <3>1 DEF Waiting
    <3>3. QED
      BY <3>2 DEF VisitSound
  <2>2. CASE g # f
    BY <2>2, SoundPersists DEF Leave, ConstructionTypeOK
  <2>3. QED
    BY <2>1, <2>2
<1>2. QED
  BY <1>1

LEMMA OthersSound ==
    ASSUME ConstructionTypeOK, Grows, NEW f \in Fitter, NEW v,
           visit' = [visit EXCEPT ![f] = v], VisitSound(f)',
           \A g \in Fitter : VisitSound(g)
    PROVE  (\A g \in Fitter : VisitSound(g))'
<1>1. ASSUME NEW g \in Fitter PROVE VisitSound(g)'
  <2>1. CASE g = f
    BY <2>1
  <2>2. CASE g # f
    BY <2>2, SoundPersists DEF ConstructionTypeOK
  <2>3. QED
    BY <2>1, <2>2
<1>2. QED
  BY <1>1

\* A plan with a site, and every complete plan, is planned.
LEMMA CompleteIsPlanned ==
    ASSUME ConstructionTypeOK, ConstructionInv, NEW p \in Id, plans[p].complete
    PROVE  p \in Planned /\ SitesOf(p) # {} /\ \A c \in SitesOf(p) : sites[c].complete
<1>1. SitesOf(p) # {} /\ \A c \in SitesOf(p) : sites[c].complete
  BY DEF ConstructionInv, CompletePlanIsBuilt
<1>2. PICK c \in Id : sites[c].plan = p
  BY <1>1 DEF SitesOf
<1>3. c \in Sited
  BY <1>2, IdNat DEF Sited
<1>4. QED
  BY <1>1, <1>2, <1>3 DEF ConstructionInv, IdsApart

LEMMA InitInv == ConstructionInit => ConstructionInv
<1> SUFFICES ASSUME ConstructionInit PROVE ConstructionInv
  OBVIOUS
<1>1. /\ \A i \in Id : plans[i] = NoPlan /\ sites[i] = NoSite /\ results[i] = 0
      /\ \A f \in Fitter : visit[f] = Waiting
  BY DEF ConstructionInit
<1>2. \A i \in Id : ~plans[i].complete /\ plans[i].work = 0
                      /\ ~sites[i].complete /\ sites[i].plan = 0
  BY <1>1 DEF NoPlan, NoSite
<1>3. Planned = {} /\ Sited = {}
  BY <1>2 DEF Planned, Sited
<1>4. CompletePlanIsBuilt /\ ResultMeansBuilt /\ BuiltSiteHasResult
  BY <1>1, <1>2 DEF CompletePlanIsBuilt, ResultMeansBuilt, BuiltSiteHasResult
<1>5. IdsApart
  BY <1>1, <1>3 DEF IdsApart
<1>6. \A f \in Fitter : VisitSound(f)
  BY <1>1 DEF VisitSound, Waiting
<1>7. QED
  BY <1>4, <1>5, <1>6 DEF ConstructionInv

\* Planning work adds a site and a plan under two fresh ids.
LEMMA PlanWorkInv ==
    ASSUME ConstructionTypeOK, ConstructionInv, NEW w \in Id, PlanWork(w)
    PROVE  ConstructionInv' /\ Grows
<1> DEFINE a == SiteId
           b == PlanId
<1>1. seq \in Nat /\ seq' = seq + 2 /\ a = seq + 1 /\ b = seq + 2 /\ b <= MaxId
  BY IdNat DEF ConstructionTypeOK, PlanWork, PlanId, SiteId
<1>2. a \in Id /\ b \in Id /\ a # b /\ a > seq /\ b > seq
  BY <1>1, ConstructionAssumption DEF Id
<1>3. /\ sites[a] = NoSite /\ sites[b] = NoSite
      /\ plans[a] = NoPlan /\ plans[b] = NoPlan
  BY <1>2 DEF ConstructionInv, IdsApart
<1>4. /\ sites' = [sites EXCEPT ![a] = [plan |-> b, complete |-> FALSE]]
      /\ plans' = [plans EXCEPT ![b] = [NoPlan EXCEPT !.work = w]]
      /\ results' = results /\ visit' = visit /\ cleared' = cleared
  BY DEF PlanWork
<1> HIDE DEF a, b
<1>5. /\ sites'[a] = [plan |-> b, complete |-> FALSE]
      /\ \A c \in Id \ {a} : sites'[c] = sites[c]
  BY <1>2, <1>4 DEF ConstructionTypeOK
<1>6. /\ plans'[b] = [NoPlan EXCEPT !.work = w]
      /\ \A p \in Id \ {b} : plans'[p] = plans[p]
  BY <1>2, <1>4 DEF ConstructionTypeOK
<1>7. plans'[b].work = w /\ w # 0 /\ ~plans'[b].complete
  BY <1>6, IdNat DEF NoPlan
<1>8. sites'[a].plan = b /\ ~sites'[a].complete
  BY <1>5
<1>9. /\ sites[a].plan = 0 /\ ~sites[a].complete /\ sites[b].plan = 0
      /\ plans[a].work = 0 /\ plans[b].work = 0
  BY <1>3 DEF NoSite, NoPlan
<1>10. b \notin Planned /\ a \notin Planned /\ a \notin Sited /\ b \notin Sited /\ b # 0
  BY <1>2, <1>9, IdNat DEF Planned, Sited
<1>11. Planned' = Planned \cup {b}
  BY <1>2, <1>6, <1>7, <1>10 DEF Planned
<1>12. Sited' = Sited \cup {a}
  BY <1>2, <1>5, <1>8, <1>10 DEF Sited
<1>13. \A p \in Planned : SitesOf(p)' = SitesOf(p)
  <2>1. ASSUME NEW p \in Planned PROVE SitesOf(p)' = SitesOf(p)
    <3>1. p # b /\ p # 0
      BY <1>10, IdNat DEF Planned
    <3>2. QED
      BY <3>1, <1>5, <1>8, <1>9 DEF SitesOf
  <2>2. QED
    BY <2>1
<1>14. Grows
  BY <1>5, <1>6, <1>9, <1>10, <1>11, <1>12, <1>13 DEF Grows, Planned
<1>15. CompletePlanIsBuilt'
  <2>1. ASSUME NEW p \in Id, plans'[p].complete
        PROVE  SitesOf(p)' # {} /\ \A c \in SitesOf(p)' : sites'[c].complete
    <3>1. plans[p].complete
      BY <2>1, <1>6, <1>7
    <3>2. p \in Planned /\ SitesOf(p) # {} /\ \A c \in SitesOf(p) : sites[c].complete
      BY <3>1, CompleteIsPlanned
    <3>3. SitesOf(p)' = SitesOf(p)
      BY <3>2, <1>13
    <3>4. QED
      BY <3>2, <3>3, <1>14 DEF Grows, SitesOf
  <2>2. QED
    BY <2>1 DEF CompletePlanIsBuilt, SitesOf
<1>16. ResultMeansBuilt'
  BY <1>4, <1>5, <1>10 DEF ConstructionInv, ResultMeansBuilt, IdsApart, Sited
<1>17. BuiltSiteHasResult'
  BY <1>4, <1>5, <1>8 DEF ConstructionInv, BuiltSiteHasResult
<1>18. IdsApart'
  <2>1. ASSUME NEW i \in Id, i > seq'
        PROVE  plans'[i] = NoPlan /\ sites'[i] = NoSite /\ results'[i] = 0
    <3>1. i \in Int /\ i > seq /\ i # a /\ i # b
      BY <2>1, <1>1 DEF Id
    <3>2. QED
      BY <3>1, <1>4, <1>5, <1>6 DEF ConstructionInv, IdsApart
  <2>2. ASSUME NEW p \in Planned' PROVE p \notin Sited' /\ SitesOf(p)' # {}
    <3>1. CASE p = b
      <4>1. a \in {c \in Id : sites'[c].plan = p}
        BY <3>1, <1>2, <1>8
      <4>2. SitesOf(p)' # {}
        BY <4>1 DEF SitesOf
      <4>3. p \notin Sited'
        BY <3>1, <1>2, <1>10, <1>12
      <4>4. QED
        BY <4>2, <4>3
    <3>2. CASE p \in Planned
      <4>1. p \notin Sited /\ SitesOf(p) # {}
        BY <3>2 DEF ConstructionInv, IdsApart
      <4>2. QED
        BY <3>2, <4>1, <1>10, <1>12, <1>13
    <3>3. QED
      BY <2>2, <3>1, <3>2, <1>11
  <2>3. \A c \in Sited' : sites'[c].plan \in Planned'
    BY <1>5, <1>8, <1>11, <1>12 DEF ConstructionInv, IdsApart, Sited
  <2>4. \A r \in Id : results'[r] # 0 => results'[r] \in Sited'
    BY <1>4, <1>12 DEF ConstructionInv, IdsApart
  <2>5. QED
    BY <2>1, <2>2, <2>3, <2>4 DEF IdsApart
<1>19. (\A f \in Fitter : VisitSound(f))'
  BY <1>4, <1>14, SoundPersists DEF ConstructionInv
<1>20. QED
  BY <1>14, <1>15, <1>16, <1>17, <1>18, <1>19 DEF ConstructionInv

\* A commit of imageUpload builds one site, and its plan if that was the last.
LEMMA CommitUploadInv ==
    ASSUME ConstructionTypeOK, ConstructionInv, NEW f \in Fitter, CommitUpload(f)
    PROVE  ConstructionInv' /\ Grows
<1>1. PICK v \in UploadVisit : v = visit[f]
  BY VisitKind DEF ConstructionTypeOK, CommitUpload
<1>2. v.plan \in Id /\ v.site \in Id /\ v.was \in PlanRow /\ v.rest \in BOOLEAN
  BY UploadFields
<1>3. /\ v.op = "upload" /\ v.op # "idle"
      /\ v.plan \in Planned /\ v.was.work = plans[v.plan].work /\ v.was.work # 0
      /\ v.was.complete => Built(v.plan)
      /\ v.site \in Sited /\ v.result = 0
      /\ v.rest => \A c \in SitesOf(v.plan) \ {v.site} : sites[c].complete
  <2>1. v.op = "upload" /\ VisitSound(f)
    BY <1>1 DEF CommitUpload, ConstructionInv
  <2>2. QED
    BY <2>1, <1>1 DEF VisitSound, Planned
<1>4. PICK n \in Id : n = seq + 1 /\ seq' = n /\ results' = [results EXCEPT ![n] = v.site]
  <2>1. /\ seq \in Nat /\ seq < MaxId /\ seq' = seq + 1
        /\ results' = [results EXCEPT ![seq + 1] = v.site]
    BY <1>1, <1>3, IdNat DEF CommitUpload, ConstructionTypeOK
  <2>2. seq + 1 \in Id
    BY <2>1, ConstructionAssumption DEF Id
  <2>3. QED
    BY <2>1, <2>2
<1>5. n > seq /\ plans[n] = NoPlan /\ sites[n] = NoSite /\ results[n] = 0 /\ seq \in Nat
  BY <1>4, IdNat DEF ConstructionInv, IdsApart, ConstructionTypeOK
<1>6. results'[n] = v.site /\ \A r \in Id \ {n} : results'[r] = results[r]
  BY <1>4 DEF ConstructionTypeOK
<1>7. /\ sites' = [sites EXCEPT ![v.site] = BuiltSite(sites[v.site])]
      /\ Leave(f) /\ cleared' = cleared
      /\ plans' = IF BuiltPlan(v.was, v.rest) = v.was THEN plans
                  ELSE [plans EXCEPT ![v.plan] = BuiltPlan(v.was, v.rest)]
  BY <1>1 DEF CommitUpload
<1>8. /\ sites'[v.site] = [sites[v.site] EXCEPT !.complete = TRUE]
      /\ \A c \in Id \ {v.site} : sites'[c] = sites[c]
  BY <1>2, <1>7 DEF ConstructionTypeOK, BuiltSite
<1>9. /\ \A c \in Id : sites'[c].plan = sites[c].plan
      /\ sites'[v.site].complete
      /\ \A c \in Id : sites[c].complete => sites'[c].complete
  BY <1>2, <1>8 DEF ConstructionTypeOK, SiteRow
<1>10. Sited' = Sited /\ \A p \in Id : SitesOf(p)' = SitesOf(p)
  BY <1>9 DEF Sited, SitesOf
<1>11. \A p \in Id : \/ plans'[p] = plans[p]
                     \/ p = v.plan /\ plans'[p] = BuiltPlan(v.was, v.rest)
  <2>1. CASE BuiltPlan(v.was, v.rest) = v.was
    BY <2>1, <1>7
  <2>2. CASE plans' = [plans EXCEPT ![v.plan] = BuiltPlan(v.was, v.rest)]
    <3> DEFINE row == BuiltPlan(v.was, v.rest)
    <3>1. plans' = [plans EXCEPT ![v.plan] = row]
      BY <2>2
    <3> HIDE DEF row
    <3>2. \A p \in Id : plans'[p] = IF p = v.plan THEN row ELSE plans[p]
      BY <3>1, <1>2 DEF ConstructionTypeOK
    <3>3. QED
      BY <3>2 DEF row
  <2>3. QED
    BY <2>1, <2>2, <1>7
<1>12. /\ BuiltPlan(v.was, v.rest).work = v.was.work
       /\ BuiltPlan(v.was, v.rest).complete => v.was.complete \/ v.rest
  BY <1>2 DEF BuiltPlan, PlanRow
<1>13. Planned' = Planned
  BY <1>3, <1>11, <1>12 DEF Planned
<1>14. Grows
  BY <1>3, <1>9, <1>10, <1>11, <1>12, <1>13 DEF Grows, Planned
<1>15. CompletePlanIsBuilt'
  <2>1. ASSUME NEW p \in Id, plans'[p].complete
        PROVE  SitesOf(p)' # {} /\ \A c \in SitesOf(p)' : sites'[c].complete
    <3>1. CASE plans[p].complete
      <4>1. SitesOf(p) # {} /\ \A c \in SitesOf(p) : sites[c].complete
        BY <3>1, CompleteIsPlanned
      <4>2. QED
        BY <4>1, <1>9, <1>10 DEF SitesOf
    <3>2. CASE p = v.plan /\ (v.was.complete \/ v.rest)
      <4>1. SitesOf(p) # {}
        BY <3>2, <1>3 DEF ConstructionInv, IdsApart
      <4>2. \A c \in SitesOf(p) \ {v.site} : sites[c].complete
        BY <3>2, <1>3 DEF Built
      <4>3. \A c \in SitesOf(p) : sites'[c].complete
        BY <4>2, <1>9 DEF SitesOf
      <4>4. QED
        BY <4>1, <4>3, <1>10
    <3>3. QED
      BY <2>1, <3>1, <3>2, <1>11, <1>12
  <2>2. QED
    BY <2>1 DEF CompletePlanIsBuilt, SitesOf
<1>16. ResultMeansBuilt'
  <2>1. ASSUME NEW r \in Id, results'[r] # 0 PROVE sites'[results'[r]].complete
    <3>1. CASE r = n
      BY <3>1, <1>6, <1>9
    <3>2. CASE r # n
      <4>1. results'[r] = results[r] /\ results[r] \in Sited /\ sites[results[r]].complete
        BY <3>2, <2>1, <1>6 DEF ConstructionInv, ResultMeansBuilt, IdsApart
      <4>2. QED
        BY <4>1, <1>9 DEF Sited
    <3>3. QED
      BY <3>1, <3>2
  <2>2. QED
    BY <2>1 DEF ResultMeansBuilt
<1>17. BuiltSiteHasResult'
  <2>1. ASSUME NEW c \in Id, sites'[c].complete
        PROVE  c \in cleared' \/ \E r \in Id : results'[r] = c
    <3>1. CASE c = v.site
      BY <3>1, <1>6
    <3>2. CASE c # v.site
      <4>1. sites[c].complete
        BY <3>2, <2>1, <1>8
      <4>2. c \in cleared \/ \E r \in Id : results[r] = c
        BY <4>1 DEF ConstructionInv, BuiltSiteHasResult
      <4>3. \A r \in Id : results[r] = c => r # n
        BY <1>5, IdNat
      <4>4. QED
        BY <4>2, <4>3, <1>6, <1>7
    <3>3. QED
      BY <3>1, <3>2
  <2>2. QED
    BY <2>1 DEF BuiltSiteHasResult
<1>18. IdsApart'
  <2>1. ASSUME NEW i \in Id, i > seq'
        PROVE  plans'[i] = NoPlan /\ sites'[i] = NoSite /\ results'[i] = 0
    <3>1. i \in Int /\ i > seq /\ i # n
      BY <2>1, <1>4, <1>5 DEF Id
    <3>2. plans[i] = NoPlan /\ sites[i] = NoSite /\ results[i] = 0
      BY <3>1 DEF ConstructionInv, IdsApart
    <3>3. plans[i].work = 0 /\ sites[i].plan = 0
      BY <3>2 DEF NoPlan, NoSite
    <3>4. i # v.plan /\ i # v.site
      BY <3>3, <1>3 DEF Planned, Sited
    <3>5. QED
      BY <3>1, <3>2, <3>4, <1>6, <1>8, <1>11
  <2>2. ASSUME NEW p \in Planned' PROVE p \notin Sited' /\ SitesOf(p)' # {}
    BY <2>2, <1>10, <1>13 DEF ConstructionInv, IdsApart, Planned
  <2>3. \A c \in Sited' : sites'[c].plan \in Planned'
    BY <1>9, <1>10, <1>13 DEF ConstructionInv, IdsApart, Sited
  <2>4. \A r \in Id : results'[r] # 0 => results'[r] \in Sited'
    BY <1>3, <1>6, <1>10 DEF ConstructionInv, IdsApart
  <2>5. QED
    BY <2>1, <2>2, <2>3, <2>4 DEF IdsApart
<1>19. (\A g \in Fitter : VisitSound(g))'
  BY <1>7, <1>14, LeaveSound DEF ConstructionInv
<1>20. QED
  BY <1>14, <1>15, <1>16, <1>17, <1>18, <1>19 DEF ConstructionInv
\* Under a step that leaves sites, results and what is planned alone.
LEMMA SameIdsApart ==
    ASSUME IdsApart, seq' = seq, sites' = sites, Planned' = Planned,
           \A i \in Id : plans[i] = NoPlan => plans'[i] = NoPlan,
           \A r \in Id : results'[r] = results[r] \/ results'[r] = 0
    PROVE  IdsApart'
<1>1. Sited' = Sited /\ \A p \in Id : SitesOf(p)' = SitesOf(p)
  BY DEF Sited, SitesOf
<1>2. ASSUME NEW p \in Planned' PROVE p \notin Sited' /\ SitesOf(p)' # {}
  BY <1>1, <1>2 DEF IdsApart, Planned
<1>3. /\ \A c \in Sited' : sites'[c].plan \in Planned'
      /\ \A r \in Id : results'[r] # 0 => results'[r] \in Sited'
  BY <1>1 DEF IdsApart
<1>4. \A i \in Id : i > seq' => plans'[i] = NoPlan /\ sites'[i] = NoSite /\ results'[i] = 0
  BY DEF IdsApart
<1>5. QED
  BY <1>2, <1>3, <1>4 DEF IdsApart

\* A request that only reads: the tables stay, and what it read is sound.
LEMMA ReadInv ==
    ASSUME ConstructionTypeOK, ConstructionInv, NEW f \in Fitter, NEW v,
           UNCHANGED <<seq, plans, sites, results, cleared>>,
           visit' = [visit EXCEPT ![f] = v], VisitSound(f)'
    PROVE  ConstructionInv' /\ Grows
<1>1. Planned' = Planned
  BY DEF Planned
<1>2. Grows
  BY <1>1, SameSitesGrow
<1>3. (\A g \in Fitter : VisitSound(g))'
  BY <1>2, OthersSound DEF ConstructionInv
<1>4. CompletePlanIsBuilt' /\ ResultMeansBuilt' /\ BuiltSiteHasResult'
  BY DEF ConstructionInv, CompletePlanIsBuilt, ResultMeansBuilt, BuiltSiteHasResult, SitesOf
<1>5. IdsApart'
  BY <1>1, SameIdsApart DEF ConstructionInv
<1>6. QED
  BY <1>2, <1>3, <1>4, <1>5 DEF ConstructionInv

\* imageUpload finds no earlier result: no result is of a site whose id is a plan's.
LEMMA BeginUploadInv ==
    ASSUME ConstructionTypeOK, ConstructionInv, NEW f \in Fitter, BeginUpload(f)
    PROVE  ConstructionInv' /\ Grows
<1>1. PICK p \in Planned, c \in Sited :
        \E r \in IF ResultsFound(p) = {} THEN {0} ELSE ResultsFound(p) :
          visit' = [visit EXCEPT ![f] =
            [op |-> "upload", plan |-> p, was |-> plans[p], site |-> c,
             result |-> r, rest |-> RestBuilt(p, c)]]
  BY DEF BeginUpload
<1>2. p \in Id /\ plans[p].work # 0 /\ p # 0
  BY IdNat DEF Planned
<1>3. ResultsFound(p) = {}
  <2>1. p \notin Sited
    BY DEF ConstructionInv, IdsApart
  <2>2. QED
    BY <2>1, <1>2 DEF ResultsFound, ConstructionInv, IdsApart
<1> DEFINE t == [op |-> "upload", plan |-> p, was |-> plans[p], site |-> c,
                 result |-> 0, rest |-> RestBuilt(p, c)]
<1>4. visit' = [visit EXCEPT ![f] = t]
  BY <1>1, <1>3
<1>5. PICK v : v = t
  OBVIOUS
<1>6. /\ v.op = "upload" /\ v.plan = p /\ v.was = plans[p] /\ v.site = c
      /\ v.result = 0 /\ v.rest = RestBuilt(p, c)
  BY <1>5
<1>7. visit' = [visit EXCEPT ![f] = v] /\ visit'[f] = v
  BY <1>4, <1>5 DEF ConstructionTypeOK
<1>8. UNCHANGED <<seq, plans, sites, results, cleared>>
  BY DEF BeginUpload
<1>9. plans[p].complete => \A d \in SitesOf(p) : sites[d].complete
  BY <1>2 DEF ConstructionInv, CompletePlanIsBuilt
<1>10. v.rest => \A d \in SitesOf(p) \ {c} : sites[d].complete
  BY <1>6 DEF RestBuilt
<1>11. VisitSound(f)'
  <2>1. p \in Planned' /\ c \in Sited' /\ SitesOf(p)' = SitesOf(p)
    BY <1>8 DEF Planned, Sited, SitesOf
  <2>2. v.was.complete => Built(p)'
    BY <1>6, <1>8, <1>9 DEF Built, SitesOf
  <2>3. v.rest => \A d \in SitesOf(p)' \ {c} : sites'[d].complete
    BY <1>8, <1>10, <2>1
  <2>4. visit'[f].plan = p /\ visit'[f].site = c
    BY <1>6, <1>7
  <2>5. QED
    BY <2>1, <2>2, <2>3, <2>4, <1>2, <1>6, <1>7, <1>8 DEF VisitSound, Built, SitesOf
<1>12. QED
  BY <1>7, <1>8, <1>11, ReadInv

LEMMA BeginConfirmInv ==
    ASSUME ConstructionTypeOK, ConstructionInv, NEW f \in Fitter, BeginConfirm(f)
    PROVE  ConstructionInv' /\ Grows
<1>1. PICK p \in Planned :
        visit' = [visit EXCEPT ![f] = [op |-> "confirm", plan |-> p, was |-> plans[p]]]
  BY DEF BeginConfirm
<1>2. PICK v : v = [op |-> "confirm", plan |-> p, was |-> plans[p]]
  OBVIOUS
<1>3. v.op = "confirm" /\ v.plan = p /\ v.was = plans[p]
  BY <1>2
<1>4. visit' = [visit EXCEPT ![f] = v] /\ visit'[f] = v
  BY <1>1, <1>2 DEF ConstructionTypeOK
<1>5. UNCHANGED <<seq, plans, sites, results, cleared>>
  BY DEF BeginConfirm
<1>6. VisitSound(f)'
  <2>1. p \in Planned' /\ plans[p].work # 0
    BY <1>5 DEF Planned
  <2>2. v.was.complete => Built(p)'
    BY <1>3, <1>5 DEF ConstructionInv, CompletePlanIsBuilt, Planned, Built, SitesOf
  <2>3. QED
    BY <2>1, <2>2, <1>3, <1>4, <1>5 DEF VisitSound, Built, SitesOf
<1>7. QED
  BY <1>4, <1>5, <1>6, ReadInv

\* A commit of ConstructionConfirm writes a completion it read, never a new one.
LEMMA CommitConfirmInv ==
    ASSUME ConstructionTypeOK, ConstructionInv, NEW f \in Fitter, CommitConfirm(f)
    PROVE  ConstructionInv' /\ Grows
<1>1. PICK v \in ConfirmVisit : v = visit[f]
  BY VisitKind DEF ConstructionTypeOK, CommitConfirm
<1>2. v.plan \in Id /\ v.was \in PlanRow
  BY ConfirmFields
<1>3. /\ v.plan \in Planned /\ v.was.work = plans[v.plan].work
      /\ v.was.complete => Built(v.plan)
  <2>1. v.op = "confirm" /\ VisitSound(f)
    BY <1>1 DEF CommitConfirm, ConstructionInv
  <2>2. QED
    BY <2>1, <1>1 DEF VisitSound
<1>4. PICK row : row = ConfirmedPlan(v.was)
  OBVIOUS
<1>5. row.work = v.was.work /\ row.complete = v.was.complete
  BY <1>2, <1>4 DEF ConfirmedPlan, PlanRow
<1>6. /\ plans' = [plans EXCEPT ![v.plan] = row] /\ Leave(f)
      /\ seq' = seq /\ sites' = sites /\ results' = results /\ cleared' = cleared
  BY <1>1, <1>4 DEF CommitConfirm
<1>7. \A p \in Id : plans'[p] = IF p = v.plan THEN row ELSE plans[p]
  BY <1>2, <1>6 DEF ConstructionTypeOK
<1>8. Planned' = Planned
  BY <1>3, <1>5, <1>7 DEF Planned
<1>9. Grows
  BY <1>3, <1>5, <1>6, <1>7, SameSitesGrow DEF Planned
<1>10. CompletePlanIsBuilt'
  <2>1. ASSUME NEW p \in Id, plans'[p].complete
        PROVE  SitesOf(p) # {} /\ \A c \in SitesOf(p) : sites[c].complete
    <3>1. CASE p = v.plan
      BY <3>1, <2>1, <1>3, <1>5, <1>7 DEF Built, ConstructionInv, IdsApart
    <3>2. CASE p # v.plan
      BY <3>2, <2>1, <1>7 DEF ConstructionInv, CompletePlanIsBuilt
    <3>3. QED
      BY <3>1, <3>2
  <2>2. QED
    BY <2>1, <1>6 DEF CompletePlanIsBuilt, SitesOf
<1>11. ResultMeansBuilt' /\ BuiltSiteHasResult'
  BY <1>6 DEF ConstructionInv, ResultMeansBuilt, BuiltSiteHasResult
<1>12. \A i \in Id : plans[i] = NoPlan => plans'[i] = NoPlan
  BY <1>3, <1>7 DEF Planned, NoPlan
<1>13. IdsApart'
  BY <1>6, <1>8, <1>12, SameIdsApart DEF ConstructionInv
<1>14. (\A g \in Fitter : VisitSound(g))'
  BY <1>6, <1>9, LeaveSound DEF ConstructionInv
<1>15. QED
  BY <1>9, <1>10, <1>11, <1>13, <1>14 DEF ConstructionInv

\* deleteCD takes a result away and remembers its site.
LEMMA DeleteResultInv ==
    ASSUME ConstructionTypeOK, ConstructionInv, DeleteResult
    PROVE  ConstructionInv' /\ Grows
<1>1. PICK r \in Id : /\ results[r] # 0
                      /\ results' = [results EXCEPT ![r] = 0]
                      /\ cleared' = cleared \cup {results[r]}
  BY DEF DeleteResult
<1>2. seq' = seq /\ plans' = plans /\ sites' = sites /\ visit' = visit
  BY DEF DeleteResult
<1>3. results'[r] = 0 /\ \A i \in Id \ {r} : results'[i] = results[i]
  BY <1>1 DEF ConstructionTypeOK
<1>4. Planned' = Planned
  BY <1>2 DEF Planned
<1>5. CompletePlanIsBuilt'
  BY <1>2 DEF ConstructionInv, CompletePlanIsBuilt, SitesOf
<1>6. ResultMeansBuilt'
  BY <1>2, <1>3 DEF ConstructionInv, ResultMeansBuilt
<1>7. BuiltSiteHasResult'
  BY <1>1, <1>2, <1>3 DEF ConstructionInv, BuiltSiteHasResult
<1>8. IdsApart'
  BY <1>2, <1>3, <1>4, SameIdsApart DEF ConstructionInv
<1>9. Grows
  BY <1>2, <1>4, SameSitesGrow
<1>10. (\A f \in Fitter : VisitSound(f))'
  BY <1>2, <1>9, SoundPersists DEF ConstructionInv
<1>11. QED
  BY <1>5, <1>6, <1>7, <1>8, <1>9, <1>10 DEF ConstructionInv

LEMMA OtherRowInv ==
    ASSUME ConstructionTypeOK, ConstructionInv, OtherRow
    PROVE  ConstructionInv' /\ Grows
<1>1. /\ seq \in Int /\ seq' = seq + 1
      /\ UNCHANGED <<plans, sites, results, visit, cleared>>
  BY IdNat DEF OtherRow, ConstructionTypeOK
<1>2. Planned' = Planned /\ Sited' = Sited
  BY <1>1 DEF Planned, Sited
<1>3. \A i \in Id : i > seq' => i > seq
  BY <1>1 DEF Id
<1>4. IdsApart'
  BY <1>1, <1>2, <1>3 DEF ConstructionInv, IdsApart, SitesOf
<1>5. Grows
  BY <1>1, <1>2, SameSitesGrow
<1>6. (\A f \in Fitter : VisitSound(f))'
  BY <1>1, <1>5, SoundPersists DEF ConstructionInv
<1>7. CompletePlanIsBuilt' /\ ResultMeansBuilt' /\ BuiltSiteHasResult'
  BY <1>1 DEF ConstructionInv, CompletePlanIsBuilt, ResultMeansBuilt, BuiltSiteHasResult, SitesOf
<1>8. QED
  BY <1>4, <1>5, <1>6, <1>7 DEF ConstructionInv

LEMMA AbandonInv ==
    ASSUME ConstructionTypeOK, ConstructionInv, NEW f \in Fitter, Abandon(f)
    PROVE  ConstructionInv' /\ Grows
<1>1. visit' = [visit EXCEPT ![f] = Waiting] /\ visit'[f] = Waiting
  BY DEF Abandon, Leave, ConstructionTypeOK
<1>2. VisitSound(f)'
  BY <1>1 DEF VisitSound, Waiting
<1>3. QED
  BY <1>1, <1>2, ReadInv DEF Abandon

LEMMA StutterInv ==
    ASSUME ConstructionInv, UNCHANGED cvars
    PROVE  ConstructionInv' /\ Grows
<1>1. Grows
  BY SameSitesGrow DEF cvars
<1>2. ConstructionInv'
  BY DEF cvars, ConstructionInv, CompletePlanIsBuilt, ResultMeansBuilt, BuiltSiteHasResult,
         IdsApart, Planned, Sited, SitesOf, VisitSound, Built
<1>3. QED
  BY <1>1, <1>2

LEMMA NextInv ==
    ConstructionTypeOK /\ ConstructionInv /\ [ConstructionNext]_cvars => ConstructionInv' /\ Grows
<1> SUFFICES ASSUME ConstructionTypeOK, ConstructionInv, [ConstructionNext]_cvars
             PROVE  ConstructionInv' /\ Grows
  OBVIOUS
<1>1. CASE DeleteResult
  BY <1>1, DeleteResultInv
<1>2. ASSUME NEW f \in Fitter, VisitStep(f) PROVE ConstructionInv' /\ Grows
  <2>1. CASE BeginUpload(f)
    BY <2>1, BeginUploadInv
  <2>2. CASE CommitUpload(f)
    BY <2>2, CommitUploadInv
  <2>3. CASE BeginConfirm(f)
    BY <2>3, BeginConfirmInv
  <2>4. CASE CommitConfirm(f)
    BY <2>4, CommitConfirmInv
  <2>5. CASE Abandon(f)
    BY <2>5, AbandonInv
  <2>6. QED
    BY <1>2, <2>1, <2>2, <2>3, <2>4, <2>5 DEF VisitStep
<1>3. CASE OtherRow
  BY <1>3, OtherRowInv
<1>4. ASSUME NEW w \in Id, PlanWork(w) PROVE ConstructionInv' /\ Grows
  BY <1>4, PlanWorkInv
<1>5. CASE UNCHANGED cvars
  BY <1>5, StutterInv
<1>6. QED
  BY <1>1, <1>2, <1>3, <1>4, <1>5 DEF ConstructionNext, ConstructionStep
----------------------------------------------------------------------------
(* The properties. *)

\* The inductive invariant holds in every reachable state.
THEOREM ConstructionCorrect == ConstructionSpec => []ConstructionInv
BY ConstructionTypeCorrect, InitInv, NextInv, PTL DEF ConstructionSpec

\* A plan shown as complete has a site and all its sites are built, however uploads
\* and confirmations overlap, and whether or not a request names a site of another plan.
THEOREM CompletePlanCorrect == ConstructionSpec => []CompletePlanIsBuilt
<1>1. ConstructionInv => CompletePlanIsBuilt
  BY DEF ConstructionInv
<1>2. QED
  BY <1>1, ConstructionCorrect, PTL

\* A result is never of a site that still counts as open.
THEOREM ResultCorrect == ConstructionSpec => []ResultMeansBuilt
<1>1. ConstructionInv => ResultMeansBuilt
  BY DEF ConstructionInv
<1>2. QED
  BY <1>1, ConstructionCorrect, PTL

\* A built site keeps a result of its own until deleteCD removes one, though imageUpload
\* looks for an earlier result under the plan's id: ids of plans and sites are apart.
THEOREM BuiltSiteCorrect == ConstructionSpec => []BuiltSiteHasResult
<1>1. ConstructionInv => BuiltSiteHasResult
  BY DEF ConstructionInv
<1>2. QED
  BY <1>1, ConstructionCorrect, PTL
----------------------------------------------------------------------------
(* One construction request at a time: a plan is complete exactly when its   *)
(* site is built.                                                            *)

\* What an open request read is still so.
VisitFresh(f) ==
    LET v == visit[f] IN
    /\ v.op # "idle" => v.was = plans[v.plan]
    /\ v.op = "upload" =>
         sites[v.site].plan = v.plan /\ v.rest = RestBuilt(v.plan, v.site)

TracksInv ==
    /\ \A p \in Planned : Built(p) => plans[p].complete
    /\ \A f \in Fitter : VisitFresh(f)

\* Plans and sites there are stay as they are; one that is new is not built.
LEMMA TracksStays ==
    ASSUME ConstructionInv, TracksInv, Grows,
           \A p \in Planned : plans'[p] = plans[p],
           \A c \in Sited : sites'[c] = sites[c],
           \A p \in Planned' \ Planned : ~Built(p)'
    PROVE  /\ \A p \in Planned' : Built(p)' => plans'[p].complete
           /\ \A f \in Fitter : visit'[f] = visit[f] => VisitFresh(f)'
<1>1. \A p \in Planned : SitesOf(p) \subseteq Sited /\ SitesOf(p)' = SitesOf(p)
  BY IdNat DEF Grows, SitesOf, Sited, Planned
<1>2. ASSUME NEW p \in Planned, Built(p)' PROVE plans'[p].complete
  <2>1. \A c \in SitesOf(p) : sites'[c].complete
    BY <1>1, <1>2 DEF Built
  <2>2. Built(p)
    BY <1>1, <2>1 DEF Built
  <2>3. QED
    BY <2>2 DEF TracksInv
<1>3. ASSUME NEW f \in Fitter, visit'[f] = visit[f] PROVE VisitFresh(f)'
  <2>1. PICK v : v = visit[f]
    OBVIOUS
  <2>2. VisitSound(f) /\ VisitFresh(f)
    BY DEF ConstructionInv, TracksInv
  <2>3. v.op # "idle" => v.plan \in Planned /\ v.was = plans[v.plan]
    BY <2>1, <2>2 DEF VisitSound, VisitFresh
  <2>4. CASE v.op = "upload"
    <3>1. /\ v.site \in Sited /\ v.plan \in Planned
          /\ sites[v.site].plan = v.plan /\ v.rest = RestBuilt(v.plan, v.site)
      BY <2>1, <2>2, <2>3, <2>4 DEF VisitSound, VisitFresh
    <3>2. RestBuilt(v.plan, v.site)' = RestBuilt(v.plan, v.site)
      <4>1. \A d \in SitesOf(v.plan) : sites'[d] = sites[d]
        BY <1>1, <3>1
      <4>2. RestBuilt(v.plan, v.site)' = \A d \in SitesOf(v.plan)' \ {v.site} : sites'[d].complete
        BY <2>1, <1>3 DEF RestBuilt
      <4>3. QED
        BY <4>1, <4>2, <1>1, <3>1 DEF RestBuilt
    <3>3. QED
      BY <3>1, <3>2, <2>1, <2>3, <1>3 DEF VisitFresh, RestBuilt, SitesOf
  <2>5. CASE v.op # "upload"
    BY <2>1, <2>3, <2>5, <1>3 DEF VisitFresh
  <2>6. QED
    BY <2>4, <2>5
<1>4. QED
  BY <1>2, <1>3

\* The steps of the rest of the system, and those that only read or give up.
LEMMA QuietTracks ==
    ASSUME ConstructionTypeOK, ConstructionInv, TracksInv, Grows,
           UNCHANGED <<plans, sites>>
    PROVE  /\ \A p \in Planned' : Built(p)' => plans'[p].complete
           /\ \A f \in Fitter : visit'[f] = visit[f] => VisitFresh(f)'
<1>1. Planned' = Planned
  BY DEF Planned
<1>2. QED
  BY <1>1, TracksStays DEF Sited, Planned

LEMMA PlanWorkTracks ==
    ASSUME ConstructionTypeOK, ConstructionInv, TracksInv, NEW w \in Id, PlanWork(w)
    PROVE  TracksInv'
<1>1. Grows
  BY PlanWorkInv
<1>2. PICK a \in Id, b \in Id :
        /\ a > seq /\ b > seq
        /\ sites' = [sites EXCEPT ![a] = [plan |-> b, complete |-> FALSE]]
        /\ plans' = [plans EXCEPT ![b] = [NoPlan EXCEPT !.work = w]]
  <2>1. seq \in Nat /\ seq + 2 <= MaxId
    BY IdNat DEF ConstructionTypeOK, PlanWork, PlanId
  <2>2. seq + 1 \in Id /\ seq + 2 \in Id /\ seq + 1 > seq /\ seq + 2 > seq
    BY <2>1, ConstructionAssumption DEF Id
  <2>3. QED
    BY <2>2 DEF PlanWork, PlanId, SiteId
<1>3. plans[b].work = 0 /\ sites[a].plan = 0
  BY <1>2 DEF ConstructionInv, IdsApart, NoPlan, NoSite
<1>4. sites'[a].plan = b /\ ~sites'[a].complete
  BY <1>2 DEF ConstructionTypeOK
<1>5. \A p \in Planned : plans'[p] = plans[p]
  BY <1>2, <1>3 DEF ConstructionTypeOK, Planned
<1>6. \A c \in Sited : sites'[c] = sites[c]
  BY <1>2, <1>3 DEF ConstructionTypeOK, Sited
<1>7. \A p \in Planned' \ Planned : ~Built(p)'
  <2>1. \A p \in Planned' \ Planned : p = b
    BY <1>2 DEF ConstructionTypeOK, Planned
  <2>2. a \in {c \in Id : sites'[c].plan = b}
    BY <1>4
  <2>3. \A p : p = b => ~Built(p)'
    BY <2>2, <1>4 DEF Built, SitesOf
  <2>4. QED
    BY <2>1, <2>3
<1>8. visit' = visit
  BY DEF PlanWork
<1>9. QED
  BY <1>1, <1>5, <1>6, <1>7, <1>8, TracksStays DEF TracksInv

\* A session that is alone leaves the others idle.
LEMMA AloneTracks ==
    ASSUME ConstructionTypeOK, NEW f \in Fitter, \A g \in Fitter \ {f} : visit[g].op = "idle",
           NEW v, visit' = [visit EXCEPT ![f] = v]
    PROVE  /\ visit'[f] = v
           /\ \A g \in Fitter \ {f} : VisitFresh(g)'
BY DEF ConstructionTypeOK, VisitFresh

LEMMA LeaveTracks ==
    ASSUME ConstructionTypeOK, NEW f \in Fitter, \A g \in Fitter \ {f} : visit[g].op = "idle",
           Leave(f)
    PROVE  \A g \in Fitter : VisitFresh(g)'
<1>1. visit' = [visit EXCEPT ![f] = Waiting]
  BY DEF Leave
<1>2. visit'[f].op = "idle"
  BY <1>1 DEF Waiting, ConstructionTypeOK
<1>3. VisitFresh(f)'
  BY <1>2 DEF VisitFresh
<1>4. QED
  BY <1>1, <1>3, AloneTracks

LEMMA BeginUploadTracks ==
    ASSUME ConstructionTypeOK, ConstructionInv, TracksInv, ~Mismatch, NEW f \in Fitter,
           \A g \in Fitter \ {f} : visit[g].op = "idle", BeginUpload(f)
    PROVE  TracksInv'
<1>1. PICK p \in Planned, c \in Sited :
        /\ sites[c].plan = p
        /\ \E r : visit' = [visit EXCEPT ![f] =
             [op |-> "upload", plan |-> p, was |-> plans[p], site |-> c,
              result |-> r, rest |-> RestBuilt(p, c)]]
  BY DEF BeginUpload
<1>2. PICK r : visit' = [visit EXCEPT ![f] =
        [op |-> "upload", plan |-> p, was |-> plans[p], site |-> c,
         result |-> r, rest |-> RestBuilt(p, c)]]
  BY <1>1
<1>3. PICK v : v = [op |-> "upload", plan |-> p, was |-> plans[p], site |-> c,
                    result |-> r, rest |-> RestBuilt(p, c)]
  OBVIOUS
<1>4. /\ v.op = "upload" /\ v.plan = p /\ v.was = plans[p] /\ v.site = c
      /\ v.rest = RestBuilt(p, c)
  BY <1>3
<1>5. visit' = [visit EXCEPT ![f] = v]
  BY <1>2, <1>3
<1>6. plans' = plans /\ sites' = sites /\ Grows
  BY BeginUploadInv DEF BeginUpload
<1>7. visit'[f] = v /\ \A g \in Fitter \ {f} : VisitFresh(g)'
  BY <1>5, AloneTracks
<1>8. VisitFresh(f)'
  <2>1. RestBuilt(p, c)' = RestBuilt(p, c)
    BY <1>6 DEF RestBuilt, SitesOf
  <2>2. sites'[c].plan = p /\ plans'[p] = plans[p]
    BY <1>1, <1>6
  <2>3. visit'[f].plan = p /\ visit'[f].site = c
    BY <1>4, <1>7
  <2>4. QED
    BY <2>1, <2>2, <2>3, <1>4, <1>7 DEF VisitFresh, RestBuilt, SitesOf
<1>9. QED
  BY <1>6, <1>7, <1>8, QuietTracks DEF TracksInv

LEMMA BeginConfirmTracks ==
    ASSUME ConstructionTypeOK, ConstructionInv, TracksInv, NEW f \in Fitter,
           \A g \in Fitter \ {f} : visit[g].op = "idle", BeginConfirm(f)
    PROVE  TracksInv'
<1>1. PICK p \in Planned :
        visit' = [visit EXCEPT ![f] = [op |-> "confirm", plan |-> p, was |-> plans[p]]]
  BY DEF BeginConfirm
<1>2. plans' = plans /\ sites' = sites /\ Grows
  BY BeginConfirmInv DEF BeginConfirm
<1>3. /\ visit'[f] = [op |-> "confirm", plan |-> p, was |-> plans[p]]
      /\ \A g \in Fitter \ {f} : VisitFresh(g)'
  BY <1>1, AloneTracks
<1>4. VisitFresh(f)'
  BY <1>2, <1>3 DEF VisitFresh
<1>5. QED
  BY <1>2, <1>3, <1>4, QuietTracks DEF TracksInv

LEMMA CommitConfirmTracks ==
    ASSUME ConstructionTypeOK, ConstructionInv, TracksInv, NEW f \in Fitter,
           \A g \in Fitter \ {f} : visit[g].op = "idle", CommitConfirm(f)
    PROVE  TracksInv'
<1>1. PICK v \in ConfirmVisit : v = visit[f]
  BY VisitKind DEF ConstructionTypeOK, CommitConfirm
<1>2. v.plan \in Id /\ v.was \in PlanRow /\ v.was = plans[v.plan]
  BY <1>1, ConfirmFields DEF ConfirmVisit, TracksInv, VisitFresh
<1>3. PICK row : row = ConfirmedPlan(v.was)
  OBVIOUS
<1>4. row.work = v.was.work /\ row.complete = v.was.complete
  BY <1>2, <1>3 DEF ConfirmedPlan, PlanRow
<1>5. plans' = [plans EXCEPT ![v.plan] = row] /\ sites' = sites /\ Leave(f)
  BY <1>1, <1>3 DEF CommitConfirm
<1>6. \A p \in Id : plans'[p].work = plans[p].work /\ plans'[p].complete = plans[p].complete
  BY <1>2, <1>4, <1>5 DEF ConstructionTypeOK
<1>7. \A p \in Planned' : Built(p)' => plans'[p].complete
  BY <1>5, <1>6 DEF TracksInv, Planned, Built, SitesOf
<1>8. QED
  BY <1>5, <1>7, LeaveTracks DEF TracksInv

\* The upload that builds the last site completes the plan.
LEMMA CommitUploadTracks ==
    ASSUME ConstructionTypeOK, ConstructionInv, TracksInv, NEW f \in Fitter,
           \A g \in Fitter \ {f} : visit[g].op = "idle", CommitUpload(f)
    PROVE  TracksInv'
<1>1. PICK v \in UploadVisit : v = visit[f]
  BY VisitKind DEF ConstructionTypeOK, CommitUpload
<1>2. v.plan \in Id /\ v.site \in Id /\ v.was \in PlanRow /\ v.rest \in BOOLEAN
  BY UploadFields
<1>3. /\ v.was = plans[v.plan] /\ sites[v.site].plan = v.plan
      /\ v.rest = RestBuilt(v.plan, v.site)
  BY <1>1 DEF UploadVisit, TracksInv, VisitFresh
<1>4. PICK row : row = BuiltPlan(v.was, v.rest)
  OBVIOUS
<1>5. row.work = v.was.work /\ row.complete = (v.was.complete \/ v.rest)
  BY <1>2, <1>4 DEF BuiltPlan, PlanRow
<1>6. plans' = [plans EXCEPT ![v.plan] = row]
  <2>1. plans' = IF row = v.was THEN plans ELSE [plans EXCEPT ![v.plan] = row]
    BY <1>1, <1>4 DEF CommitUpload
  <2>2. QED
    BY <1>2, <1>3, <2>1 DEF ConstructionTypeOK
<1>7. plans'[v.plan] = row /\ \A p \in Id \ {v.plan} : plans'[p] = plans[p]
  BY <1>2, <1>6 DEF ConstructionTypeOK
<1>8. /\ \A c \in Id : sites'[c].plan = sites[c].plan
      /\ \A c \in Id \ {v.site} : sites'[c] = sites[c]
  <2>1. sites' = [sites EXCEPT ![v.site] = [sites[v.site] EXCEPT !.complete = TRUE]]
    BY <1>1 DEF CommitUpload, BuiltSite
  <2>2. QED
    BY <1>2, <2>1 DEF ConstructionTypeOK, SiteRow
<1>9. ASSUME NEW p \in Planned', Built(p)' PROVE plans'[p].complete
  <2>1. p \in Id /\ p \in Planned
    BY <1>3, <1>5, <1>7 DEF Planned
  <2>2. SitesOf(p)' = SitesOf(p)
    BY <1>8 DEF SitesOf
  <2>3. \A c \in SitesOf(p) : sites'[c].complete
    BY <1>9, <2>2 DEF Built
  <2>4. CASE p = v.plan
    <3>1. RestBuilt(p, v.site)
      BY <1>8, <2>3 DEF RestBuilt, SitesOf
    <3>2. QED
      BY <2>4, <3>1, <1>3, <1>5, <1>7
  <2>5. CASE p # v.plan
    <3>1. Built(p)
      BY <1>3, <1>8, <2>3, <2>5 DEF Built, SitesOf
    <3>2. QED
      BY <2>1, <2>5, <3>1, <1>7 DEF TracksInv
  <2>6. QED
    BY <2>4, <2>5
<1>10. Leave(f)
  BY DEF CommitUpload
<1>11. QED
  BY <1>9, <1>10, LeaveTracks DEF TracksInv

LEMMA TracksStep ==
    ConstructionTypeOK /\ ConstructionInv /\ TracksInv /\ ~Mismatch
    /\ [ConstructionSerialNext]_cvars => TracksInv'
<1> SUFFICES ASSUME ConstructionTypeOK, ConstructionInv, TracksInv, ~Mismatch,
                    [ConstructionSerialNext]_cvars
             PROVE  TracksInv'
  OBVIOUS
<1>1. CASE DeleteResult \/ OtherRow \/ UNCHANGED cvars
  <2>1. plans' = plans /\ sites' = sites /\ visit' = visit
    BY <1>1 DEF DeleteResult, OtherRow, cvars
  <2>2. Grows
    BY <2>1, SameSitesGrow
  <2>3. QED
    BY <2>1, <2>2, QuietTracks DEF TracksInv
<1>2. ASSUME NEW f \in Fitter, \A g \in Fitter \ {f} : visit[g].op = "idle", VisitStep(f)
      PROVE  TracksInv'
  <2>1. CASE Abandon(f)
    <3>1. plans' = plans /\ sites' = sites /\ Leave(f) /\ Grows
      BY <2>1, AbandonInv DEF Abandon
    <3>2. QED
      BY <1>2, <3>1, LeaveTracks, QuietTracks DEF TracksInv
  <2>2. QED
    BY <1>2, <2>1, BeginUploadTracks, CommitUploadTracks, BeginConfirmTracks,
       CommitConfirmTracks DEF VisitStep
<1>3. QED
  BY <1>1, <1>2, PlanWorkTracks DEF ConstructionSerialNext

LEMMA TracksInit == ConstructionInit => TracksInv
<1> SUFFICES ASSUME ConstructionInit PROVE TracksInv
  OBVIOUS
<1>1. Planned = {}
  BY DEF ConstructionInit, Planned, NoPlan
<1>2. \A f \in Fitter : VisitFresh(f)
  BY DEF ConstructionInit, VisitFresh, Waiting
<1>3. QED
  BY <1>1, <1>2 DEF TracksInv

LEMMA SerialSide == ConstructionSerialSpec => ConstructionSpec
<1>1. [ConstructionSerialNext]_cvars => [ConstructionNext]_cvars
  BY DEF ConstructionSerialNext, ConstructionNext, ConstructionStep
<1>2. QED
  BY <1>1, PTL DEF ConstructionSerialSpec, ConstructionSpec

\* One construction request at a time, and none that names a site of another plan: a plan
\* counts as complete exactly when all its sites do.
THEOREM PlanTracksSitesCorrect == ConstructionSerialSpec => []PlanTracksSites
<1>1. CASE Mismatch
  <2>1. PlanTracksSites
    BY <1>1 DEF PlanTracksSites
  <2>2. QED
    BY <2>1, PTL
<1>2. CASE ~Mismatch
  <2>1. ConstructionTypeOK /\ ConstructionInv /\ TracksInv /\ [ConstructionSerialNext]_cvars
          => TracksInv'
    BY <1>2, TracksStep
  <2>2. ConstructionInv /\ TracksInv => PlanTracksSites
    BY DEF ConstructionInv, CompletePlanIsBuilt, TracksInv, PlanTracksSites, Built, Planned
  <2>3. QED
    BY <2>1, <2>2, TracksInit, SerialSide, ConstructionTypeCorrect, ConstructionCorrect, PTL
    DEF ConstructionSerialSpec
<1>3. QED
  BY <1>1, <1>2
----------------------------------------------------------------------------
(* WorkOrders, with overlapping requests. *)

\* The sessions, as TypeOK types them.
TxnType == {Idle} \cup WorkTxn \cup OrderTxn

LEMMA WorkRowFields ==
    ASSUME NEW r \in WorkRow
    PROVE  /\ r.status \in {"none", "live", "deleted"} /\ r.order \in Order \cup {NoOrder}
           /\ r.plan \in Nat /\ r.make \in Nat
           /\ r.construction \in BOOLEAN /\ r.printer \in BOOLEAN
           /\ r.finished \in BOOLEAN /\ r.failed \in BOOLEAN /\ r.checked \in BOOLEAN
BY DEF WorkRow

LEMMA HistRowFields ==
    ASSUME NEW h \in HistRow
    PROVE  h.work \in IdOrNone /\ h.make \in Nat /\ h.finished \in BOOLEAN /\ h.disable \in BOOLEAN
BY DEF HistRow

\* The op field tells which kind of record a session holds.
LEMMA TxnKind ==
    ASSUME NEW t \in TxnType
    PROVE  /\ t.op \in {"idle", "work", "order"}
           /\ t.op = "work" => t \in WorkTxn
           /\ t.op = "order" => t \in OrderTxn
<1>1. t = Idle => t.op = "idle"
  BY DEF Idle
<1>2. t \in WorkTxn => t.op = "work"
  BY DEF WorkTxn
<1>3. t \in OrderTxn => t.op = "order"
  BY DEF OrderTxn
<1>4. QED
  BY <1>1, <1>2, <1>3 DEF TxnType

LEMMA WorkTxnFields ==
    ASSUME NEW t \in WorkTxn
    PROVE  /\ t.op = "work" /\ t.id \in Id /\ t.was \in WorkRow /\ t.hist \in IdOrNone
           /\ t.hwas \in HistRow /\ t.production \in BOOLEAN
BY DEF WorkTxn

LEMMA OrderTxnFields ==
    ASSUME NEW t \in OrderTxn
    PROVE  t.order \in Order /\ t.production \in BOOLEAN
BY DEF OrderTxn

\* A work order row from its fields.
LEMMA WorkRowBuild ==
    ASSUME NEW s \in {"none", "live", "deleted"}, NEW o \in Order \cup {NoOrder},
           NEW p \in Nat, NEW k \in Nat, NEW c \in BOOLEAN, NEW q \in BOOLEAN, NEW f \in BOOLEAN, NEW d \in BOOLEAN,
           NEW e \in BOOLEAN
    PROVE  [status |-> s, order |-> o, plan |-> p, make |-> k, construction |-> c,
            printer |-> q, finished |-> f, failed |-> d, checked |-> e] \in WorkRow
BY DEF WorkRow

LEMMA BlankRowTypes ==
    /\ \A o \in Order \cup {NoOrder}, n \in Nat, c \in BOOLEAN : NewWork(o, n, c) \in WorkRow
    /\ NoWork \in WorkRow /\ NoHist \in HistRow
    /\ \A w \in Id : NewHist(w) \in HistRow
<1>1. \A o \in Order \cup {NoOrder}, n \in Nat, c \in BOOLEAN : NewWork(o, n, c) \in WorkRow
  BY DEF NewWork, WorkRow
<1>3. NewWork(NoOrder, 0, FALSE) \in WorkRow
  BY <1>1
<1>4. NoWork \in WorkRow
  BY <1>3 DEF NoWork, WorkRow
<1>5. NoHist \in HistRow /\ \A w \in Id : NewHist(w) \in HistRow
  <2>1. 0 \in IdOrNone /\ Id \subseteq IdOrNone
    BY IdNat, ConstructionAssumption DEF IdOrNone
  <2>2. NoHist \in HistRow
    BY <2>1 DEF NoHist, HistRow
  <2>3. ASSUME NEW w \in Id PROVE NewHist(w) \in HistRow
    BY <2>1 DEF NewHist, NoHist, HistRow
  <2>4. QED
    BY <2>2, <2>3
<1>6. QED
  BY <1>1, <1>4, <1>5

\* The rows the handlers compute from a work order row, by what they keep.
Keeps(new, was) ==
    /\ new \in WorkRow /\ new.status = was.status /\ new.order = was.order
    /\ new.plan = was.plan /\ new.construction = was.construction

LEMMA DoneRow ==
    ASSUME NEW was \in WorkRow
    PROVE  /\ Keeps(Done(was), was) /\ Done(was).finished /\ Done(was).checked
           /\ Done(was).make = was.make /\ Done(was).failed = was.failed
BY DEF Done, Keeps, WorkRow

LEMMA MoreMade ==
    ASSUME NEW was \in WorkRow, NEW n \in Nat, NEW row, row = [was EXCEPT !.make = @ + n]
    PROVE  /\ Keeps(row, was) /\ row.make = was.make + n /\ row.finished = was.finished
           /\ row.failed = was.failed /\ row.checked = was.checked
BY WorkRowFields DEF Keeps, WorkRow

LEMMA CompletedRowFacts ==
    ASSUME NEW was \in WorkRow, NEW n \in Count
    PROVE  LET new == CompletedRow(was, n) IN
           /\ Keeps(new, was) /\ new.make = was.make + n /\ new.failed = was.failed
           /\ new.finished => was.finished \/ new.plan <= new.make
           /\ new.checked => was.checked \/ new.plan <= new.make
           /\ was.finished => new.finished
<1>1. n \in Nat
  BY WorkOrdersAssumption
<1>2. PICK row : row = [was EXCEPT !.make = @ + n]
  OBVIOUS
<1>3. /\ Keeps(row, was) /\ row.make = was.make + n /\ row.finished = was.finished
      /\ row.failed = was.failed /\ row.checked = was.checked
  BY <1>1, <1>2, MoreMade
<1>4. CompletedRow(was, n) = IF row.plan <= row.make THEN Done(row) ELSE row
  BY <1>2 DEF CompletedRow, Reached
<1>5. CASE row.plan <= row.make
  BY <1>3, <1>4, <1>5, DoneRow DEF Keeps
<1>6. CASE ~(row.plan <= row.make)
  BY <1>3, <1>4, <1>6
<1>7. QED
  BY <1>5, <1>6

LEMMA RemadeRowFacts ==
    ASSUME NEW was \in WorkRow, NEW hwas \in HistRow, NEW n \in Count
    PROVE  LET new == RemadeRow(was, hwas, n) IN
           /\ Keeps(new, was) /\ new.make = was.make + n /\ new.failed = was.failed
           /\ new.checked => was.checked
                              \/ (was.plan <= hwas.make + n /\ new.plan <= new.make)
           /\ was.finished => new.finished
<1>1. n \in Nat /\ was.plan \in Nat /\ hwas.make \in Nat
  BY WorkOrdersAssumption, WorkRowFields, HistRowFields
<1>2. PICK row : row = [was EXCEPT !.make = @ + n]
  OBVIOUS
<1>3. /\ Keeps(row, was) /\ row.make = was.make + n /\ row.finished = was.finished
      /\ row.failed = was.failed /\ row.checked = was.checked
  BY <1>1, <1>2, MoreMade
<1>4. RemadeRow(was, hwas, n) =
        IF was.plan > hwas.make + n THEN row
        ELSE IF row.plan <= row.make THEN Done(row) ELSE [row EXCEPT !.finished = TRUE]
  BY <1>2 DEF RemadeRow, Reached
<1>5. CASE was.plan > hwas.make + n
  <2>1. RemadeRow(was, hwas, n) = row
    BY <1>4, <1>5
  <2>2. QED
    BY <1>3, <2>1
<1>6. CASE ~(was.plan > hwas.make + n) /\ row.plan <= row.make
  <2>1. PICK done \in WorkRow : done = Done(row)
    BY <1>3, DoneRow DEF Keeps
  <2>2. /\ Keeps(done, row) /\ done.make = row.make /\ done.failed = row.failed
        /\ done.finished
    BY <1>3, <2>1, DoneRow DEF Keeps
  <2>3. RemadeRow(was, hwas, n) = done
    BY <1>4, <1>6, <2>1
  <2>4. was.plan <= hwas.make + n /\ done.plan <= done.make
    BY <1>1, <1>3, <1>6, <2>2 DEF Keeps
  <2>5. QED
    BY <1>3, <2>2, <2>3, <2>4 DEF Keeps
<1>7. CASE ~(was.plan > hwas.make + n) /\ ~(row.plan <= row.make)
  <2>1. PICK made : made = [row EXCEPT !.finished = TRUE]
    OBVIOUS
  <2>2. /\ Keeps(made, row) /\ made.make = row.make /\ made.failed = row.failed
        /\ made.checked = row.checked /\ made.finished
    BY <1>3, <2>1 DEF Keeps, WorkRow
  <2>3. RemadeRow(was, hwas, n) = made
    BY <1>4, <1>7, <2>1
  <2>4. Keeps(made, was)
    BY <1>3, <2>2 DEF Keeps
  <2>5. QED
    BY <1>3, <2>2, <2>3, <2>4
<1>8. QED
  BY <1>5, <1>6, <1>7

LEMMA CompletedHistFacts ==
    ASSUME NEW hwas \in HistRow, NEW n \in Count, NEW p \in Nat
    PROVE  LET new == CompletedHist(hwas, p, n) IN
           /\ new \in HistRow /\ new.work = hwas.work /\ new.make = hwas.make + n
           /\ new.disable = hwas.disable
           /\ new.finished => hwas.finished \/ p <= new.make
<1>1. n \in Nat /\ hwas.make \in Nat
  BY WorkOrdersAssumption, HistRowFields
<1>2. (p <= hwas.make + n) \in BOOLEAN /\ hwas.finished \in BOOLEAN
  BY <1>1, HistRowFields
<1>3. (hwas.finished \/ p <= hwas.make + n) \in BOOLEAN
  BY <1>2
<1>4. PICK b \in BOOLEAN : b = (hwas.finished \/ p <= hwas.make + n)
  BY <1>3
<1>5. CompletedHist(hwas, p, n) = [hwas EXCEPT !.make = @ + n, !.finished = b]
  BY <1>4 DEF CompletedHist
<1>6. PICK k \in Nat : k = hwas.make + n
  BY <1>1
<1>7. CompletedHist(hwas, p, n) = [hwas EXCEPT !.make = k, !.finished = b]
  BY <1>5, <1>6
<1>8. QED
  BY <1>4, <1>6, <1>7 DEF HistRow

LEMMA ManagedRowFacts ==
    ASSUME NEW was \in WorkRow
    PROVE  LET new == ManagedRow(was) IN
           /\ Keeps(new, was) /\ new.make = new.plan /\ new.failed = was.failed
           /\ new.finished /\ new.checked = was.checked
BY DEF ManagedRow, Keeps, WorkRow

LEMMA FailedRowFacts ==
    ASSUME NEW was \in WorkRow
    PROVE  LET new == FailedRow(was) IN
           /\ Keeps(new, was) /\ new.failed /\ new.checked = was.checked
           /\ new.make = 0 /\ new.finished = (was.finished /\ was.failed)
<1>1. (was.finished /\ was.failed) \in BOOLEAN
  OBVIOUS
<1>2. QED
  BY <1>1 DEF FailedRow, Keeps, WorkRow

LEMMA WebFailedRowFacts ==
    ASSUME NEW was \in WorkRow, NEW remake \in BOOLEAN
    PROVE  LET new == WebFailedRow(was, remake) IN
           /\ Keeps(new, was) /\ new.make = was.make /\ new.checked = was.checked
           /\ new.failed = (was.failed \/ remake)
           /\ new.finished = (was.finished /\ (was.failed \/ ~remake))
<1>1. (was.failed \/ remake) \in BOOLEAN /\ (was.finished /\ (was.failed \/ ~remake)) \in BOOLEAN
  OBVIOUS
<1>2. QED
  BY <1>1 DEF WebFailedRow, Keeps, WorkRow

LEMMA DisabledHistFacts ==
    ASSUME NEW hwas \in HistRow
    PROVE  LET new == DisabledHist(hwas) IN
           new \in HistRow /\ new.work = hwas.work /\ new.disable
BY DEF DisabledHist, HistRow

LEMMA TouchedRowFacts ==
    ASSUME NEW was \in WorkRow, NEW p \in BOOLEAN, NEW new, new = [was EXCEPT !.printer = @ \/ p]
    PROVE  /\ Keeps(new, was) /\ new.make = was.make /\ new.finished = was.finished
           /\ new.failed = was.failed /\ new.checked = was.checked
<1>1. (was.printer \/ p) \in BOOLEAN
  OBVIOUS
<1>2. QED
  BY <1>1 DEF Keeps, WorkRow
----------------------------------------------------------------------------
(* Type correctness, action by action. *)

LEMMA WorkInitType == Init => TypeOK
<1> SUFFICES ASSUME Init PROVE TypeOK
  OBVIOUS
<1>1. ConstructionTypeOK
  BY InitType DEF Init
<1>2. work \in [Id -> WorkRow] /\ hist \in [Id -> HistRow]
  BY BlankRowTypes DEF Init
<1>3. orders \in [Order -> OrderRow] /\ commits \in 0..MaxCommit /\ tally \in [Id -> Int]
  BY WorkOrdersAssumption DEF Init, OrderRow
<1>4. QED
  BY <1>1, <1>2, <1>3 DEF Init, TypeOK

\* A session that closes keeps the type.
LEMMA CloseType ==
    ASSUME TypeOK, NEW s \in Session, Close(s)
    PROVE  txn' \in [Session -> {Idle} \cup WorkTxn \cup OrderTxn]
BY DEF TypeOK, Close

LEMMA CountedType ==
    ASSUME TypeOK, Counted
    PROVE  commits' \in 0..MaxCommit
BY WorkOrdersAssumption DEF TypeOK, Counted

\* What a write of the work order row leaves.
LEMMA WriteWorkType ==
    ASSUME work \in [Id -> WorkRow], tally \in [Id -> Int], NEW t \in WorkTxn,
           NEW row \in WorkRow, NEW dirty \in BOOLEAN, NEW n \in Int,
           WriteWork(t, row, dirty, n)
    PROVE  work' \in [Id -> WorkRow] /\ tally' \in [Id -> Int]
<1>1. t.id \in Id
  BY WorkTxnFields
<1>2. work' = [work EXCEPT ![t.id] = row]
      \/ work' = [work EXCEPT ![t.id] = IF row = t.was THEN work[t.id] ELSE row]
  BY DEF WriteWork, Flush
<1>3. work' \in [Id -> WorkRow]
  BY <1>1, <1>2
<1>4. tally' \in [Id -> Int]
  BY <1>1 DEF WriteWork
<1>5. QED
  BY <1>3, <1>4

LEMMA CreateOrderInfoType ==
    ASSUME TypeOK, CreateOrderInfo \/ DeleteOrderInfo
    PROVE  TypeOK'
<1>1. UNCHANGED <<cvars, work, hist, shipped, txn, commits, tally>>
  BY DEF CreateOrderInfo, DeleteOrderInfo
<1>2. orders' \in [Order -> OrderRow]
  BY DEF CreateOrderInfo, DeleteOrderInfo, TypeOK, OrderRow
<1>3. ConstructionTypeOK'
  BY <1>1, StutterType DEF TypeOK
<1>4. QED
  BY <1>1, <1>2, <1>3 DEF TypeOK

LEMMA BeginUpdateOrderType ==
    ASSUME TypeOK, NEW s \in Session, BeginUpdateOrder(s)
    PROVE  TypeOK'
<1>1. PICK o \in Order :
        txn' = [txn EXCEPT ![s] = [op |-> "order", order |-> o, production |-> orders[o].production]]
  BY DEF BeginUpdateOrder
<1>2. orders[o].production \in BOOLEAN
  BY DEF TypeOK, OrderRow
<1>3. PICK t \in OrderTxn : t = [op |-> "order", order |-> o, production |-> orders[o].production]
  BY <1>2 DEF OrderTxn
<1>4. txn' = [txn EXCEPT ![s] = t]
  BY <1>1, <1>3
<1>5. txn' \in [Session -> {Idle} \cup WorkTxn \cup OrderTxn]
  BY <1>4 DEF TypeOK
<1>6. UNCHANGED <<cvars, orders, work, hist, shipped, commits, tally>>
  BY DEF BeginUpdateOrder
<1>7. QED
  BY <1>5, <1>6, StutterType DEF TypeOK

LEMMA CommitUpdateOrderType ==
    ASSUME TypeOK, NEW s \in Session, CommitUpdateOrder(s)
    PROVE  TypeOK'
<1>1. txn[s] \in OrderTxn
  BY TxnKind DEF TypeOK, TxnType, CommitUpdateOrder
<1>2. txn[s].order \in Order /\ UpdatedOrder(txn[s]) \in OrderRow
  BY <1>1, OrderTxnFields DEF UpdatedOrder, OrderRow
<1>3. orders' \in [Order -> OrderRow]
  BY <1>2 DEF TypeOK, CommitUpdateOrder
<1>4. UNCHANGED <<cvars, work, hist, shipped, commits, tally>> /\ Close(s)
  BY DEF CommitUpdateOrder
<1>5. QED
  BY <1>3, <1>4, CloseType, StutterType DEF TypeOK

LEMMA CreateWorkOrderType ==
    ASSUME TypeOK, CreateWorkOrder
    PROVE  TypeOK'
<1>1. PICK o \in Order \cup {NoOrder}, n \in PlanCount, c \in BOOLEAN :
        seq < MaxId /\ seq' = seq + 1 /\ work' = [work EXCEPT ![seq + 1] = NewWork(o, n, c)]
  BY DEF CreateWorkOrder
<1>2. NewWork(o, n, c) \in WorkRow
  BY BlankRowTypes, WorkOrdersAssumption
<1>3. work' \in [Id -> WorkRow]
  BY <1>1, <1>2 DEF TypeOK
<1>4. UNCHANGED <<plans, sites, results, visit, cleared, orders, hist, shipped, txn, commits, tally>>
  BY DEF CreateWorkOrder
<1>5. OtherRow
  BY <1>1, <1>4 DEF OtherRow
<1>6. QED
  BY <1>3, <1>4, <1>5, OtherRowType DEF TypeOK

LEMMA DeleteWorkOrderType ==
    ASSUME TypeOK, DeleteWorkOrder
    PROVE  TypeOK'
<1>1. PICK w \in Id : work' = [work EXCEPT ![w].status = "deleted"]
  BY DEF DeleteWorkOrder, LiveWork
<1>2. [work[w] EXCEPT !.status = "deleted"] \in WorkRow
  BY DEF TypeOK, WorkRow
<1>3. work' \in [Id -> WorkRow]
  BY <1>1, <1>2 DEF TypeOK
<1>4. UNCHANGED <<cvars, orders, hist, shipped, txn, commits, tally>>
  BY DEF DeleteWorkOrder
<1>5. QED
  BY <1>3, <1>4, StutterType DEF TypeOK

LEMMA ReadWorkType ==
    ASSUME TypeOK, NEW s \in Session, ReadWork(s)
    PROVE  TypeOK'
<1>1. PICK w \in LiveWork, h \in {0} \cup Histories :
        txn' = [txn EXCEPT ![s] =
               [op |-> "work", id |-> w, was |-> work[w],
                hist |-> h, hwas |-> IF h = 0 THEN NoHist ELSE hist[h],
                production |-> Produced(work[w].order)]]
  BY DEF ReadWork
<1>2. w \in Id /\ work[w] \in WorkRow
  BY DEF LiveWork, TypeOK
<1>3. Produced(work[w].order) \in BOOLEAN
  BY <1>2, WorkRowFields DEF TypeOK, OrderRow, Produced
<1>4. h \in IdOrNone /\ (h # 0 => h \in Id)
  BY IdNat, ConstructionAssumption DEF Histories, IdOrNone
<1>5. (IF h = 0 THEN NoHist ELSE hist[h]) \in HistRow
  BY <1>4, BlankRowTypes DEF TypeOK
<1>6. PICK hw \in HistRow : hw = IF h = 0 THEN NoHist ELSE hist[h]
  BY <1>5
<1>7. PICK b \in BOOLEAN : b = Produced(work[w].order)
  BY <1>3
<1>8. PICK t \in WorkTxn : t = [op |-> "work", id |-> w, was |-> work[w], hist |-> h,
                               hwas |-> hw, production |-> b]
  BY <1>2, <1>4 DEF WorkTxn
<1>9. txn' = [txn EXCEPT ![s] = t]
  BY <1>1, <1>6, <1>7, <1>8
<1>10. txn' \in [Session -> {Idle} \cup WorkTxn \cup OrderTxn]
  BY <1>9 DEF TypeOK
<1>11. UNCHANGED <<cvars, orders, work, hist, shipped, commits, tally>>
  BY DEF ReadWork
<1>12. QED
  BY <1>10, <1>11, StutterType DEF TypeOK

\* The session of a handler of work orders, and the fields of what it read.
LEMMA WorkSession ==
    ASSUME TypeOK, NEW s \in Session, txn[s].op = "work"
    PROVE  txn[s] \in WorkTxn
BY TxnKind DEF TypeOK, TxnType

LEMMA CommitCompleteType ==
    ASSUME TypeOK, NEW s \in Session, CommitComplete(s)
    PROVE  TypeOK'
<1>1. PICK t \in WorkTxn : t = txn[s]
  BY WorkSession DEF CommitComplete
<1>2. t.id \in Id /\ t.was \in WorkRow /\ t.hwas \in HistRow /\ t.hist \in IdOrNone
      /\ t.was.plan \in Nat /\ t.was.order \in Order \cup {NoOrder}
  BY WorkTxnFields, WorkRowFields
<1>3. PICK n \in Count :
        LET hrow == CompletedHist(t.hwas, t.was.plan, n)
            row == IF t.hist = 0 THEN CompletedRow(t.was, n)
                   ELSE RemadeRow(t.was, t.hwas, n)
            due == t.hist # 0 => t.was.plan <= hrow.make
        IN  /\ WriteWork(t, row, FALSE, n)
            /\ hist' = IF t.hist = 0 THEN hist ELSE [hist EXCEPT ![t.hist] = hrow]
            /\ IF due /\ NeedsPlan(row) THEN PlanWork(t.id) ELSE UNCHANGED cvars
  BY <1>1 DEF CommitComplete, WriteWork
<1>4. PICK hrow \in HistRow : hrow = CompletedHist(t.hwas, t.was.plan, n)
  BY <1>2, CompletedHistFacts
<1>5. PICK row \in WorkRow : row = IF t.hist = 0 THEN CompletedRow(t.was, n)
                                   ELSE RemadeRow(t.was, t.hwas, n)
  BY <1>2, CompletedRowFacts, RemadeRowFacts DEF Keeps
<1>6. /\ WriteWork(t, row, FALSE, n)
      /\ hist' = IF t.hist = 0 THEN hist ELSE [hist EXCEPT ![t.hist] = hrow]
      /\ PlanWork(t.id) \/ UNCHANGED cvars
  BY <1>3, <1>4, <1>5 DEF WriteWork
<1>7. work' \in [Id -> WorkRow] /\ tally' \in [Id -> Int]
  <2>1. n \in Int /\ work \in [Id -> WorkRow] /\ tally \in [Id -> Int]
    BY WorkOrdersAssumption DEF TypeOK
  <2>2. WriteWork(t, row, FALSE, n)
    BY <1>6
  <2>3. QED
    BY <2>1, <2>2, WriteWorkType
<1>8. hist' \in [Id -> HistRow]
  BY <1>6 DEF TypeOK
<1>9. ConstructionTypeOK'
  BY <1>2, <1>6, PlanWorkType, StutterType DEF TypeOK
<1>10. orders' = orders \/ orders' = [orders EXCEPT ![t.was.order].production = TRUE]
  BY <1>1 DEF CommitComplete
<1>11. orders' \in [Order -> OrderRow]
  <2>0. t.was.order \in Order
    BY <1>2, <1>6 DEF WriteWork
  <2>1. [orders[t.was.order] EXCEPT !.production = TRUE] \in OrderRow
    BY <2>0 DEF TypeOK, OrderRow
  <2>2. QED
    BY <2>0, <2>1, <1>10 DEF TypeOK
<1>12. shipped' \in SUBSET Id /\ Counted /\ Close(s)
  BY <1>1, <1>2 DEF CommitComplete, TypeOK
<1>13. QED
  BY <1>7, <1>8, <1>9, <1>11, <1>12, CloseType, CountedType DEF TypeOK

LEMMA CommitDefectiveType ==
    ASSUME TypeOK, NEW s \in Session, CommitDefective(s)
    PROVE  TypeOK'
<1>1. txn[s] \in WorkTxn
  BY WorkSession DEF CommitDefective
<1>2. shipped' \in SUBSET Id /\ Counted /\ Close(s)
  BY <1>1, WorkTxnFields DEF CommitDefective, TypeOK
<1>3. UNCHANGED <<cvars, orders, work, hist, tally>>
  BY DEF CommitDefective
<1>4. QED
  BY <1>2, <1>3, CloseType, CountedType, StutterType DEF TypeOK

LEMMA CommitManageType ==
    ASSUME TypeOK, NEW s \in Session, CommitManage(s)
    PROVE  TypeOK'
<1>1. PICK t \in WorkTxn : t = txn[s]
  BY WorkSession DEF CommitManage
<1>2. t.id \in Id /\ t.was \in WorkRow /\ t.was.plan \in Nat /\ t.was.make \in Nat
  BY WorkTxnFields, WorkRowFields
<1>3. PICK row \in WorkRow : row = ManagedRow(t.was)
  BY <1>2, ManagedRowFacts DEF Keeps
<1>4. PICK n \in Int : n = t.was.plan - t.was.make
  BY <1>2
<1>5. /\ WriteWork(t, row, TRUE, n)
      /\ PlanWork(t.id) \/ UNCHANGED cvars
      /\ Counted /\ Close(s) /\ UNCHANGED <<orders, hist, shipped>>
  BY <1>1, <1>3, <1>4 DEF CommitManage, WriteWork
<1>6. work' \in [Id -> WorkRow] /\ tally' \in [Id -> Int]
  BY <1>5, WriteWorkType DEF TypeOK
<1>7. ConstructionTypeOK'
  BY <1>2, <1>5, PlanWorkType, StutterType DEF TypeOK
<1>8. QED
  BY <1>5, <1>6, <1>7, CloseType, CountedType DEF TypeOK

LEMMA CommitFailType ==
    ASSUME TypeOK, NEW s \in Session, CommitFail(s)
    PROVE  TypeOK'
<1>1. PICK t \in WorkTxn : t = txn[s]
  BY WorkSession DEF CommitFail
<1>2. t.id \in Id /\ t.was \in WorkRow /\ t.hwas \in HistRow /\ t.was.make \in Nat
  BY WorkTxnFields, WorkRowFields
<1>3. PICK old : old = IF t.hist = 0 THEN hist
               ELSE [hist EXCEPT ![t.hist] = Flush(@, t.hwas, DisabledHist(t.hwas))]
  OBVIOUS
<1>4. old \in [Id -> HistRow]
  BY <1>2, <1>3, DisabledHistFacts DEF TypeOK, Flush
<1>5. PICK remake \in BOOLEAN :
        /\ \/ WriteWork(t, FailedRow(t.was), FALSE, -t.was.make)
           \/ WriteWork(t, WebFailedRow(t.was, remake), ~remake, 0)
        /\ IF remake THEN /\ seq < MaxId /\ seq' = seq + 1
                          /\ hist' = [old EXCEPT ![seq + 1] = NewHist(t.id)]
           ELSE seq' = seq /\ hist' = old
  BY <1>1, <1>3 DEF CommitFail, WriteWork
<1>6. FailedRow(t.was) \in WorkRow /\ WebFailedRow(t.was, remake) \in WorkRow
  BY <1>2, FailedRowFacts, WebFailedRowFacts DEF Keeps
<1>7. PICK k \in Int : k = -t.was.make
  BY <1>2
<1>8. WriteWork(t, FailedRow(t.was), FALSE, k) \/ WriteWork(t, WebFailedRow(t.was, remake), ~remake, 0)
  BY <1>5, <1>7 DEF WriteWork
<1>9. work' \in [Id -> WorkRow] /\ tally' \in [Id -> Int]
  <2>1. work \in [Id -> WorkRow] /\ tally \in [Id -> Int]
    BY DEF TypeOK
  <2>2. CASE WriteWork(t, FailedRow(t.was), FALSE, k)
    BY <2>1, <2>2, <1>6, WriteWorkType
  <2>3. CASE WriteWork(t, WebFailedRow(t.was, remake), ~remake, 0)
    <3>1. PICK d \in BOOLEAN : d = ~remake
      OBVIOUS
    <3>2. WriteWork(t, WebFailedRow(t.was, remake), d, 0)
      BY <2>3, <3>1 DEF WriteWork
    <3>3. QED
      BY <2>1, <3>2, <1>6, WriteWorkType
  <2>4. QED
    BY <1>8, <2>2, <2>3
<1>10. hist' \in [Id -> HistRow]
  BY <1>2, <1>4, <1>5, BlankRowTypes
<1>11. /\ UNCHANGED <<plans, sites, results, visit, cleared, orders, shipped>>
       /\ Counted /\ Close(s)
  BY DEF CommitFail
<1>12. OtherRow \/ UNCHANGED cvars
  BY <1>5, <1>11 DEF OtherRow, cvars
<1>13. ConstructionTypeOK'
  BY <1>12, OtherRowType, StutterType DEF TypeOK
<1>14. QED
  BY <1>9, <1>10, <1>11, <1>13, CloseType, CountedType DEF TypeOK

LEMMA CommitTouchType ==
    ASSUME TypeOK, NEW s \in Session, CommitTouch(s)
    PROVE  TypeOK'
<1>1. PICK t \in WorkTxn : t = txn[s]
  BY WorkSession DEF CommitTouch
<1>2. t.id \in Id /\ t.was \in WorkRow
  BY WorkTxnFields
<1>3. PICK p \in BOOLEAN : work' = [work EXCEPT ![t.id] = [t.was EXCEPT !.printer = @ \/ p]]
  BY <1>1 DEF CommitTouch
<1>4. PICK row : row = [t.was EXCEPT !.printer = @ \/ p]
  OBVIOUS
<1>5. row \in WorkRow
  BY <1>2, <1>4, TouchedRowFacts DEF Keeps
<1>6. work' \in [Id -> WorkRow]
  BY <1>2, <1>3, <1>4, <1>5 DEF TypeOK
<1>7. UNCHANGED <<cvars, orders, hist, shipped, commits, tally>> /\ Close(s)
  BY DEF CommitTouch
<1>8. QED
  BY <1>6, <1>7, CloseType, StutterType DEF TypeOK

LEMMA RollbackType ==
    ASSUME TypeOK, NEW s \in Session, Rollback(s)
    PROVE  TypeOK'
<1>1. UNCHANGED <<cvars, orders, work, hist, shipped, commits, tally>> /\ Close(s)
  BY DEF Rollback
<1>2. QED
  BY <1>1, CloseType, StutterType DEF TypeOK

LEMMA BesideType ==
    ASSUME TypeOK, Beside
    PROVE  TypeOK'
<1>1. ConstructionTypeOK'
  BY NextType DEF Beside, ConstructionNext, TypeOK
<1>2. QED
  BY <1>1 DEF Beside, wvars, TypeOK

LEMMA WorkNextType == TypeOK /\ [Next]_vars => TypeOK'
<1> SUFFICES ASSUME TypeOK, [Next]_vars PROVE TypeOK'
  OBVIOUS
<1>1. CASE Instant
  BY <1>1, CreateOrderInfoType, CreateWorkOrderType, DeleteWorkOrderType DEF Instant
<1>2. ASSUME NEW s \in Session, SessionStep(s) PROVE TypeOK'
  BY <1>2, BeginUpdateOrderType, CommitUpdateOrderType, ReadWorkType, CommitCompleteType,
     CommitDefectiveType, CommitManageType, CommitFailType, CommitTouchType, RollbackType
     DEF SessionStep
<1>3. CASE Beside
  BY <1>3, BesideType
<1>4. CASE UNCHANGED vars
  BY <1>4, StutterType DEF vars, wvars, TypeOK
<1>5. QED
  BY <1>1, <1>2, <1>3, <1>4 DEF Next

\* Every reachable state of orders, work orders and construction is of its type.
THEOREM WorkTypeCorrect == Spec => []TypeOK
BY WorkInitType, WorkNextType, PTL DEF Spec
----------------------------------------------------------------------------
(* The construction side of every step. *)

\* A commit of completeWorkOrder or completeProduction plans the work or not.
LEMMA CommitSide ==
    ASSUME TypeOK, NEW s \in Session,
           CommitComplete(s) \/ CommitManage(s) \/ CommitFail(s)
    PROVE  \/ \E w \in Id : PlanWork(w)
           \/ OtherRow
           \/ UNCHANGED cvars
<1>1. CASE CommitComplete(s)
  <2>1. PICK t \in WorkTxn : t = txn[s]
    BY <1>1, WorkSession DEF CommitComplete
  <2>2. PlanWork(t.id) \/ UNCHANGED cvars
    BY <1>1, <2>1 DEF CommitComplete
  <2>3. QED
    BY <2>1, <2>2, WorkTxnFields
<1>2. CASE CommitManage(s)
  <2>1. PICK t \in WorkTxn : t = txn[s]
    BY <1>2, WorkSession DEF CommitManage
  <2>2. PlanWork(t.id) \/ UNCHANGED cvars
    BY <1>2, <2>1 DEF CommitManage
  <2>3. QED
    BY <2>1, <2>2, WorkTxnFields
<1>3. CASE CommitFail(s)
  BY <1>3 DEF CommitFail, OtherRow, cvars
<1>4. QED
  BY <1>1, <1>2, <1>3

LEMMA NextSide == TypeOK /\ [Next]_vars => [ConstructionNext]_cvars
<1> SUFFICES ASSUME TypeOK, [Next]_vars PROVE [ConstructionNext]_cvars
  OBVIOUS
<1>1. CASE Instant
  <2>1. CASE CreateWorkOrder
    BY <2>1 DEF CreateWorkOrder, OtherRow, ConstructionNext
  <2>2. CASE CreateOrderInfo \/ DeleteOrderInfo \/ DeleteWorkOrder
    BY <2>2 DEF CreateOrderInfo, DeleteOrderInfo, DeleteWorkOrder
  <2>3. QED
    BY <1>1, <2>1, <2>2 DEF Instant
<1>2. ASSUME NEW s \in Session, SessionStep(s) PROVE [ConstructionNext]_cvars
  <2>1. CASE CommitComplete(s) \/ CommitManage(s) \/ CommitFail(s)
    BY <2>1, CommitSide DEF ConstructionNext
  <2>2. CASE \/ BeginUpdateOrder(s) \/ CommitUpdateOrder(s) \/ ReadWork(s)
             \/ CommitDefective(s) \/ CommitTouch(s) \/ Rollback(s)
    BY <2>2 DEF BeginUpdateOrder, CommitUpdateOrder, ReadWork, CommitDefective, CommitTouch,
                Rollback
  <2>3. QED
    BY <1>2, <2>1, <2>2 DEF SessionStep
<1>3. CASE Beside
  BY <1>3 DEF Beside, ConstructionNext
<1>4. CASE UNCHANGED vars
  BY <1>4 DEF vars
<1>5. QED
  BY <1>1, <1>2, <1>3, <1>4 DEF Next

\* Work orders act on the construction side only by planning work and taking ids: every
\* behaviour of the whole, seen from the construction tables, is one of Construction.
THEOREM WorkRefinesConstruction == Spec => ConstructionSide
<1>1. Init => ConstructionInit
  BY DEF Init
<1>2. QED
  BY <1>1, NextSide, WorkTypeCorrect, PTL DEF Spec, ConstructionSide, ConstructionSpec
----------------------------------------------------------------------------
(* The invariant, action by action. *)

\* What every step keeps of histories and plans.
Remembers ==
    /\ \A h \in Histories : hist'[h].work = hist[h].work
    /\ \A p \in Planned : plans'[p].work = plans[p].work

\* So the histories and the plans of a work order stay.
LEMMA RowStays ==
    ASSUME TypeOK, Remembers, NEW w \in Id, NEW row, RowSound(row, w)
    PROVE  RowSound(row, w)'
<1>1. w # 0
  BY IdNat
<1>2. HistoriesOf(w) \subseteq HistoriesOf(w)'
  BY <1>1 DEF Remembers, HistoriesOf, Histories
<1>3. PlansOf(w) \subseteq PlansOf(w)'
  BY <1>1 DEF Remembers, PlansOf, Planned
<1>4. QED
  BY <1>2, <1>3 DEF RowSound

\* A session that another one does not disturb: its work order keeps its plan, its
\* history its work order.
LEMMA TxnStays ==
    ASSUME TypeOK, Remembers, NEW s \in Session, TxnSound(s), txn'[s] = txn[s],
           \A w \in Id : work[w].status # "none" =>
               work'[w].status # "none" /\ work'[w].plan = work[w].plan
    PROVE  TxnSound(s)'
<1>1. PICK t : t = txn[s]
  OBVIOUS
<1>2. CASE t.op = "work"
  <2>1. t \in WorkTxn /\ t.id \in Id
    BY <1>1, <1>2, WorkSession, WorkTxnFields
  <2>2. /\ t.was.status = "live" /\ work[t.id].status # "none"
        /\ t.was.plan = work[t.id].plan
        /\ RowSound(t.was, t.id)
        /\ t.hist # 0 =>
             /\ t.hist \in Id /\ hist[t.hist].work = t.id /\ t.hwas.work = t.id
             /\ t.hwas.finished /\ ~t.hwas.disable => t.was.plan <= t.hwas.make
    BY <1>1, <1>2 DEF TxnSound
  <2>3. work'[t.id].status # "none" /\ t.was.plan = work'[t.id].plan
    BY <2>1, <2>2
  <2>4. t.hist # 0 => hist'[t.hist].work = t.id
    BY <2>1, <2>2, IdNat DEF Remembers, Histories
  <2>5. RowSound(t.was, t.id)'
    BY <2>1, <2>2, RowStays
  <2>6. QED
    BY <1>1, <2>2, <2>3, <2>4, <2>5 DEF TxnSound
<1>3. CASE t.op # "work"
  BY <1>1, <1>3 DEF TxnSound
<1>4. QED
  BY <1>2, <1>3
\* Work orders never lose their row or change their plan count.
PlansKept ==
    \A w \in Id : work[w].status # "none" =>
        work'[w].status # "none" /\ work'[w].plan = work[w].plan

\* The construction side of a step: plans stay and ids only go up.
Onward == Grows /\ seq \in Nat /\ seq' \in Nat /\ seq' >= seq

LEMMA NextOnward ==
    ASSUME TypeOK, ConstructionInv, [Next]_vars
    PROVE  Onward
<1>1. [ConstructionNext]_cvars
  BY NextSide
<1>2. Grows
  BY <1>1, NextInv DEF TypeOK
<1>3. seq \in Nat /\ seq' \in Nat
  BY <1>1, NextType, IdNat DEF TypeOK, ConstructionTypeOK
<1>4. seq' >= seq
  <2>1. ASSUME NEW f \in Fitter, VisitStep(f) PROVE seq' >= seq
    BY <2>1, <1>3 DEF VisitStep, BeginUpload, CommitUpload, BeginConfirm, CommitConfirm, Abandon
  <2>2. CASE DeleteResult \/ OtherRow \/ UNCHANGED cvars
    BY <2>2, <1>3 DEF DeleteResult, OtherRow, cvars
  <2>3. ASSUME NEW w \in Id, PlanWork(w) PROVE seq' >= seq
    BY <2>3, <1>3 DEF PlanWork, PlanId
  <2>4. QED
    BY <1>1, <2>1, <2>2, <2>3 DEF ConstructionNext, ConstructionStep
<1>5. QED
  BY <1>2, <1>3, <1>4 DEF Onward

\* The parts of the invariant that a step keeps which leaves the histories alone.
LEMMA SameHistories ==
    ASSUME TypeOK, WorkOrdersInv, Onward, PlansKept, hist' = hist,
           \A i \in Id : i > seq' /\ work[i].status = "none" => work'[i].status = "none"
    PROVE  Remembers /\ RemakeMeetsPlan' /\ WorkIdsApart'
<1>1. Remembers
  BY DEF Remembers, Onward, Grows
<1>2. Histories' = Histories
  BY DEF Histories
<1>3. \A h \in Histories : hist[h].work \in Id /\ work[hist[h].work].status # "none"
  BY DEF WorkOrdersInv, WorkIdsApart
<1>4. ASSUME NEW h \in Histories
      PROVE  /\ work'[hist[h].work].plan = work[hist[h].work].plan
             /\ work'[hist[h].work].status # "none"
  BY <1>3 DEF PlansKept
<1>5. RemakeMeetsPlan'
  BY <1>2, <1>4 DEF WorkOrdersInv, RemakeMeetsPlan
<1>6. \A i \in Id : i > seq' => i > seq
  BY DEF Onward, Id
<1>7. WorkIdsApart'
  BY <1>2, <1>3, <1>4, <1>6 DEF WorkOrdersInv, WorkIdsApart
<1>8. QED
  BY <1>1, <1>5, <1>7

\* A step that leaves work orders and histories alone.
LEMMA QuietInv ==
    ASSUME TypeOK, WorkOrdersInv, Onward, work' = work, hist' = hist,
           \A s \in Session : txn'[s] = txn[s] \/ TxnSound(s)'
    PROVE  WorkOrdersInv'
<1>1. PlansKept
  BY DEF PlansKept
<1>2. Remembers /\ RemakeMeetsPlan' /\ WorkIdsApart'
  BY <1>1, SameHistories
<1>3. ASSUME NEW w \in LiveWork' PROVE RowSound(work[w], w)'
  <2>1. w \in Id /\ RowSound(work[w], w)
    BY <1>3 DEF LiveWork, WorkOrdersInv
  <2>2. PICK row : row = work[w]
    OBVIOUS
  <2>3. RowSound(row, w)'
    BY <1>2, <2>1, <2>2, RowStays
  <2>4. QED
    BY <2>2, <2>3 DEF RowSound
<1>4. ASSUME NEW s \in Session PROVE TxnSound(s)'
  BY <1>1, <1>2, TxnStays DEF WorkOrdersInv, PlansKept
<1>5. QED
  BY <1>2, <1>3, <1>4 DEF WorkOrdersInv

\* A session that holds nothing of a work order is sound.
LEMMA OtherTxnSound ==
    ASSUME NEW s \in Session, txn'[s].op # "work"
    PROVE  TxnSound(s)'
BY DEF TxnSound

LEMMA ClosedSound ==
    ASSUME TypeOK, NEW s \in Session, Close(s)
    PROVE  \A r \in Session : TxnSound(r)' \/ txn'[r] = txn[r]
<1>1. txn'[s] = Idle /\ \A r \in Session \ {s} : txn'[r] = txn[r]
  BY DEF Close, TypeOK
<1>2. TxnSound(s)'
  BY <1>1, OtherTxnSound DEF Idle
<1>3. ASSUME NEW r \in Session PROVE TxnSound(r)' \/ txn'[r] = txn[r]
  BY <1>1, <1>2
<1>4. QED
  BY <1>3

LEMMA ReadWorkInv ==
    ASSUME TypeOK, WorkOrdersInv, Onward, NEW s \in Session, ReadWork(s)
    PROVE  WorkOrdersInv'
<1>1. PICK w \in LiveWork, h \in {0} \cup Histories :
        /\ h # 0 => hist[h].work = w
        /\ txn' = [txn EXCEPT ![s] =
               [op |-> "work", id |-> w, was |-> work[w],
                hist |-> h, hwas |-> IF h = 0 THEN NoHist ELSE hist[h],
                production |-> Produced(work[w].order)]]
  BY DEF ReadWork
<1>2. UNCHANGED <<cvars, orders, work, hist, shipped, commits, tally>>
  BY DEF ReadWork
<1>3. PICK t : t = [op |-> "work", id |-> w, was |-> work[w],
                    hist |-> h, hwas |-> IF h = 0 THEN NoHist ELSE hist[h],
                    production |-> Produced(work[w].order)]
  OBVIOUS
<1>4. /\ t.op = "work" /\ t.id = w /\ t.was = work[w] /\ t.hist = h
      /\ h # 0 => t.hwas = hist[h]
  BY <1>3
<1>5. txn'[s] = t /\ \A r \in Session \ {s} : txn'[r] = txn[r]
  BY <1>1, <1>3 DEF TypeOK
<1>6. w \in Id /\ work[w].status = "live" /\ RowSound(work[w], w)
  BY DEF LiveWork, WorkOrdersInv
<1>7. RowSound(t.was, t.id)'
  BY <1>2, <1>4, <1>6 DEF RowSound, HistoriesOf, PlansOf, cvars
<1>8. h # 0 =>
        /\ h \in Id /\ hist[h].work = w
        /\ hist[h].finished /\ ~hist[h].disable => work[w].plan <= hist[h].make
  BY <1>1 DEF WorkOrdersInv, RemakeMeetsPlan, Histories
<1>9. TxnSound(s)'
  BY <1>2, <1>4, <1>5, <1>6, <1>7, <1>8 DEF TxnSound
<1>10. QED
  BY <1>2, <1>5, <1>9, QuietInv

LEMMA CreateWorkOrderInv ==
    ASSUME TypeOK, WorkOrdersInv, Onward, CreateWorkOrder
    PROVE  WorkOrdersInv'
<1>1. PICK o \in Order \cup {NoOrder}, n \in PlanCount, c \in BOOLEAN :
        seq < MaxId /\ seq' = seq + 1 /\ work' = [work EXCEPT ![seq + 1] = NewWork(o, n, c)]
  BY DEF CreateWorkOrder
<1>2. hist' = hist /\ txn' = txn
  BY DEF CreateWorkOrder
<1>3. PICK a \in Id : a = seq + 1
  BY <1>1, ConstructionAssumption DEF Onward, Id
<1>4. work[a].status = "none"
  BY <1>3 DEF WorkOrdersInv, WorkIdsApart, Onward
<1>5. PICK row : row = NewWork(o, n, c)
  OBVIOUS
<1>6. ~row.finished /\ ~row.checked /\ row.status = "live"
  BY <1>5 DEF NewWork
<1>7. work'[a] = row /\ \A w \in Id \ {a} : work'[w] = work[w]
  BY <1>1, <1>3, <1>5 DEF TypeOK
<1>8. PlansKept
  BY <1>4, <1>7 DEF PlansKept
<1>9. \A i \in Id : i > seq' /\ work[i].status = "none" => work'[i].status = "none"
  BY <1>1, <1>3, <1>7 DEF Id, Onward
<1>10. Remembers /\ RemakeMeetsPlan' /\ WorkIdsApart'
  BY <1>2, <1>8, <1>9, SameHistories
<1>11. ASSUME NEW w \in LiveWork' PROVE RowSound(work[w], w)'
  <2>1. CASE w = a
    BY <2>1, <1>6, <1>7 DEF RowSound
  <2>2. CASE w # a
    <3>1. w \in LiveWork /\ work'[w] = work[w]
      BY <1>7, <1>11, <2>2 DEF LiveWork
    <3>2. PICK r : r = work[w]
      OBVIOUS
    <3>3. RowSound(r, w)'
      BY <1>10, <3>1, <3>2, RowStays DEF LiveWork, WorkOrdersInv
    <3>4. QED
      BY <3>1, <3>2, <3>3 DEF RowSound
  <2>3. QED
    BY <2>1, <2>2
<1>12. ASSUME NEW s \in Session PROVE TxnSound(s)'
  BY <1>2, <1>8, <1>10, TxnStays DEF WorkOrdersInv, PlansKept
<1>13. QED
  BY <1>10, <1>11, <1>12 DEF WorkOrdersInv

\* Only a work order no history, plan or shipping row refers to is deleted.
LEMMA DeleteWorkOrderInv ==
    ASSUME TypeOK, WorkOrdersInv, Onward, DeleteWorkOrder
    PROVE  WorkOrdersInv'
<1>1. PICK w \in LiveWork : work' = [work EXCEPT ![w].status = "deleted"]
  BY DEF DeleteWorkOrder
<1>2. hist' = hist /\ txn' = txn
  BY DEF DeleteWorkOrder
<1>3. w \in Id /\ work[w].status = "live" /\ work[w] \in WorkRow
  BY DEF LiveWork, TypeOK
<1>4. /\ work'[w].status = "deleted" /\ work'[w].plan = work[w].plan
      /\ \A v \in Id \ {w} : work'[v] = work[v]
  BY <1>1, <1>3 DEF TypeOK, WorkRow
<1>5. PlansKept
  BY <1>4 DEF PlansKept
<1>6. Remembers /\ RemakeMeetsPlan' /\ WorkIdsApart'
  BY <1>2, <1>3, <1>4, <1>5, SameHistories
<1>7. ASSUME NEW v \in LiveWork' PROVE RowSound(work[v], v)'
  <2>1. v \in LiveWork /\ work'[v] = work[v]
    BY <1>4, <1>7 DEF LiveWork
  <2>2. PICK r : r = work[v]
    OBVIOUS
  <2>3. RowSound(r, v)'
    BY <1>6, <2>1, <2>2, RowStays DEF LiveWork, WorkOrdersInv
  <2>4. QED
    BY <2>1, <2>2, <2>3 DEF RowSound
<1>8. ASSUME NEW s \in Session PROVE TxnSound(s)'
  BY <1>2, <1>5, <1>6, TxnStays DEF WorkOrdersInv, PlansKept
<1>9. QED
  BY <1>6, <1>7, <1>8 DEF WorkOrdersInv

\* A write of row i: the flush writes the computed row, or nothing when it is the row read.
Writes(i, was, row) ==
    /\ work[i].status = "live"
    /\ \/ work'[i] = row
       \/ work'[i] = work[i] /\ row = was
    /\ \A w \in Id \ {i} : work'[w] = work[w]

\* What a commit may do to the histories, of work order i with plan count p: leave
\* one, rewrite one of its own, or add one under a new id; a finished one in force
\* meets the plan.
Rewrites(i, p) ==
    \A h \in Id :
        \/ hist'[h] = hist[h]
        \/ /\ hist'[h].work = i
           /\ hist[h].work = i \/ (hist[h].work = 0 /\ h <= seq')
           /\ hist'[h].finished /\ ~hist'[h].disable => p <= hist'[h].make

LEMMA WriteWorkWrites ==
    ASSUME TypeOK, NEW t \in WorkTxn, NEW row, NEW dirty \in BOOLEAN, NEW n,
           WriteWork(t, row, dirty, n)
    PROVE  Writes(t.id, t.was, row)
<1>1. PICK i \in Id : i = t.id
  BY WorkTxnFields
<1>2. PICK new : new = IF dirty \/ row # t.was THEN row ELSE work[i]
  OBVIOUS
<1>3. work' = [work EXCEPT ![i] = new] /\ work[i].status = "live"
  BY <1>1, <1>2 DEF WriteWork, Flush
<1>4. work'[i] = new /\ \A w \in Id \ {i} : work'[w] = work[w]
  BY <1>3 DEF TypeOK
<1>5. new = row \/ (new = work[i] /\ row = t.was)
  BY <1>2
<1>6. QED
  BY <1>1, <1>3, <1>4, <1>5 DEF Writes

\* What a session read of a work order, without its name.
LEMMA ReadSound ==
    ASSUME WorkOrdersInv, NEW s \in Session, NEW t \in WorkTxn, t = txn[s]
    PROVE  /\ t.was.status = "live" /\ t.was.plan = work[t.id].plan
           /\ work[t.id].status # "none" /\ RowSound(t.was, t.id)
           /\ t.hist # 0 =>
                /\ t.hist \in Id /\ hist[t.hist].work = t.id /\ t.hwas.work = t.id
                /\ t.hwas.finished /\ ~t.hwas.disable => t.was.plan <= t.hwas.make
BY WorkTxnFields DEF WorkOrdersInv, TxnSound

\* The histories and plans of the work order after such a commit.
LEMMA RewritesRemembers ==
    ASSUME TypeOK, Onward, NEW i \in Id, NEW p, Rewrites(i, p)
    PROVE  Remembers
<1>1. \A h \in Histories : hist'[h].work = hist[h].work
  BY DEF Histories, Rewrites
<1>2. QED
  BY <1>1 DEF Remembers, Onward, Grows

\* The commit of a handler of work orders keeps the invariant when the row it computed
\* is sound in the new state.
LEMMA CommitInv ==
    ASSUME TypeOK, WorkOrdersInv, Onward, NEW s \in Session, Close(s),
           NEW t \in WorkTxn, t = txn[s], NEW row, Keeps(row, t.was),
           Writes(t.id, t.was, row), Rewrites(t.id, t.was.plan), RowSound(row, t.id)'
    PROVE  WorkOrdersInv'
<1>1. PICK i \in Id : i = t.id
  BY WorkTxnFields
<1>2. /\ t.was.status = "live" /\ t.was.plan = work[i].plan
      /\ row.status = "live" /\ row.plan = work[i].plan
  BY <1>1, ReadSound DEF Keeps
<1>3. /\ work[i].status = "live"
      /\ work'[i] = row \/ work'[i] = work[i]
      /\ \A w \in Id \ {i} : work'[w] = work[w]
  BY <1>1 DEF Writes
<1>4. /\ PlansKept
      /\ \A w \in Id : work'[w].status = work[w].status
      /\ \A w \in Id : work'[w].plan = work[w].plan
  BY <1>2, <1>3 DEF PlansKept
<1>5. Remembers
  BY <1>1, RewritesRemembers
<1>6. ASSUME NEW h \in Id, hist'[h].work # 0
      PROVE  /\ hist'[h].work \in Id /\ work'[hist'[h].work].status # "none"
             /\ hist'[h].finished /\ ~hist'[h].disable =>
                  work'[hist'[h].work].plan <= hist'[h].make
  <2>1. CASE hist'[h] = hist[h]
    <3>1. PICK w \in Id : w = hist[h].work /\ work[w].status # "none"
      BY <1>6, <2>1 DEF WorkOrdersInv, WorkIdsApart, Histories
    <3>2. hist[h].finished /\ ~hist[h].disable => work[w].plan <= hist[h].make
      BY <3>1, <1>6, <2>1 DEF WorkOrdersInv, RemakeMeetsPlan, Histories
    <3>3. QED
      BY <2>1, <3>1, <3>2, <1>4
  <2>2. CASE /\ hist'[h].work = i
             /\ hist'[h].finished /\ ~hist'[h].disable => t.was.plan <= hist'[h].make
    BY <2>2, <1>2, <1>3, <1>4
  <2>3. QED
    BY <1>1, <2>1, <2>2 DEF Rewrites
<1>7. RemakeMeetsPlan'
  BY <1>6 DEF RemakeMeetsPlan, Histories
<1>8. ASSUME NEW j \in Id, j > seq' PROVE work'[j].status = "none" /\ hist'[j].work = 0
  <2>1. j \in Int /\ j > seq /\ ~(j <= seq')
    BY <1>8 DEF Onward, Id
  <2>2. work[j].status = "none" /\ hist[j].work = 0
    BY <2>1 DEF WorkOrdersInv, WorkIdsApart
  <2>3. hist[j].work # i
    BY <2>2, IdNat
  <2>4. QED
    BY <2>1, <2>2, <2>3, <1>1, <1>4 DEF Rewrites
<1>9. WorkIdsApart'
  BY <1>6, <1>8 DEF WorkIdsApart, Histories
<1>10. ASSUME NEW w \in LiveWork' PROVE RowSound(work[w], w)'
  <2>1. w \in Id /\ RowSound(work[w], w)
    BY <1>4, <1>10 DEF LiveWork, WorkOrdersInv
  <2>2. PICK r : r = work[w]
    OBVIOUS
  <2>3. RowSound(r, w)'
    BY <1>5, <2>1, <2>2, RowStays
  <2>4. CASE work'[w] = work[w]
    BY <2>2, <2>3, <2>4 DEF RowSound
  <2>5. CASE w = i /\ work'[w] = row
    BY <2>5, <1>1 DEF RowSound
  <2>6. QED
    BY <1>3, <2>1, <2>4, <2>5
<1>11. ASSUME NEW r \in Session PROVE TxnSound(r)'
  <2>1. CASE txn'[r] = txn[r]
    BY <2>1, <1>4, <1>5, TxnStays DEF WorkOrdersInv, PlansKept
  <2>2. QED
    BY <2>1, ClosedSound
<1>12. QED
  BY <1>7, <1>9, <1>10, <1>11 DEF WorkOrdersInv

LEMMA PlanWorkPlans ==
    ASSUME TypeOK, NEW w \in Id, PlanWork(w)
    PROVE  PlansOf(w)' # {}
<1>1. PICK b \in Id : b = PlanId
  BY IdNat, ConstructionAssumption DEF TypeOK, ConstructionTypeOK, PlanWork, PlanId, Id
<1>2. plans' = [plans EXCEPT ![b] = [NoPlan EXCEPT !.work = w]]
  BY <1>1 DEF PlanWork
<1>3. plans'[b].work = w
  BY <1>2 DEF TypeOK, ConstructionTypeOK, NoPlan
<1>4. QED
  BY <1>3 DEF PlansOf

\* A report: the completed row is sound as the construction work is planned with it.
LEMMA CommitCompleteInv ==
    ASSUME TypeOK, WorkOrdersInv, Onward, NEW s \in Session, CommitComplete(s)
    PROVE  WorkOrdersInv'
<1>1. PICK t \in WorkTxn : t = txn[s]
  BY WorkSession DEF CommitComplete
<1>2. /\ t.id \in Id /\ t.was \in WorkRow /\ t.hwas \in HistRow /\ t.hist \in IdOrNone
      /\ t.was.plan \in Nat /\ t.was.make \in Nat /\ t.hwas.make \in Nat
  BY WorkTxnFields, WorkRowFields, HistRowFields
<1>3. PICK n \in Count :
        LET hrow == CompletedHist(t.hwas, t.was.plan, n)
            row == IF t.hist = 0 THEN CompletedRow(t.was, n)
                   ELSE RemadeRow(t.was, t.hwas, n)
            due == t.hist # 0 => t.was.plan <= hrow.make
        IN  /\ WriteWork(t, row, FALSE, n)
            /\ hist' = IF t.hist = 0 THEN hist ELSE [hist EXCEPT ![t.hist] = hrow]
            /\ IF due /\ NeedsPlan(row) THEN PlanWork(t.id) ELSE UNCHANGED cvars
  BY <1>1 DEF CommitComplete, WriteWork
<1>4. PICK hrow \in HistRow : hrow = CompletedHist(t.hwas, t.was.plan, n)
  BY <1>2, CompletedHistFacts
<1>5. PICK row \in WorkRow : row = IF t.hist = 0 THEN CompletedRow(t.was, n)
                                   ELSE RemadeRow(t.was, t.hwas, n)
  BY <1>2, CompletedRowFacts, RemadeRowFacts DEF Keeps
<1>6. /\ WriteWork(t, row, FALSE, n)
      /\ hist' = IF t.hist = 0 THEN hist ELSE [hist EXCEPT ![t.hist] = hrow]
      /\ (t.hist # 0 => t.was.plan <= hrow.make) /\ row.construction /\ row.plan <= row.make
           => PlanWork(t.id)
  BY <1>3, <1>4, <1>5 DEF WriteWork, NeedsPlan, Reached
<1>7. Writes(t.id, t.was, row)
  BY <1>6, WriteWorkWrites
<1>8. /\ t.was.plan = work[t.id].plan /\ RowSound(t.was, t.id)
      /\ t.hist # 0 =>
           /\ t.hist \in Id /\ hist[t.hist].work = t.id /\ t.hwas.work = t.id
           /\ t.hwas.finished /\ ~t.hwas.disable => t.was.plan <= t.hwas.make
  BY <1>1, ReadSound
<1>9. /\ hrow.work = t.hwas.work /\ hrow.make = t.hwas.make + n /\ n \in Nat
      /\ hrow.disable = t.hwas.disable
      /\ hrow.finished => t.hwas.finished \/ t.was.plan <= hrow.make
  BY <1>2, <1>4, CompletedHistFacts, WorkOrdersAssumption
<1>10. t.hist # 0 => hist'[t.hist] = hrow /\ \A h \in Id \ {t.hist} : hist'[h] = hist[h]
  BY <1>6, <1>8 DEF TypeOK
<1>11. Rewrites(t.id, t.was.plan)
  <2>1. CASE t.hist = 0
    BY <2>1, <1>6 DEF Rewrites
  <2>2. CASE t.hist # 0
    <3>1. hrow.work = t.id /\ hist[t.hist].work = t.id
      BY <2>2, <1>8, <1>9
    <3>2. hrow.finished /\ ~hrow.disable => t.was.plan <= hrow.make
      BY <2>2, <1>2, <1>8, <1>9
    <3>3. QED
      BY <2>2, <3>1, <3>2, <1>10 DEF Rewrites
  <2>3. QED
    BY <2>1, <2>2
<1>12. RowSound(t.was, t.id)'
  BY <1>2, <1>8, <1>11, RewritesRemembers, RowStays
<1>13. /\ Keeps(row, t.was) /\ row.make = t.was.make + n /\ row.failed = t.was.failed
       /\ t.hist = 0 => /\ row.finished => t.was.finished \/ row.plan <= row.make
                        /\ row.checked => t.was.checked \/ row.plan <= row.make
       /\ t.hist # 0 => (row.checked =>
            t.was.checked \/ (t.was.plan <= hrow.make /\ row.plan <= row.make))
  <2>1. CASE t.hist = 0
    BY <2>1, <1>2, <1>5, CompletedRowFacts
  <2>2. CASE t.hist # 0
    BY <2>2, <1>2, <1>5, <1>9, RemadeRowFacts
  <2>3. QED
    BY <2>1, <2>2
<1>14. row.plan = t.was.plan /\ row.construction = t.was.construction
  BY <1>13 DEF Keeps
<1>15. PlanWork(t.id) => PlansOf(t.id)' # {}
  BY <1>2, PlanWorkPlans
<1>16. RowSound(row, t.id)'
  <2>1. CASE t.hist = 0
    BY <2>1, <1>2, <1>6, <1>9, <1>12, <1>13, <1>14, <1>15 DEF RowSound
  <2>2. CASE t.hist # 0
    <3>1. HistoriesOf(t.id)' # {}
      BY <2>2, <1>8, <1>9, <1>10 DEF HistoriesOf
    <3>2. QED
      BY <2>2, <3>1, <1>6, <1>12, <1>13, <1>14, <1>15 DEF RowSound
  <2>3. QED
    BY <2>1, <2>2
<1>17. Close(s)
  BY DEF CommitComplete
<1>18. QED
  BY <1>1, <1>7, <1>11, <1>13, <1>16, <1>17, CommitInv

\* A declaration by the office makes the whole plan and plans the construction work.
LEMMA CommitManageInv ==
    ASSUME TypeOK, WorkOrdersInv, Onward, NEW s \in Session, CommitManage(s)
    PROVE  WorkOrdersInv'
<1>1. PICK t \in WorkTxn : t = txn[s]
  BY WorkSession DEF CommitManage
<1>2. t.id \in Id /\ t.was \in WorkRow /\ t.was.plan \in Nat
  BY WorkTxnFields, WorkRowFields
<1>3. PICK row \in WorkRow : row = ManagedRow(t.was)
  BY <1>2, ManagedRowFacts DEF Keeps
<1>4. PICK n : n = t.was.plan - t.was.make
  OBVIOUS
<1>5. /\ WriteWork(t, row, TRUE, n) /\ hist' = hist /\ Close(s)
      /\ row.construction => PlanWork(t.id)
  BY <1>1, <1>3, <1>4 DEF CommitManage, WriteWork
<1>6. Writes(t.id, t.was, row)
  BY <1>5, WriteWorkWrites
<1>7. Keeps(row, t.was) /\ row.make = row.plan /\ row.plan \in Nat
  BY <1>2, <1>3, ManagedRowFacts DEF Keeps
<1>8. Rewrites(t.id, t.was.plan)
  BY <1>5 DEF Rewrites
<1>9. RowSound(row, t.id)'
  BY <1>2, <1>5, <1>7, PlanWorkPlans DEF RowSound
<1>10. QED
  BY <1>1, <1>5, <1>6, <1>7, <1>8, <1>9, CommitInv

\* A failure: the row is failed, or as it was; the history is disabled or new.
LEMMA CommitFailInv ==
    ASSUME TypeOK, WorkOrdersInv, Onward, NEW s \in Session, CommitFail(s)
    PROVE  WorkOrdersInv'
<1>1. PICK t \in WorkTxn : t = txn[s]
  BY WorkSession DEF CommitFail
<1>2. t.id \in Id /\ t.was \in WorkRow /\ t.hwas \in HistRow
  BY WorkTxnFields
<1>3. PICK off \in HistRow : off = DisabledHist(t.hwas)
  BY <1>2, DisabledHistFacts
<1>4. PICK old : old = IF t.hist = 0 THEN hist
                       ELSE [hist EXCEPT ![t.hist] = Flush(@, t.hwas, off)]
  OBVIOUS
<1>5. PICK remake \in BOOLEAN :
        /\ \/ WriteWork(t, FailedRow(t.was), FALSE, -t.was.make)
           \/ WriteWork(t, WebFailedRow(t.was, remake), ~remake, 0)
        /\ IF remake THEN /\ seq < MaxId /\ seq' = seq + 1
                          /\ hist' = [old EXCEPT ![seq + 1] = NewHist(t.id)]
           ELSE seq' = seq /\ hist' = old
  BY <1>1, <1>3, <1>4 DEF CommitFail, WriteWork
<1>6. /\ RowSound(t.was, t.id)
      /\ t.hist # 0 => t.hist \in Id /\ hist[t.hist].work = t.id /\ t.hwas.work = t.id
  BY <1>1, ReadSound
<1>7. off.work = t.hwas.work /\ off.disable
  BY <1>2, <1>3, DisabledHistFacts
<1>8. \A h \in Id : \/ old[h] = hist[h]
                    \/ h = t.hist /\ hist[h].work = t.id /\ old[h].work = t.id /\ old[h].disable
  BY <1>4, <1>6, <1>7 DEF TypeOK, Flush
<1>9. \A h \in Id : \/ hist'[h] = old[h]
                    \/ hist[h].work = 0 /\ h <= seq' /\ hist'[h] = NewHist(t.id)
  <2>1. CASE ~remake
    BY <2>1, <1>5
  <2>2. CASE remake
    <3>1. PICK a \in Id : a = seq + 1 /\ a = seq'
      BY <2>2, <1>5, ConstructionAssumption DEF Id, Onward
    <3>2. hist[a].work = 0 /\ a <= seq'
      BY <3>1 DEF WorkOrdersInv, WorkIdsApart, Onward
    <3>3. hist' = [old EXCEPT ![a] = NewHist(t.id)]
      BY <2>2, <3>1, <1>5
    <3>4. old \in [Id -> HistRow]
      BY <1>4 DEF TypeOK, Flush
    <3>5. QED
      BY <3>2, <3>3, <3>4
  <2>3. QED
    BY <2>1, <2>2
<1>10. NewHist(t.id).work = t.id /\ ~NewHist(t.id).finished
  BY DEF NewHist, NoHist
<1>11. Rewrites(t.id, t.was.plan)
  BY <1>8, <1>9, <1>10 DEF Rewrites
<1>12. RowSound(t.was, t.id)'
  BY <1>2, <1>6, <1>11, RewritesRemembers, RowStays
<1>13. Close(s)
  BY DEF CommitFail
<1>14. CASE WriteWork(t, FailedRow(t.was), FALSE, -t.was.make)
  <2>1. PICK row : row = FailedRow(t.was)
    OBVIOUS
  <2>2. Keeps(row, t.was) /\ row.failed /\ row.checked = t.was.checked
    BY <1>2, <2>1, FailedRowFacts
  <2>3. Writes(t.id, t.was, row)
    BY <1>14, <2>1, WriteWorkWrites
  <2>4. RowSound(row, t.id)'
    BY <1>12, <2>2 DEF RowSound, Keeps
  <2>5. QED
    BY <1>1, <1>11, <1>13, <2>2, <2>3, <2>4, CommitInv
<1>15. CASE WriteWork(t, WebFailedRow(t.was, remake), ~remake, 0)
  <2>1. PICK row : row = WebFailedRow(t.was, remake)
    OBVIOUS
  <2>2. /\ Keeps(row, t.was) /\ row.make = t.was.make /\ row.checked = t.was.checked
        /\ row.failed = (t.was.failed \/ remake)
        /\ row.finished = (t.was.finished /\ (t.was.failed \/ ~remake))
    BY <1>2, <2>1, WebFailedRowFacts
  <2>3. PICK d \in BOOLEAN : d = ~remake
    OBVIOUS
  <2>4. WriteWork(t, row, d, 0)
    BY <1>15, <2>1, <2>3 DEF WriteWork
  <2>5. Writes(t.id, t.was, row)
    BY <2>4, WriteWorkWrites
  <2>6. RowSound(row, t.id)'
    BY <1>12, <2>2 DEF RowSound, Keeps
  <2>7. QED
    BY <1>1, <1>11, <1>13, <2>2, <2>5, <2>6, CommitInv
<1>16. QED
  BY <1>5, <1>14, <1>15

LEMMA CommitTouchInv ==
    ASSUME TypeOK, WorkOrdersInv, Onward, NEW s \in Session, CommitTouch(s)
    PROVE  WorkOrdersInv'
<1>1. PICK t \in WorkTxn : t = txn[s]
  BY WorkSession DEF CommitTouch
<1>2. t.id \in Id /\ t.was \in WorkRow
  BY WorkTxnFields
<1>3. PICK p \in BOOLEAN : work' = [work EXCEPT ![t.id] = [t.was EXCEPT !.printer = @ \/ p]]
  BY <1>1 DEF CommitTouch
<1>4. PICK row : row = [t.was EXCEPT !.printer = @ \/ p]
  OBVIOUS
<1>5. /\ Keeps(row, t.was) /\ row.make = t.was.make /\ row.finished = t.was.finished
      /\ row.failed = t.was.failed /\ row.checked = t.was.checked
  BY <1>2, <1>4, TouchedRowFacts
<1>6. work[t.id].status = "live" /\ hist' = hist /\ Close(s)
  BY <1>1 DEF CommitTouch
<1>7. Writes(t.id, t.was, row)
  BY <1>2, <1>3, <1>4, <1>6 DEF Writes, TypeOK
<1>8. Rewrites(t.id, t.was.plan)
  BY <1>6 DEF Rewrites
<1>9. RowSound(t.was, t.id)'
  BY <1>1, <1>2, <1>8, ReadSound, RewritesRemembers, RowStays
<1>10. RowSound(row, t.id)'
  BY <1>5, <1>9 DEF RowSound, Keeps
<1>11. QED
  BY <1>1, <1>5, <1>6, <1>7, <1>8, <1>10, CommitInv

LEMMA WorkNextInv ==
    TypeOK /\ ConstructionInv /\ WorkOrdersInv /\ [Next]_vars => WorkOrdersInv'
<1> SUFFICES ASSUME TypeOK, ConstructionInv, WorkOrdersInv, [Next]_vars
             PROVE  WorkOrdersInv'
  OBVIOUS
<1>1. Onward
  BY NextOnward
<1>2. CASE Instant
  <2>1. CASE CreateOrderInfo \/ DeleteOrderInfo
    BY <2>1, <1>1, QuietInv DEF CreateOrderInfo, DeleteOrderInfo
  <2>2. CASE CreateWorkOrder
    BY <2>2, <1>1, CreateWorkOrderInv
  <2>3. CASE DeleteWorkOrder
    BY <2>3, <1>1, DeleteWorkOrderInv
  <2>4. QED
    BY <1>2, <2>1, <2>2, <2>3 DEF Instant
<1>3. ASSUME NEW s \in Session, SessionStep(s) PROVE WorkOrdersInv'
  <2>1. CASE BeginUpdateOrder(s)
    <3>1. PICK o \in Order :
            txn' = [txn EXCEPT ![s] =
                      [op |-> "order", order |-> o, production |-> orders[o].production]]
      BY <2>1 DEF BeginUpdateOrder
    <3>2. PICK t : t = [op |-> "order", order |-> o, production |-> orders[o].production]
      OBVIOUS
    <3>3. txn'[s] = t /\ t.op = "order" /\ \A r \in Session \ {s} : txn'[r] = txn[r]
      BY <3>1, <3>2 DEF TypeOK
    <3>4. TxnSound(s)'
      BY <3>3, OtherTxnSound
    <3>5. work' = work /\ hist' = hist
      BY <2>1 DEF BeginUpdateOrder
    <3>6. QED
      BY <1>1, <3>3, <3>4, <3>5, QuietInv
  <2>2. CASE CommitUpdateOrder(s) \/ CommitDefective(s) \/ Rollback(s)
    <3>1. Close(s) /\ work' = work /\ hist' = hist
      BY <2>2 DEF CommitUpdateOrder, CommitDefective, Rollback
    <3>2. QED
      BY <1>1, <3>1, ClosedSound, QuietInv
  <2>3. QED
    BY <1>1, <1>3, <2>1, <2>2, ReadWorkInv, CommitCompleteInv, CommitManageInv, CommitFailInv,
       CommitTouchInv DEF SessionStep
<1>4. CASE Beside \/ UNCHANGED vars
  BY <1>1, <1>4, QuietInv DEF Beside, vars, wvars
<1>5. QED
  BY <1>2, <1>3, <1>4 DEF Next

LEMMA WorkInitInv == Init => WorkOrdersInv
<1> SUFFICES ASSUME Init PROVE WorkOrdersInv
  OBVIOUS
<1>1. \A i \in Id : work[i].status = "none" /\ hist[i].work = 0
  BY DEF Init, NoWork, NewWork, NoHist
<1>2. Histories = {} /\ LiveWork = {}
  BY <1>1 DEF Histories, LiveWork
<1>3. \A s \in Session : TxnSound(s)
  BY DEF Init, TxnSound, Idle
<1>4. QED
  BY <1>1, <1>2, <1>3 DEF WorkOrdersInv, RemakeMeetsPlan, WorkIdsApart
----------------------------------------------------------------------------
(* The properties. *)

\* The invariants of Construction hold of the whole system, work orders included.
THEOREM WorkConstructionCorrect == Spec => []ConstructionInv
BY WorkRefinesConstruction, ConstructionCorrect, PTL DEF ConstructionSide

\* The inductive invariant of work orders holds in every reachable state.
THEOREM WorkOrdersCorrect == Spec => []WorkOrdersInv
BY WorkTypeCorrect, WorkConstructionCorrect, WorkInitInv, WorkNextInv, PTL DEF Spec

\* A work order that is finished and has no failure on record met its plan, however
\* reports, failures, remakes and declarations overlap.
THEOREM FinishedMeetsPlanCorrect == Spec => []FinishedMeetsPlan
<1>1. WorkOrdersInv => FinishedMeetsPlan
  BY DEF WorkOrdersInv, RowSound, FinishedMeetsPlan, NoFailure
<1>2. QED
  BY <1>1, WorkOrdersCorrect, PTL

\* A remake that is finished and still in force has met the plan by itself.
THEOREM RemakeMeetsPlanCorrect == Spec => []RemakeMeetsPlan
<1>1. WorkOrdersInv => RemakeMeetsPlan
  BY DEF WorkOrdersInv
<1>2. QED
  BY <1>1, WorkOrdersCorrect, PTL

\* A work order that needs installing and was checked by the making team, or finished
\* without a failure, has a construction plan.
THEOREM FinishedIsPlannedCorrect == Spec => []FinishedIsPlanned
<1>1. WorkOrdersInv => FinishedIsPlanned
  BY DEF WorkOrdersInv, RowSound, FinishedIsPlanned, NoFailure
<1>2. QED
  BY <1>1, WorkOrdersCorrect, PTL
----------------------------------------------------------------------------
(* One production request at a time: makeCount is exact.                     *)

\* A step of one request at a time is a step.
LEMMA SerialIsNext == [SerialNext]_vars => [Next]_vars
BY DEF SerialNext, Next

THEOREM SerialTypeCorrect == SerialSpec => []TypeOK
BY WorkInitType, WorkNextType, SerialIsNext, PTL DEF SerialSpec

LEMMA SerialIsSpec == SerialSpec => Spec
BY SerialIsNext, PTL DEF SerialSpec, Spec

\* What an open request read of its work order is still the row.
WorkFresh(s) == txn[s].op = "work" => txn[s].was = work[txn[s].id]

\* Besides, no change is announced of a work order that does not exist.
SerialInv ==
    /\ MakeCountReconciles
    /\ \A w \in Id : work[w].status = "none" => tally[w] = 0
    /\ \A s \in Session : WorkFresh(s)

\* A row written with n more made; only a first failure reopens it.
MadeBy(new, was, n) ==
    /\ new \in WorkRow /\ new.status = was.status /\ new.make = was.make + n
    /\ was.finished /\ ~new.finished => ~was.failed /\ new.failed

\* The request of s wrote one live work order so, or none.
Made ==
    \/ work' = work /\ tally' = tally
    \/ \E i \in LiveWork, new \in WorkRow, n \in Int :
         /\ MadeBy(new, work[i], n)
         /\ work' = [work EXCEPT ![i] = new]
         /\ tally' = [tally EXCEPT ![i] = @ + n]

\* The flush of a row that is as it was read.
LEMMA WriteWorkMade ==
    ASSUME TypeOK, NEW t \in WorkTxn, t.was = work[t.id], NEW new, NEW dirty \in BOOLEAN,
           NEW n \in Int, MadeBy(new, t.was, n), WriteWork(t, new, dirty, n)
    PROVE  Made
<1>1. PICK i \in Id : i = t.id
  BY WorkTxnFields
<1>2. work[i].status = "live" /\ tally' = [tally EXCEPT ![i] = @ + n]
  BY <1>1 DEF WriteWork
<1>3. work' = [work EXCEPT ![i] = new]
  <2>1. work' = [work EXCEPT ![i] = IF dirty \/ new # t.was THEN new ELSE work[i]]
    BY <1>1 DEF WriteWork, Flush
  <2>2. (IF dirty \/ new # t.was THEN new ELSE work[i]) = new
    BY <1>1
  <2>3. QED
    BY <2>1, <2>2
<1>4. i \in LiveWork
  BY <1>2 DEF LiveWork
<1>5. new \in WorkRow /\ MadeBy(new, work[i], n)
  BY <1>1 DEF MadeBy
<1>6. QED
  BY <1>2, <1>3, <1>4, <1>5 DEF Made

LEMMA CommitCompleteMade ==
    ASSUME TypeOK, NEW s \in Session, WorkFresh(s), CommitComplete(s)
    PROVE  Made
<1>1. PICK t \in WorkTxn : t = txn[s] /\ t.was = work[t.id]
  BY WorkSession, WorkTxnFields DEF CommitComplete, WorkFresh
<1>2. t.was \in WorkRow /\ t.hwas \in HistRow
  BY WorkTxnFields
<1>3. PICK n \in Count : WriteWork(t, IF t.hist = 0 THEN CompletedRow(t.was, n)
                                      ELSE RemadeRow(t.was, t.hwas, n), FALSE, n)
  BY <1>1 DEF CommitComplete, WriteWork
<1>4. PICK new : new = IF t.hist = 0 THEN CompletedRow(t.was, n)
                       ELSE RemadeRow(t.was, t.hwas, n)
  OBVIOUS
<1>5. MadeBy(new, t.was, n)
  BY <1>2, <1>4, CompletedRowFacts, RemadeRowFacts DEF Keeps, MadeBy
<1>6. WriteWork(t, new, FALSE, n) /\ n \in Int
  BY <1>3, <1>4, WorkOrdersAssumption DEF WriteWork
<1>7. QED
  BY <1>1, <1>5, <1>6, WriteWorkMade

LEMMA CommitManageMade ==
    ASSUME TypeOK, NEW s \in Session, WorkFresh(s), CommitManage(s)
    PROVE  Made
<1>1. PICK t \in WorkTxn : t = txn[s] /\ t.was = work[t.id]
  BY WorkSession, WorkTxnFields DEF CommitManage, WorkFresh
<1>2. t.was \in WorkRow /\ t.was.plan \in Nat /\ t.was.make \in Nat
  BY WorkTxnFields, WorkRowFields
<1>3. PICK new : new = ManagedRow(t.was)
  OBVIOUS
<1>4. PICK n \in Int : n = t.was.plan - t.was.make
  BY <1>2
<1>5. WriteWork(t, new, TRUE, n)
  BY <1>1, <1>3, <1>4 DEF CommitManage, WriteWork
<1>6. MadeBy(new, t.was, n)
  <2>1. Keeps(new, t.was) /\ new.make = new.plan /\ new.finished
    BY <1>2, <1>3, ManagedRowFacts
  <2>2. new.make = t.was.make + n
    BY <1>2, <1>4, <2>1 DEF Keeps
  <2>3. QED
    BY <2>1, <2>2 DEF Keeps, MadeBy
<1>7. QED
  BY <1>1, <1>5, <1>6, WriteWorkMade

LEMMA CommitFailMade ==
    ASSUME TypeOK, NEW s \in Session, WorkFresh(s), CommitFail(s)
    PROVE  Made
<1>1. PICK t \in WorkTxn : t = txn[s] /\ t.was = work[t.id]
  BY WorkSession, WorkTxnFields DEF CommitFail, WorkFresh
<1>2. t.was \in WorkRow /\ t.was.make \in Nat
  BY WorkTxnFields, WorkRowFields
<1>3. PICK remake \in BOOLEAN :
        \/ WriteWork(t, FailedRow(t.was), FALSE, -t.was.make)
        \/ WriteWork(t, WebFailedRow(t.was, remake), ~remake, 0)
  BY <1>1 DEF CommitFail, WriteWork
<1>4. CASE WriteWork(t, FailedRow(t.was), FALSE, -t.was.make)
  <2>1. PICK n \in Int : n = -t.was.make
    BY <1>2
  <2>2. PICK new : new = FailedRow(t.was)
    OBVIOUS
  <2>3. /\ Keeps(new, t.was) /\ new.failed /\ new.make = 0
        /\ new.finished = (t.was.finished /\ t.was.failed)
    BY <1>2, <2>2, FailedRowFacts
  <2>4. new.make = t.was.make + n
    BY <1>2, <2>1, <2>3
  <2>5. MadeBy(new, t.was, n)
    BY <2>3, <2>4 DEF Keeps, MadeBy
  <2>6. WriteWork(t, new, FALSE, n)
    BY <1>4, <2>1, <2>2 DEF WriteWork
  <2>7. QED
    BY <1>1, <2>5, <2>6, WriteWorkMade
<1>5. CASE WriteWork(t, WebFailedRow(t.was, remake), ~remake, 0)
  <2>1. PICK d \in BOOLEAN : d = ~remake
    OBVIOUS
  <2>2. PICK new : new = WebFailedRow(t.was, remake)
    OBVIOUS
  <2>3. /\ Keeps(new, t.was) /\ new.make = t.was.make
        /\ new.failed = (t.was.failed \/ remake)
        /\ new.finished = (t.was.finished /\ (t.was.failed \/ ~remake))
    BY <1>2, <2>2, WebFailedRowFacts
  <2>4. new.make = t.was.make + 0
    BY <1>2, <2>3
  <2>5. MadeBy(new, t.was, 0)
    BY <2>3, <2>4 DEF Keeps, MadeBy
  <2>6. WriteWork(t, new, d, 0)
    BY <1>5, <2>1, <2>2 DEF WriteWork
  <2>7. QED
    BY <1>1, <2>5, <2>6, WriteWorkMade
<1>6. QED
  BY <1>3, <1>4, <1>5

LEMMA CommitTouchMade ==
    ASSUME TypeOK, NEW s \in Session, WorkFresh(s), CommitTouch(s)
    PROVE  Made
<1>1. PICK t \in WorkTxn : t = txn[s] /\ t.was = work[t.id]
  BY WorkSession, WorkTxnFields DEF CommitTouch, WorkFresh
<1>2. PICK i \in Id : i = t.id
  BY WorkTxnFields
<1>3. PICK p \in BOOLEAN : work' = [work EXCEPT ![i] = [t.was EXCEPT !.printer = @ \/ p]]
  BY <1>1, <1>2 DEF CommitTouch
<1>4. PICK new : new = [t.was EXCEPT !.printer = @ \/ p]
  OBVIOUS
<1>5. /\ Keeps(new, t.was) /\ new.make = t.was.make /\ new.finished = t.was.finished
      /\ t.was.make \in Nat
  BY <1>4, TouchedRowFacts, WorkTxnFields, WorkRowFields
<1>6. MadeBy(new, work[i], 0)
  BY <1>1, <1>2, <1>5 DEF Keeps, MadeBy
<1>7. work' = [work EXCEPT ![i] = new] /\ i \in LiveWork /\ new \in WorkRow
  BY <1>1, <1>2, <1>3, <1>4, <1>5 DEF CommitTouch, LiveWork, Keeps
<1>8. tally' = [tally EXCEPT ![i] = @ + 0]
  BY <1>2 DEF CommitTouch, TypeOK
<1>9. 0 \in Int
  OBVIOUS
<1>10. QED
  BY <1>6, <1>7, <1>8, <1>9 DEF Made

\* What one session's step does to work orders, and what it leaves it with.
LEMMA SessionMade ==
    ASSUME TypeOK, NEW s \in Session, WorkFresh(s), SessionStep(s)
    PROVE  Made
<1>1. CASE \/ BeginUpdateOrder(s) \/ CommitUpdateOrder(s) \/ ReadWork(s)
           \/ CommitDefective(s) \/ Rollback(s)
  BY <1>1 DEF BeginUpdateOrder, CommitUpdateOrder, ReadWork, CommitDefective, Rollback, Made
<1>2. QED
  BY <1>1, CommitCompleteMade, CommitManageMade, CommitFailMade, CommitTouchMade
  DEF SessionStep

LEMMA SessionFresh ==
    ASSUME TypeOK, NEW s \in Session, SessionStep(s)
    PROVE  WorkFresh(s)' /\ \A r \in Session \ {s} : txn'[r] = txn[r]
<1>1. CASE ReadWork(s)
  <2>1. PICK w \in LiveWork, h \in {0} \cup Histories :
          txn' = [txn EXCEPT ![s] =
             [op |-> "work", id |-> w, was |-> work[w],
              hist |-> h, hwas |-> IF h = 0 THEN NoHist ELSE hist[h],
              production |-> Produced(work[w].order)]]
    BY <1>1 DEF ReadWork
  <2>2. PICK t : t = [op |-> "work", id |-> w, was |-> work[w],
              hist |-> h, hwas |-> IF h = 0 THEN NoHist ELSE hist[h],
              production |-> Produced(work[w].order)]
    OBVIOUS
  <2>3. t.was = work[t.id] /\ work' = work
    BY <1>1, <2>2 DEF ReadWork
  <2>4. txn' = [txn EXCEPT ![s] = t]
    BY <2>1, <2>2
  <2>5. QED
    BY <2>3, <2>4 DEF TypeOK, WorkFresh
<1>2. CASE BeginUpdateOrder(s)
  <2>1. PICK o \in Order : txn' = [txn EXCEPT ![s] =
               [op |-> "order", order |-> o, production |-> orders[o].production]]
    BY <1>2 DEF BeginUpdateOrder
  <2>2. QED
    BY <2>1 DEF TypeOK, WorkFresh
<1>3. CASE Close(s)
  BY <1>3 DEF Close, Idle, TypeOK, WorkFresh
<1>4. QED
  BY <1>1, <1>2, <1>3 DEF SessionStep, CommitUpdateOrder, CommitComplete, CommitDefective,
     CommitManage, CommitFail, CommitTouch, Rollback

\* The other sessions are closed while one takes its steps.
LEMMA SerialSession ==
    ASSUME TypeOK, SerialInv, NEW s \in Session,
           \A r \in Session \ {s} : ~IsOpen(r), SessionStep(s)
    PROVE  SerialInv'
<1>1. Made
  BY SessionMade DEF SerialInv
<1>2. \A r \in Session : WorkFresh(r)'
  <2>1. \A r \in Session \ {s} : txn'[r].op # "work"
    BY SessionFresh DEF IsOpen
  <2>2. QED
    BY <2>1, SessionFresh DEF WorkFresh
<1>3. CASE work' = work /\ tally' = tally
  BY <1>2, <1>3 DEF SerialInv, MakeCountReconciles, LiveWork
<1>4. ASSUME NEW i \in LiveWork, NEW new \in WorkRow, NEW n \in Int,
             MadeBy(new, work[i], n), work' = [work EXCEPT ![i] = new],
             tally' = [tally EXCEPT ![i] = @ + n]
      PROVE  SerialInv'
  <2>1. i \in Id /\ work[i].status = "live" /\ work[i].make = tally[i]
    BY DEF LiveWork, SerialInv, MakeCountReconciles
  <2>2. new.status = "live" /\ new.make = tally[i] + n
    BY <1>4, <2>1 DEF MadeBy
  <2>3. work'[i] = new /\ tally'[i] = tally[i] + n
    BY <1>4, <2>1 DEF TypeOK
  <2>4. \A w \in Id \ {i} : work'[w] = work[w] /\ tally'[w] = tally[w]
    BY <1>4 DEF TypeOK
  <2>5. \A w \in Id : work'[w].status = "live" => work'[w].make = tally'[w]
    BY <2>2, <2>3, <2>4 DEF SerialInv, MakeCountReconciles, LiveWork
  <2>6. \A w \in Id : work'[w].status = "none" => tally'[w] = 0
    BY <2>2, <2>3, <2>4 DEF SerialInv
  <2>7. QED
    BY <1>2, <2>5, <2>6 DEF SerialInv, MakeCountReconciles, LiveWork
<1>5. QED
  BY <1>1, <1>3, <1>4 DEF Made

LEMMA SerialInstant ==
    ASSUME TypeOK, WorkOrdersInv, SerialInv, \A s \in Session : ~IsOpen(s), Instant
    PROVE  SerialInv'
<1>1. txn' = txn /\ tally' = tally
  BY DEF Instant, CreateOrderInfo, DeleteOrderInfo, CreateWorkOrder, DeleteWorkOrder
<1>2. \A s \in Session : WorkFresh(s)'
  BY <1>1 DEF IsOpen, WorkFresh
<1>3. CASE work' = work
  BY <1>1, <1>2, <1>3 DEF SerialInv, MakeCountReconciles, LiveWork
<1>4. CASE CreateWorkOrder
  <2>1. PICK o \in Order \cup {NoOrder}, n \in PlanCount, c \in BOOLEAN :
          seq < MaxId /\ work' = [work EXCEPT ![seq + 1] = NewWork(o, n, c)]
    BY <1>4 DEF CreateWorkOrder
  <2>2. PICK i \in Id : i = seq + 1 /\ i > seq
    BY <2>1, ConstructionAssumption DEF TypeOK, ConstructionTypeOK, IdOrNone, Id
  <2>3. tally[i] = 0
    BY <2>2 DEF WorkOrdersInv, WorkIdsApart, SerialInv
  <2>4. work'[i].status = "live" /\ work'[i].make = 0
    BY <2>1, <2>2 DEF TypeOK, NewWork
  <2>5. \A w \in Id \ {i} : work'[w] = work[w]
    BY <2>1, <2>2 DEF TypeOK
  <2>6. QED
    BY <1>1, <1>2, <2>3, <2>4, <2>5 DEF SerialInv, MakeCountReconciles, LiveWork
<1>5. CASE DeleteWorkOrder
  <2>1. PICK w \in LiveWork : work' = [work EXCEPT ![w].status = "deleted"]
    BY <1>5 DEF DeleteWorkOrder
  <2>2. w \in Id /\ work'[w].status = "deleted"
    BY <2>1 DEF TypeOK, LiveWork, WorkRow
  <2>3. \A v \in Id \ {w} : work'[v] = work[v]
    BY <2>1 DEF TypeOK
  <2>4. QED
    BY <1>1, <1>2, <2>2, <2>3 DEF SerialInv, MakeCountReconciles, LiveWork
<1>6. QED
  BY <1>3, <1>4, <1>5 DEF Instant, CreateOrderInfo, DeleteOrderInfo

LEMMA SerialStep ==
    TypeOK /\ WorkOrdersInv /\ SerialInv /\ [SerialNext]_vars => SerialInv'
<1> SUFFICES ASSUME TypeOK, WorkOrdersInv, SerialInv, [SerialNext]_vars
             PROVE  SerialInv'
  OBVIOUS
<1>1. CASE UNCHANGED wvars
  BY <1>1 DEF wvars, SerialInv, MakeCountReconciles, LiveWork, WorkFresh
<1>2. QED
  BY <1>1, SerialInstant, SerialSession DEF SerialNext, Beside, vars

LEMMA SerialInit == Init => SerialInv
<1> SUFFICES ASSUME Init PROVE SerialInv
  OBVIOUS
<1>1. \A w \in Id : work[w].status = "none" /\ tally[w] = 0
  BY DEF Init, NoWork, NewWork
<1>2. \A s \in Session : WorkFresh(s)
  BY DEF Init, Idle, WorkFresh
<1>3. QED
  BY <1>1, <1>2 DEF SerialInv, MakeCountReconciles, LiveWork

LEMMA SerialCorrect == SerialSpec => []SerialInv
BY SerialInit, SerialStep, SerialTypeCorrect, SerialIsSpec, WorkOrdersCorrect, PTL
DEF SerialSpec

\* One production request at a time: the makeCount of a live work order is what reports,
\* failures, remakes and declarations of the office add up to.
THEOREM MakeCountCorrect == SerialSpec => []MakeCountReconciles
<1>1. SerialInv => MakeCountReconciles
  BY DEF SerialInv
<1>2. QED
  BY <1>1, SerialCorrect, PTL

LEMMA ReopenStep ==
    ASSUME TypeOK, WorkOrdersInv, SerialInv, [SerialNext]_vars, NEW w \in LiveWork,
           work[w].finished, ~work'[w].finished
    PROVE  ~work[w].failed /\ work'[w].failed
<1>1. w \in Id /\ work'[w] # work[w]
  BY DEF LiveWork
<1>2. CASE Made
  <2>1. PICK i \in LiveWork, new \in WorkRow, n \in Int :
          MadeBy(new, work[i], n) /\ work' = [work EXCEPT ![i] = new]
    BY <1>1, <1>2 DEF Made
  <2>2. w = i /\ work'[w] = new
    BY <1>1, <2>1 DEF TypeOK
  <2>3. QED
    BY <2>1, <2>2 DEF MadeBy
<1>3. CASE Instant
  <2>1. CASE CreateWorkOrder
    <3>1. PICK o \in Order \cup {NoOrder}, n \in PlanCount, c \in BOOLEAN :
            seq < MaxId /\ work' = [work EXCEPT ![seq + 1] = NewWork(o, n, c)]
      BY <2>1 DEF CreateWorkOrder
    <3>2. w # seq + 1
      BY <1>1, ConstructionAssumption
      DEF LiveWork, WorkOrdersInv, WorkIdsApart, TypeOK, ConstructionTypeOK, IdOrNone, Id
    <3>3. QED
      BY <1>1, <3>1, <3>2 DEF TypeOK
  <2>2. CASE DeleteWorkOrder
    BY <1>1, <2>2 DEF DeleteWorkOrder, TypeOK, LiveWork, WorkRow
  <2>3. QED
    BY <1>1, <1>3, <2>1, <2>2 DEF Instant, CreateOrderInfo, DeleteOrderInfo
<1>4. QED
  BY <1>1, <1>2, <1>3, SessionMade DEF SerialNext, SerialInv, Beside, vars, wvars

\* One production request at a time: a finished work order is reopened by its first
\* failure and nothing else.
THEOREM ReopenedCorrect == SerialSpec => ReopenedByFirstFailure
<1>1. TypeOK /\ WorkOrdersInv /\ SerialInv /\ [SerialNext]_vars
        => [\A w \in LiveWork : work[w].finished /\ ~work'[w].finished
                                => ~work[w].failed /\ work'[w].failed]_vars
  BY ReopenStep
<1>2. QED
  BY <1>1, SerialTypeCorrect, SerialIsSpec, WorkOrdersCorrect, SerialCorrect, PTL
  DEF SerialSpec, ReopenedByFirstFailure
----------------------------------------------------------------------------
(* The plans of the whole system.                                            *)

\* Construction requests cannot overlap when one session serves them all, whatever the
\* production requests that plan work do.
LEMMA OneFitterSide ==
    ASSUME \A f, g \in Fitter : f = g
    PROVE  TypeOK /\ [Next]_vars => [ConstructionSerialNext]_cvars
<1>1. [ConstructionNext]_cvars => [ConstructionSerialNext]_cvars
  BY DEF ConstructionNext, ConstructionStep, ConstructionSerialNext
<1>2. QED
  BY <1>1, NextSide

\* With one session for construction requests, and none that names a site of another
\* plan, a plan counts as complete exactly when all its sites do, however production
\* requests overlap.
THEOREM WorkPlansTrackSites ==
    ASSUME \A f, g \in Fitter : f = g
    PROVE  Spec => []PlanTracksSites
<1>1. Init => ConstructionInit
  BY DEF Init
<1>2. Spec => ConstructionSerialSpec
  BY <1>1, OneFitterSide, WorkTypeCorrect, PTL DEF Spec, ConstructionSerialSpec
<1>3. QED
  BY <1>2, PlanTracksSitesCorrect, PTL
=============================================================================
