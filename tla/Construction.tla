---------------------------- MODULE Construction ----------------------------
(***************************************************************************)
(* The construction side of ROMES: a plan and its site are created when a  *)
(* work order is done, the office confirms the plan, the fitters upload    *)
(* the result, and the office may delete a result.                         *)
(*                                                                         *)
(* Handlers are read / commit pairs as in Inventory: a commit writes every *)
(* column of the rows it changed from what the session read.  All ids come *)
(* from one sequence (GenerationType.AUTO), which every table shares.      *)
(***************************************************************************)
EXTENDS Integers, FiniteSets

CONSTANTS
    Fitter,    \* sessions that serve construction requests
    MaxId,     \* bound: the last id the shared sequence hands out
    Mismatch   \* may a request name a site of another plan?

ASSUME ConstructionAssumption == MaxId \in Nat /\ Mismatch \in BOOLEAN

VARIABLES
    seq,       \* the shared hibernate_sequence
    plans,     \* construction_plan
    sites,     \* constuction_location, with its construction_plan_id
    results,   \* construction_result: the site it is of, 0 for no row
    visit,     \* what each session has read and not yet committed
    cleared    \* the sites a result of which was deleted

cvars == <<seq, plans, sites, results, visit, cleared>>
----------------------------------------------------------------------------
Id == 1..MaxId
IdOrNone == 0..MaxId

PlanRow == [work: IdOrNone, complete: BOOLEAN, confirm: BOOLEAN]
SiteRow == [plan: IdOrNone, complete: BOOLEAN]
NoPlan == [work |-> 0, complete |-> FALSE, confirm |-> FALSE]
NoSite == [plan |-> 0, complete |-> FALSE]

Waiting == [op |-> "idle"]
UploadVisit == [op: {"upload"}, plan: Id, was: PlanRow, site: Id,
                result: IdOrNone, rest: BOOLEAN]
ConfirmVisit == [op: {"confirm"}, plan: Id, was: PlanRow]
Visit == {Waiting} \cup UploadVisit \cup ConfirmVisit

ConstructionTypeOK ==
    /\ seq \in IdOrNone
    /\ plans \in [Id -> PlanRow]
    /\ sites \in [Id -> SiteRow]
    /\ results \in [Id -> IdOrNone]
    /\ visit \in [Fitter -> Visit]
    /\ cleared \in SUBSET Id

ConstructionInit ==
    /\ seq = 0
    /\ plans = [p \in Id |-> NoPlan]
    /\ sites = [c \in Id |-> NoSite]
    /\ results = [r \in Id |-> 0]
    /\ visit = [f \in Fitter |-> Waiting]
    /\ cleared = {}

Planned == {p \in Id : plans[p].work # 0}
SitesOf(p) == {c \in Id : sites[c].plan = p}
Sited == {c \in Id : sites[c].plan # 0}
Leave(f) == visit' = [visit EXCEPT ![f] = Waiting]
----------------------------------------------------------------------------
\* The plan and its site for work order w, as completeWorkOrder and
\* completeProduction save them: the site first, pointing at the plan.
\* The first versions of an operator are slips no action uses, here a sequence
\* per table; the last is what the code does.
SiteIdPerTable == Cardinality(Sited) + 1
SiteId == seq + 1
PlanId == seq + 2
PlanWork(w) ==
    /\ PlanId <= MaxId
    /\ seq' = PlanId
    /\ sites' = [sites EXCEPT ![SiteId] = [plan |-> PlanId, complete |-> FALSE]]
    /\ plans' = [plans EXCEPT ![PlanId] = [NoPlan EXCEPT !.work = w]]
    /\ UNCHANGED <<results, visit, cleared>>

\* A row of another table took the next id.
OtherRow ==
    /\ seq < MaxId /\ seq' = seq + 1
    /\ UNCHANGED <<plans, sites, results, visit, cleared>>

----------------------------------------------------------------------------
\* imageUpload (FileUpload): its reads.  It looks for an earlier result by
\* `location.id = plan.getId()`, the plan's id where the site's is meant.
ResultsFound(p) == {r \in Id : results[r] = p}

\* plan.isCompare() once site c is set complete in the session.
RestBuiltSkipped(p, c) == TRUE
RestBuilt(p, c) == \A d \in SitesOf(p) \ {c} : sites[d].complete

BeginUpload(f) ==
    /\ visit[f].op = "idle"
    /\ \E p \in Planned, c \in Sited :
         /\ Mismatch \/ sites[c].plan = p
         /\ \E r \in IF ResultsFound(p) = {} THEN {0} ELSE ResultsFound(p) :
              visit' = [visit EXCEPT ![f] =
                  [op |-> "upload", plan |-> p, was |-> plans[p], site |-> c,
                   result |-> r, rest |-> RestBuilt(p, c)]]
    /\ UNCHANGED <<seq, plans, sites, results, cleared>>

\* Its commit: a new result of the site unless one was found (updating a
\* found one that was deleted meanwhile fails), the site complete, and the
\* plan complete when all its sites are.
BuiltPlanLoses(was, rest) == was
BuiltPlan(was, rest) == [was EXCEPT !.complete = @ \/ rest]
BuiltSiteUntouched(row) == row
BuiltSite(row) == [row EXCEPT !.complete = TRUE]

CommitUpload(f) ==
    LET v == visit[f]
        row == BuiltPlan(v.was, v.rest)
    IN  /\ v.op = "upload"
        /\ \/ /\ v.result = 0
              /\ seq < MaxId /\ seq' = seq + 1
              /\ results' = [results EXCEPT ![seq + 1] = v.site]
           \/ /\ v.result # 0 /\ results[v.result] # 0
              /\ UNCHANGED <<seq, results>>
        /\ sites' = [sites EXCEPT ![v.site] = BuiltSite(@)]
        /\ plans' = IF row = v.was THEN plans ELSE [plans EXCEPT ![v.plan] = row]
        /\ Leave(f)
        /\ UNCHANGED cleared

----------------------------------------------------------------------------
\* ConstructionConfirm: the office assigns a company and confirms.
BeginConfirm(f) ==
    /\ visit[f].op = "idle"
    /\ \E p \in Planned :
         visit' = [visit EXCEPT ![f] = [op |-> "confirm", plan |-> p, was |-> plans[p]]]
    /\ UNCHANGED <<seq, plans, sites, results, cleared>>

ConfirmedPlan(was) == [was EXCEPT !.confirm = TRUE]
CommitConfirm(f) ==
    /\ visit[f].op = "confirm"
    /\ plans' = [plans EXCEPT ![visit[f].plan] = ConfirmedPlan(visit[f].was)]
    /\ Leave(f)
    /\ UNCHANGED <<seq, sites, results, cleared>>

\* deleteCD: deletes a result row and nothing else.
DeleteResult ==
    /\ \E r \in Id :
         /\ results[r] # 0
         /\ results' = [results EXCEPT ![r] = 0]
         /\ cleared' = cleared \cup {results[r]}
    /\ UNCHANGED <<seq, plans, sites, visit>>

\* An exception in a handler.
Abandon(f) ==
    /\ visit[f].op # "idle" /\ Leave(f)
    /\ UNCHANGED <<seq, plans, sites, results, cleared>>

VisitStep(f) ==
    \/ BeginUpload(f) \/ CommitUpload(f)
    \/ BeginConfirm(f) \/ CommitConfirm(f)
    \/ Abandon(f)

\* What happens on this side once plans exist, and what the rest of the
\* system may do to it.
ConstructionStep == DeleteResult \/ \E f \in Fitter : VisitStep(f)
ConstructionNext == ConstructionStep \/ OtherRow \/ \E w \in Id : PlanWork(w)
ConstructionSpec == ConstructionInit /\ [][ConstructionNext]_cvars

\* One construction request at a time.
ConstructionSerialNext ==
    \/ DeleteResult \/ OtherRow \/ \E w \in Id : PlanWork(w)
    \/ \E f \in Fitter : (\A g \in Fitter \ {f} : visit[g].op = "idle") /\ VisitStep(f)
ConstructionSerialSpec == ConstructionInit /\ [][ConstructionSerialNext]_cvars
----------------------------------------------------------------------------
(* However requests overlap. *)

\* A plan shown as complete has a site, and all its sites are built, also
\* when confirmations, uploads and uploads to the wrong plan overlap.
CompletePlanIsBuilt ==
    \A p \in Id : plans[p].complete =>
        SitesOf(p) # {} /\ \A c \in SitesOf(p) : sites[c].complete

\* A result is never of a site that still counts as open.
ResultMeansBuilt == \A r \in Id : results[r] # 0 => sites[results[r]].complete

\* imageUpload searches by the wrong id, yet a complete site has a result of
\* its own until deleteCD removes one: a plan's id is never a site's id, as
\* the tables share one sequence, so the search finds nothing.
BuiltSiteHasResult ==
    \A c \in Id : sites[c].complete => c \in cleared \/ \E r \in Id : results[r] = c

(* One request at a time. *)

\* The plan is complete exactly when its site is built.
PlanTracksSites ==
    ~Mismatch =>
    \A p \in Planned : plans[p].complete <=> \A c \in SitesOf(p) : sites[c].complete

(* What getConstructionPlan calls a data error. *)

\* A site marked complete has a result.
CompleteSiteHasResult ==
    \A c \in Id : sites[c].complete => \E r \in Id : results[r] = c
----------------------------------------------------------------------------
(* The inductive invariant behind the first three properties.               *)

Built(p) == \A c \in SitesOf(p) : sites[c].complete

\* Ids are handed out once: nothing has a later id, and no plan shares its id
\* with a site.
IdsApart ==
    /\ \A i \in Id : i > seq => plans[i] = NoPlan /\ sites[i] = NoSite /\ results[i] = 0
    /\ \A p \in Planned : p \notin Sited /\ SitesOf(p) # {}
    /\ \A c \in Sited : sites[c].plan \in Planned
    /\ \A r \in Id : results[r] # 0 => results[r] \in Sited

\* What a session read is still true enough: a plan it saw complete is built, and
\* so are the other sites when it found that its own is the last.
VisitSound(f) ==
    LET v == visit[f] IN
    /\ v.op # "idle" =>
         /\ v.plan \in Planned /\ v.was.work = plans[v.plan].work
         /\ v.was.complete => Built(v.plan)
    /\ v.op = "upload" =>
         /\ v.site \in Sited /\ v.result = 0
         /\ v.rest => \A c \in SitesOf(v.plan) \ {v.site} : sites[c].complete

ConstructionInv ==
    /\ CompletePlanIsBuilt /\ ResultMeansBuilt /\ BuiltSiteHasResult
    /\ IdsApart
    /\ \A f \in Fitter : VisitSound(f)
=============================================================================
