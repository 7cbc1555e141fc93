----------------------------- MODULE PlanLifecycle -----------------------------
(***************************************************************************)
(* The plans of one business.  A plan is drafted from the strategy in      *)
(* force and stored; "proposed", "adopted" and "superseded" are events of  *)
(* an append-only table, and which plan is active is computed from them at *)
(* every read.  Requests run concurrently and may fail between two         *)
(* statements.                                                             *)
(***************************************************************************)
EXTENDS Naturals, Sequences, SequencesExt

CONSTANTS Callers,       \* concurrent requests
          MaxPlans,      \* bound: plans drafted
          MaxBreaks,     \* bound: requests that fail half-way
          MAX_PLAN_ATTEMPTS

ASSUME PlanAssumption ==
    /\ MaxPlans \in Nat /\ MaxBreaks \in Nat
    /\ MAX_PLAN_ATTEMPTS \in Nat \ {0}

VARIABLES plans,     \* workspace.plan_version: the plan whose cycle each builds on, or 0
          proposed,  \* workspace.plan_lifecycle_event: the plans with an event "proposed",
          superseded, \* those with an event "superseded",
          adoptions, \* those with an event "adopted", in the order of the first one
          caller,    \* next step of each request
          held,      \* what each request has read
          breaks,    \* requests that failed half-way
          halved,    \* history: one of them had superseded a plan and adopted none
          overlaid   \* history: a plan was adopted on a reading of events older than another adoption

planLifecycleVars == <<plans, proposed, superseded, adoptions, caller, held, breaks, halved, overlaid>>

\* prior: of the plan being drafted; plan and replaced: of the one being adopted; read: adoptions then.
Held == [prior : 0..MaxPlans, attempt : 0..(MAX_PLAN_ATTEMPTS - 1),
         plan : 0..MaxPlans, replaced : 0..MaxPlans, read : Nat]
Drafting(prior, attempt) == [prior |-> prior, attempt |-> attempt, plan |-> 0, replaced |-> 0, read |-> 0]
Adopting(p, replaced, read) == [prior |-> 0, attempt |-> 0, plan |-> p, replaced |-> replaced, read |-> read]
NothingHeld == Drafting(0, 0)

PlanTypeOK ==
    /\ plans \in Seq(0..MaxPlans) /\ Len(plans) <= MaxPlans
    /\ proposed \subseteq 1..MaxPlans /\ superseded \subseteq 1..MaxPlans
    /\ adoptions \in Seq(1..MaxPlans)
    /\ caller \in [Callers -> {"idle", "draft", "propose", "supersede", "adopt"}]
    /\ held \in [Callers -> Held]
    /\ breaks \in 0..MaxBreaks /\ halved \in BOOLEAN /\ overlaid \in BOOLEAN

PlanInit ==
    /\ plans = <<>> /\ breaks = 0
    /\ proposed = {} /\ superseded = {} /\ adoptions = <<>>
    /\ halved = FALSE /\ overlaid = FALSE
    /\ caller = [c \in Callers |-> "idle"]
    /\ held = [c \in Callers |-> NothingHeld]

-----------------------------------------------------------------------------
\* The projection of the events; a second event of a kind changes nothing in it.
Adopted == ToSet(adoptions)
Proposed == proposed \ (Adopted \cup superseded)
InForce == Adopted \ superseded

\* The active plan is the last adopted one that is not superseded, in the order in which a Set
\* keeps its members; 0 when there is none.
Active ==
    LET rest == {i \in 1..Len(adoptions) : adoptions[i] \notin superseded}
    IN  IF rest = {} THEN 0 ELSE adoptions[Max(rest)]

Leaves(c) == caller' = [caller EXCEPT ![c] = "idle"] /\ held' = [held EXCEPT ![c] = NothingHeld]

-----------------------------------------------------------------------------
\* A plan is drafted from the strategy in force: by POST plan/propose, which builds on the plan
\* whose cycle ends, or by POST arc/week-day/adopt when nothing is proposed, which does not.
RequestPlan(c) ==
    /\ caller[c] = "idle"
    /\ Len(plans) < MaxPlans
    /\ caller' = [caller EXCEPT ![c] = "draft"]
    /\ \E prior \in {Active, 0} : held' = [held EXCEPT ![c] = Drafting(prior, 0)]
    /\ UNCHANGED <<plans, proposed, superseded, adoptions, breaks, halved, overlaid>>

\* Mutant: the attempts are counted anew after the last one.
CountAnew(c) ==
    /\ caller[c] = "draft"
    /\ held' = [held EXCEPT ![c] = Drafting(@.prior, (@.attempt + 1) % MAX_PLAN_ATTEMPTS)]
    /\ UNCHANGED <<plans, proposed, superseded, adoptions, caller, breaks, halved, overlaid>>

\* The model throws, a gate fails or the review finds the plan generic: one attempt less.  Without
\* attempts the request is answered with no plan.
Redraft(c) ==
    /\ caller[c] = "draft"
    /\ IF held[c].attempt + 1 = MAX_PLAN_ATTEMPTS
       THEN Leaves(c)
       ELSE held' = [held EXCEPT ![c] = Drafting(@.prior, @.attempt + 1)] /\ UNCHANGED caller
    /\ UNCHANGED <<plans, proposed, superseded, adoptions, breaks, halved, overlaid>>

\* The clean plan is stored, then recorded as proposed.
SavePlan(c) ==
    /\ caller[c] = "draft" /\ Len(plans) < MaxPlans
    /\ plans' = Append(plans, held[c].prior)
    /\ caller' = [caller EXCEPT ![c] = "propose"]
    /\ held' = [held EXCEPT ![c] = Adopting(Len(plans) + 1, 0, 0)]
    /\ UNCHANGED <<proposed, superseded, adoptions, breaks, halved, overlaid>>

Propose(c) ==
    /\ caller[c] = "propose"
    /\ proposed' = proposed \cup {held[c].plan}
    /\ Leaves(c)
    /\ UNCHANGED <<plans, superseded, adoptions, breaks, halved, overlaid>>

\* Mutant: any plan that was proposed can be adopted, a superseded one again.
AcceptAny(c, p) ==
    /\ caller[c] = "idle" /\ p \in proposed \ {Active}
    /\ caller' = [caller EXCEPT ![c] = IF Active # 0 THEN "supersede" ELSE "adopt"]
    /\ held' = [held EXCEPT ![c] = Adopting(p, Active, Len(adoptions))]
    /\ UNCHANGED <<plans, proposed, superseded, adoptions, breaks, halved, overlaid>>

\* acceptPlan reads the events: only a proposed plan can be adopted.
Accept(c, p) ==
    /\ caller[c] = "idle" /\ p \in Proposed
    /\ caller' = [caller EXCEPT ![c] = IF Active # 0 THEN "supersede" ELSE "adopt"]
    /\ held' = [held EXCEPT ![c] = Adopting(p, Active, Len(adoptions))]
    /\ UNCHANGED <<plans, proposed, superseded, adoptions, breaks, halved, overlaid>>

Supersede(c) ==
    /\ caller[c] = "supersede"
    /\ superseded' = superseded \cup {held[c].replaced}
    /\ caller' = [caller EXCEPT ![c] = "adopt"]
    /\ UNCHANGED <<plans, proposed, adoptions, held, breaks, halved, overlaid>>

AdoptPlan(c) ==
    /\ caller[c] = "adopt"
    /\ adoptions' = IF held[c].plan \in Adopted THEN adoptions ELSE Append(adoptions, held[c].plan)
    /\ overlaid' = (overlaid \/ held[c].read < Len(adoptions))
    /\ Leaves(c)
    /\ UNCHANGED <<plans, proposed, superseded, breaks, halved>>

\* The second statement of a request fails, or the process stops: what is stored stays.
Break(c) ==
    /\ caller[c] \in {"propose", "adopt"} /\ breaks < MaxBreaks
    /\ breaks' = breaks + 1
    /\ halved' = (halved \/ (caller[c] = "adopt" /\ held[c].replaced # 0))
    /\ Leaves(c)
    /\ UNCHANGED <<plans, proposed, superseded, adoptions, overlaid>>

PlanStep(c) ==
    \/ RequestPlan(c) \/ Redraft(c) \/ SavePlan(c) \/ Propose(c)
    \/ (\E p \in 1..MaxPlans : Accept(c, p)) \/ Supersede(c) \/ AdoptPlan(c) \/ Break(c)

PlanNext == \E c \in Callers : PlanStep(c)

PlanSpec == PlanInit /\ [][PlanNext]_planLifecycleVars

\* A request that has begun goes on.
PlanFairness == \A c \in Callers : WF_planLifecycleVars(caller[c] # "idle" /\ PlanStep(c))

-----------------------------------------------------------------------------
\* The single active plan: two plans are in force only when two adoptions overlapped.
OneActiveUnlessOverlaid == (\E p, q \in InForce : p # q) => overlaid

\* However adoptions overlap, a business that has adopted a plan keeps an active one, but between
\* the two statements of an adoption and after one that failed there.
PlanIsNotLost ==
    Adopted # {} /\ InForce = {} => halved \/ \E c \in Callers : caller[c] = "adopt"

\* A plan builds on the cycle of a plan that was adopted before it was drafted.
PriorWasActive ==
    \A p \in 1..Len(plans) : plans[p] # 0 => plans[p] \in Adopted /\ plans[p] < p

\* The plans of a business and the one it follows.
PlanInv ==
    /\ PlanTypeOK
    /\ OneActiveUnlessOverlaid
    /\ PlanIsNotLost
    /\ PriorWasActive

\* A plan request ends, with a plan or without.
PlanIsAnswered == \A c \in Callers : (caller[c] = "draft") ~> (caller[c] = "idle")
=============================================================================
