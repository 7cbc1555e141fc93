------------------------------ MODULE MCProduct ------------------------------
(***************************************************************************)
(* The components around the Business Brain that share no rows, side by    *)
(* side in one run: the variable part says which of them a behaviour       *)
(* moves, all others rest in one initial state of theirs.                  *)
(***************************************************************************)
EXTENDS UnderstandingLog, PourIn, ReelProcess, ReelRender, LandingDraft, StrategyDraft,
        StrategyVersions, PlanLifecycle, TodaySelection, CarouselStudio, FounderIntake,
        WeeklyCycle

VARIABLE part

Parts == {"log", "pour", "process", "renders", "swaps", "landing", "draft", "versions",
          "plan", "today", "studio", "intake", "numbers", "deliveries", "approvals"}
FairParts == {"log", "pour", "process", "renders", "plan", "studio", "intake", "deliveries"}
CycleParts == {"numbers", "deliveries", "approvals"}

ThreeActions == 1..3
TwoCommands == 1..2
TwoPriorities == 1..2
SourceType == [s \in Sources |-> IF s = "words" THEN "description" ELSE "website"]
SourcePage == [s \in Sources |-> s]

productVars == <<part, logVars, pourVars, processVars, renderVars, landingVars, strategyDraftVars,
                 strategyVersionsVars, planLifecycleVars, todayVars,
                 carouselVars, founderVars, vars>>

\* Three actions, two of the first priority, which is the focus, and one of the second; at most one
\* of them lacks something.
TodayScope ==
    /\ priorityOf[2] = 1 /\ priorityOf[3] = 2 /\ focus = 1
    /\ Cardinality(Kept) <= 1

TodayAtRest == \A a \in Actions : needs[a] = {} /\ lack[a] = {}

ProductInit ==
    /\ part \in Parts
    /\ LogInit     /\ (part # "log"   => log = "claim")
    /\ DraftInit   /\ (part # "draft" => stage = "done")
    /\ TodayInit   /\ TodayScope /\ (part # "today" => TodayAtRest)
    /\ Init        /\ (part \notin CycleParts => active)
    /\ CarouselInit /\ (part # "studio" => saved = {})
    /\ FounderInit /\ (part # "intake" => session = "active")
    /\ PourInit /\ ProcessInit /\ RenderInit /\ LandingInit /\ VersionsInit /\ PlanInit

Rests(v, p) == IF part \in p THEN TRUE ELSE UNCHANGED v

RenderMoves ==
    /\ RenderNext
    /\ \/ part = "renders" /\ Len(reels') <= 2
       \/ part = "swaps" /\ falls' = 0


\* What is shown of a stale plan does not depend on what was marked before or after.
TodayMoves == ~stale /\ TodayNext /\ Cardinality(Kept') <= 1 /\ (stale' => Kept' = {})

\* Commands are alike: they are numbered in the order of what they ask for.
Rank == [answer |-> 1, complete |-> 2, pause |-> 3, resume |-> 4, recalibrate |-> 5, decide |-> 6]

IntakeMoves ==
    /\ FounderNext
    /\ \A q, r \in {c \in Commands : reached'[c] # "idle"} :
          q < r => Rank[asks'[q].kind] <= Rank[asks'[r].kind]

\* The first of each, so that no behaviour is seen twice under another name.
OneCycle    == CHOOSE c \in Cycles : TRUE
OneTrigger  == CHOOSE r \in Triggers : TRUE
OneDelivery == CHOOSE x \in Deliveries : TRUE

ContentBegun == {x \in Deliveries : delivery[x].pc # "free"}
Deciding     == {a \in Approvers : approval[a].pc # "idle"}

\* Cycles and triggers race without content; the content of one cycle is delivered by two jobs, or
\* by one beside a decision.
CycleScope ==
    IF part = "numbers" THEN ContentBegun = {}
    ELSE /\ \A c \in Rows : c = OneCycle
         /\ \A r \in Triggers : trigger[r] # 0 => r = OneTrigger
         /\ part = "deliveries" => Deciding = {}
         /\ part = "approvals" => ContentBegun \subseteq {OneDelivery}

CycleMoves == Next /\ CycleScope'

ProductNext ==
    /\ part' = part
    /\ \/ part = "log"      /\ LogNext
       \/ part = "pour"     /\ PourNext
       \/ part = "process"  /\ ProcessNext
       \/ part \in {"renders", "swaps"} /\ RenderMoves
       \/ part = "landing"  /\ LandingNext
       \/ part = "draft"    /\ DraftNext
       \/ part = "versions" /\ VersionsNext
       \/ part = "plan"     /\ PlanNext
       \/ part = "today"    /\ TodayMoves
       \/ part = "studio"   /\ CarouselNext
       \/ part = "intake"   /\ IntakeMoves
       \/ part \in CycleParts /\ CycleMoves
    /\ Rests(logVars, {"log"})
    /\ Rests(pourVars, {"pour"})
    /\ Rests(processVars, {"process"})
    /\ Rests(renderVars, {"renders", "swaps"})
    /\ Rests(landingVars, {"landing"})
    /\ Rests(strategyDraftVars, {"draft"})
    /\ Rests(strategyVersionsVars, {"versions"})
    /\ Rests(planLifecycleVars, {"plan"})
    /\ Rests(todayVars, {"today"})
    /\ Rests(carouselVars, {"studio"})
    /\ Rests(founderVars, {"intake"})
    /\ Rests(vars, CycleParts)

ProductSpec == ProductInit /\ [][ProductNext]_productVars

\* The fairness of each part, for the behaviours that are about it.
ProductFairness ==
    /\ \A q \in Requests : /\ WF_logVars(part = "log" /\ Progress(q))
                           /\ WF_logVars(part = "log" /\ LockSeq(q))
    /\ \A r \in Pours : WF_pourVars(part = "pour" /\ ReadingStep(r))
    /\ \A j \in Jobs : WF_processVars(part = "process" /\ WorkerStep(j))
    /\ \A j \in Numbers : WF_renderVars(part = "renders" /\ RenderStep(j))
    /\ \A c \in Callers : WF_planLifecycleVars(part = "plan" /\ caller[c] # "idle" /\ PlanStep(c))
    /\ \A o \in Orders : WF_carouselVars(part = "studio" /\ OrderStep(o))
    /\ \A r \in Commands : WF_founderVars(part = "intake" /\ CommandStep(r))
    /\ \A p \in Runs : /\ WF_vars(part = "deliveries" /\ \E x \in Deliveries : EnqueueDelivery(x, p))
                       /\ WF_vars(part = "deliveries" /\ \E k \in {"main", "fallback"} : PipelineDrafts(p, k))
                       /\ WF_vars(part = "deliveries" /\ BeginCommit(p))
                       /\ WF_vars(part = "deliveries" /\ CommitBrief(p))
    /\ \A c \in Cycles : WF_vars(part = "deliveries" /\ FirstRun(c))
    /\ \A x \in Deliveries : WF_vars(part = "deliveries" /\ DeliveryWork(x))

\* Requests, runs and clips of a part are alike: behaviours that differ by a change of all their names
\* are looked at once.
Renamings == {q @@ p @@ k @@ v @@ a @@ c @@ u :
                 q \in Permutations(Requests), p \in Permutations(Pours),
                 k \in Permutations(Clips), v \in Permutations(Visits),
                 a \in Permutations(Askers), c \in Permutations(Callers),
                 u \in Permutations(Runs)}
Alike == {f \in Renamings : (\A x \in DOMAIN f : f[x] = x) \/ (\A x \in DOMAIN f : f[x] # x)}

ProductFairInit == part \in FairParts /\ ProductInit
ProductFairSpec == ProductFairInit /\ [][ProductNext]_productVars /\ ProductFairness
==============================================================================
