----------------------------- MODULE StrategyDraft -----------------------------
(***************************************************************************)
(* One generation of a business strategy: the model's draft is repaired    *)
(* until the deterministic gates pass, then judged, repaired and judged    *)
(* again; every loop is bounded and what cannot be settled is stored as    *)
(* "insufficient".  A draft is what the gates and the judge can find wrong *)
(* with it, in its central fields or in its secondary ones.                *)
(***************************************************************************)
EXTENDS Naturals, FiniteSets

CONSTANTS MAX_STRUCT_REPAIRS, MAX_JUDGE_REPAIRS, JUDGE_TRIES

ASSUME DraftAssumption ==
    /\ MAX_STRUCT_REPAIRS \in Nat /\ MAX_JUDGE_REPAIRS \in Nat
    /\ JUDGE_TRIES \in Nat \ {0}

VARIABLES stage,     \* where generate is
          faults,    \* fields of the draft in hand that fail a deterministic gate
          checked,   \* the draft checks a capacity before it bets on it
          draftNo,   \* drafts the model has written: the number of the one in hand
          repairs,   \* structural repairs
          rejudged,  \* repairs the judge asked for
          judgeTries,     \* calls of the judge in this round
          verdicts,  \* what the last verdicts find wrong
          judgedNo,  \* the draft those verdicts are about
          outcome,   \* [status, marked unjudged, verdicts settled without the model]
          calls      \* history: calls of a model

strategyDraftVars ==
    <<stage, faults, checked, draftNo, repairs, rejudged, judgeTries, verdicts, judgedNo, outcome, calls>>

Fields == {"central", "secondary"}
Complaints == Fields \cup {"capacity"}
DraftOutcomes == [status : {"none", "proposal", "insufficient"}, unjudged : BOOLEAN, settled : BOOLEAN]
NoOutcome == [status |-> "none", unjudged |-> FALSE, settled |-> FALSE]
Insufficient == [NoOutcome EXCEPT !.status = "insufficient"]
Proposal(unjudged, settled) == [status |-> "proposal", unjudged |-> unjudged, settled |-> settled]

DraftTypeOK ==
    /\ stage \in {"generate", "gate", "judge", "verdict", "done"}
    /\ faults \subseteq Fields /\ verdicts \subseteq Complaints
    /\ checked \in BOOLEAN
    /\ draftNo \in 0..(1 + MAX_STRUCT_REPAIRS + MAX_JUDGE_REPAIRS)
    /\ judgedNo \in 0..draftNo
    /\ repairs \in 0..MAX_STRUCT_REPAIRS
    /\ rejudged \in 0..MAX_JUDGE_REPAIRS
    /\ judgeTries \in 0..JUDGE_TRIES
    /\ outcome \in DraftOutcomes
    /\ calls \in Nat

\* The business is understood and a goal is held or assumed; without them nothing is asked.
DraftInit ==
    /\ stage \in {"generate", "done"}
    /\ outcome = IF stage = "done" THEN Insufficient ELSE NoOutcome
    /\ faults = {} /\ verdicts = {} /\ checked = FALSE
    /\ draftNo = 0 /\ judgedNo = 0
    /\ repairs = 0 /\ rejudged = 0 /\ judgeTries = 0 /\ calls = 0

-----------------------------------------------------------------------------
Ends(o) == stage' = "done" /\ outcome' = o

\* The model writes a draft, with whatever faults.
Writes ==
    /\ faults' \in SUBSET Fields
    /\ draftNo' = draftNo + 1
    /\ calls' = calls + 1

\* A call that throws leaves the draft in hand.
Throws == calls' = calls + 1 /\ UNCHANGED <<faults, draftNo>>

Generate ==
    /\ stage = "generate"
    /\ \/ Writes /\ stage' = "gate" /\ UNCHANGED outcome
       \/ Throws /\ Ends(Insufficient)
    /\ UNCHANGED <<checked, repairs, rejudged, judgeTries, verdicts, judgedNo>>

\* All that fails is repaired in one call; the whole draft is gated again.
StructRepair ==
    /\ stage = "gate" /\ faults # {} /\ repairs < MAX_STRUCT_REPAIRS
    /\ repairs' = repairs + 1
    /\ Writes
    /\ UNCHANGED <<stage, outcome, checked, rejudged, judgeTries, verdicts, judgedNo>>

\* Sentences of secondary fields are omitted; the result is kept only if every gate passes then.
SecondaryFallback ==
    IF faults = {"secondary"} THEN {faults, {}} ELSE {faults}

\* The draft has a check of the capacity it bets on, or one is added, if every gate still passes.
CapacityFirst == checked' \in BOOLEAN

ToJudge == stage' = "judge" /\ judgeTries' = 0 /\ CapacityFirst /\ UNCHANGED outcome

\* A draft that passes the gates is judged, another one is stored as insufficient.
Gated ==
    IF faults' = {} THEN ToJudge ELSE Ends(Insufficient) /\ UNCHANGED <<judgeTries, checked>>

GatesDone ==
    /\ stage = "gate" /\ faults = {}
    /\ ToJudge
    /\ UNCHANGED <<faults, draftNo, calls, repairs, rejudged, verdicts, judgedNo>>

\* The repairs are used up, or one throws: the fallback decides.
GiveUpRepairs ==
    /\ stage = "gate" /\ faults # {}
    /\ IF repairs = MAX_STRUCT_REPAIRS
       THEN UNCHANGED <<calls, repairs>>
       ELSE calls' = calls + 1 /\ repairs' = repairs + 1
    /\ faults' \in SecondaryFallback
    /\ Gated
    /\ UNCHANGED <<draftNo, rejudged, verdicts, judgedNo>>

-----------------------------------------------------------------------------
\* The judge throws or returns no verdict: once more, then the strategy is stored as unjudged.
JudgeFails ==
    /\ stage = "judge" /\ judgeTries < JUDGE_TRIES
    /\ judgeTries' = judgeTries + 1 /\ calls' = calls + 1
    /\ IF judgeTries' = JUDGE_TRIES THEN Ends(Proposal(TRUE, FALSE)) ELSE UNCHANGED <<stage, outcome>>
    /\ UNCHANGED <<faults, checked, draftNo, repairs, rejudged, verdicts, judgedNo>>

Judge ==
    /\ stage = "judge" /\ judgeTries < JUDGE_TRIES
    /\ calls' = calls + 1 /\ judgeTries' = judgeTries + 1
    /\ verdicts' \in SUBSET Complaints
    /\ judgedNo' = draftNo
    /\ stage' = "verdict"
    /\ UNCHANGED <<outcome, faults, checked, draftNo, repairs, rejudged>>

Approve ==
    /\ stage = "verdict" /\ verdicts = {}
    /\ Ends(Proposal(FALSE, FALSE))
    /\ UNCHANGED <<faults, checked, draftNo, calls, repairs, rejudged, judgeTries, verdicts, judgedNo>>

\* Mutant: the repaired draft is not gated again.
RepairUngated ==
    /\ stage = "verdict" /\ verdicts # {} /\ rejudged < MAX_JUDGE_REPAIRS
    /\ rejudged' = rejudged + 1 /\ draftNo' = draftNo + 1 /\ calls' = calls + 1
    /\ faults' \in SUBSET Fields
    /\ ToJudge
    /\ UNCHANGED <<repairs, verdicts, judgedNo>>

\* The field the judge finds wrong is repaired; the whole draft passes the gates again, its
\* secondary sentences omitted if they must be, and is judged again.
JudgeRepair ==
    /\ stage = "verdict" /\ verdicts # {} /\ rejudged < MAX_JUDGE_REPAIRS
    /\ rejudged' = rejudged + 1 /\ draftNo' = draftNo + 1 /\ calls' = calls + 1
    /\ \E written \in SUBSET Fields :
          faults' \in (IF written = {"secondary"} THEN {written, {}} ELSE {written})
    /\ Gated
    /\ UNCHANGED <<repairs, verdicts, judgedNo>>

\* Whether what is left can be settled without the model: one on a capacity if the draft checks it;
\* on secondary parts if the draft still passes every gate when they are dropped; on a central
\* field never.
Settled ==
    {s \in BOOLEAN : /\ "central" \in verdicts => ~s
                     /\ verdicts = {"capacity"} /\ checked => s}

\* No repair is left, or one throws.
ResolveJudgeFailures ==
    /\ stage = "verdict" /\ verdicts # {}
    /\ IF rejudged = MAX_JUDGE_REPAIRS
       THEN UNCHANGED <<calls, rejudged>>
       ELSE calls' = calls + 1 /\ rejudged' = rejudged + 1
    /\ \E s \in Settled : Ends(IF s THEN Proposal(FALSE, TRUE) ELSE Insufficient)
    /\ UNCHANGED <<faults, checked, draftNo, repairs, judgeTries, verdicts, judgedNo>>

DraftNext ==
    \/ Generate \/ StructRepair \/ GatesDone \/ GiveUpRepairs
    \/ JudgeFails \/ Judge \/ Approve \/ JudgeRepair \/ ResolveJudgeFailures

DraftSpec == DraftInit /\ [][DraftNext]_strategyDraftVars

-----------------------------------------------------------------------------
\* No draft that fails a deterministic gate becomes a proposal, through whatever order of repairs,
\* omissions, verdicts and outages it came.
ProposalPassedGates == outcome.status = "proposal" => faults = {}

\* A proposal that is not marked as unjudged was judged, as it is stored and not before a later
\* repair, and no verdict on a central field is open.
ApprovalIsOfThisDraft ==
    outcome.status = "proposal" /\ ~outcome.unjudged =>
        /\ judgedNo = draftNo
        /\ verdicts = {} \/ (outcome.settled /\ "central" \notin verdicts)

\* Whatever throws, the loops call the models a bounded number of times.
DraftingIsBounded ==
    calls <= 1 + MAX_STRUCT_REPAIRS + MAX_JUDGE_REPAIRS + (1 + MAX_JUDGE_REPAIRS) * JUDGE_TRIES

\* One generation: what it stores, and what it costs.
DraftInv ==
    /\ DraftTypeOK
    /\ ProposalPassedGates
    /\ ApprovalIsOfThisDraft
    /\ DraftingIsBounded
=============================================================================
