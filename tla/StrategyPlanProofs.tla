------------------------- MODULE StrategyPlanProofs -------------------------
(***************************************************************************)
(* The safety of the way from a strategy to the day's actions: one draft   *)
(* and its gates, the versions a founder adopts, the plans in force, and   *)
(* what is shown today.                                                    *)
(***************************************************************************)
EXTENDS StrategyDraft, StrategyVersions, PlanLifecycle, TodaySelection,
        FiniteSetTheorems, WellFoundedInduction, TLAPS

(***************************************************************************)
(* For every bound on the repairs and on the judge's tries: a strategy     *)
(* that is stored as a proposal passes the gates, its approval is of the   *)
(* draft that is stored, and the models are called a bounded number of     *)
(* times, whatever they answer and whatever throws.                        *)
(***************************************************************************)

USE DraftAssumption DEF DraftAssumption

\* Each stage keeps what the next one relies on: nothing was written before the first call, no
\* judge is asked before the gates pass, a verdict is about the draft in hand.
StageKeeps ==
    /\ stage # "done" => outcome = NoOutcome
    /\ stage = "generate" => draftNo = 0 /\ repairs = 0 /\ rejudged = 0 /\ calls = 0 /\ judgedNo = 0
    /\ stage \in {"generate", "gate"} => judgeTries = 0
    /\ stage \in {"judge", "verdict"} => faults = {}
    /\ stage = "verdict" => judgedNo = draftNo

\* Every draft after the first one used up a repair, and so did every call of a model that was not
\* the first one or a call of the judge.
RepairsPayForCalls ==
    /\ draftNo <= 1 + repairs + rejudged
    /\ calls <= 1 + repairs + rejudged + rejudged * JUDGE_TRIES + judgeTries

DraftIInv ==
    /\ DraftTypeOK
    /\ StageKeeps
    /\ RepairsPayForCalls
    /\ ProposalPassedGates
    /\ ApprovalIsOfThisDraft

\* A round more of the judge is JUDGE_TRIES calls more; rounds are at most those allowed.
LEMMA JudgeRounds ==
    ASSUME NEW r \in 0..MAX_JUDGE_REPAIRS
    PROVE  /\ r * JUDGE_TRIES \in Nat
           /\ (r + 1) * JUDGE_TRIES = r * JUDGE_TRIES + JUDGE_TRIES
           /\ r * JUDGE_TRIES <= MAX_JUDGE_REPAIRS * JUDGE_TRIES
<1>1. \A a, b \in Nat : a * b \in Nat /\ (a + 1) * b = a * b + b
  OBVIOUS
<1>2. PICK d \in Nat : MAX_JUDGE_REPAIRS = r + d
  <2>1. MAX_JUDGE_REPAIRS - r \in Nat /\ MAX_JUDGE_REPAIRS = r + (MAX_JUDGE_REPAIRS - r)
    OBVIOUS
  <2> QED BY <2>1
<1>3. (r + d) * JUDGE_TRIES = r * JUDGE_TRIES + d * JUDGE_TRIES
  OBVIOUS
<1>4. d * JUDGE_TRIES \in Nat /\ r * JUDGE_TRIES \in Nat
  BY <1>1
<1> QED BY <1>1, <1>2, <1>3, <1>4

LEMMA OutcomeFacts ==
    /\ NoOutcome \in DraftOutcomes /\ NoOutcome.status = "none"
    /\ Insufficient \in DraftOutcomes /\ Insufficient.status = "insufficient"
    /\ \A u, s \in BOOLEAN :
          /\ Proposal(u, s) \in DraftOutcomes
          /\ Proposal(u, s).status = "proposal"
          /\ Proposal(u, s).unjudged = u
          /\ Proposal(u, s).settled = s
BY DEF NoOutcome, DraftOutcomes, Insufficient, Proposal

LEMMA DraftInitOK == DraftInit => DraftIInv
<1> SUFFICES ASSUME DraftInit PROVE DraftIInv
  OBVIOUS
<1>1. 0 * JUDGE_TRIES = 0
  OBVIOUS
<1>2. DraftTypeOK
  <2>1. outcome \in DraftOutcomes
    BY OutcomeFacts DEF DraftInit
  <2>2. draftNo \in 0..(1 + MAX_STRUCT_REPAIRS + MAX_JUDGE_REPAIRS) /\ judgedNo \in 0..draftNo
    BY DEF DraftInit
  <2>3. repairs \in 0..MAX_STRUCT_REPAIRS /\ rejudged \in 0..MAX_JUDGE_REPAIRS /\ judgeTries \in 0..JUDGE_TRIES
    BY DEF DraftInit
  <2> QED BY <2>1, <2>2, <2>3 DEF DraftInit, DraftTypeOK
<1>3. StageKeeps
  BY DEF DraftInit, StageKeeps
<1>4. RepairsPayForCalls
  BY <1>1 DEF DraftInit, RepairsPayForCalls
<1>5. ProposalPassedGates /\ ApprovalIsOfThisDraft
  BY OutcomeFacts DEF DraftInit, ProposalPassedGates, ApprovalIsOfThisDraft
<1> QED BY <1>2, <1>3, <1>4, <1>5 DEF DraftIInv

LEMMA GenerateKeeps == ASSUME DraftIInv, Generate PROVE DraftIInv'
<1> USE OutcomeFacts DEF DraftIInv, Generate, Writes, Throws, Ends
<1>1. 0 * JUDGE_TRIES = 0
  OBVIOUS
<1>2. DraftTypeOK'
  BY DEF DraftTypeOK, StageKeeps
<1>3. StageKeeps'
  BY DEF DraftTypeOK, StageKeeps
<1>4. RepairsPayForCalls'
  BY <1>1 DEF DraftTypeOK, StageKeeps, RepairsPayForCalls
<1>5. ProposalPassedGates' /\ ApprovalIsOfThisDraft'
  BY DEF StageKeeps, ProposalPassedGates, ApprovalIsOfThisDraft
<1> QED BY <1>2, <1>3, <1>4, <1>5

LEMMA StructRepairKeeps == ASSUME DraftIInv, StructRepair PROVE DraftIInv'
<1> USE OutcomeFacts DEF DraftIInv, StructRepair, Writes
<1>0. rejudged * JUDGE_TRIES \in Nat
  BY JudgeRounds DEF DraftTypeOK
<1>2. DraftTypeOK'
  BY DEF DraftTypeOK, RepairsPayForCalls
<1>3. StageKeeps'
  BY DEF DraftTypeOK, StageKeeps
<1>4. RepairsPayForCalls'
  BY <1>0 DEF DraftTypeOK, StageKeeps, RepairsPayForCalls
<1>5. ProposalPassedGates' /\ ApprovalIsOfThisDraft'
  BY DEF StageKeeps, ProposalPassedGates, ApprovalIsOfThisDraft
<1> QED BY <1>2, <1>3, <1>4, <1>5

LEMMA GatesDoneKeeps == ASSUME DraftIInv, GatesDone PROVE DraftIInv'
<1> USE OutcomeFacts DEF DraftIInv, GatesDone, ToJudge, CapacityFirst
<1>2. DraftTypeOK'
  BY DEF DraftTypeOK
<1>3. StageKeeps'
  BY DEF DraftTypeOK, StageKeeps
<1>4. RepairsPayForCalls'
  BY DEF DraftTypeOK, StageKeeps, RepairsPayForCalls
<1>5. ProposalPassedGates' /\ ApprovalIsOfThisDraft'
  BY DEF StageKeeps, ProposalPassedGates, ApprovalIsOfThisDraft
<1> QED BY <1>2, <1>3, <1>4, <1>5

LEMMA GiveUpRepairsKeeps == ASSUME DraftIInv, GiveUpRepairs PROVE DraftIInv'
<1> USE OutcomeFacts DEF DraftIInv, GiveUpRepairs, Gated, ToJudge, CapacityFirst, Ends
<1>0. rejudged * JUDGE_TRIES \in Nat
  BY JudgeRounds DEF DraftTypeOK
<1>1. faults' \subseteq Fields
  BY DEF DraftTypeOK, SecondaryFallback
<1>2. DraftTypeOK'
  BY <1>1 DEF DraftTypeOK, StageKeeps
<1>3. StageKeeps'
  BY DEF DraftTypeOK, StageKeeps
<1>4. RepairsPayForCalls'
  BY <1>0 DEF DraftTypeOK, StageKeeps, RepairsPayForCalls
<1>5. ProposalPassedGates' /\ ApprovalIsOfThisDraft'
  BY DEF StageKeeps, ProposalPassedGates, ApprovalIsOfThisDraft
<1> QED BY <1>2, <1>3, <1>4, <1>5

LEMMA JudgeFailsKeeps == ASSUME DraftIInv, JudgeFails PROVE DraftIInv'
<1> USE OutcomeFacts DEF DraftIInv, JudgeFails, Ends
<1>0. rejudged * JUDGE_TRIES \in Nat
  BY JudgeRounds DEF DraftTypeOK
<1>2. DraftTypeOK'
  <2>1. Proposal(TRUE, FALSE) \in DraftOutcomes
    OBVIOUS
  <2>2. outcome' \in DraftOutcomes /\ stage' \in {"judge", "done"}
    BY <2>1 DEF DraftTypeOK
  <2>3. judgeTries' \in 0..JUDGE_TRIES /\ calls' \in Nat
    BY DEF DraftTypeOK
  <2> QED BY <2>2, <2>3 DEF DraftTypeOK
<1>3. StageKeeps'
  BY DEF DraftTypeOK, StageKeeps
<1>4. RepairsPayForCalls'
  BY <1>0 DEF DraftTypeOK, StageKeeps, RepairsPayForCalls
<1>5. ProposalPassedGates' /\ ApprovalIsOfThisDraft'
  BY DEF StageKeeps, ProposalPassedGates, ApprovalIsOfThisDraft
<1> QED BY <1>2, <1>3, <1>4, <1>5

LEMMA JudgeKeeps == ASSUME DraftIInv, Judge PROVE DraftIInv'
<1> USE OutcomeFacts DEF DraftIInv, Judge
<1>0. rejudged * JUDGE_TRIES \in Nat
  BY JudgeRounds DEF DraftTypeOK
<1>2. DraftTypeOK'
  BY DEF DraftTypeOK, StageKeeps
<1>3. StageKeeps'
  BY DEF DraftTypeOK, StageKeeps
<1>4. RepairsPayForCalls'
  BY <1>0 DEF DraftTypeOK, StageKeeps, RepairsPayForCalls
<1>5. ProposalPassedGates' /\ ApprovalIsOfThisDraft'
  BY DEF StageKeeps, ProposalPassedGates, ApprovalIsOfThisDraft
<1> QED BY <1>2, <1>3, <1>4, <1>5

LEMMA ApproveKeeps == ASSUME DraftIInv, Approve PROVE DraftIInv'
<1> USE OutcomeFacts DEF DraftIInv, Approve, Ends
<1>2. DraftTypeOK'
  BY DEF DraftTypeOK, StageKeeps
<1>3. StageKeeps'
  BY DEF DraftTypeOK, StageKeeps
<1>4. RepairsPayForCalls'
  BY DEF RepairsPayForCalls
<1>5. ProposalPassedGates' /\ ApprovalIsOfThisDraft'
  BY DEF StageKeeps, ProposalPassedGates, ApprovalIsOfThisDraft
<1> QED BY <1>2, <1>3, <1>4, <1>5

LEMMA JudgeRepairKeeps == ASSUME DraftIInv, JudgeRepair PROVE DraftIInv'
<1> USE OutcomeFacts DEF DraftIInv, JudgeRepair, Gated, ToJudge, CapacityFirst, Ends
<1>0. /\ rejudged * JUDGE_TRIES \in Nat
      /\ (rejudged + 1) * JUDGE_TRIES = rejudged * JUDGE_TRIES + JUDGE_TRIES
  BY JudgeRounds DEF DraftTypeOK
<1>1. faults' \subseteq Fields
  OBVIOUS
<1>2. DraftTypeOK'
  BY <1>1 DEF DraftTypeOK, RepairsPayForCalls
<1>3. StageKeeps'
  BY DEF DraftTypeOK, StageKeeps
<1>4. RepairsPayForCalls'
  BY <1>0 DEF DraftTypeOK, StageKeeps, RepairsPayForCalls
<1>5. ProposalPassedGates' /\ ApprovalIsOfThisDraft'
  BY DEF StageKeeps, ProposalPassedGates, ApprovalIsOfThisDraft
<1> QED BY <1>2, <1>3, <1>4, <1>5

LEMMA ResolveJudgeFailuresKeeps == ASSUME DraftIInv, ResolveJudgeFailures PROVE DraftIInv'
<1> USE OutcomeFacts DEF DraftIInv, ResolveJudgeFailures, Ends
<1>0. /\ rejudged * JUDGE_TRIES \in Nat
      /\ (rejudged + 1) * JUDGE_TRIES = rejudged * JUDGE_TRIES + JUDGE_TRIES
  BY JudgeRounds DEF DraftTypeOK
<1>1. \/ Ends(Proposal(FALSE, TRUE)) /\ "central" \notin verdicts
      \/ Ends(Insufficient)
  <2>1. PICK s \in Settled : Ends(IF s THEN Proposal(FALSE, TRUE) ELSE Insufficient)
    OBVIOUS
  <2>2. s \in BOOLEAN /\ ("central" \in verdicts => ~s)
    BY DEF Settled
  <2>3. CASE s
    BY <2>1, <2>2, <2>3
  <2>4. CASE ~s
    BY <2>1, <2>4
  <2> QED BY <2>3, <2>4
<1>2. DraftTypeOK'
  <2>1. Proposal(FALSE, TRUE) \in DraftOutcomes
    OBVIOUS
  <2>2. outcome' \in DraftOutcomes /\ stage' = "done"
    BY <1>1, <2>1
  <2>3. rejudged' \in 0..MAX_JUDGE_REPAIRS /\ calls' \in Nat
    BY DEF DraftTypeOK
  <2> QED BY <2>2, <2>3 DEF DraftTypeOK
<1>3. StageKeeps'
  BY <1>1 DEF DraftTypeOK, StageKeeps
<1>4. RepairsPayForCalls'
  BY <1>0 DEF DraftTypeOK, RepairsPayForCalls
<1>5. faults' = {} /\ judgedNo' = draftNo' /\ verdicts' = verdicts
  BY DEF StageKeeps
<1>6. CASE Ends(Proposal(FALSE, TRUE)) /\ "central" \notin verdicts
  <2>1. outcome'.settled = TRUE
    BY <1>6
  <2> QED BY <1>2, <1>3, <1>4, <1>5, <1>6, <2>1 DEF ProposalPassedGates, ApprovalIsOfThisDraft
<1>7. CASE Ends(Insufficient)
  <2>1. outcome'.status = "insufficient"
    BY <1>7
  <2> QED BY <1>2, <1>3, <1>4, <2>1 DEF ProposalPassedGates, ApprovalIsOfThisDraft
<1> QED BY <1>1, <1>6, <1>7

LEMMA DraftStepOK == ASSUME DraftIInv, [DraftNext]_strategyDraftVars PROVE DraftIInv'
<1>1. CASE UNCHANGED strategyDraftVars
  BY <1>1 DEF strategyDraftVars, DraftIInv, DraftTypeOK, StageKeeps, RepairsPayForCalls,
              ProposalPassedGates, ApprovalIsOfThisDraft
<1>2. CASE DraftNext
  BY <1>2, GenerateKeeps, StructRepairKeeps, GatesDoneKeeps, GiveUpRepairsKeeps, JudgeFailsKeeps,
     JudgeKeeps, ApproveKeeps, JudgeRepairKeeps, ResolveJudgeFailuresKeeps DEF DraftNext
<1> QED BY <1>1, <1>2

\* The drafts and the calls that the repairs pay for are within the bound on calls.
LEMMA DraftIInvIsEnough == DraftIInv => DraftInv
<1> SUFFICES ASSUME DraftIInv PROVE DraftInv
  OBVIOUS
<1>1. rejudged \in 0..MAX_JUDGE_REPAIRS /\ repairs \in 0..MAX_STRUCT_REPAIRS
      /\ judgeTries \in 0..JUDGE_TRIES /\ calls \in Nat
  BY DEF DraftIInv, DraftTypeOK
<1>2. /\ rejudged * JUDGE_TRIES \in Nat
      /\ rejudged * JUDGE_TRIES <= MAX_JUDGE_REPAIRS * JUDGE_TRIES
  BY <1>1, JudgeRounds
<1>3. (1 + MAX_JUDGE_REPAIRS) * JUDGE_TRIES = MAX_JUDGE_REPAIRS * JUDGE_TRIES + JUDGE_TRIES
      /\ MAX_JUDGE_REPAIRS * JUDGE_TRIES \in Nat
  OBVIOUS
<1>4. DraftingIsBounded
  BY <1>1, <1>2, <1>3 DEF DraftIInv, RepairsPayForCalls, DraftingIsBounded
<1> QED BY <1>4 DEF DraftIInv, DraftInv

\* A stored proposal passed the gates and was judged as it is stored (or is marked as unjudged), and
\* the loops of generate call the models a bounded number of times, for every bound on the loops.
THEOREM DraftIsSound == DraftSpec => []DraftInv
<1>1. DraftInit => DraftIInv
  BY DraftInitOK
<1>2. DraftIInv /\ [DraftNext]_strategyDraftVars => DraftIInv'
  BY DraftStepOK
<1>3. DraftIInv => DraftInv
  BY DraftIInvIsEnough
<1> QED BY <1>1, <1>2, <1>3, PTL DEF DraftSpec

(***************************************************************************)
(* For any number of requests and any bounds: what a version knows of what *)
(* is recorded, and that the adopted version never changes.                *)
(***************************************************************************)

HIDE DraftAssumption DEF DraftAssumption
USE VersionsAssumption DEF VersionsAssumption

\* Nothing a generation found when it began knows more than it does, the words it answers are new to
\* all of that, and what a view of the arc found newest is of another context.
Builds(row, bound, said, rows) ==
    /\ row.since <= bound /\ row.inputs <= said
    /\ \A i \in 1..row.since :
          /\ rows[i].inputs <= row.inputs
          /\ row.cause \in {"words", "challenge"} => rows[i].inputs < row.inputs
    /\ row.cause = "view" /\ row.since > 0 => Context(rows[row.since]) # Context(row)

\* Who asks for the view after a challenge has a version of its own; an older bet answered only one
\* that is insufficient.
Challenged ==
    /\ \A a \in Askers : /\ draftOf[a].own <= Len(versions)
                         /\ asker[a] \in {"viewing", "joined"} => draftOf[a].own > 0
    /\ \A n \in bets : n.shown < n.own => versions[n.own].status = "insufficient"

VersionsIInv ==
    /\ VersionsTypeOK
    /\ \A a \in Askers : Generating(a) => Builds(draftOf[a], Len(versions), inputs, versions)
    /\ \A j \in 1..Len(versions) : Builds(versions[j], j - 1, inputs, versions)
    /\ Challenged
    /\ adopted > 0 => versions[adopted].status = "proposal"

-----------------------------------------------------------------------------
\* A bounded set of positions has a last one.
LEMMA LastPosition ==
    ASSUME NEW n \in Nat, NEW S \in SUBSET (1..n), S # {}
    PROVE  Max(S) \in S /\ \A k \in S : k <= Max(S)
<1> DEFINE T == {n - i : i \in S}
<1>1. T \in SUBSET Nat /\ T # {}
  <2>1. \A i \in S : i \in 1..n
    OBVIOUS
  <2>2. \A i \in S : n - i \in Nat
    BY <2>1
  <2>3. PICK i \in S : TRUE
    OBVIOUS
  <2>4. n - i \in T
    BY <2>3
  <2> QED BY <2>2, <2>4
<1> DEFINE R == {ss \in Nat \X Nat : ss[1] < ss[2]}
<1>2. PICK t \in T : \A m \in T : ~(<<m, t>> \in R)
  <2>1. IsWellFoundedOn(R, Nat)
    BY NatLessThanWellFounded DEF OpToRel
  <2> QED BY <1>1, <2>1, WFMin
<1>3. PICK i \in S : t = n - i
  BY <1>2
<1>4. \A k \in S : i >= k
  <2> TAKE k \in S
  <2>1. n - k \in T
    OBVIOUS
  <2>2. n - k \in Nat /\ t \in Nat /\ ~(n - k < t)
    BY <1>1, <1>2, <2>1
  <2> QED BY <1>3, <2>2
<1> QED BY <1>4 DEF Max

LEMMA NoDraftIsDraft == NoDraftYet \in Draft /\ NoDraftYet.own = 0
BY DEF NoDraftYet, DraftFrom, Draft, Causes

LEMMA VersionsInitOK == VersionsInit => VersionsIInv
<1> SUFFICES ASSUME VersionsInit PROVE VersionsIInv
  OBVIOUS
<1>1. versions \in Seq(Version) /\ Len(versions) = 0
  BY DEF VersionsInit
<1>2. VersionsTypeOK
  <2>1. inputs = 0 /\ adopted = 0 /\ begun = 0 /\ bets = {}
    BY DEF VersionsInit
  <2>2. /\ asker \in [Askers -> {"idle", "drafting", "storing", "viewing", "joined"}]
        /\ draftOf \in [Askers -> Draft]
    BY NoDraftIsDraft DEF VersionsInit
  <2>3. inputs \in 0..MaxInputs /\ adopted \in 0..Len(versions) /\ begun \in 0..MaxVersions
    BY <1>1, <2>1
  <2> QED BY <1>1, <2>1, <2>2, <2>3 DEF VersionsTypeOK
<1>3. \A a \in Askers : asker[a] = "idle" /\ draftOf[a].own = 0
  BY NoDraftIsDraft DEF VersionsInit
<1>4. Challenged
  BY <1>1, <1>3 DEF VersionsInit, Challenged
<1> QED BY <1>1, <1>2, <1>3, <1>4 DEF VersionsInit, VersionsIInv, Generating

\* The stored rows, and what is already being generated, stand however much more is said.
LEMMA SaidMore ==
    ASSUME VersionsTypeOK, NEW row \in Version \cup Draft, NEW bound \in Nat, NEW more \in Nat,
           Builds(row, bound, inputs, versions), inputs <= more
    PROVE  Builds(row, bound, more, versions)
BY DEF Builds, Version, Draft, VersionsTypeOK

LEMMA RowsTyped ==
    ASSUME VersionsIInv
    PROVE  /\ VersionsTypeOK /\ Len(versions) \in Nat /\ inputs \in Nat
           /\ \A j \in 1..Len(versions) :
                 /\ versions[j] \in Version /\ versions[j].inputs \in Nat
                 /\ versions[j].inputs <= inputs
                 /\ Builds(versions[j], j - 1, inputs, versions) /\ j - 1 \in Nat
           /\ \A a \in Askers : draftOf[a] \in Draft /\ draftOf[a].own \in Nat
           /\ \A a \in Askers : Generating(a) => Builds(draftOf[a], Len(versions), inputs, versions)
<1>1. VersionsTypeOK /\ Len(versions) \in Nat /\ inputs \in Nat
  BY DEF VersionsIInv, VersionsTypeOK
<1>2. ASSUME NEW j \in 1..Len(versions)
      PROVE  /\ versions[j] \in Version /\ versions[j].inputs \in Nat
             /\ versions[j].inputs <= inputs
             /\ Builds(versions[j], j - 1, inputs, versions) /\ j - 1 \in Nat
  <2>1. versions[j] \in Version
    BY <1>1 DEF VersionsTypeOK
  <2>2. Builds(versions[j], j - 1, inputs, versions)
    BY DEF VersionsIInv
  <2>3. versions[j].inputs <= inputs
    BY <2>2 DEF Builds
  <2> QED BY <1>1, <2>1, <2>2, <2>3 DEF Version
<1>3. \A a \in Askers : draftOf[a] \in Draft /\ draftOf[a].own \in Nat
  BY <1>1 DEF VersionsTypeOK, Draft
<1> QED BY <1>1, <1>2, <1>3 DEF VersionsIInv

\* A generation that begins knows everything that is stored.
LEMMA BeginsKeeps ==
    ASSUME VersionsIInv, NEW a \in Askers, NEW cause \in Causes, NEW known \in 0..MaxInputs,
           Begins(a, cause, known), inputs' = known,
           inputs <= known, cause \in {"words", "challenge"} => inputs < known,
           cause = "view" => known = inputs /\ Proposals = {} /\ ~AlreadyTried
    PROVE  VersionsIInv'
<1> USE DEF Newest
<1> DEFINE d == DraftFrom(known, cause, Len(versions), 0, draftOf[a].own)
<1>1. /\ VersionsTypeOK /\ Len(versions) \in Nat /\ inputs \in Nat /\ known \in Nat
      /\ \A j \in 1..Len(versions) : versions[j] \in Version /\ versions[j].inputs \in Nat
                                     /\ versions[j].inputs <= inputs
      /\ draftOf[a].own \in Nat
  BY RowsTyped
<1>2. d \in Draft /\ d.inputs = known /\ d.cause = cause /\ d.since = Len(versions) /\ d.own = draftOf[a].own
  BY <1>1 DEF DraftFrom, Draft
<1>3. /\ draftOf' = [draftOf EXCEPT ![a] = d] /\ versions' = versions /\ adopted' = adopted
      /\ asker' = [asker EXCEPT ![a] = "drafting"] /\ bets' = bets
      /\ begun < MaxVersions /\ begun' = begun + 1
  BY DEF Begins
<1>4. Context(d) = <<known, Options(cause, known)>>
  BY <1>2 DEF Context
<1> HIDE DEF d
<1>5. VersionsTypeOK'
  BY <1>1, <1>2, <1>3 DEF VersionsTypeOK
<1>6. cause = "view" /\ Len(versions) > 0 => Context(versions[Len(versions)]) # Context(d)
  <2> SUFFICES ASSUME cause = "view", Len(versions) > 0
               PROVE  Context(versions[Len(versions)]) # Context(d)
    OBVIOUS
  <2>1. Len(versions) \in 1..Len(versions)
    BY <1>1
  <2>2. versions[Len(versions)].status \in {"proposal", "insufficient"}
    BY <1>1, <2>1 DEF Version
  <2>3. versions[Len(versions)].status = "insufficient"
    BY <2>1, <2>2 DEF Proposals
  <2> QED BY <1>4, <2>3 DEF AlreadyTried
<1>7. Builds(d, Len(versions), known, versions)
  BY <1>1, <1>2, <1>6 DEF Builds
<1>8. ASSUME NEW b \in Askers, Generating(b)'
      PROVE  Builds(draftOf'[b], Len(versions), known, versions)
  <2>1. CASE b = a
    BY <1>1, <1>3, <1>7, <2>1 DEF VersionsTypeOK
  <2>2. CASE b # a
    <3>1. Generating(b) /\ draftOf'[b] = draftOf[b]
      BY <1>1, <1>3, <1>8, <2>2 DEF VersionsTypeOK, Generating
    <3>2. draftOf[b] \in Draft /\ Builds(draftOf[b], Len(versions), inputs, versions)
      BY <3>1, RowsTyped
    <3> QED BY <1>1, <3>1, <3>2, SaidMore
  <2> QED BY <2>1, <2>2
<1>9. ASSUME NEW j \in 1..Len(versions) PROVE Builds(versions[j], j - 1, known, versions)
  BY <1>1, RowsTyped, SaidMore
<1>10. Challenged'
  <2>1. \A b \in Askers : /\ draftOf'[b].own = draftOf[b].own
                          /\ asker'[b] \in {"viewing", "joined"} => asker'[b] = asker[b]
    BY <1>1, <1>2, <1>3 DEF VersionsTypeOK
  <2> QED BY <1>3, <2>1 DEF VersionsIInv, Challenged
<1>11. adopted > 0 => versions[adopted].status = "proposal"
  BY DEF VersionsIInv
<1> QED BY <1>3, <1>5, <1>8, <1>9, <1>10, <1>11 DEF VersionsIInv

LEMMA StateMoreKeeps == ASSUME VersionsIInv, StateMore PROVE VersionsIInv'
<1>1. /\ VersionsTypeOK /\ inputs' \in Nat /\ inputs <= inputs' /\ VersionsTypeOK' /\ Len(versions) \in Nat
  BY DEF StateMore, VersionsIInv, VersionsTypeOK
<1>2. UNCHANGED <<versions, adopted, asker, draftOf, bets>>
  BY DEF StateMore
<1>3. ASSUME NEW b \in Askers, Generating(b)
      PROVE  Builds(draftOf[b], Len(versions), inputs', versions)
  BY <1>1, <1>3, RowsTyped, SaidMore
<1>4. ASSUME NEW j \in 1..Len(versions) PROVE Builds(versions[j], j - 1, inputs', versions)
  BY <1>1, RowsTyped, SaidMore
<1>5. Challenged'
  BY <1>2 DEF VersionsIInv, Challenged
<1> QED BY <1>1, <1>2, <1>3, <1>4, <1>5 DEF VersionsIInv, Generating

LEMMA TakeNumberKeeps == ASSUME VersionsIInv, NEW a \in Askers, TakeNumber(a) PROVE VersionsIInv'
<1> USE DEF Newest
<1> DEFINE d == DraftFrom(draftOf[a].inputs, draftOf[a].cause, draftOf[a].since, Len(versions) + 1,
                          draftOf[a].own)
<1>1. /\ VersionsTypeOK /\ Len(versions) \in Nat /\ draftOf[a] \in Draft
      /\ Builds(draftOf[a], Len(versions), inputs, versions)
  <2>1. Generating(a)
    BY DEF TakeNumber, Generating
  <2> QED BY <2>1, RowsTyped
<1>2. /\ d \in Draft /\ d.inputs = draftOf[a].inputs /\ d.cause = draftOf[a].cause
      /\ d.since = draftOf[a].since /\ d.own = draftOf[a].own
  BY <1>1 DEF DraftFrom, Draft
<1>3. /\ draftOf' = [draftOf EXCEPT ![a] = d] /\ asker' = [asker EXCEPT ![a] = "storing"]
      /\ UNCHANGED <<inputs, versions, adopted, begun, bets>>
  BY DEF TakeNumber
<1>4. Context(d) = Context(draftOf[a])
  BY <1>2 DEF Context
<1> HIDE DEF d
<1>5. VersionsTypeOK'
  BY <1>1, <1>2, <1>3 DEF VersionsTypeOK
<1>6. Builds(d, Len(versions), inputs, versions)
  BY <1>1, <1>2, <1>4 DEF Builds
<1>7. ASSUME NEW b \in Askers, Generating(b)'
      PROVE  Builds(draftOf'[b], Len(versions), inputs, versions)
  <2>1. CASE b = a
    BY <1>1, <1>3, <1>6, <2>1 DEF VersionsTypeOK
  <2>2. CASE b # a
    <3>1. Generating(b) /\ draftOf'[b] = draftOf[b]
      BY <1>1, <1>3, <1>7, <2>2 DEF VersionsTypeOK, Generating
    <3> QED BY <3>1, RowsTyped
  <2> QED BY <2>1, <2>2
<1>8. Challenged'
  <2>1. \A b \in Askers : /\ draftOf'[b].own = draftOf[b].own
                          /\ asker'[b] \in {"viewing", "joined"} => asker'[b] = asker[b]
    BY <1>1, <1>2, <1>3 DEF VersionsTypeOK
  <2> QED BY <1>3, <2>1 DEF VersionsIInv, Challenged
<1> QED BY <1>3, <1>5, <1>7, <1>8 DEF VersionsIInv

\* Who waits for what a generates: requests whose own version is stored.
LEMMA WaitingOwns ==
    ASSUME VersionsIInv, NEW a \in Askers, NEW b \in Waiting(a)
    PROVE  b \in Askers /\ draftOf[b].own \in 1..Len(versions)
BY RowsTyped DEF Waiting, VersionsIInv, Challenged

\* A generation ends for its request and for all that waited; nobody else is disturbed.
LEMMA ReleasedDoes ==
    ASSUME VersionsIInv, NEW a \in Askers, NEW stored \in BOOLEAN, Released(a, stored)
    PROVE  /\ asker' \in [Askers -> {"idle", "drafting", "storing", "viewing", "joined"}]
           /\ draftOf' \in [Askers -> Draft]
           /\ \A b \in Askers : Generating(b)' => Generating(b) /\ draftOf'[b] = draftOf[b]
           /\ \A b \in Askers : /\ draftOf'[b].own <= IF stored THEN Len(versions) + 1 ELSE Len(versions)
                                /\ asker'[b] \in {"viewing", "joined"} => draftOf'[b].own > 0
<1> DEFINE done == Waiting(a) \cup (IF stored /\ draftOf[a].cause = "challenge" THEN {} ELSE {a})
           d == DraftFrom(0, "view", 0, 0, Len(versions) + 1)
<1>1. /\ asker' = [b \in Askers |-> IF b \in done THEN "idle" ELSE IF b = a THEN "viewing" ELSE asker[b]]
      /\ draftOf' = [b \in Askers |-> IF b \in done THEN NoDraftYet ELSE IF b = a THEN d ELSE draftOf[b]]
  BY DEF Released, Newest
<1>2. a \notin done => stored
  OBVIOUS
<1>3. d \in Draft /\ d.own = Len(versions) + 1
  BY RowsTyped DEF DraftFrom, Draft, Causes
<1> HIDE DEF done, d
<1>4. /\ VersionsTypeOK /\ Len(versions) \in Nat
      /\ \A b \in Askers : /\ draftOf[b].own \in Nat /\ draftOf[b].own <= Len(versions)
                           /\ asker[b] \in {"viewing", "joined"} => draftOf[b].own > 0
  BY RowsTyped DEF VersionsIInv, Challenged
<1>5. /\ asker' \in [Askers -> {"idle", "drafting", "storing", "viewing", "joined"}]
      /\ draftOf' \in [Askers -> Draft]
  BY <1>1, <1>3, <1>4, NoDraftIsDraft DEF VersionsTypeOK
<1>6. ASSUME NEW b \in Askers, Generating(b)' PROVE Generating(b) /\ draftOf'[b] = draftOf[b]
  BY <1>1, <1>6 DEF Generating
<1>7. ASSUME NEW b \in Askers
      PROVE  /\ draftOf'[b].own <= IF stored THEN Len(versions) + 1 ELSE Len(versions)
             /\ asker'[b] \in {"viewing", "joined"} => draftOf'[b].own > 0
  <2>1. CASE b \in done
    BY <1>1, <1>4, <2>1, NoDraftIsDraft
  <2>2. CASE b \notin done /\ b = a
    BY <1>1, <1>2, <1>3, <1>4, <2>2
  <2>3. CASE b \notin done /\ b # a
    <3>1. asker'[b] = asker[b] /\ draftOf'[b] = draftOf[b]
      BY <1>1, <2>3
    <3> QED BY <1>4, <3>1
  <2> QED BY <2>1, <2>2, <2>3
<1> QED BY <1>5, <1>6, <1>7

\* A row is appended behind everything its generation knew.
LEMMA StoreKeeps ==
    ASSUME VersionsIInv, NEW a \in Askers, Store(a)
    PROVE  /\ VersionsIInv'
           /\ \A i \in 1..Len(versions) : versions'[i] = versions[i]
<1>1. /\ VersionsTypeOK /\ Len(versions) \in Nat /\ inputs \in Nat /\ draftOf[a] \in Draft
      /\ Builds(draftOf[a], Len(versions), inputs, versions)
      /\ UNCHANGED <<inputs, adopted, begun>>
  <2>1. Generating(a)
    BY DEF Store, Generating
  <2> QED BY <2>1, RowsTyped DEF Store
<1>2. CASE Released(a, FALSE) /\ UNCHANGED <<versions, bets>>
  <2>1. /\ asker' \in [Askers -> {"idle", "drafting", "storing", "viewing", "joined"}]
        /\ draftOf' \in [Askers -> Draft]
        /\ \A b \in Askers : Generating(b)' => Generating(b) /\ draftOf'[b] = draftOf[b]
        /\ \A b \in Askers : /\ draftOf'[b].own <= Len(versions)
                             /\ asker'[b] \in {"viewing", "joined"} => draftOf'[b].own > 0
    BY <1>2, ReleasedDoes
  <2>2. VersionsTypeOK'
    BY <1>1, <1>2, <2>1 DEF VersionsTypeOK
  <2>3. ASSUME NEW b \in Askers, Generating(b)'
        PROVE  Builds(draftOf'[b], Len(versions), inputs, versions)
    BY <2>1, <2>3, RowsTyped
  <2>4. Challenged'
    BY <1>2, <2>1 DEF VersionsIInv, Challenged
  <2> QED BY <1>1, <1>2, <2>2, <2>3, <2>4 DEF VersionsIInv
<1>3. ASSUME NEW s \in {"proposal", "insufficient"}, Released(a, TRUE),
             versions' = Append(versions, [status |-> s, inputs |-> draftOf[a].inputs,
                                           cause |-> draftOf[a].cause, since |-> draftOf[a].since]),
             bets' = IF s = "insufficient" THEN bets
                     ELSE bets \cup {[own |-> draftOf[b].own, shown |-> Newest + 1] : b \in Waiting(a)}
      PROVE  /\ VersionsIInv'
             /\ \A i \in 1..Len(versions) : versions'[i] = versions[i]
  <2> DEFINE row == [status |-> s, inputs |-> draftOf[a].inputs,
                     cause |-> draftOf[a].cause, since |-> draftOf[a].since]
  <2>1. /\ row \in Version /\ row.inputs = draftOf[a].inputs /\ row.cause = draftOf[a].cause
        /\ row.since = draftOf[a].since /\ Context(row) = Context(draftOf[a])
    BY <1>1 DEF Version, Draft, Context
  <2>2. versions' = Append(versions, row)
    BY <1>3
  <2> HIDE DEF row
  <2>3. /\ versions' \in Seq(Version) /\ Len(versions') = Len(versions) + 1
        /\ \A i \in 1..Len(versions) : versions'[i] = versions[i]
        /\ versions'[Len(versions) + 1] = row
    BY <1>1, <2>1, <2>2 DEF VersionsTypeOK
  <2>4. /\ asker' \in [Askers -> {"idle", "drafting", "storing", "viewing", "joined"}]
        /\ draftOf' \in [Askers -> Draft]
        /\ \A b \in Askers : Generating(b)' => Generating(b) /\ draftOf'[b] = draftOf[b]
        /\ \A b \in Askers : /\ draftOf'[b].own <= Len(versions')
                             /\ asker'[b] \in {"viewing", "joined"} => draftOf'[b].own > 0
    BY <1>3, <2>3, ReleasedDoes
  <2>5. \A n \in bets' \ bets : /\ n \in [own : 1..Len(versions'), shown : 1..Len(versions')]
                                /\ ~(n.shown < n.own)
    <3> SUFFICES ASSUME NEW b \in Waiting(a)
                 PROVE  LET n == [own |-> draftOf[b].own, shown |-> Newest + 1]
                        IN  /\ n \in [own : 1..Len(versions'), shown : 1..Len(versions')]
                            /\ ~(n.shown < n.own)
      BY <1>3
    <3>1. /\ draftOf[b].own \in 1..Len(versions) /\ Newest + 1 \in 1..Len(versions')
          /\ ~(Newest + 1 < draftOf[b].own) /\ draftOf[b].own \in 1..Len(versions')
      BY <1>1, <2>3, WaitingOwns DEF Newest
    <3> QED BY <3>1
  <2>6. VersionsTypeOK'
    <3>1. bets' \subseteq [own : 1..Len(versions'), shown : 1..Len(versions')]
      <4> SUFFICES ASSUME NEW n \in bets' PROVE n \in [own : 1..Len(versions'), shown : 1..Len(versions')]
        OBVIOUS
      <4>1. CASE n \in bets
        BY <1>1, <2>3, <4>1 DEF VersionsTypeOK
      <4> QED BY <2>5, <4>1
    <3>2. adopted \in 0..Len(versions')
      BY <1>1, <2>3 DEF VersionsTypeOK
    <3> QED BY <1>1, <2>3, <2>4, <3>1, <3>2 DEF VersionsTypeOK
  <2>7. \* What holds of the rows there were holds with one row more.
        ASSUME NEW r \in Version \cup Draft, NEW n \in 0..Len(versions), Builds(r, n, inputs, versions)
        PROVE  Builds(r, n, inputs, versions') /\ Builds(r, Len(versions'), inputs, versions')
    <3>1. r.since \in Nat /\ r.since <= n
      BY <2>7 DEF Version, Draft, Builds
    <3>2. \A i \in 1..r.since : versions'[i] = versions[i]
      BY <1>1, <2>3, <3>1
    <3>3. r.since > 0 => r.since \in 1..r.since
      BY <3>1
    <3> QED BY <1>1, <2>3, <2>7, <3>1, <3>2, <3>3 DEF Builds
  <2>8. ASSUME NEW b \in Askers, Generating(b)'
        PROVE  Builds(draftOf'[b], Len(versions'), inputs, versions')
    <3>1. Generating(b) /\ draftOf'[b] = draftOf[b]
      BY <2>4, <2>8
    <3>2. draftOf[b] \in Draft /\ Builds(draftOf[b], Len(versions), inputs, versions)
      BY <3>1, RowsTyped
    <3>3. Len(versions) \in 0..Len(versions)
      BY <1>1
    <3> QED BY <2>7, <3>1, <3>2, <3>3
  <2>9. ASSUME NEW j \in 1..Len(versions') PROVE Builds(versions'[j], j - 1, inputs, versions')
    <3>1. CASE j \in 1..Len(versions)
      <4>1. /\ versions[j] \in Version /\ Builds(versions[j], j - 1, inputs, versions)
            /\ j - 1 \in 0..Len(versions) /\ versions'[j] = versions[j]
        BY <1>1, <2>3, <3>1, RowsTyped
      <4> QED BY <2>7, <4>1
    <3>2. CASE j = Len(versions) + 1
      <4>1. Builds(row, Len(versions), inputs, versions) /\ Len(versions) \in 0..Len(versions)
        BY <1>1, <2>1 DEF Builds
      <4>2. Builds(row, Len(versions), inputs, versions')
        BY <2>1, <2>7, <4>1
      <4>3. j - 1 = Len(versions)
        BY <1>1, <3>2
      <4> QED BY <2>3, <3>2, <4>2, <4>3
    <3> QED BY <1>1, <2>3, <3>1, <3>2
  <2>10. Challenged'
    <3>1. ASSUME NEW n \in bets', n.shown < n.own PROVE versions'[n.own].status = "insufficient"
      <4>1. n \in bets
        BY <2>5, <3>1
      <4>2. n.own \in 1..Len(versions) /\ versions[n.own].status = "insufficient"
        BY <1>1, <3>1, <4>1 DEF VersionsIInv, Challenged, VersionsTypeOK
      <4> QED BY <2>3, <4>2
    <3> QED BY <2>4, <3>1 DEF Challenged
  <2>11. adopted > 0 => versions'[adopted].status = "proposal"
    <3>1. adopted \in 0..Len(versions)
      BY <1>1 DEF VersionsTypeOK
    <3> QED BY <1>1, <2>3, <3>1 DEF VersionsIInv
  <2> QED BY <1>1, <2>3, <2>6, <2>8, <2>9, <2>10, <2>11 DEF VersionsIInv
<1> QED BY <1>2, <1>3 DEF Store

\* A view after a challenge joins, or ends; a bet it is answered with comes before the challenge's own
\* version only if that one is insufficient.
LEMMA ViewKeeps ==
    ASSUME VersionsIInv, NEW a \in Askers, asker[a] = "viewing",
           NEW s \in {"idle", "joined"}, asker' = [asker EXCEPT ![a] = s],
           NEW d \in {draftOf[a], NoDraftYet}, s = "joined" => d = draftOf[a],
           draftOf' = [draftOf EXCEPT ![a] = d],
           UNCHANGED <<inputs, versions, adopted, begun>>,
           \A n \in bets' \ bets : /\ n \in [own : 1..Len(versions), shown : 1..Len(versions)]
                                   /\ n.shown < n.own => versions[n.own].status = "insufficient"
    PROVE  VersionsIInv'
<1>1. VersionsTypeOK /\ draftOf[a] \in Draft /\ draftOf[a].own \in Nat /\ Len(versions) \in Nat
  BY RowsTyped
<1>2. VersionsTypeOK'
  BY <1>1, NoDraftIsDraft DEF VersionsTypeOK
<1>3. ASSUME NEW b \in Askers, Generating(b)' PROVE Generating(b) /\ draftOf'[b] = draftOf[b]
  BY <1>1, <1>3 DEF VersionsTypeOK, Generating
<1>4. Challenged'
  <2>1. d.own <= Len(versions) /\ (s = "joined" => d.own > 0)
    BY <1>1, NoDraftIsDraft DEF VersionsIInv, Challenged
  <2>2. ASSUME NEW b \in Askers
        PROVE  /\ draftOf'[b].own <= Len(versions)
               /\ asker'[b] \in {"viewing", "joined"} => draftOf'[b].own > 0
    BY <1>1, <2>1 DEF VersionsIInv, Challenged, VersionsTypeOK
  <2> QED BY <2>2 DEF VersionsIInv, Challenged
<1> QED BY <1>2, <1>3, <1>4 DEF VersionsIInv

LEMMA ChallengeViewKeeps ==
    ASSUME VersionsIInv, NEW a \in Askers, JoinView(a) \/ ShowBet(a) \/ ShowNoBet(a)
    PROVE  VersionsIInv'
<1>1. CASE JoinView(a)
  <2>1. draftOf' = [draftOf EXCEPT ![a] = draftOf[a]]
    BY <1>1, RowsTyped DEF JoinView, VersionsTypeOK
  <2> QED BY <1>1, <2>1, ViewKeeps DEF JoinView
<1>2. CASE ShowBet(a)
  <2>1. /\ Len(versions) \in Nat /\ draftOf[a].own \in 1..Len(versions)
        /\ \A i \in 1..Len(versions) : versions[i].status \in {"proposal", "insufficient"}
    BY <1>2, RowsTyped DEF ShowBet, VersionsIInv, Challenged, Version
  <2>2. Proposals \in SUBSET (1..Len(versions)) /\ Proposals # {}
    BY <1>2 DEF ShowBet, Proposals
  <2>3. Max(Proposals) \in 1..Len(versions) /\ \A k \in Proposals : k <= Max(Proposals)
    BY <2>1, <2>2, LastPosition
  <2>4. Max(Proposals) < draftOf[a].own => versions[draftOf[a].own].status = "insufficient"
    BY <2>1, <2>3 DEF Proposals
  <2>5. bets' = bets \cup {[own |-> draftOf[a].own, shown |-> Max(Proposals)]}
    BY <1>2 DEF ShowBet
  <2>6. \A n \in bets' \ bets : /\ n \in [own : 1..Len(versions), shown : 1..Len(versions)]
                                /\ n.shown < n.own => versions[n.own].status = "insufficient"
    BY <2>1, <2>3, <2>4, <2>5
  <2> QED BY <1>2, <2>6, ViewKeeps DEF ShowBet
<1>3. CASE ShowNoBet(a)
  BY <1>3, ViewKeeps DEF ShowNoBet
<1> QED BY <1>1, <1>2, <1>3

LEMMA AdoptKeeps ==
    ASSUME VersionsIInv, NEW v \in 1..MaxVersions, AdoptStrategy(v)
    PROVE  VersionsIInv'
<1>1. /\ VersionsTypeOK /\ v \in 1..Len(versions) /\ versions[v].status = "proposal"
      /\ adopted' = v /\ UNCHANGED <<inputs, versions, asker, draftOf, begun, bets>>
  BY DEF AdoptStrategy, Proposals, VersionsIInv
<1>2. VersionsTypeOK'
  BY <1>1 DEF VersionsTypeOK
<1> QED BY <1>1, <1>2 DEF VersionsIInv, Challenged, Generating

LEMMA VersionsNextOK == VersionsIInv /\ [VersionsNext]_strategyVersionsVars => VersionsIInv'
<1> SUFFICES ASSUME VersionsIInv, [VersionsNext]_strategyVersionsVars PROVE VersionsIInv'
  OBVIOUS
<1>1. inputs \in 0..MaxInputs /\ inputs <= inputs
  BY DEF VersionsIInv, VersionsTypeOK
<1>2. ASSUME NEW a \in Askers, ViewArc(a) \/ ViewAnew(a) PROVE VersionsIInv'
  BY <1>1, <1>2, BeginsKeeps DEF ViewArc, ViewAnew, ViewGenerates, Causes
<1>3. ASSUME NEW a \in Askers, Retry(a) \/ AskAgain(a) \/ ReportResult(a) PROVE VersionsIInv'
  BY <1>1, <1>3, BeginsKeeps DEF Retry, AskAgain, ReportResult, Causes
<1>4. ASSUME NEW a \in Askers, NEW cause \in {"words", "challenge"}, Respond(a, cause) PROVE VersionsIInv'
  <2>1. inputs + 1 \in 0..MaxInputs /\ inputs < inputs + 1 /\ inputs <= inputs + 1
    BY <1>1, <1>4 DEF Respond
  <2>2. cause \in Causes /\ cause # "view"
    BY DEF Causes
  <2> QED BY <1>4, <2>1, <2>2, BeginsKeeps DEF Respond
<1>5. ASSUME NEW a \in Askers, TakeNumber(a) \/ Store(a) PROVE VersionsIInv'
  BY <1>5, TakeNumberKeeps, StoreKeeps
<1>6. ASSUME NEW a \in Askers, JoinView(a) \/ ShowBet(a) \/ ShowNoBet(a) PROVE VersionsIInv'
  BY <1>6, ChallengeViewKeeps
<1>7. CASE StateMore
  BY <1>7, StateMoreKeeps
<1>8. ASSUME NEW v \in 1..MaxVersions, AdoptStrategy(v) PROVE VersionsIInv'
  BY <1>8, AdoptKeeps
<1>9. CASE UNCHANGED strategyVersionsVars
  BY <1>9 DEF strategyVersionsVars, VersionsIInv, VersionsTypeOK, Challenged, Generating
<1> QED BY <1>2, <1>3, <1>4, <1>5, <1>6, <1>7, <1>8, <1>9 DEF VersionsNext

-----------------------------------------------------------------------------
LEMMA VersionsIInvOK == VersionsIInv => VersionsInv
<1> SUFFICES ASSUME VersionsIInv PROVE VersionsInv
  OBVIOUS
<1>1. ASSUME NEW j \in 1..Len(versions), NEW i \in 1..(j - 1)
      PROVE  /\ i \in 1..Len(versions) /\ j \in Nat /\ i \in Nat
             /\ versions[j].since \in Nat /\ versions[j].since <= j - 1
             /\ versions[i].inputs \in Nat /\ versions[j].inputs \in Nat
             /\ i <= versions[j].since => versions[i].inputs <= versions[j].inputs
  <2>1. i \in 1..Len(versions) /\ Len(versions) \in Nat
    BY RowsTyped
  <2>2. versions[j] \in Version /\ Builds(versions[j], j - 1, inputs, versions) /\ versions[i].inputs \in Nat
    BY <2>1, RowsTyped
  <2> QED BY <2>1, <2>2 DEF Builds, Version
<1>2. NewerKnowsMore
  <2> SUFFICES ASSUME NEW j \in 1..Len(versions), NEW i \in 1..(j - 1),
                      versions[j].inputs < versions[i].inputs
               PROVE  versions[j].since < i
    BY DEF NewerKnowsMore
  <2> QED BY <1>1
<1>3. WordsAreAnswered
  <2> SUFFICES ASSUME NEW j \in 1..Len(versions), versions[j].cause \in {"words", "challenge"},
                      NEW i \in 1..versions[j].since
               PROVE  versions[i].inputs < versions[j].inputs
    BY DEF WordsAreAnswered
  <2>1. Builds(versions[j], j - 1, inputs, versions)
    BY RowsTyped
  <2> QED BY <2>1 DEF Builds
<1>4. SameInputsOneResult
  <2> SUFFICES ASSUME NEW j \in 1..Len(versions), NEW i \in 1..(j - 1),
                      versions[j].cause = "view", Context(versions[i]) = Context(versions[j]),
                      \A k \in 1..j : ~(versions[k].since < k - 1)
               PROVE  /\ versions[j - 1].inputs = versions[j].inputs
                      /\ Context(versions[j - 1]) # Context(versions[j])
    BY DEF SameInputsOneResult
  <2>1. j - 1 \in 1..Len(versions) /\ j - 1 \in 1..(j - 1) /\ j \in 1..j /\ j - 1 \in 1..j
    BY RowsTyped
  <2>2. versions[j].since = j - 1
    <3>1. /\ versions[j].since \in Nat /\ versions[j].since <= j - 1 /\ j \in Nat
          /\ ~(versions[j].since < j - 1)
      BY <1>1, <2>1
    <3>2. \A m, k \in Nat : m <= k - 1 /\ ~(m < k - 1) => m = k - 1
      OBVIOUS
    <3> QED BY ONLY <3>1, <3>2
  <2>3. Context(versions[j - 1]) # Context(versions[j]) /\ versions[j - 1].inputs <= versions[j].inputs
    <3>1. Builds(versions[j], j - 1, inputs, versions)
      BY RowsTyped
    <3> QED BY <2>1, <2>2, <3>1 DEF Builds
  <2>4. versions[i].inputs = versions[j].inputs
    BY DEF Context
  <2>5. i # j - 1
    BY <2>3
  <2>6. versions[i].inputs <= versions[j - 1].inputs
    <3>1. i \in 1..((j - 1) - 1)
      BY <1>1, <2>5
    <3>2. versions[j - 1].since >= (j - 1) - 1
      BY <1>1, <2>1, <3>1
    <3> QED BY <1>1, <2>1, <3>1, <3>2
  <2>7. versions[j].inputs \in Nat /\ versions[j - 1].inputs \in Nat
    BY <1>1, <2>1
  <2> QED BY <2>3, <2>4, <2>6, <2>7
<1>5. UnmetIsExplained
  <2> SUFFICES ASSUME NEW n \in bets, versions[n.shown].inputs < versions[n.own].inputs
               PROVE  IF n.shown < n.own THEN versions[n.own].status = "insufficient"
                                         ELSE versions[n.shown].since < n.own
    BY DEF UnmetIsExplained
  <2>1. n.shown \in 1..Len(versions) /\ n.own \in 1..Len(versions) /\ Len(versions) \in Nat
    BY RowsTyped DEF VersionsTypeOK
  <2>2. CASE n.shown < n.own
    BY <2>2 DEF VersionsIInv, Challenged
  <2>3. CASE n.own < n.shown
    <3>1. n.own \in 1..(n.shown - 1)
      BY <2>1, <2>3
    <3> QED BY <1>2, <2>1, <2>3, <3>1 DEF NewerKnowsMore
  <2>4. n.shown # n.own
    <3>1. versions[n.own].inputs \in Nat
      BY <2>1, RowsTyped
    <3> QED BY <3>1
  <2> QED BY <2>1, <2>2, <2>3, <2>4
<1> QED BY <1>2, <1>3, <1>4, <1>5 DEF VersionsIInv, VersionsInv

\* However many requests generate at once, a version that knows less of what is recorded than an earlier
\* one was begun before that one was stored; a view repeats a result of the same context only after
\* overlapping generations or a result of another entry point; a bet that does not know the challenge it
\* answers has a reason.
THEOREM VersionsAreHonest == VersionsSpec => []VersionsInv
<1>1. VersionsInit => VersionsIInv
  BY VersionsInitOK
<1>2. VersionsIInv /\ [VersionsNext]_strategyVersionsVars => VersionsIInv'
  BY VersionsNextOK
<1>3. VersionsIInv => VersionsInv
  BY VersionsIInvOK
<1> QED BY <1>1, <1>2, <1>3, PTL DEF VersionsSpec

\* The strategy in force is a proposal that passed its gates, and no later step changes a version.
THEOREM AdoptedStands == VersionsSpec => AdoptedIsKept
<1> DEFINE Untouched == /\ \A i \in 1..Len(versions) : versions'[i] = versions[i]
                        /\ \A v \in {adopted'} \cap (1..Len(versions)) : versions[v].status = "proposal"
<1>1. VersionsInit => VersionsIInv
  BY VersionsInitOK
<1>2. VersionsIInv /\ [VersionsNext]_strategyVersionsVars => VersionsIInv'
  BY VersionsNextOK
<1>3. VersionsIInv /\ [VersionsNext]_strategyVersionsVars => [Untouched]_strategyVersionsVars
  <2> SUFFICES ASSUME VersionsIInv, VersionsNext PROVE Untouched
    OBVIOUS
  <2>1. \A i \in 1..Len(versions) : versions'[i] = versions[i]
    BY StoreKeeps DEF VersionsNext, ViewArc, ViewAnew, ViewGenerates, Retry, AskAgain, ReportResult, Respond,
                      Begins, StateMore, TakeNumber, JoinView, ShowBet, ShowNoBet, AdoptStrategy
  <2>2. VersionsIInv'
    BY <1>2
  <2>3. \A v \in {adopted'} \cap (1..Len(versions)) : versions[v].status = "proposal"
    BY <2>1, <2>2 DEF VersionsIInv
  <2> QED BY <2>1, <2>3
<1>4. VersionsSpec => [][Untouched]_strategyVersionsVars
  BY <1>1, <1>2, <1>3, PTL DEF VersionsSpec
<1> QED BY <1>4 DEF AdoptedIsKept

(***************************************************************************)
(* For any number of requests, plans and failures: two plans are in force  *)
(* only after overlapping adoptions, and a business that has adopted a     *)
(* plan keeps an active one unless an adoption failed half-way.            *)
(***************************************************************************)

HIDE VersionsAssumption DEF VersionsAssumption
USE PlanAssumption DEF PlanAssumption

\* Events are about plans there are, a plan is superseded after it was adopted, and is adopted once.
EventsInOrder ==
    /\ proposed \subseteq 1..Len(plans)
    /\ Adopted \subseteq proposed
    /\ superseded \subseteq Adopted
    /\ \A i, k \in 1..Len(adoptions) : adoptions[i] = adoptions[k] => i = k

\* What a request has read was so when it read it: the plan to adopt came after the first "read"
\* adoptions, the one to replace is among them.
HeldOK(c) ==
    /\ caller[c] = "draft" => held[c].prior = 0 \/ held[c].prior \in Adopted
    /\ caller[c] = "propose" => held[c].plan \in 1..Len(plans)
    /\ caller[c] \in {"supersede", "adopt"} =>
          /\ held[c].plan \in proposed
          /\ held[c].read <= Len(adoptions)
          /\ \A i \in 1..held[c].read : adoptions[i] # held[c].plan
          /\ held[c].replaced # 0 => \E i \in 1..held[c].read : adoptions[i] = held[c].replaced
    /\ caller[c] = "supersede" => held[c].replaced # 0

\* As long as no adoption was overlaid, one that is not overtaken yet takes over from the one plan
\* in force.
TakesOver(c) ==
    ~overlaid /\ caller[c] \in {"supersede", "adopt"} /\ held[c].read = Len(adoptions) =>
        InForce \subseteq (IF caller[c] = "supersede" THEN {held[c].replaced} ELSE {})

\* The plan adopted last is in force, or the request that superseded it is about to adopt another
\* one, or has failed.
LastIsReplaced ==
    \/ halved \/ adoptions = <<>>
    \/ adoptions[Len(adoptions)] \notin superseded
    \/ \E c \in Callers : /\ caller[c] = "adopt" /\ held[c].replaced # 0
                         /\ held[c].plan \notin Adopted

PlanIInv ==
    /\ PlanTypeOK
    /\ EventsInOrder
    /\ \A c \in Callers : HeldOK(c) /\ TakesOver(c)
    /\ LastIsReplaced
    /\ OneActiveUnlessOverlaid
    /\ PriorWasActive

-----------------------------------------------------------------------------
LEMMA AdoptedIs ==
    ASSUME PlanTypeOK
    PROVE  /\ Len(adoptions) \in Nat
           /\ Adopted = {adoptions[i] : i \in 1..Len(adoptions)}
           /\ Adopted \subseteq 1..MaxPlans
BY DEF PlanTypeOK, Adopted, ToSet

LEMMA ActiveInForce ==
    ASSUME PlanTypeOK
    PROVE  IF InForce = {} THEN Active = 0 ELSE Active \in InForce /\ Active # 0
<1> DEFINE rest == {i \in 1..Len(adoptions) : adoptions[i] \notin superseded}
<1>1. InForce = {adoptions[i] : i \in rest}
  BY AdoptedIs DEF InForce
<1>2. CASE rest = {}
  BY <1>1, <1>2 DEF Active
<1>3. CASE rest # {}
  <2>1. Max(rest) \in rest
    BY <1>3, AdoptedIs, LastPosition
  <2>2. Active = adoptions[Max(rest)]
    BY <1>3 DEF Active
  <2>3. Active \in InForce
    BY <1>1, <2>1, <2>2
  <2> QED BY <2>3, AdoptedIs DEF InForce
<1> QED BY <1>2, <1>3

LEMMA HeldRecords ==
    /\ \A p \in 0..MaxPlans, a \in 0..(MAX_PLAN_ATTEMPTS - 1) :
          /\ Drafting(p, a) \in Held
          /\ Drafting(p, a).prior = p /\ Drafting(p, a).attempt = a
    /\ \A p, q \in 0..MaxPlans, n \in Nat :
          /\ Adopting(p, q, n) \in Held
          /\ Adopting(p, q, n).plan = p
          /\ Adopting(p, q, n).replaced = q
          /\ Adopting(p, q, n).read = n
    /\ NothingHeld \in Held
BY DEF Held, Drafting, Adopting, NothingHeld

LEMMA PlanInitOK == PlanInit => PlanIInv
<1> SUFFICES ASSUME PlanInit PROVE PlanIInv
  OBVIOUS
<1>1. PlanTypeOK
  <2>1. plans \in Seq(0..MaxPlans) /\ Len(plans) = 0 /\ adoptions \in Seq(1..MaxPlans)
    BY DEF PlanInit
  <2>2. held \in [Callers -> Held]
    BY HeldRecords DEF PlanInit
  <2>3. breaks \in 0..MaxBreaks /\ Len(plans) <= MaxPlans
    BY <2>1 DEF PlanInit
  <2> QED BY <2>1, <2>2, <2>3 DEF PlanInit, PlanTypeOK
<1>2. Len(adoptions) = 0 /\ Len(plans) = 0 /\ Adopted = {}
  BY <1>1, AdoptedIs DEF PlanInit
<1>3. EventsInOrder /\ OneActiveUnlessOverlaid /\ PriorWasActive /\ LastIsReplaced
  BY <1>2 DEF PlanInit, EventsInOrder, OneActiveUnlessOverlaid, PriorWasActive, LastIsReplaced, InForce
<1>4. \A c \in Callers : HeldOK(c) /\ TakesOver(c)
  BY DEF PlanInit, HeldOK, TakesOver
<1> QED BY <1>1, <1>3, <1>4 DEF PlanIInv

-----------------------------------------------------------------------------
\* A step of c that adopts and supersedes nothing.
LEMMA QuietKeeps ==
    ASSUME PlanIInv, NEW c \in Callers, PlanTypeOK',
           UNCHANGED <<adoptions, superseded, overlaid>>,
           proposed \subseteq proposed', proposed' \subseteq 1..Len(plans'),
           Len(plans) <= Len(plans'), PriorWasActive',
           \A d \in Callers \ {c} : caller'[d] = caller[d] /\ held'[d] = held[d],
           HeldOK(c)', TakesOver(c)',
           halved \/ (caller[c] = "adopt" /\ held[c].replaced # 0) => halved'
    PROVE  PlanIInv'
<1>1. Adopted' = Adopted /\ InForce' = InForce
  BY DEF Adopted, InForce
<1>2. EventsInOrder'
  BY <1>1 DEF PlanIInv, EventsInOrder
<1>3. Len(plans) \in Nat /\ Len(plans') \in Nat
  BY DEF PlanIInv, PlanTypeOK
<1>4. \A d \in Callers \ {c} : TakesOver(d)'
  BY <1>1 DEF PlanIInv, TakesOver
<1>7. \A d \in Callers \ {c} : HeldOK(d)'
  <2> TAKE d \in Callers \ {c}
  <2>1. caller'[d] = caller[d] /\ held'[d] = held[d] /\ HeldOK(d)
    BY DEF PlanIInv
  <2>2. 1..Len(plans) \subseteq 1..Len(plans')
    BY <1>3
  <2> QED BY <1>1, <2>1, <2>2 DEF HeldOK
<1>5. LastIsReplaced'
  BY <1>1 DEF PlanIInv, LastIsReplaced
<1>6. OneActiveUnlessOverlaid'
  BY <1>1 DEF PlanIInv, OneActiveUnlessOverlaid
<1> QED BY <1>2, <1>4, <1>5, <1>6, <1>7 DEF PlanIInv

\* A request that ends holds nothing.
LEMMA LeavesFacts ==
    ASSUME PlanTypeOK, NEW c \in Callers, Leaves(c)
    PROVE  /\ caller' \in [Callers -> {"idle", "draft", "propose", "supersede", "adopt"}]
           /\ held' \in [Callers -> Held]
           /\ caller'[c] = "idle" /\ HeldOK(c)' /\ TakesOver(c)'
           /\ \A d \in Callers \ {c} : caller'[d] = caller[d] /\ held'[d] = held[d]
<1>1. caller'[c] = "idle"
  BY DEF PlanTypeOK, Leaves
<1> QED BY <1>1, HeldRecords DEF PlanTypeOK, Leaves, HeldOK, TakesOver

LEMMA RequestPlanKeeps == ASSUME PlanIInv, NEW c \in Callers, RequestPlan(c) PROVE PlanIInv'
<1> USE DEF RequestPlan
<1>1. PICK prior \in {Active, 0} : held' = [held EXCEPT ![c] = Drafting(prior, 0)]
  OBVIOUS
<1>2. prior \in 0..MaxPlans /\ (prior = 0 \/ prior \in Adopted)
  BY ActiveInForce, AdoptedIs DEF PlanIInv, InForce
<1>3. Drafting(prior, 0) \in Held /\ Drafting(prior, 0).prior = prior
  BY <1>2, HeldRecords
<1>4. PlanTypeOK'
  BY <1>1, <1>3 DEF PlanIInv, PlanTypeOK
<1>5. /\ caller'[c] = "draft" /\ held'[c].prior = prior
      /\ \A d \in Callers \ {c} : caller'[d] = caller[d] /\ held'[d] = held[d]
  BY <1>1, <1>3 DEF PlanIInv, PlanTypeOK
<1>6. Adopted' = Adopted
  BY DEF Adopted
<1>7. HeldOK(c)' /\ TakesOver(c)'
  BY <1>2, <1>5, <1>6 DEF HeldOK, TakesOver
<1>8. PriorWasActive'
  BY <1>6 DEF PlanIInv, PriorWasActive
<1>9. /\ UNCHANGED <<adoptions, superseded, overlaid>> /\ proposed \subseteq proposed'
      /\ proposed' \subseteq 1..Len(plans') /\ Len(plans) <= Len(plans')
  BY DEF PlanIInv, EventsInOrder, PlanTypeOK
<1> QED BY <1>4, <1>5, <1>7, <1>8, <1>9, QuietKeeps

LEMMA RedraftKeeps == ASSUME PlanIInv, NEW c \in Callers, Redraft(c) PROVE PlanIInv'
<1> USE DEF Redraft
<1>1. Adopted' = Adopted
  BY DEF Adopted
<1>2. PriorWasActive'
  BY <1>1 DEF PlanIInv, PriorWasActive
<1>5. /\ UNCHANGED <<adoptions, superseded, overlaid>> /\ proposed \subseteq proposed'
      /\ proposed' \subseteq 1..Len(plans') /\ Len(plans) <= Len(plans')
  BY DEF PlanIInv, EventsInOrder, PlanTypeOK
<1>3. CASE Leaves(c)
  <2>1. PlanTypeOK'
    BY <1>3, LeavesFacts DEF PlanIInv, PlanTypeOK
  <2>2. /\ HeldOK(c)' /\ TakesOver(c)'
        /\ \A d \in Callers \ {c} : caller'[d] = caller[d] /\ held'[d] = held[d]
    BY <1>3, LeavesFacts DEF PlanIInv
  <2> QED BY <1>2, <1>5, <2>1, <2>2, QuietKeeps
<1>4. CASE /\ held[c].attempt + 1 # MAX_PLAN_ATTEMPTS
           /\ held' = [held EXCEPT ![c] = Drafting(@.prior, @.attempt + 1)] /\ UNCHANGED caller
  <2>1. held[c].prior \in 0..MaxPlans /\ held[c].attempt + 1 \in 0..(MAX_PLAN_ATTEMPTS - 1)
    BY <1>4 DEF PlanIInv, PlanTypeOK, Held
  <2>2. /\ Drafting(held[c].prior, held[c].attempt + 1) \in Held
        /\ Drafting(held[c].prior, held[c].attempt + 1).prior = held[c].prior
    BY <2>1, HeldRecords
  <2>3. PlanTypeOK'
    BY <1>4, <2>2 DEF PlanIInv, PlanTypeOK
  <2>4. /\ held'[c].prior = held[c].prior /\ caller'[c] = "draft"
        /\ \A d \in Callers \ {c} : caller'[d] = caller[d] /\ held'[d] = held[d]
    BY <1>4, <2>2 DEF PlanIInv, PlanTypeOK
  <2>5. HeldOK(c)' /\ TakesOver(c)'
    BY <1>1, <2>4 DEF PlanIInv, HeldOK, TakesOver
  <2> QED BY <1>2, <1>5, <2>3, <2>4, <2>5, QuietKeeps
<1> QED BY <1>3, <1>4

LEMMA SavePlanKeeps == ASSUME PlanIInv, NEW c \in Callers, SavePlan(c) PROVE PlanIInv'
<1> USE DEF SavePlan
<1>1. /\ Len(plans) \in Nat /\ plans' \in Seq(0..MaxPlans) /\ Len(plans') = Len(plans) + 1
      /\ \A p \in 1..Len(plans) : plans'[p] = plans[p]
      /\ plans'[Len(plans) + 1] = held[c].prior
  BY DEF PlanIInv, PlanTypeOK, Held
<1>2. Len(plans) + 1 \in 0..MaxPlans
  BY <1>1
<1>3. /\ Adopting(Len(plans) + 1, 0, 0) \in Held
      /\ Adopting(Len(plans) + 1, 0, 0).plan = Len(plans) + 1
  BY <1>2, HeldRecords
<1>4. PlanTypeOK'
  BY <1>1, <1>2, <1>3 DEF PlanIInv, PlanTypeOK
<1>5. /\ caller'[c] = "propose" /\ held'[c].plan = Len(plans) + 1
      /\ \A d \in Callers \ {c} : caller'[d] = caller[d] /\ held'[d] = held[d]
  BY <1>3 DEF PlanIInv, PlanTypeOK
<1>6. Adopted' = Adopted
  BY DEF Adopted
<1>7. HeldOK(c)' /\ TakesOver(c)'
  BY <1>1, <1>5 DEF HeldOK, TakesOver
<1>8. PriorWasActive'
  <2>1. held[c].prior = 0 \/ (held[c].prior \in Adopted /\ held[c].prior < Len(plans) + 1)
    BY <1>1 DEF PlanIInv, HeldOK, EventsInOrder
  <2>2. \A p \in 1..Len(plans') : p \in 1..Len(plans) \/ p = Len(plans) + 1
    BY <1>1
  <2> QED BY <1>1, <1>6, <2>1, <2>2 DEF PlanIInv, PriorWasActive
<1>9. proposed' \subseteq 1..Len(plans')
  BY <1>1 DEF PlanIInv, EventsInOrder
<1> QED BY <1>1, <1>4, <1>5, <1>7, <1>8, <1>9, QuietKeeps

LEMMA ProposeKeeps == ASSUME PlanIInv, NEW c \in Callers, Propose(c) PROVE PlanIInv'
<1> USE DEF Propose
<1>1. Adopted' = Adopted
  BY DEF Adopted
<1>2. held[c].plan \in 1..Len(plans)
  BY DEF PlanIInv, HeldOK
<1>3. Leaves(c) /\ PlanTypeOK
  BY DEF PlanIInv
<1>4. PlanTypeOK'
  <2>1. held[c].plan \in 1..MaxPlans
    BY <1>2, <1>3 DEF PlanTypeOK
  <2> QED BY <1>3, <2>1, LeavesFacts DEF PlanTypeOK
<1>5. PriorWasActive'
  BY <1>1 DEF PlanIInv, PriorWasActive
<1>6. /\ UNCHANGED <<adoptions, superseded, overlaid>> /\ proposed \subseteq proposed'
      /\ proposed' \subseteq 1..Len(plans') /\ Len(plans) <= Len(plans')
  <2>1. proposed \subseteq 1..Len(plans) /\ Len(plans) \in Nat
    BY <1>3 DEF PlanIInv, EventsInOrder, PlanTypeOK
  <2>2. UNCHANGED <<plans, adoptions, superseded, overlaid>> /\ proposed' = proposed \cup {held[c].plan}
    OBVIOUS
  <2>3. Len(plans') = Len(plans)
    BY <2>2
  <2>4. proposed \subseteq proposed' /\ proposed' \subseteq 1..Len(plans')
    BY <1>2, <2>1, <2>2, <2>3
  <2>5. Len(plans) <= Len(plans')
    BY <2>1, <2>3
  <2> QED BY <2>2, <2>4, <2>5
<1>7. /\ HeldOK(c)' /\ TakesOver(c)'
      /\ \A d \in Callers \ {c} : caller'[d] = caller[d] /\ held'[d] = held[d]
  BY <1>3, LeavesFacts
<1> QED BY <1>4, <1>5, <1>6, <1>7, QuietKeeps

LEMMA AcceptKeeps ==
    ASSUME PlanIInv, NEW c \in Callers, NEW p \in 1..MaxPlans, Accept(c, p) PROVE PlanIInv'
<1> USE DEF Accept
<1>1. /\ Len(adoptions) \in Nat
      /\ Active \in 0..MaxPlans
      /\ Active = 0 => InForce = {}
      /\ Active # 0 => Active \in InForce
  BY ActiveInForce, AdoptedIs DEF PlanIInv, InForce
<1>2. /\ Adopting(p, Active, Len(adoptions)) \in Held
      /\ Adopting(p, Active, Len(adoptions)).plan = p
      /\ Adopting(p, Active, Len(adoptions)).replaced = Active
      /\ Adopting(p, Active, Len(adoptions)).read = Len(adoptions)
  BY <1>1, HeldRecords
<1>3. PlanTypeOK'
  BY <1>2 DEF PlanIInv, PlanTypeOK
<1>4. /\ caller'[c] = IF Active # 0 THEN "supersede" ELSE "adopt"
      /\ held'[c].plan = p /\ held'[c].replaced = Active /\ held'[c].read = Len(adoptions)
      /\ \A d \in Callers \ {c} : caller'[d] = caller[d] /\ held'[d] = held[d]
  BY <1>2 DEF PlanIInv, PlanTypeOK
<1>5. Adopted' = Adopted /\ InForce' = InForce
  BY DEF Adopted, InForce
<1>6. p \in proposed /\ \A i \in 1..Len(adoptions) : adoptions[i] # p
  BY AdoptedIs DEF PlanIInv, Proposed
<1>7. Active # 0 => \E i \in 1..Len(adoptions) : adoptions[i] = Active
  BY <1>1, AdoptedIs DEF PlanIInv, InForce
<1>8. HeldOK(c)'
  BY <1>1, <1>4, <1>6, <1>7 DEF HeldOK
<1>9. TakesOver(c)'
  BY <1>1, <1>4, <1>5 DEF PlanIInv, TakesOver, OneActiveUnlessOverlaid
<1>10. PriorWasActive'
  BY <1>5 DEF PlanIInv, PriorWasActive
<1>11. /\ UNCHANGED <<adoptions, superseded, overlaid>> /\ proposed \subseteq proposed'
      /\ proposed' \subseteq 1..Len(plans') /\ Len(plans) <= Len(plans')
  BY DEF PlanIInv, EventsInOrder, PlanTypeOK
<1>12. caller[c] = "idle" /\ halved' = halved
  OBVIOUS
<1> QED BY <1>3, <1>4, <1>8, <1>9, <1>10, <1>11, <1>12, QuietKeeps

LEMMA BreakKeeps == ASSUME PlanIInv, NEW c \in Callers, Break(c) PROVE PlanIInv'
<1> USE DEF Break
<1>1. Adopted' = Adopted
  BY DEF Adopted
<1>2. PlanTypeOK'
  BY LeavesFacts DEF PlanIInv, PlanTypeOK
<1>3. PriorWasActive'
  BY <1>1 DEF PlanIInv, PriorWasActive
<1>4. /\ UNCHANGED <<adoptions, superseded, overlaid>> /\ proposed \subseteq proposed'
      /\ proposed' \subseteq 1..Len(plans') /\ Len(plans) <= Len(plans')
  BY DEF PlanIInv, EventsInOrder, PlanTypeOK
<1>5. /\ HeldOK(c)' /\ TakesOver(c)'
      /\ \A d \in Callers \ {c} : caller'[d] = caller[d] /\ held'[d] = held[d]
  BY LeavesFacts DEF PlanIInv
<1>6. halved \/ (caller[c] = "adopt" /\ held[c].replaced # 0) => halved'
  OBVIOUS
<1> QED BY <1>2, <1>3, <1>4, <1>5, <1>6, QuietKeeps

-----------------------------------------------------------------------------
\* The plan that is replaced is superseded; if it was the last one adopted, nobody has adopted the
\* plan that comes instead.
LEMMA SupersedeKeeps == ASSUME PlanIInv, NEW c \in Callers, Supersede(c) PROVE PlanIInv'
<1> USE DEF Supersede
<1> DEFINE x == held[c].replaced
<1>1. /\ x \in Adopted /\ held[c].read <= Len(adoptions) /\ held[c].read \in Nat
      /\ Len(adoptions) \in Nat /\ Adopted \subseteq 1..MaxPlans
      /\ \A i \in 1..held[c].read : adoptions[i] # held[c].plan
      /\ \E i \in 1..held[c].read : adoptions[i] = x
      /\ x # 0
  <2>1. HeldOK(c) /\ PlanTypeOK /\ caller[c] = "supersede"
    BY DEF PlanIInv
  <2>2. held[c].read \in Nat
    BY <2>1 DEF PlanTypeOK, Held
  <2>3. /\ held[c].read <= Len(adoptions) /\ x # 0
        /\ \A i \in 1..held[c].read : adoptions[i] # held[c].plan
        /\ \E i \in 1..held[c].read : adoptions[i] = x
    BY <2>1 DEF HeldOK
  <2>4. PICK i \in 1..held[c].read : adoptions[i] = x
    BY <2>3
  <2>5. i \in 1..Len(adoptions)
    BY <2>1, <2>2, <2>3, <2>4, AdoptedIs
  <2>6. x \in Adopted
    BY <2>1, <2>4, <2>5, AdoptedIs
  <2> QED BY <2>1, <2>2, <2>3, <2>6, AdoptedIs
<1>2. PlanTypeOK'
  BY <1>1 DEF PlanIInv, PlanTypeOK
<1>3. /\ Adopted' = Adopted /\ InForce' = InForce \ {x} /\ superseded' = superseded \cup {x}
  BY DEF Adopted, InForce
<1>4. \A d \in Callers : /\ held'[d] = held[d]
                         /\ caller'[d] = IF d = c THEN "adopt" ELSE caller[d]
  BY DEF PlanIInv, PlanTypeOK
<1>5. EventsInOrder'
  BY <1>1, <1>3 DEF PlanIInv, EventsInOrder
<1>6. \A d \in Callers : HeldOK(d)'
  BY <1>3, <1>4 DEF PlanIInv, HeldOK
<1>7. \A d \in Callers : TakesOver(d)'
  BY <1>3, <1>4 DEF PlanIInv, TakesOver
<1>8. LastIsReplaced'
  <2>1. CASE halved \/ adoptions = <<>>
    BY <2>1 DEF LastIsReplaced
  <2>2. CASE adoptions[Len(adoptions)] = x
    <3>1. adoptions # <<>> /\ Len(adoptions) \in 1..Len(adoptions)
      BY <1>1
    <3>2. held[c].read = Len(adoptions)
      BY <1>1, <2>2, <3>1 DEF PlanIInv, EventsInOrder
    <3>3. held[c].plan \notin Adopted
      BY <1>1, <3>2, AdoptedIs DEF PlanIInv
    <3> QED BY <1>1, <1>3, <1>4, <3>3 DEF LastIsReplaced
  <2>3. CASE adoptions[Len(adoptions)] # x /\ ~(halved \/ adoptions = <<>>)
    <3>1. CASE adoptions[Len(adoptions)] \notin superseded
      BY <1>3, <2>3, <3>1 DEF LastIsReplaced
    <3>2. CASE \E d \in Callers : /\ caller[d] = "adopt" /\ held[d].replaced # 0
                                 /\ held[d].plan \notin Adopted
      BY <1>3, <1>4, <3>2 DEF LastIsReplaced
    <3> QED BY <2>3, <3>1, <3>2 DEF PlanIInv, LastIsReplaced
  <2> QED BY <2>1, <2>2, <2>3
<1>9. OneActiveUnlessOverlaid'
  BY <1>3 DEF PlanIInv, OneActiveUnlessOverlaid
<1>10. PriorWasActive'
  BY <1>3 DEF PlanIInv, PriorWasActive
<1> QED BY <1>2, <1>5, <1>6, <1>7, <1>8, <1>9, <1>10 DEF PlanIInv

\* A plan that was adopted already: the event is stored again and changes nothing.
LEMMA AdoptAgainKeeps ==
    ASSUME PlanIInv, NEW c \in Callers, AdoptPlan(c), held[c].plan \in Adopted PROVE PlanIInv'
<1> USE DEF AdoptPlan
<1>1. PlanTypeOK'
  BY LeavesFacts DEF PlanIInv, PlanTypeOK
<1>2. adoptions' = adoptions
  OBVIOUS
<1>3. Adopted' = Adopted /\ InForce' = InForce
  BY <1>2 DEF Adopted, InForce
<1>4. EventsInOrder' /\ PriorWasActive'
  BY <1>2, <1>3 DEF PlanIInv, EventsInOrder, PriorWasActive
<1>5. \A d \in Callers : HeldOK(d)' /\ TakesOver(d)'
  <2> TAKE d \in Callers
  <2>1. CASE d = c
    BY <2>1, LeavesFacts DEF PlanIInv
  <2>2. CASE d # c
    <3>1. caller'[d] = caller[d] /\ held'[d] = held[d] /\ HeldOK(d) /\ TakesOver(d)
      BY <2>2, LeavesFacts DEF PlanIInv
    <3> QED BY <1>2, <1>3, <3>1 DEF HeldOK, TakesOver
  <2> QED BY <2>1, <2>2
<1>6. LastIsReplaced'
  BY <1>2, <1>3, LeavesFacts DEF PlanIInv, LastIsReplaced
<1>7. OneActiveUnlessOverlaid'
  BY <1>3 DEF PlanIInv, OneActiveUnlessOverlaid
<1> QED BY <1>1, <1>4, <1>5, <1>6, <1>7 DEF PlanIInv

\* A plan that was not adopted yet becomes the last one adopted.
LEMMA AdoptNewKeeps ==
    ASSUME PlanIInv, NEW c \in Callers, AdoptPlan(c), held[c].plan \notin Adopted PROVE PlanIInv'
<1> USE DEF AdoptPlan
<1> DEFINE p == held[c].plan  n == Len(adoptions)
<1>1. /\ n \in Nat /\ p \in proposed /\ p \in 1..MaxPlans
      /\ held[c].read <= n /\ held[c].read \in Nat
  BY AdoptedIs DEF PlanIInv, PlanTypeOK, Held, HeldOK
<1>2. /\ adoptions' \in Seq(1..MaxPlans) /\ Len(adoptions') = n + 1
      /\ \A i \in 1..n : adoptions'[i] = adoptions[i]
      /\ adoptions'[n + 1] = p
  BY <1>1 DEF PlanIInv, PlanTypeOK
<1>3. PlanTypeOK'
  BY <1>2, LeavesFacts DEF PlanIInv, PlanTypeOK
<1>4. Adopted' = Adopted \cup {p}
  <2>1. Adopted' = {adoptions'[i] : i \in 1..(n + 1)}
    <3>1. DOMAIN adoptions' = 1..(n + 1)
      BY <1>1, <1>2
    <3> QED BY <3>1 DEF Adopted, ToSet
  <2>2. 1..(n + 1) = (1..n) \cup {n + 1}
    BY <1>1
  <2>3. Adopted = {adoptions[i] : i \in 1..n}
    BY AdoptedIs DEF PlanIInv
  <2> HIDE DEF AdoptPlan, p, n
  <2>4. {adoptions'[i] : i \in 1..(n + 1)} = {adoptions'[i] : i \in 1..n} \cup {adoptions'[n + 1]}
    BY <2>2
  <2>5. {adoptions'[i] : i \in 1..n} = {adoptions[i] : i \in 1..n}
    BY <1>2
  <2> QED BY <1>2, <2>1, <2>3, <2>4, <2>5
<1>5. p \notin superseded /\ InForce' = InForce \cup {p}
  BY <1>4 DEF PlanIInv, EventsInOrder, InForce
<1>6. \A i \in 1..n : adoptions[i] # p
  BY AdoptedIs DEF PlanIInv
<1>7. EventsInOrder'
  <2>1. \A i, k \in 1..(n + 1) : adoptions'[i] = adoptions'[k] => i = k
    <3> TAKE i, k \in 1..(n + 1)
    <3>1. CASE i \in 1..n /\ k \in 1..n
      BY <1>2, <3>1 DEF PlanIInv, EventsInOrder
    <3>2. CASE i = n + 1 \/ k = n + 1
      BY <1>1, <1>2, <1>6, <3>2
    <3> QED BY <1>1, <3>1, <3>2
  <2> QED BY <1>1, <1>2, <1>4, <2>1 DEF PlanIInv, EventsInOrder
<1>8. \A d \in Callers : HeldOK(d)'
  <2> TAKE d \in Callers
  <2>1. CASE d = c
    BY <2>1, LeavesFacts DEF PlanIInv
  <2>2. CASE d # c
    <3>1. /\ caller'[d] = caller[d] /\ held'[d] = held[d] /\ HeldOK(d)
          /\ held[d].read \in Nat
      BY <2>2, LeavesFacts DEF PlanIInv, PlanTypeOK, Held
    <3>2. held[d].read <= n => \A i \in 1..held[d].read : adoptions'[i] = adoptions[i]
      BY <1>1, <1>2, <3>1
    <3> QED BY <1>1, <1>2, <1>4, <3>1, <3>2 DEF HeldOK
  <2> QED BY <2>1, <2>2
<1>9. \A d \in Callers : TakesOver(d)'
  <2> TAKE d \in Callers
  <2>1. CASE d = c
    BY <2>1, LeavesFacts DEF PlanIInv
  <2>2. CASE d # c
    <3>1. caller'[d] = caller[d] /\ held'[d] = held[d] /\ HeldOK(d) /\ held[d].read \in Nat
      BY <2>2, LeavesFacts DEF PlanIInv, PlanTypeOK, Held
    <3>2. caller'[d] \in {"supersede", "adopt"} => held'[d].read # n + 1
      BY <1>1, <3>1 DEF HeldOK
    <3> QED BY <1>2, <3>2 DEF TakesOver
  <2> QED BY <2>1, <2>2
<1>10. LastIsReplaced'
  BY <1>2, <1>5 DEF LastIsReplaced
<1>11. OneActiveUnlessOverlaid'
  <2>1. CASE held[c].read = n
    BY <1>5, <2>1 DEF PlanIInv, TakesOver, OneActiveUnlessOverlaid
  <2>2. CASE held[c].read < n
    BY <2>2 DEF OneActiveUnlessOverlaid
  <2> QED BY <1>1, <2>1, <2>2
<1>12. PriorWasActive'
  BY <1>4 DEF PlanIInv, PriorWasActive
<1> QED BY <1>3, <1>7, <1>8, <1>9, <1>10, <1>11, <1>12 DEF PlanIInv

-----------------------------------------------------------------------------
LEMMA PlanStepOK == ASSUME PlanIInv, [PlanNext]_planLifecycleVars PROVE PlanIInv'
<1>1. CASE UNCHANGED planLifecycleVars
  <2> USE <1>1 DEF planLifecycleVars
  <2>1. Adopted' = Adopted /\ InForce' = InForce
    BY DEF Adopted, InForce
  <2>2. PlanTypeOK' /\ EventsInOrder' /\ LastIsReplaced'
    BY <2>1 DEF PlanIInv, PlanTypeOK, EventsInOrder, LastIsReplaced
  <2>3. \A c \in Callers : HeldOK(c)' /\ TakesOver(c)'
    BY <2>1 DEF PlanIInv, HeldOK, TakesOver
  <2>4. OneActiveUnlessOverlaid' /\ PriorWasActive'
    BY <2>1 DEF PlanIInv, OneActiveUnlessOverlaid, PriorWasActive
  <2> QED BY <2>2, <2>3, <2>4 DEF PlanIInv
<1>2. ASSUME NEW c \in Callers, PlanStep(c) PROVE PlanIInv'
  BY <1>2, RequestPlanKeeps, RedraftKeeps, SavePlanKeeps, ProposeKeeps, AcceptKeeps,
     SupersedeKeeps, AdoptAgainKeeps, AdoptNewKeeps, BreakKeeps DEF PlanStep
<1> QED BY <1>1, <1>2 DEF PlanNext

LEMMA PlanIInvIsEnough == PlanIInv => PlanInv
<1> SUFFICES ASSUME PlanIInv PROVE PlanInv
  OBVIOUS
<1>1. PlanIsNotLost
  <2> SUFFICES ASSUME Adopted # {}, InForce = {}, ~halved
               PROVE  \E c \in Callers : caller[c] = "adopt"
    BY DEF PlanIsNotLost
  <2>1. adoptions # <<>> /\ Len(adoptions) \in 1..Len(adoptions)
    BY AdoptedIs DEF PlanIInv, PlanTypeOK
  <2>2. adoptions[Len(adoptions)] \in superseded
    BY <2>1, AdoptedIs DEF PlanIInv, InForce
  <2> QED BY <2>1, <2>2 DEF PlanIInv, LastIsReplaced
<1> QED BY <1>1 DEF PlanIInv, PlanInv

\* However requests overlap and fail: one plan is in force unless adoptions overlapped, an adopted
\* plan is not lost unless an adoption failed half-way, and a plan builds on an adopted one.
THEOREM PlanIsKept == PlanSpec => []PlanInv
<1>1. PlanInit => PlanIInv
  BY PlanInitOK
<1>2. PlanIInv /\ [PlanNext]_planLifecycleVars => PlanIInv'
  BY PlanStepOK
<1>3. PlanIInv => PlanInv
  BY PlanIInvIsEnough
<1> QED BY <1>1, <1>2, <1>3, PTL DEF PlanSpec

(***************************************************************************)
(* For any actions and any needs between them: what the day shows follows  *)
(* from its state, whatever is open has a move or a reason, and a step     *)
(* that is ready is not taken away. The state needs no more than its       *)
(* types; the work is in the lemmas about the selection, by the least      *)
(* element of a non-empty set of numbers.                                  *)
(***************************************************************************)

HIDE PlanAssumption DEF PlanAssumption
USE TodayAssumption DEF TodayAssumption

\* Some number of a set of numbers is the least.
LEMMA LeastNumber ==
    ASSUME NEW T \in SUBSET Nat, T # {}
    PROVE  \E x \in T : \A y \in T : x <= y
<1> DEFINE R == {ss \in Nat \X Nat : ss[1] < ss[2]}
<1>1. IsWellFoundedOn(R, Nat)
  BY NatLessThanWellFounded DEF OpToRel
<1>2. \E x \in T : \A y \in T : ~ (<<y, x>> \in R)
  <2> HIDE DEF R
  <2> QED BY <1>1, WFMin
<1>3. PICK x \in T : \A y \in T : ~ (<<y, x>> \in R)
  BY <1>2
<1>4. \A y \in T : x <= y
  <2> SUFFICES ASSUME NEW y \in T PROVE x <= y
    OBVIOUS
  <2>1. <<y, x>> \in Nat \X Nat /\ ~(<<y, x>> \in R)
    BY <1>3
  <2>2. ~(y < x)
    BY <2>1
  <2> QED BY <2>2
<1> QED BY <1>4

LEMMA LeastValue ==
    ASSUME NEW C, C # {}, NEW f \in [C -> Nat]
    PROVE  \E x \in C : \A y \in C : f[x] <= f[y]
<1> DEFINE T == {f[x] : x \in C}
<1>1. T \in SUBSET Nat /\ T # {}
  OBVIOUS
<1>2. PICK n \in T : \A m \in T : n <= m
  <2> HIDE DEF T
  <2> QED BY <1>1, LeastNumber
<1> QED BY <1>2

\* A subset that lacks an element is smaller.
LEMMA ProperSubset ==
    ASSUME NEW S, IsFiniteSet(S), NEW T, T \subseteq S, NEW x \in S, x \notin T
    PROVE  IsFiniteSet(T) /\ Cardinality(T) \in Nat /\ Cardinality(S) \in Nat /\ Cardinality(T) < Cardinality(S)
<1>1. IsFiniteSet(T) /\ Cardinality(T) <= Cardinality(S) /\ (Cardinality(S) = Cardinality(T) => S = T)
  BY FS_Subset
<1>2. Cardinality(T) \in Nat /\ Cardinality(S) \in Nat
  BY <1>1, FS_CardinalityType
<1>3. S # T
  OBVIOUS
<1> QED BY <1>1, <1>2, <1>3

\* Of a finite set, something comes first in an order.
LEMMA FirstExists ==
    ASSUME NEW S, IsFiniteSet(S), S # {}, NEW R,
           \A a \in S : <<a, a>> \notin R,
           \A a, b, c \in S : <<a, b>> \in R /\ <<b, c>> \in R => <<a, c>> \in R
    PROVE  \E a \in S : \A b \in S : <<b, a>> \notin R
<1> DEFINE before(a) == {b \in S : <<b, a>> \in R}
           f == [a \in S |-> Cardinality(before(a))]
<1>1. \A a \in S : IsFiniteSet(before(a)) /\ Cardinality(before(a)) \in Nat
  BY FS_Subset, FS_CardinalityType
<1>2. f \in [S -> Nat]
  BY <1>1
<1>3. PICK a \in S : \A b \in S : f[a] <= f[b]
  <2> HIDE DEF f
  <2> QED BY <1>2, LeastValue
<1>4. ASSUME NEW b \in S, <<b, a>> \in R PROVE FALSE
  <2>1. before(b) \subseteq before(a) /\ b \in before(a) /\ b \notin before(b)
    BY <1>4
  <2>2. Cardinality(before(b)) < Cardinality(before(a))
    <3> HIDE DEF before
    <3> QED BY <1>1, <2>1, ProperSubset
  <2>3. Cardinality(before(a)) <= Cardinality(before(b))
    BY <1>3
  <2> QED BY <1>1, <2>2, <2>3
<1> QED BY <1>4

-----------------------------------------------------------------------------
LEMMA TodayFields ==
    ASSUME TodayTypeOK
    PROVE  /\ \A a \in Actions : /\ a \in Nat /\ priorityOf[a] \in Nat /\ Unblocks(a) \in Nat
                                 /\ needs[a] \subseteq Actions /\ Unmet(a) \subseteq Actions
           /\ \A S \in SUBSET Actions : IsFiniteSet(S) /\ Cardinality(S) \in Nat
           /\ ReadyActions \subseteq Actions /\ BlockedActions \subseteq Actions /\ OpenActions \subseteq Actions
<1>1. \A S \in SUBSET Actions : IsFiniteSet(S) /\ Cardinality(S) \in Nat
  BY FS_Subset, FS_CardinalityType
<1>2. \A a \in Actions : Unblocks(a) \in Nat
  BY <1>1 DEF Unblocks
<1> QED BY <1>1, <1>2 DEF TodayTypeOK, Unmet, ReadyActions, BlockedActions, OpenActions

\* An open action is ready if the plan is current, what it needs is done, and it lacks nothing.
LEMMA ReadyIs ==
    /\ ReadyActions = {a \in OpenActions : ~stale /\ Unmet(a) = {} /\ a \notin Kept}
    /\ ReadyActions' = {a \in OpenActions' : ~stale' /\ Unmet(a)' = {} /\ a \notin Kept'}
    /\ BlockedActions = OpenActions \ ReadyActions
<1>1. \A a : Blocker(a) = "none" <=> ~stale /\ Unmet(a) = {} /\ a \notin Kept
  BY DEF Blocker
<1>2. \A a : Blocker(a)' = "none" <=> ~stale' /\ Unmet(a)' = {} /\ a \notin Kept'
  BY DEF Blocker
<1> QED BY <1>1, <1>2 DEF ReadyActions, BlockedActions

\* Before is a strict order of the actions, and of two one is before the other.
LEMMA BeforeOrders ==
    ASSUME TodayTypeOK
    PROVE  /\ \A a \in Actions : ~Before(a, a)
           /\ \A a, b, c \in Actions : Before(a, b) /\ Before(b, c) => Before(a, c)
           /\ \A a, b \in Actions : a # b => Before(a, b) \/ Before(b, a)
<1>1. \A a \in Actions : a \in Nat /\ priorityOf[a] \in Nat /\ Unblocks(a) \in Nat
  BY TodayFields
<1>2. \A a \in Actions : InFocus(a) \in BOOLEAN
  BY DEF InFocus
<1> HIDE DEF InFocus, Unblocks
<1>3. \A a \in Actions : ~Before(a, a)
  BY <1>1 DEF Before
<1>4. \A a, b \in Actions : a # b => Before(a, b) \/ Before(b, a)
  BY <1>1, <1>2 DEF Before
<1>5. ASSUME NEW a \in Actions, NEW b \in Actions, NEW c \in Actions, Before(a, b), Before(b, c)
      PROVE  Before(a, c)
  BY <1>1, <1>2, <1>5 DEF Before
<1> QED BY <1>3, <1>4, <1>5

\* Fallback's order: the focus, then the priority, then the identifier.
Earlier(a, b) ==
    LET f(x) == IF InFocus(x) THEN 0 ELSE 1
    IN  \/ f(a) < f(b)
        \/ f(a) = f(b) /\ priorityOf[a] < priorityOf[b]
        \/ f(a) = f(b) /\ priorityOf[a] = priorityOf[b] /\ a < b

LEMMA FallbackIs ==
    Fallback = IF ReadyActions # {} THEN {} ELSE {a \in BlockedActions : \A b \in BlockedActions \ {a} : Earlier(a, b)}
<1> DEFINE rank(a) == <<IF InFocus(a) THEN 0 ELSE 1, priorityOf[a], a>>
           less(a, b) == \E i \in 1..3 : rank(a)[i] < rank(b)[i] /\ \A k \in 1..(i - 1) : rank(a)[k] = rank(b)[k]
<1>1. ASSUME NEW a, NEW b PROVE less(a, b) <=> Earlier(a, b)
  <2>1. 1..3 = {1, 2, 3} /\ 1..(1 - 1) = {} /\ 1..(2 - 1) = {1} /\ 1..(3 - 1) = {1, 2}
    OBVIOUS
  <2>2. \A x : rank(x)[1] = (IF InFocus(x) THEN 0 ELSE 1) /\ rank(x)[2] = priorityOf[x] /\ rank(x)[3] = x
    OBVIOUS
  <2> HIDE DEF rank
  <2>3. less(a, b) <=> \/ rank(a)[1] < rank(b)[1]
                       \/ rank(a)[2] < rank(b)[2] /\ rank(a)[1] = rank(b)[1]
                       \/ rank(a)[3] < rank(b)[3] /\ rank(a)[1] = rank(b)[1] /\ rank(a)[2] = rank(b)[2]
    BY <2>1
  <2> QED BY <2>2, <2>3 DEF Earlier
<1>2. Fallback = IF ReadyActions # {} THEN {} ELSE {a \in BlockedActions : \A b \in BlockedActions \ {a} : less(a, b)}
  BY DEF Fallback
<1> HIDE DEF less
<1> QED BY <1>1, <1>2

-----------------------------------------------------------------------------
\* While an action is open there is a move: the first ready one, or else the first blocked one.
LEMMA AMoveIsGiven ==
    ASSUME TodayTypeOK
    PROVE  MoveWhileOpen
<1> SUFFICES ASSUME OpenActions # {} PROVE Shown # {} \/ Cardinality(Fallback) = 1
  BY DEF MoveWhileOpen
<1>1. CASE ReadyActions # {}
  <2> DEFINE R == {p \in Actions \X Actions : Before(p[1], p[2])}
  <2>1. \A a, b \in Actions : <<a, b>> \in R <=> Before(a, b)
    OBVIOUS
  <2>2. /\ \A a \in ReadyActions : <<a, a>> \notin R
        /\ \A a, b, c \in ReadyActions : <<a, b>> \in R /\ <<b, c>> \in R => <<a, c>> \in R
    <3> HIDE DEF R
    <3> QED BY <2>1, TodayFields, BeforeOrders
  <2>3. \E a \in ReadyActions : \A b \in ReadyActions : <<b, a>> \notin R
    <3> HIDE DEF R
    <3> QED BY <1>1, <2>2, TodayFields, FirstExists
  <2>4. PICK a \in ReadyActions : {b \in ReadyActions : Before(b, a)} = {}
    <3> HIDE DEF R
    <3> QED BY <2>1, <2>3, TodayFields
  <2>5. Cardinality({b \in ReadyActions : Before(b, a)}) = 0
    BY <2>4, FS_EmptySet
  <2>6. a \in Shown
    BY <2>5 DEF Shown
  <2> QED BY <2>6
<1>2. CASE ReadyActions = {}
  <2> DEFINE R == {p \in Actions \X Actions : Earlier(p[1], p[2])}
  <2>1. \A a, b \in Actions : <<a, b>> \in R <=> Earlier(a, b)
    OBVIOUS
  <2>2. /\ \A a \in Actions : ~Earlier(a, a)
        /\ \A a, b, c \in Actions : Earlier(a, b) /\ Earlier(b, c) => Earlier(a, c)
        /\ \A a, b \in Actions : a # b => Earlier(a, b) \/ Earlier(b, a)
    <3>1. \A a \in Actions : a \in Nat /\ priorityOf[a] \in Nat
      BY TodayFields
    <3> QED BY <3>1 DEF Earlier
  <2>3. BlockedActions # {} /\ BlockedActions \subseteq Actions /\ IsFiniteSet(BlockedActions)
    BY <1>2, ReadyIs, TodayFields
  <2>4. \E a \in BlockedActions : \A b \in BlockedActions : <<b, a>> \notin R
    <3>1. \A a \in BlockedActions : <<a, a>> \notin R
      BY <2>2, <2>3
    <3>2. \A a, b, c \in BlockedActions : <<a, b>> \in R /\ <<b, c>> \in R => <<a, c>> \in R
      <4> HIDE DEF R
      <4> QED BY <2>1, <2>2, <2>3
    <3> HIDE DEF R
    <3> QED BY <2>3, <3>1, <3>2, FirstExists
  <2>5. PICK a \in BlockedActions : \A b \in BlockedActions : ~Earlier(b, a)
    <3> HIDE DEF R
    <3> QED BY <2>1, <2>3, <2>4
  <2>6. \A b \in BlockedActions \ {a} : Earlier(a, b)
    BY <2>2, <2>3, <2>5
  <2>7. Fallback = {a}
    <3>1. Fallback = {x \in BlockedActions : \A b \in BlockedActions \ {x} : Earlier(x, b)}
      BY <1>2, FallbackIs
    <3>2. \A x \in BlockedActions : x # a => ~ Earlier(x, a)
      BY <2>5
    <3> QED BY <2>6, <3>1, <3>2
  <2> QED BY <2>7, FS_Singleton
<1> QED BY <1>1, <1>2

\* If an action of the focus is left out, TODAY_MAX ready actions of the focus come before it, and before every
\* action outside the focus.
LEMMA FocusFirst ==
    ASSUME TodayTypeOK
    PROVE  FocusIsNotCrowdedOut
<1> DEFINE before(a) == {b \in ReadyActions : Before(b, a)}
<1> SUFFICES ASSUME NEW a \in ReadyActions, InFocus(a), a \notin Shown, NEW c \in Shown, ~InFocus(c)
             PROVE  FALSE
  BY DEF FocusIsNotCrowdedOut
<1>1. c \in ReadyActions /\ Cardinality(before(c)) < TODAY_MAX /\ ~(Cardinality(before(a)) < TODAY_MAX)
  BY DEF Shown
<1>2. before(a) \subseteq before(c)
  <2> SUFFICES ASSUME NEW b \in ReadyActions, Before(b, a) PROVE Before(b, c)
    OBVIOUS
  <2>1. InFocus(b)
    BY DEF Before, InFocus
  <2> QED BY <2>1 DEF Before, InFocus
<1>3. before(c) \in SUBSET Actions /\ before(a) \in SUBSET Actions
  BY TodayFields
<1>4. Cardinality(before(a)) <= Cardinality(before(c)) /\ Cardinality(before(a)) \in Nat
      /\ Cardinality(before(c)) \in Nat
  <2> HIDE DEF before
  <2> QED BY <1>2, <1>3, TodayFields, FS_Subset
<1> QED BY <1>1, <1>4

\* What an action waits for is closed: it contains what its own open members need; and is the least such set.
LEMMA WaitsForIsLeast ==
    ASSUME TodayTypeOK, NEW a \in Actions
    PROVE  /\ WaitsFor(a) \subseteq Actions /\ Unmet(a) \subseteq WaitsFor(a)
           /\ \A p \in WaitsFor(a) \cap OpenActions : needs[p] \subseteq WaitsFor(a)
           /\ \A S \in SUBSET Actions :
                 Unmet(a) \subseteq S /\ (\A p \in S \cap OpenActions : needs[p] \subseteq S) => WaitsFor(a) \subseteq S
<1>1. Unmet(a) \subseteq Actions /\ \A p \in Actions : needs[p] \subseteq Actions
  BY TodayFields
<1>2. WaitsFor(a) \subseteq Actions /\ Unmet(a) \subseteq WaitsFor(a)
  BY <1>1 DEF WaitsFor
<1>3. ASSUME NEW p \in WaitsFor(a) \cap OpenActions, NEW q \in needs[p]
      PROVE  q \in WaitsFor(a)
  <2>1. q \in Actions
    BY <1>1, <1>2
  <2>2. ASSUME NEW S \in SUBSET Actions, Unmet(a) \subseteq S, \A x \in S \cap OpenActions : needs[x] \subseteq S
        PROVE  q \in S
    <3>1. p \in S
      BY <2>2 DEF WaitsFor
    <3> QED BY <2>2, <3>1
  <2> QED BY <2>1, <2>2 DEF WaitsFor
<1>4. ASSUME NEW S \in SUBSET Actions, Unmet(a) \subseteq S, \A x \in S \cap OpenActions : needs[x] \subseteq S
      PROVE  WaitsFor(a) \subseteq S
  BY <1>4 DEF WaitsFor
<1> QED BY <1>2, <1>3, <1>4

\* If nothing is ready and no cause is found, the open actions that a waits for wait for each other without end:
\* take the one that waits for the fewest; what it needs waits for fewer.
LEMMA StandstillIsExplained ==
    ASSUME TodayTypeOK
    PROVE  StandstillHasACause
<1> SUFFICES ASSUME ReadyActions = {}, ~stale, NEW a \in OpenActions,
                    \A p \in WaitsFor(a) \cup {a} : p \notin Kept \cup Postponed /\ p \notin WaitsFor(p)
             PROVE  FALSE
  BY DEF StandstillHasACause
<1> DEFINE C == (WaitsFor(a) \cup {a}) \cap OpenActions
           f == [p \in C |-> Cardinality(WaitsFor(p))]
<1>1. a \in Actions /\ a \in C /\ C \subseteq Actions
  BY TodayFields
<1>2. \A p \in Actions : WaitsFor(p) \subseteq Actions
  BY WaitsForIsLeast
<1>3. f \in [C -> Nat]
  BY <1>1, <1>2, TodayFields
<1>4. PICK p \in C : \A q \in C : f[p] <= f[q]
  <2> HIDE DEF C, f
  <2> QED BY <1>1, <1>3, LeastValue
<1>5. p \in Actions /\ p \in OpenActions /\ p \notin Kept
  BY <1>1
\* p is not ready: something it needs is not done.
<1>6. PICK q \in Unmet(p) : TRUE
  <2>1. p \notin ReadyActions
    OBVIOUS
  <2> QED BY <1>5, <2>1, ReadyIs
<1>7. q \in Actions /\ q \in WaitsFor(p) /\ q \in needs[p] /\ ledger[q] # "done"
  BY <1>5, <1>6, TodayFields, WaitsForIsLeast DEF Unmet
<1>8. q \in WaitsFor(a)
  <2>1. CASE p = a
    BY <1>7, <2>1
  <2>2. CASE p \in WaitsFor(a)
    BY <1>1, <1>5, <1>7, <2>2, WaitsForIsLeast
  <2> QED BY <2>1, <2>2
<1>9. q \in OpenActions
  BY <1>7, <1>8 DEF OpenActions, Postponed, TodayTypeOK, ActionOutcomes
<1>10. WaitsFor(q) \subseteq WaitsFor(p) /\ q \notin WaitsFor(q)
  <2>1. \A x \in WaitsFor(p) \cap OpenActions : needs[x] \subseteq WaitsFor(p)
    BY <1>5, WaitsForIsLeast
  <2>2. Unmet(q) \subseteq WaitsFor(p)
    BY <1>7, <1>9, <2>1 DEF Unmet
  <2>3. WaitsFor(p) \in SUBSET Actions
    BY <1>2, <1>5
  <2>4. WaitsFor(q) \subseteq WaitsFor(p)
    BY <1>7, <2>1, <2>2, <2>3, WaitsForIsLeast
  <2> QED BY <1>8, <2>4
<1>11. Cardinality(WaitsFor(q)) < Cardinality(WaitsFor(p)) /\ Cardinality(WaitsFor(q)) \in Nat
       /\ Cardinality(WaitsFor(p)) \in Nat
  <2>1. IsFiniteSet(WaitsFor(p))
    BY <1>2, <1>5, TodayFields
  <2> QED BY <1>7, <1>10, <2>1, ProperSubset
<1>12. q \in C
  BY <1>8, <1>9
<1>13. Cardinality(WaitsFor(p)) <= Cardinality(WaitsFor(q))
  BY <1>4, <1>12
<1> QED BY <1>11, <1>13

-----------------------------------------------------------------------------
LEMMA TodayTypeStep ==
    ASSUME TodayTypeOK, [TodayNext]_todayVars
    PROVE  TodayTypeOK'
<1>1. ASSUME NEW a \in Actions, NEW o \in ActionOutcomes, Mark(a, o)
      PROVE  TodayTypeOK'
  BY <1>1 DEF TodayTypeOK, Mark
<1>2. ASSUME NEW a \in Actions, Resolve(a)
      PROVE  TodayTypeOK'
  BY <1>2 DEF TodayTypeOK, Resolve, Lacks
<1>3. CASE StrategyChanges
  BY <1>3 DEF TodayTypeOK, StrategyChanges
<1>4. CASE UNCHANGED todayVars
  BY <1>4 DEF TodayTypeOK, todayVars
<1> QED BY <1>1, <1>2, <1>3, <1>4 DEF TodayNext

LEMMA TodayInitTypes == TodayInit => TodayTypeOK
BY DEF TodayInit, TodayTypeOK, Plans, ActionOutcomes, Lacks

LEMMA TodayTypes == TodaySpec => []TodayTypeOK
BY TodayInitTypes, TodayTypeStep, PTL DEF TodaySpec

\* Whatever the plan, the ledger and what the founder lacks: while an action is open there is a move to make, a
\* standstill has a cause that can be named, and nothing outside the focus is shown while a ready action of the
\* focus is left out (selectToday and deriveReadiness, for any number of actions and priorities).
THEOREM TodayIsExplained == TodaySpec => []TodayInv
<1>1. TodayTypeOK => TodayInv
  BY AMoveIsGiven, StandstillIsExplained, FocusFirst DEF TodayInv
<1> QED BY <1>1, TodayTypes, PTL

\* A ready action stays ready until it is marked, held back, or the strategy changes, or the founder takes back
\* an outcome "done" (deriveReadiness over the ledger applyOutcome appends to).
THEOREM ReadyIsNotTakenAway == TodaySpec => ReadyStaysReady
<1>1. ASSUME TodayTypeOK, [TodayNext]_todayVars
      PROVE  [\A a \in ReadyActions :
                a \in ReadyActions' \/ a \notin OpenActions' \/ a \in Kept' \/ stale'
                \/ \E p \in Actions : ledger[p] = "done" /\ ledger'[p] # "done"]_todayVars
  <2> SUFFICES ASSUME NEW a \in ReadyActions, ~(UNCHANGED todayVars),
                      a \in OpenActions', a \notin Kept', ~stale',
                      \A p \in Actions : ledger[p] = "done" => ledger'[p] = "done"
               PROVE  a \in ReadyActions'
    OBVIOUS
  <2>1. needs' = needs
    BY <1>1 DEF TodayNext, Resolve, Mark, StrategyChanges
  <2>2. Unmet(a) = {} /\ a \in Actions /\ needs[a] \subseteq Actions
    BY <1>1, ReadyIs, TodayFields
  <2>3. Unmet(a)' = {}
    BY <2>1, <2>2 DEF Unmet
  <2> QED BY <2>3, ReadyIs
<1> QED BY <1>1, TodayTypes, PTL DEF TodaySpec, ReadyStaysReady

\* What Shown stands for: today is the beginning, of TODAY_MAX actions, of the ready actions in their order.
ShownIsTheBeginning ==
    /\ \A a \in Shown : \A b \in ReadyActions : Before(b, a) => b \in Shown
    /\ Cardinality(Shown) <= TODAY_MAX
    /\ Shown # ReadyActions => Cardinality(Shown) = TODAY_MAX

\* Fewer come before an action than before a later one, and fewer than there are.
LEMMA RanksRise ==
    ASSUME TodayTypeOK
    PROVE  LET rank(a) == Cardinality({c \in ReadyActions : Before(c, a)})
           IN  /\ \A a \in ReadyActions : rank(a) \in Nat
               /\ \A a, b \in ReadyActions : Before(a, b) => rank(a) < rank(b)
<1> DEFINE ahead(a) == {c \in ReadyActions : Before(c, a)}
<1>1. ReadyActions \subseteq Actions
  BY TodayFields
<1>2. \A a \in ReadyActions : IsFiniteSet(ahead(a)) /\ Cardinality(ahead(a)) \in Nat
  BY <1>1, TodayFields
<1>3. ASSUME NEW a \in ReadyActions, NEW b \in ReadyActions, Before(a, b)
      PROVE  Cardinality(ahead(a)) < Cardinality(ahead(b))
  <2>1. ahead(a) \subseteq ahead(b) /\ a \in ahead(b) /\ a \notin ahead(a)
    BY <1>1, <1>3, BeforeOrders
  <2> HIDE DEF ahead
  <2> QED BY <1>2, <2>1, ProperSubset
<1> QED BY <1>2, <1>3

LEMMA ShownBegins == ASSUME TodayTypeOK PROVE ShownIsTheBeginning
<1> DEFINE rank(a) == Cardinality({c \in ReadyActions : Before(c, a)})
           places == 0..(TODAY_MAX - 1)
           f == [a \in Shown |-> rank(a)]
<1>1. /\ ReadyActions \subseteq Actions /\ Shown \subseteq ReadyActions
      /\ \A a \in Shown : rank(a) < TODAY_MAX
      /\ \A a \in ReadyActions : rank(a) < TODAY_MAX => a \in Shown
  BY TodayFields DEF Shown
<1>2. /\ \A a \in ReadyActions : rank(a) \in Nat
      /\ \A a, b \in ReadyActions : Before(a, b) => rank(a) < rank(b)
  BY RanksRise
<1>3. IsFiniteSet(Shown) /\ Cardinality(Shown) \in Nat
  BY <1>1, TodayFields
<1> HIDE DEF rank
<1>4. \A a \in Shown : \A b \in ReadyActions : Before(b, a) => b \in Shown
  <2> SUFFICES ASSUME NEW a \in Shown, NEW b \in ReadyActions, Before(b, a) PROVE b \in Shown
    OBVIOUS
  <2>1. rank(b) < rank(a) /\ rank(a) < TODAY_MAX /\ rank(b) \in Nat /\ rank(a) \in Nat
    BY <1>1, <1>2
  <2> QED BY <1>1, <2>1
\* No two actions have as many before them, so that there are no more than TODAY_MAX places.
<1>5. Cardinality(Shown) <= TODAY_MAX
  <2>1. \A a, b \in Shown : f[a] = f[b] => a = b
    <3> SUFFICES ASSUME NEW a \in Shown, NEW b \in Shown, a # b PROVE rank(a) # rank(b)
      OBVIOUS
    <3>1. Before(a, b) \/ Before(b, a)
      BY <1>1, BeforeOrders
    <3> QED BY <1>1, <1>2, <3>1
  <2>2. f \in Injection(Shown, places)
    <3>1. f \in [Shown -> places]
      BY <1>1, <1>2
    <3> HIDE DEF f, places
    <3> QED BY <2>1, <3>1 DEF Injection, IsInjective
  <2>3. IsFiniteSet(places) /\ Cardinality(places) = TODAY_MAX
    <3>1. 0 \in Int /\ TODAY_MAX - 1 \in Int /\ ~(0 > TODAY_MAX - 1)
      OBVIOUS
    <3> QED BY <3>1, FS_Interval
  <2> HIDE DEF f, places
  <2> QED BY <2>2, <2>3, FS_Injection
\* The first action that is left out has nothing but what is shown before it.
<1>6. ASSUME Shown # ReadyActions PROVE Cardinality(Shown) >= TODAY_MAX
  <2> DEFINE Rest == ReadyActions \ Shown
             g == [a \in Rest |-> rank(a)]
  <2>1. Rest # {} /\ g \in [Rest -> Nat]
    BY <1>1, <1>2, <1>6
  <2>2. PICK a \in Rest : \A b \in Rest : g[a] <= g[b]
    <3> HIDE DEF Rest, g
    <3> QED BY <2>1, LeastValue
  <2> DEFINE ahead == {c \in ReadyActions : Before(c, a)}
  <2>3. ASSUME NEW c \in ahead PROVE c \in Shown
    <3>1. rank(c) < rank(a) /\ rank(c) \in Nat /\ rank(a) \in Nat
      BY <1>2
    <3>2. CASE c \in Rest
      <4>1. rank(a) <= rank(c)
        BY <2>2, <3>2
      <4> QED BY <3>1, <4>1
    <3> QED BY <3>2
  <2>4. rank(a) = Cardinality(ahead)
    BY DEF rank
  <2>5. ahead \subseteq Shown /\ rank(a) \in Nat /\ ~(rank(a) < TODAY_MAX)
    BY <1>1, <1>2, <2>3
  <2> HIDE DEF ahead
  <2>6. Cardinality(ahead) <= Cardinality(Shown)
    BY <1>3, <2>5, FS_Subset
  <2> QED BY <1>3, <2>4, <2>5, <2>6
<1>7. Shown # ReadyActions => Cardinality(Shown) = TODAY_MAX
  BY <1>3, <1>5, <1>6
<1> QED BY <1>4, <1>5, <1>7 DEF ShownIsTheBeginning

\* In every state the actions of the day are the first TODAY_MAX ready ones, all of them if they are fewer
\* (selectToday's sort and slice).
THEOREM TodayShowsTheFirst == TodaySpec => []ShownIsTheBeginning
<1>1. TodayTypeOK => ShownIsTheBeginning
  BY ShownBegins
<1> QED BY <1>1, TodayTypes, PTL

=============================================================================
