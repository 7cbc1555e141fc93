------------------------- MODULE BusinessBrainProofs -------------------------
(***************************************************************************)
(* The safety of the Business Brain lifecycle, for any number of versions, *)
(* requests, tokens, attempts and faults: IInv is inductive, and the       *)
(* invariants, the action properties and the refinement of BrainShelf      *)
(* follow from it.  With it, what a read of the current version finds.     *)
(***************************************************************************)
EXTENDS CurrentVersionRead, TLAPS

USE LifecycleAssumption DEF LifecycleAssumption

-----------------------------------------------------------------------------
(* Types                                                                      *)

States == {"none", "in_progress", "completed", "failed", "cancelled"}

\* setRefresh writes a row of the right type.
LEMMA StatusType ==
  ASSUME refresh \in RefreshRow, NEW state \in States,
         NEW import \in {"none", "running", "sufficient", "insufficient", "failed"},
         NEW diagnosed \in {"none", "produced", "generation_failed"},
         NEW validated \in {"none", "passed"}, NEW marker \in Nat
  PROVE  Status(state, import, diagnosed, validated, marker) \in RefreshRow
BY DEF Status, RefreshRow, States

\* The fields of the status row have their types.
LEMMA RowFields ==
  ASSUME TypeOK
  PROVE  /\ refresh.reference \in Versions \cup {NoVersion}
         /\ refresh.state \in States
         /\ refresh.import \in {"none", "running", "sufficient", "insufficient", "failed"}
         /\ refresh.diagnosis \in {"none", "produced", "generation_failed"}
         /\ refresh.validation \in {"none", "passed"}
         /\ refresh.marker \in Nat
         /\ refresh.marker + 1 \in Nat
BY DEF TypeOK, RefreshRow, States

\* bumpRefresh with the marker read in the same transaction keeps the row's type.
LEMMA BumpType ==
  ASSUME TypeOK, NEW state \in States
  PROVE  BumpState(state) \in RefreshRow
<1>1. refresh \in RefreshRow
  BY DEF TypeOK
<1> QED BY <1>1, RowFields, StatusType DEF BumpState

\* bumpRefresh with the marker an unlocked transaction has read keeps the row's type.
LEMMA SeenType ==
  ASSUME TypeOK, NEW v \in Versions
  PROVE  /\ Status(refresh.state, "sufficient", refresh.diagnosis, refresh.validation,
                   seen[v] + 1) \in RefreshRow
         /\ Status(refresh.state, refresh.import, "produced", refresh.validation,
                   seen[v] + 1) \in RefreshRow
         /\ Status(refresh.state, refresh.import, refresh.diagnosis, "passed",
                   seen[v] + 1) \in RefreshRow
<1>1. refresh \in RefreshRow /\ seen[v] + 1 \in Nat
  BY DEF TypeOK
<1> QED BY <1>1, RowFields, StatusType

\* What a request may turn into.
LEMMA RequestTypes ==
  /\ Idle \in Request
  /\ [op |-> "disconnect"] \in Request
  /\ \A outcome \in {"cancelled", "failed"} :
       [op |-> "discard", outcome |-> outcome] \in Request
  /\ \A t \in Tokens \cup {NoToken}, f \in Fingerprints :
       [op |-> "start", token |-> t, fingerprint |-> f] \in Request
BY DEF Request, Idle

\* deleteCandidate keeps the types of the rows.
LEMMA DeleteType ==
  ASSUME TypeOK, NEW v \in Versions, DeleteCandidate(v)
  PROVE  /\ lifecycle' \in [Versions -> Lifecycles]
         /\ evidence' \subseteq Versions
         /\ diagnosis' \subseteq Versions
         /\ passed' \subseteq Versions
         /\ spared' \subseteq Versions
BY DEF TypeOK, DeleteCandidate, rows, children, Lifecycles

\* A discard for a request keeps the types of the rows and of the status row.
LEMMA DiscardType ==
  ASSUME TypeOK, NEW v \in Versions, NEW outcome \in {"cancelled", "failed"},
         DiscardFor(v, outcome)
  PROVE  /\ lifecycle' \in [Versions -> Lifecycles]
         /\ evidence' \subseteq Versions
         /\ diagnosis' \subseteq Versions
         /\ passed' \subseteq Versions
         /\ spared' \subseteq Versions
         /\ refresh' \in RefreshRow
<1>1. outcome \in States
  BY DEF States
<1> QED BY <1>1, DeleteType, BumpType DEF DiscardFor

\* A pipeline's failing transaction keeps the types.
LEMMA FailType ==
  ASSUME TypeOK, NEW v \in Versions, NEW row \in RefreshRow, FailWith(v, row)
  PROVE  TypeOK'
<1>1. pc' \in [Versions -> Steps]
  BY DEF TypeOK, FailWith, GoTo, Steps
<1> QED BY <1>1, DeleteType DEF TypeOK, FailWith

\* Type correctness is kept by every step of the system.
LEMMA TypeStep ==
  ASSUME IInv, Next
  PROVE  TypeOK'
<1>0. TypeOK /\ LockHolder
  BY DEF IInv
<1>1. CASE Connect
  BY <1>0, <1>1 DEF TypeOK, Connect, rows, children, locals
<1>2. ASSUME NEW r \in Requests, RequestStep(r)
      PROVE  TypeOK'
  <2>1. ASSUME NEW t \in Tokens \cup {NoToken}, NEW f \in Fingerprints, BeginStart(r, t, f)
        PROVE  TypeOK'
    BY <1>0, <2>1, RequestTypes DEF TypeOK, BeginStart, rows, children, locals
  <2>2. CASE ReplayStart(r)
    BY <1>0, <2>2, RequestTypes DEF TypeOK, ReplayStart, rows, children, locals
  <2>3. CASE StartInProgress(r)
    BY <1>0, <2>3, RequestTypes DEF TypeOK, StartInProgress, rows, children, locals
  <2>4. ASSUME NEW v \in Versions, CreateCandidate(r, v)
        PROVE  TypeOK'
    <3>1. refresh' \in RefreshRow
      BY <2>4 DEF CreateCandidate, RefreshRow
    <3>2. /\ req[r].fingerprint \in Fingerprints
          /\ req[r].token \in Tokens \cup {NoToken}
      BY <1>0, <2>4 DEF TypeOK, CreateCandidate, Request
    <3>3. tokens' \in [Tokens -> TokenRow \cup {NoTokenRow}]
      BY <1>0, <2>4, <3>2 DEF TypeOK, CreateCandidate, TokenRow
    <3>4. lifecycle' \in [Versions -> Lifecycles] /\ pc' \in [Versions -> Steps]
      BY <1>0, <2>4 DEF TypeOK, CreateCandidate, GoTo, Lifecycles, Steps
    <3> QED BY <1>0, <2>4, <3>1, <3>3, <3>4, RequestTypes DEF TypeOK, CreateCandidate, children
  <2>5. CASE Cancel(r)
    BY <1>0, <2>5, DiscardType DEF TypeOK, Cancel, locals
  <2>6. ASSUME NEW outcome \in {"cancelled", "failed"}, BlockOn(r, outcome)
        PROVE  TypeOK'
    BY <1>0, <2>6, RequestTypes DEF TypeOK, BlockOn, rows, children, locals
  <2>7. CASE Disconnect(r)
    BY <1>0, <2>7, RequestTypes DEF TypeOK, Disconnect, rows, children, locals
  <2>8. CASE DisconnectDiscards(r)
    BY <1>0, <2>8, DiscardType, RequestTypes DEF TypeOK, DisconnectDiscards, locals
  <2>9. CASE DisconnectFindsNone(r)
    BY <1>0, <2>9, RequestTypes DEF TypeOK, DisconnectFindsNone, rows, children, locals
  <2>10. CASE FinishDiscard(r)
    <3>1. req[r].outcome \in {"cancelled", "failed"}
      BY <1>0, <2>10 DEF TypeOK, LockHolder, FinishDiscard, Request
    <3> QED BY <1>0, <2>10, <3>1, DiscardType, RequestTypes DEF TypeOK, FinishDiscard, locals
  <2>11. CASE AbortDiscard(r)
    BY <1>0, <2>11, RequestTypes DEF TypeOK, AbortDiscard, Spare, rows, children, locals
  <2>12. CASE RequestLost(r)
    BY <1>0, <2>12, RequestTypes DEF TypeOK, RequestLost, Spare, rows, children, locals
  <2> QED BY <1>2, <2>1, <2>2, <2>3, <2>4, <2>5, <2>6, <2>7, <2>8, <2>9, <2>10, <2>11, <2>12
      DEF RequestStep, StartTx, DisconnectTx, CancelBlocks, DisconnectBlocks
<1>3. ASSUME NEW v \in Versions, PipelineStep(v)
      PROVE  TypeOK'
  <2>1. ASSUME NEW outcome \in {"failed", "insufficient"}, ImportFails(v, outcome)
        PROVE  TypeOK'
    <3>1. Status("failed", outcome, "none", "none", refresh.marker + 1) \in RefreshRow
      BY <1>0, RowFields, StatusType DEF TypeOK, States
    <3> QED BY <1>0, <2>1, <3>1, FailType DEF ImportFails
  <2>2. CASE LoadToken(v) \/ CheckImport(v) \/ CheckDiagnosis(v)
    BY <1>0, <2>2 DEF TypeOK, LoadToken, CheckImport, CheckDiagnosis, CheckCandidate, GoTo, rows, children, Steps
  <2>3. CASE InsertImport(v) \/ InsertDiagnosis(v)
    BY <1>0, <2>3, RowFields
    DEF TypeOK, InsertImport, InsertDiagnosis, InsertChildren, GoTo, Caught, rows, children, Steps
  <2>4. CASE CommitImport(v)
    <3>1. pc' \in [Versions -> Steps]
      BY <1>0, <2>4 DEF TypeOK, CommitImport, GoTo, Steps
    <3> QED BY <1>0, <2>4, <3>1, SeenType DEF TypeOK, CommitImport
  <2>5. CASE DraftAccepted(v)
    BY <1>0, <2>5 DEF TypeOK, DraftAccepted, GoTo, rows, children, Steps
  <2>6. CASE DraftRejected(v)
    <3>1. attempt[v] + 1 \in 0..MaxAttempts
      BY <1>0, <2>6 DEF IInv, PipelineRows, TypeOK, DraftRejected
    <3>2. attempt' \in [Versions -> 0..MaxAttempts]
      BY <1>0, <2>6, <3>1 DEF TypeOK, DraftRejected
    <3>3. pc' \in [Versions -> Steps]
      BY <1>0, <2>6 DEF TypeOK, DraftRejected, GoTo, Steps
    <3> QED BY <1>0, <2>6, <3>2, <3>3 DEF TypeOK, DraftRejected, rows, children
  <2>7. CASE DiagnosisUnavailable(v)
    <3>1. Status("failed", "sufficient", "generation_failed", refresh.validation,
                 refresh.marker + 1) \in RefreshRow
      BY <1>0, RowFields, StatusType DEF TypeOK, States
    <3> QED BY <1>0, <2>7, <3>1, FailType DEF DiagnosisUnavailable
  <2>8. CASE CommitDiagnosis(v)
    <3>1. pc' \in [Versions -> Steps]
      BY <1>0, <2>8 DEF TypeOK, CommitDiagnosis, GoTo, Steps
    <3>2. faults' \in 0..MaxFaults
      BY <1>0, <2>8 DEF TypeOK, CommitDiagnosis
    <3> QED BY <1>0, <2>8, <3>1, <3>2, SeenType DEF TypeOK, CommitDiagnosis
  <2>9. CASE UpdateJob(v)
    BY <1>0, <2>9, RowFields DEF TypeOK, UpdateJob, GoTo, rows, children, Steps
  <2>10. CASE CommitValidation(v)
    <3>1. pc' \in [Versions -> Steps]
      BY <1>0, <2>10 DEF TypeOK, CommitValidation, GoTo, Steps
    <3> QED BY <1>0, <2>10, <3>1, SeenType DEF TypeOK, CommitValidation
  <2>11. CASE Promote(v)
    <3>1. refresh' \in RefreshRow
      BY <1>0, <2>11, BumpType DEF Promote, States
    <3>2. lifecycle' \in [Versions -> Lifecycles] /\ pc' \in [Versions -> Steps]
      BY <1>0, <2>11 DEF TypeOK, Promote, GoTo, Lifecycles, Steps
    <3>3. faults' \in 0..MaxFaults
      BY <1>0, <2>11 DEF TypeOK, Promote
    <3> QED BY <1>0, <2>11, <3>1, <3>2, <3>3 DEF TypeOK, Promote
  <2>12. CASE PromoteStale(v)
    BY <1>0, <2>12 DEF TypeOK, PromoteStale, GoTo, rows, children, Steps
  <2>13. CASE FailAndDiscard(v)
    <3>1. BumpState("failed") \in RefreshRow
      BY <1>0, BumpType DEF States
    <3> QED BY <1>0, <2>13, <3>1, FailType DEF FailAndDiscard
  <2>14. CASE AbortCommit(v)
    BY <1>0, <2>14 DEF TypeOK, AbortCommit, GoTo, Caught, rows, children, Steps
  <2>15. CASE PipelineError(v) \/ PipelineLost(v)
    BY <1>0, <2>15 DEF TypeOK, PipelineError, PipelineLost, GoTo, Caught, rows, children, Steps
  <2> QED BY <1>3, <2>1, <2>2, <2>3, <2>4, <2>5, <2>6, <2>7, <2>8, <2>9, <2>10, <2>11,
             <2>12, <2>13, <2>14, <2>15 DEF PipelineStep, Advance
<1> QED BY <1>1, <1>2, <1>3 DEF Next

-----------------------------------------------------------------------------
(* Rows and status                                                            *)

\* What the rows, the status row and the token rows promise together.
DataInv == /\ OneOfEach
           /\ NoOrphanRows
           /\ CurrentIsComplete
           /\ StatusAgrees
           /\ TokenBindsOnce

\* A step that writes none of the rows keeps what they promise.
LEMMA QuietData ==
  ASSUME IInv, UNCHANGED <<lifecycle, children, refresh, tokens>>
  PROVE  DataInv'
BY DEF IInv, DataInv, children, OneOfEach, NoOrphanRows, CurrentIsComplete, StatusAgrees,
       TokenBindsOnce, IsLive, IsActiveCandidate

\* A bound token's reference is a version.
LEMMA TokenReference ==
  ASSUME TypeOK
  PROVE  \A t \in Tokens : tokens[t] # NoTokenRow => tokens[t].reference \in Versions
BY DEF TypeOK, TokenRow

\* deleteCandidate with a cancelled or failed status: cascading keeps every
\* promise, also when the version is no Candidate any more; only then may the
\* outcome not be 'cancelled'.
LEMMA DiscardData ==
  ASSUME IInv, NEW v \in Versions, DeleteCandidate(v), UNCHANGED tokens,
         refresh'.reference = refresh.reference,
         refresh'.state \in {"cancelled", "failed"},
         refresh'.state = "cancelled" => IsActiveCandidate(v)
  PROVE  DataInv'
<1>1. \A w \in Versions :
        lifecycle'[w] = IF w = v /\ IsActiveCandidate(v) THEN "discarded" ELSE lifecycle[w]
  BY DEF IInv, TypeOK, DeleteCandidate, IsActiveCandidate, rows, children
<1>2. OneOfEach'
  BY <1>1 DEF IInv, OneOfEach, IsLive
<1>3. NoOrphanRows'
  BY <1>1 DEF IInv, TypeOK, NoOrphanRows, DeleteCandidate, IsLive, IsActiveCandidate, rows, children
<1>4. CurrentIsComplete'
  BY <1>1 DEF IInv, CurrentIsComplete, DeleteCandidate, IsActiveCandidate, rows, children
<1>5. StatusAgrees'
  BY <1>1 DEF IInv, StatusAgrees, OneOfEach, IsLive, IsActiveCandidate
<1>6. TokenBindsOnce'
  BY <1>1, TokenReference DEF IInv, TokenBindsOnce
<1> QED BY <1>2, <1>3, <1>4, <1>5, <1>6 DEF DataInv

\* An unlocked commit that adds children only to live versions, and leaves the
\* reference and the state of the status row as they are, keeps every promise.
LEMMA CommitData ==
  ASSUME IInv, UNCHANGED <<lifecycle, tokens>>,
         evidence \subseteq evidence', diagnosis \subseteq diagnosis', passed \subseteq passed',
         \A w \in (evidence' \ evidence) \cup (diagnosis' \ diagnosis) \cup (passed' \ passed) :
           w \in Versions /\ IsLive(w),
         refresh'.reference = refresh.reference,
         refresh'.state = refresh.state
  PROVE  DataInv'
BY DEF IInv, TypeOK, DataInv, OneOfEach, NoOrphanRows, CurrentIsComplete, StatusAgrees,
       TokenBindsOnce, IsLive, IsActiveCandidate

\* startRefresh creates a Candidate only beside no other one, and binds a token
\* only to the version it creates.
LEMMA CreateData ==
  ASSUME IInv, NEW r \in Requests, NEW v \in Versions, CreateCandidate(r, v)
  PROVE  DataInv'
<1>1. \A w \in Versions : lifecycle'[w] = IF w = v THEN "candidate" ELSE lifecycle[w]
  BY DEF IInv, TypeOK, CreateCandidate
<1>2. \A w \in Versions : lifecycle[w] # "candidate"
  BY DEF CreateCandidate, NoCandidate, IsActiveCandidate
<1>3. v \notin evidence \cup diagnosis \cup passed
  BY DEF IInv, NoOrphanRows, IsLive, CreateCandidate
<1>4. OneOfEach'
  BY <1>1, <1>2 DEF IInv, OneOfEach, IsLive
<1>5. NoOrphanRows'
  BY <1>1, <1>3 DEF IInv, TypeOK, NoOrphanRows, IsLive, CreateCandidate, children
<1>6. CurrentIsComplete'
  BY <1>1 DEF IInv, CurrentIsComplete, CreateCandidate, children
<1>7. StatusAgrees'
  BY <1>1, <1>2 DEF StatusAgrees, CreateCandidate, IsActiveCandidate
<1>8. TokenBindsOnce'
  <2>1. \A t \in Tokens : tokens'[t] # tokens[t] => t = req[r].token /\ tokens'[t].reference = v
    BY DEF CreateCandidate, IInv, TypeOK
  <2>2. \A t \in Tokens : tokens[t] # NoTokenRow => tokens[t].reference # v
    BY DEF IInv, TokenBindsOnce, CreateCandidate
  <2> QED BY <1>1, <2>1, <2>2, TokenReference DEF IInv, TokenBindsOnce, NoTokenRow
<1> QED BY <1>4, <1>5, <1>6, <1>7, <1>8 DEF DataInv

\* promoteCandidateAtomically swaps Current for a complete Candidate and takes the
\* old version's children away with it.
LEMMA PromoteData ==
  ASSUME IInv, NEW v \in Versions, Promote(v)
  PROVE  DataInv'
<1>1. \A w \in Versions :
        lifecycle'[w] = IF w = v THEN "current"
                        ELSE IF lifecycle[w] = "current" THEN "superseded" ELSE lifecycle[w]
  BY DEF Promote
<1>2. lifecycle[v] = "candidate" /\ v \in evidence /\ v \in diagnosis /\ v \in passed
  BY DEF IInv, PipelineRows, Promote, Promotable, IsActiveCandidate
<1>3. \A w \in Versions :
        /\ w \in evidence' <=> w \in evidence /\ lifecycle[w] # "current"
        /\ w \in diagnosis' <=> w \in diagnosis /\ lifecycle[w] # "current"
        /\ w \in passed' <=> w \in passed /\ lifecycle[w] # "current"
  <2>1. \A w \in Versions : w \in evidence' <=> w \in evidence /\ lifecycle[w] # "current"
    BY DEF Promote
  <2>2. \A w \in Versions : w \in diagnosis' <=> w \in diagnosis /\ lifecycle[w] # "current"
    BY DEF Promote
  <2>3. \A w \in Versions : w \in passed' <=> w \in passed /\ lifecycle[w] # "current"
    BY DEF Promote
  <2> QED BY <2>1, <2>2, <2>3
<1>4. evidence' \cup diagnosis' \cup passed' \subseteq Versions
  BY DEF IInv, TypeOK, Promote
<1>5. OneOfEach'
  BY <1>1, <1>2 DEF IInv, OneOfEach, IsLive
<1>6. NoOrphanRows'
  BY <1>1, <1>3, <1>4 DEF IInv, NoOrphanRows, IsLive
<1>7. CurrentIsComplete'
  BY <1>1, <1>2, <1>3 DEF CurrentIsComplete
<1>8. StatusAgrees'
  BY <1>1, <1>2
  DEF IInv, OneOfEach, IsLive, StatusAgrees, Promote, BumpState, Status, IsActiveCandidate
<1>9. TokenBindsOnce'
  BY <1>1, TokenReference DEF IInv, TokenBindsOnce, Promote
<1> QED BY <1>5, <1>6, <1>7, <1>8, <1>9 DEF DataInv

\* Every step of the system keeps what the rows promise together.
LEMMA DataStep ==
  ASSUME IInv, Next
  PROVE  DataInv'
<1>1. CASE Connect
  BY <1>1, QuietData DEF rows, Connect
<1>2. ASSUME NEW r \in Requests, RequestStep(r)
      PROVE  DataInv'
  <2>1. ASSUME NEW t \in Tokens \cup {NoToken}, NEW f \in Fingerprints, BeginStart(r, t, f)
        PROVE  DataInv'
    BY <2>1, QuietData DEF rows, BeginStart
  <2>2. CASE ReplayStart(r) \/ StartInProgress(r)
    BY <2>2, QuietData DEF rows, ReplayStart, StartInProgress
  <2>3. ASSUME NEW v \in Versions, CreateCandidate(r, v)
        PROVE  DataInv'
    BY <2>3, CreateData
  <2>4. CASE Cancel(r)
    BY <2>4, DiscardData DEF Cancel, DiscardFor, BumpState, Status
  <2>5. CASE CancelBlocks(r) \/ DisconnectBlocks(r)
    BY <2>5, QuietData DEF rows, CancelBlocks, DisconnectBlocks, BlockOn
  <2>6. CASE Disconnect(r) \/ DisconnectFindsNone(r)
    BY <2>6, QuietData DEF rows, Disconnect, DisconnectFindsNone
  <2>7. CASE DisconnectDiscards(r)
    BY <2>7, DiscardData DEF DisconnectDiscards, DiscardFor, BumpState, Status
  <2>8. CASE FinishDiscard(r)
    <3>1. req[r].outcome \in {"cancelled", "failed"}
      BY <2>8 DEF IInv, TypeOK, LockHolder, FinishDiscard, Request
    <3> QED BY <2>8, <3>1, DiscardData DEF FinishDiscard, DiscardFor, BumpState, Status
  <2>9. CASE AbortDiscard(r) \/ RequestLost(r)
    BY <2>9, QuietData DEF rows, AbortDiscard, RequestLost
  <2> QED BY <1>2, <2>1, <2>2, <2>3, <2>4, <2>5, <2>6, <2>7, <2>8, <2>9
      DEF RequestStep, StartTx, DisconnectTx
<1>3. ASSUME NEW v \in Versions, PipelineStep(v)
      PROVE  DataInv'
  <2>1. ASSUME NEW outcome \in {"failed", "insufficient"}, ImportFails(v, outcome)
        PROVE  DataInv'
    BY <2>1, DiscardData DEF ImportFails, FailWith, Status
  <2>2. CASE LoadToken(v) \/ CheckImport(v) \/ CheckDiagnosis(v)
    BY <2>2, QuietData DEF rows, LoadToken, CheckImport, CheckDiagnosis, CheckCandidate
  <2>3. CASE InsertImport(v) \/ InsertDiagnosis(v)
    BY <2>3, QuietData DEF rows, InsertImport, InsertDiagnosis, InsertChildren
  <2>4. CASE CommitImport(v)
    <3>1. IsLive(v)
      BY <2>4 DEF IInv, PipelineRows, CommitImport, IsLive, IsActiveCandidate
    <3> QED BY <2>4, <3>1, CommitData DEF CommitImport, Status
  <2>5. CASE CommitDiagnosis(v)
    <3>1. IsLive(v)
      BY <2>5 DEF IInv, PipelineRows, CommitDiagnosis, IsLive, IsActiveCandidate
    <3> QED BY <2>5, <3>1, CommitData DEF CommitDiagnosis, Status
  <2>6. CASE CommitValidation(v)
    <3>1. v \in diagnosis => IsLive(v)
      BY DEF IInv, NoOrphanRows
    <3> QED BY <2>6, <3>1, CommitData DEF CommitValidation, Status
  <2>7. CASE DraftAccepted(v) \/ DraftRejected(v) \/ UpdateJob(v) \/ PromoteStale(v)
    BY <2>7, QuietData DEF rows, DraftAccepted, DraftRejected, UpdateJob, PromoteStale
  <2>8. CASE DiagnosisUnavailable(v) \/ FailAndDiscard(v)
    BY <2>8, DiscardData
    DEF DiagnosisUnavailable, FailAndDiscard, FailWith, BumpState, Status
  <2>9. CASE Promote(v)
    BY <2>9, PromoteData
  <2>10. CASE AbortCommit(v) \/ PipelineError(v) \/ PipelineLost(v)
    BY <2>10, QuietData DEF rows, AbortCommit, PipelineError, PipelineLost
  <2> QED BY <1>3, <2>1, <2>2, <2>3, <2>4, <2>5, <2>6, <2>7, <2>8, <2>9, <2>10
      DEF PipelineStep, Advance
<1> QED BY <1>1, <1>2, <1>3 DEF Next

-----------------------------------------------------------------------------
(* Pipelines and the row lock                                                 *)

\* The discards a request asks for take no row away from a pipeline that has one
\* open: they wait for it.
LEMMA DiscardPipelines ==
  ASSUME IInv, NEW v \in Versions, NEW outcome \in {"cancelled", "failed"},
         ~RowLocked(v), DiscardFor(v, outcome), UNCHANGED locals
  PROVE  PipelineRows'
BY DEF IInv, TypeOK, PipelineRows, RowLocked, DiscardFor, DeleteCandidate, IsActiveCandidate,
       rows, children, locals

\* A pipeline that fails and discards its own Candidate disturbs no other one.
LEMMA FailPipelines ==
  ASSUME IInv, NEW v \in Versions, pc[v] # "idle", NEW row, FailWith(v, row)
  PROVE  PipelineRows'
BY DEF IInv, TypeOK, PipelineRows, FailWith, DeleteCandidate, GoTo, IsActiveCandidate, rows, children

\* Every step of the system keeps rows and pipelines in agreement.
LEMMA PipelineRowsStep ==
  ASSUME IInv, Next
  PROVE  PipelineRows'
<1> USE DEF IInv, TypeOK, PipelineRows, IsActiveCandidate
<1>1. CASE Connect
  BY <1>1 DEF Connect, rows, children, locals
<1>2. ASSUME NEW r \in Requests, RequestStep(r)
      PROVE  PipelineRows'
  <2>1. ASSUME NEW t \in Tokens \cup {NoToken}, NEW f \in Fingerprints, BeginStart(r, t, f)
        PROVE  PipelineRows'
    BY <2>1 DEF BeginStart, rows, children, locals
  <2>2. CASE ReplayStart(r) \/ StartInProgress(r)
    BY <2>2 DEF ReplayStart, StartInProgress, rows, children, locals
  <2>3. ASSUME NEW v \in Versions, CreateCandidate(r, v)
        PROVE  PipelineRows'
    BY <2>3 DEF CreateCandidate, children, GoTo
  <2>4. CASE Cancel(r)
    BY <2>4, DiscardPipelines DEF Cancel
  <2>5. CASE CancelBlocks(r) \/ DisconnectBlocks(r)
    BY <2>5 DEF CancelBlocks, DisconnectBlocks, BlockOn, rows, children, locals
  <2>6. CASE Disconnect(r) \/ DisconnectFindsNone(r)
    BY <2>6 DEF Disconnect, DisconnectFindsNone, rows, children, locals
  <2>7. CASE DisconnectDiscards(r)
    BY <2>7, DiscardPipelines DEF DisconnectDiscards
  <2>8. CASE FinishDiscard(r)
    <3>1. req[r].outcome \in {"cancelled", "failed"}
      BY <2>8 DEF LockHolder, FinishDiscard, Request
    <3> QED BY <2>8, <3>1, DiscardPipelines DEF FinishDiscard
  <2>9. CASE AbortDiscard(r) \/ RequestLost(r)
    BY <2>9 DEF AbortDiscard, RequestLost, rows, children, locals
  <2> QED BY <1>2, <2>1, <2>2, <2>3, <2>4, <2>5, <2>6, <2>7, <2>8, <2>9
      DEF RequestStep, StartTx, DisconnectTx
<1>3. ASSUME NEW v \in Versions, PipelineStep(v)
      PROVE  PipelineRows'
  <2>1. ASSUME NEW outcome \in {"failed", "insufficient"}, ImportFails(v, outcome)
        PROVE  PipelineRows'
    BY <2>1, FailPipelines DEF ImportFails
  <2>2. CASE LoadToken(v) \/ CheckImport(v) \/ CheckDiagnosis(v)
    BY <2>2 DEF LoadToken, CheckImport, CheckDiagnosis, CheckCandidate, GoTo, rows, children
  <2>3. CASE InsertImport(v) \/ InsertDiagnosis(v)
    BY <2>3 DEF InsertImport, InsertDiagnosis, InsertChildren, GoTo, Caught, rows, children
  <2>4. CASE CommitImport(v)
    BY <2>4 DEF CommitImport, GoTo
  <2>5. CASE CommitDiagnosis(v)
    BY <2>5 DEF CommitDiagnosis, GoTo
  <2>6. CASE CommitValidation(v)
    BY <2>6 DEF CommitValidation, GoTo
  <2>7. CASE DraftAccepted(v)
    BY <2>7 DEF DraftAccepted, GoTo, rows, children
  <2>8. CASE DraftRejected(v)
    BY <2>8 DEF DraftRejected, GoTo, rows, children
  <2>9. CASE UpdateJob(v)
    BY <2>9 DEF UpdateJob, GoTo, rows, children
  <2>10. CASE PromoteStale(v)
    BY <2>10 DEF PromoteStale, GoTo, rows, children
  <2>11. CASE DiagnosisUnavailable(v) \/ FailAndDiscard(v)
    BY <2>11, FailPipelines DEF DiagnosisUnavailable, FailAndDiscard
  <2>12. CASE Promote(v)
    BY <2>12 DEF Promote, Promotable, GoTo
  <2>13. CASE AbortCommit(v)
    BY <2>13 DEF AbortCommit, RowLocked, GoTo, Caught, rows, children
  <2>14. CASE PipelineError(v)
    BY <2>14 DEF PipelineError, Running, GoTo, Caught, rows, children
  <2>15. CASE PipelineLost(v)
    BY <2>15 DEF PipelineLost, Running, GoTo, rows, children
  <2> QED BY <1>3, <2>1, <2>2, <2>3, <2>4, <2>5, <2>6, <2>7, <2>8, <2>9, <2>10, <2>11,
             <2>12, <2>13, <2>14, <2>15 DEF PipelineStep, Advance
<1> QED BY <1>1, <1>2, <1>3 DEF Next

\* A step after which no Candidate is less revoked than it was: those that could
\* be promoted could be before, a Candidate stays spared, and no disconnect ends.
LEMMA StillRevoked ==
  ASSUME IInv, connected' = connected,
         \A v \in Versions :
           IsActiveCandidate(v)' /\ pc'[v] \notin {"import", "failed", "ended"} =>
             \/ connected
             \/ /\ IsActiveCandidate(v) /\ pc[v] \notin {"import", "failed", "ended"}
                /\ v \in spared => v \in spared',
         \A r \in Requests : Revoking(r) => Revoking(r)'
  PROVE  RevokedIsDiscarded'
BY DEF IInv, RevokedIsDiscarded

\* deleteCandidate leaves no other Candidate: what the pipelines do meanwhile revokes nothing.
LEMMA NoneLeft ==
  ASSUME IInv, NEW v \in Versions, IsActiveCandidate(v), DeleteCandidate(v)
  PROVE  \A w \in Versions : ~IsActiveCandidate(w)'
<1>1. \A w \in Versions : lifecycle'[w] = IF w = v THEN "discarded" ELSE lifecycle[w]
  BY DEF IInv, TypeOK, DeleteCandidate
<1>2. \A w \in Versions : lifecycle[w] = "candidate" => w = v
  BY DEF IInv, OneOfEach, IsLive, IsActiveCandidate
<1> QED BY <1>1, <1>2 DEF IsActiveCandidate

\* A pipeline that fails discards its own Candidate and no other one.
LEMMA FailRevokes ==
  ASSUME IInv, NEW v \in Versions, NEW row, FailWith(v, row)
  PROVE  RevokedIsDiscarded'
<1>1. pc' = [pc EXCEPT ![v] = "ended"] /\ connected' = connected /\ req' = req
  BY DEF FailWith, GoTo
<1>2. \A w \in Versions \ {v} : IsActiveCandidate(w)' => IsActiveCandidate(w) /\ (w \in spared => w \in spared')
  BY DEF IInv, TypeOK, FailWith, DeleteCandidate, IsActiveCandidate, rows
<1> QED BY <1>1, <1>2, StillRevoked DEF IInv, TypeOK, Revoking

\* Every step of the system keeps a revoked account from being promoted.
LEMMA RevokedStep ==
  ASSUME IInv, Next
  PROVE  RevokedIsDiscarded'
<1> USE DEF IsActiveCandidate, Revoking
<1>1. CASE Connect
  BY <1>1 DEF Connect, RevokedIsDiscarded
<1>2. ASSUME NEW r \in Requests, RequestStep(r)
      PROVE  RevokedIsDiscarded'
  <2>1. ASSUME NEW t \in Tokens \cup {NoToken}, NEW f \in Fingerprints, BeginStart(r, t, f)
        PROVE  RevokedIsDiscarded'
    BY <2>1, StillRevoked DEF IInv, TypeOK, BeginStart, rows, locals, Idle
  <2>2. CASE ReplayStart(r) \/ StartInProgress(r)
    BY <2>2, StillRevoked DEF IInv, TypeOK, ReplayStart, StartInProgress, rows, locals
  <2>3. ASSUME NEW v \in Versions, CreateCandidate(r, v)
        PROVE  RevokedIsDiscarded'
    BY <2>3, StillRevoked DEF IInv, TypeOK, CreateCandidate, GoTo
  <2>4. CASE Cancel(r)
    BY <2>4, NoneLeft DEF Cancel, DiscardFor, RevokedIsDiscarded
  <2>5. CASE CancelBlocks(r)
    BY <2>5, StillRevoked DEF IInv, TypeOK, CancelBlocks, BlockOn, rows, locals, Idle
  <2>6. CASE DisconnectBlocks(r)
    BY <2>6, StillRevoked DEF IInv, TypeOK, DisconnectBlocks, BlockOn, rows, locals
  <2>7. CASE Disconnect(r)
    BY <2>7 DEF IInv, TypeOK, Disconnect, RevokedIsDiscarded
  <2>8. CASE DisconnectDiscards(r)
    BY <2>8, NoneLeft DEF DisconnectDiscards, DiscardFor, RevokedIsDiscarded
  <2>9. CASE DisconnectFindsNone(r)
    BY <2>9 DEF DisconnectFindsNone, NoCandidate, RevokedIsDiscarded, rows
  <2>10. CASE FinishDiscard(r)
    BY <2>10, NoneLeft DEF FinishDiscard, DiscardFor, RevokedIsDiscarded
  <2>11. CASE AbortDiscard(r) \/ RequestLost(r)
    <3>1. /\ UNCHANGED <<lifecycle, connected, pc>> /\ Spare(r)
          /\ req' = [req EXCEPT ![r] = Idle]
      BY <2>11 DEF AbortDiscard, RequestLost, locals
    <3>2. CASE Revoking(r)
      BY <3>1, <3>2 DEF Spare, RevokedIsDiscarded
    <3>3. CASE ~Revoking(r)
      BY <3>1, <3>3, StillRevoked DEF IInv, TypeOK, Spare
    <3> QED BY <3>2, <3>3
  <2> QED BY <1>2, <2>1, <2>2, <2>3, <2>4, <2>5, <2>6, <2>7, <2>8, <2>9, <2>10, <2>11
      DEF RequestStep, StartTx, DisconnectTx
<1>3. ASSUME NEW v \in Versions, PipelineStep(v)
      PROVE  RevokedIsDiscarded'
  <2>1. ASSUME NEW outcome \in {"failed", "insufficient"}, ImportFails(v, outcome)
        PROVE  RevokedIsDiscarded'
    BY <2>1, FailRevokes DEF ImportFails
  <2>2. CASE LoadToken(v)
    BY <2>2, StillRevoked DEF IInv, TypeOK, LoadToken, GoTo, rows
  <2>3. CASE CheckImport(v) \/ CheckDiagnosis(v)
    BY <2>3, StillRevoked DEF IInv, TypeOK, CheckImport, CheckDiagnosis, CheckCandidate, GoTo, rows
  <2>4. CASE InsertImport(v) \/ InsertDiagnosis(v)
    BY <2>4, StillRevoked
    DEF IInv, TypeOK, InsertImport, InsertDiagnosis, InsertChildren, GoTo, Caught, rows
  <2>5. CASE CommitImport(v)
    BY <2>5, StillRevoked DEF IInv, TypeOK, CommitImport, GoTo
  <2>6. CASE CommitDiagnosis(v)
    BY <2>6, StillRevoked DEF IInv, TypeOK, CommitDiagnosis, GoTo
  <2>7. CASE CommitValidation(v)
    BY <2>7, StillRevoked DEF IInv, TypeOK, CommitValidation, GoTo
  <2>8. CASE DraftAccepted(v) \/ DraftRejected(v)
    BY <2>8, StillRevoked DEF IInv, TypeOK, DraftAccepted, DraftRejected, GoTo, rows
  <2>9. CASE UpdateJob(v) \/ PromoteStale(v)
    BY <2>9, StillRevoked DEF IInv, TypeOK, UpdateJob, PromoteStale, GoTo, rows
  <2>10. CASE DiagnosisUnavailable(v) \/ FailAndDiscard(v)
    BY <2>10, FailRevokes DEF DiagnosisUnavailable, FailAndDiscard
  <2>11. CASE Promote(v)
    BY <2>11, StillRevoked DEF IInv, TypeOK, Promote, GoTo
  <2>12. CASE AbortCommit(v)
    BY <2>12, StillRevoked DEF IInv, TypeOK, AbortCommit, RowLocked, GoTo, Caught, rows
  <2>13. CASE PipelineError(v)
    BY <2>13, StillRevoked DEF IInv, TypeOK, PipelineError, GoTo, Caught, rows
  <2>14. CASE PipelineLost(v)
    BY <2>14, StillRevoked DEF IInv, TypeOK, PipelineLost, GoTo, rows
  <2> QED BY <1>3, <2>1, <2>2, <2>3, <2>4, <2>5, <2>6, <2>7, <2>8, <2>9, <2>10, <2>11,
             <2>12, <2>13, <2>14 DEF PipelineStep, Advance
<1> QED BY <1>1, <1>2, <1>3 DEF Next

\* Every step of the system leaves the status row locked by a waiting discard only.
LEMMA LockHolderStep ==
  ASSUME IInv, Next
  PROVE  LockHolder'
<1> USE DEF IInv, TypeOK, LockHolder
<1>1. CASE Connect
  BY <1>1 DEF Connect
<1>2. ASSUME NEW r \in Requests, RequestStep(r)
      PROVE  LockHolder'
  <2>1. ASSUME NEW t \in Tokens \cup {NoToken}, NEW f \in Fingerprints, BeginStart(r, t, f)
        PROVE  LockHolder'
    BY <2>1 DEF BeginStart, Idle
  <2>2. CASE ReplayStart(r) \/ StartInProgress(r)
    BY <2>2 DEF ReplayStart, StartInProgress, LockFree
  <2>3. ASSUME NEW v \in Versions, CreateCandidate(r, v)
        PROVE  LockHolder'
    BY <2>3 DEF CreateCandidate, LockFree
  <2>4. CASE Cancel(r)
    BY <2>4 DEF Cancel
  <2>5. ASSUME NEW outcome \in {"cancelled", "failed"}, BlockOn(r, outcome)
        PROVE  LockHolder'
    BY <2>5 DEF BlockOn
  <2>6. CASE Disconnect(r)
    BY <2>6 DEF Disconnect, Idle
  <2>7. CASE DisconnectDiscards(r) \/ DisconnectFindsNone(r)
    BY <2>7 DEF DisconnectDiscards, DisconnectFindsNone, LockFree
  <2>8. CASE FinishDiscard(r) \/ AbortDiscard(r) \/ RequestLost(r)
    BY <2>8 DEF FinishDiscard, AbortDiscard, RequestLost
  <2> QED BY <1>2, <2>1, <2>2, <2>3, <2>4, <2>5, <2>6, <2>7, <2>8
      DEF RequestStep, StartTx, DisconnectTx, CancelBlocks, DisconnectBlocks
<1>3. ASSUME NEW v \in Versions, PipelineStep(v)
      PROVE  LockHolder'
  BY <1>3
  DEF PipelineStep, Advance, ImportFails, FailWith, LoadToken, CheckImport, CheckDiagnosis,
      CheckCandidate, InsertImport, InsertDiagnosis, InsertChildren, CommitImport,
      CommitDiagnosis, CommitValidation, DraftAccepted, DraftRejected, UpdateJob,
      DiagnosisUnavailable, Promote, PromoteStale, FailAndDiscard, AbortCommit,
      PipelineError, PipelineLost
<1> QED BY <1>1, <1>2, <1>3 DEF Next

-----------------------------------------------------------------------------
(* The theorems                                                               *)

\* Nothing has happened yet: the initial state satisfies the inductive invariant.
LEMMA InitInv == Init => IInv
<1> SUFFICES ASSUME Init
             PROVE  IInv
  OBVIOUS
<1>1. TypeOK
  <2>1. refresh \in RefreshRow
    BY DEF Init, NoRow, RefreshRow
  <2>2. tokens \in [Tokens -> TokenRow \cup {NoTokenRow}]
    BY DEF Init
  <2>3. req \in [Requests -> Request]
    BY RequestTypes DEF Init
  <2>4. attempt \in [Versions -> 0..MaxAttempts]
    BY DEF Init
  <2>5. /\ lifecycle \in [Versions -> Lifecycles]
        /\ pc \in [Versions -> Steps]
        /\ seen \in [Versions -> Nat]
    BY DEF Init, Lifecycles, Steps
  <2>6. faults \in 0..MaxFaults
    BY DEF Init
  <2> QED BY <2>1, <2>2, <2>3, <2>4, <2>5, <2>6 DEF Init, TypeOK
<1>2. OneOfEach /\ NoOrphanRows /\ CurrentIsComplete /\ TokenBindsOnce
  BY DEF Init, OneOfEach, NoOrphanRows, CurrentIsComplete, TokenBindsOnce, IsLive
<1>3. StatusAgrees
  BY DEF Init, StatusAgrees, IsActiveCandidate, NoRow
<1>4. PipelineRows /\ LockHolder /\ RevokedIsDiscarded
  BY DEF Init, PipelineRows, LockHolder, RevokedIsDiscarded, IsActiveCandidate
<1> QED BY <1>1, <1>2, <1>3, <1>4 DEF IInv

\* The inductive invariant is kept by every step, stuttering included.
LEMMA NextInv == IInv /\ [Next]_vars => IInv'
<1> SUFFICES ASSUME IInv, [Next]_vars
             PROVE  IInv'
  OBVIOUS
<1>1. CASE Next
  BY <1>1, TypeStep, DataStep, PipelineRowsStep, RevokedStep, LockHolderStep DEF IInv, DataInv
<1>2. CASE UNCHANGED vars
  <2>1. DataInv'
    BY <1>2, QuietData DEF vars, children
  <2>2. TypeOK'
    BY <1>2 DEF IInv, TypeOK, vars
  <2>3. PipelineRows' /\ LockHolder' /\ RevokedIsDiscarded'
    BY <1>2 DEF IInv, PipelineRows, LockHolder, RevokedIsDiscarded, Revoking, IsActiveCandidate, vars
  <2> QED BY <2>1, <2>2, <2>3 DEF IInv, DataInv
<1> QED BY <1>1, <1>2

\* Rows, status row, tokens, pipelines and lock agree at all times.
THEOREM BrainInvariant == Spec => []IInv
BY InitInv, NextInv, PTL DEF Spec

\* All variables keep their types: the marker is a number, and the status row
\* never leaves the states its CHECK constraints allow.
THEOREM BrainTypes == Spec => []TypeOK
<1>1. IInv => TypeOK
  BY DEF IInv
<1> QED BY <1>1, BrainInvariant, PTL

\* However many starts, cancels, disconnects and pipelines run at once, there is
\* one Candidate and one Current at most.
THEOREM BrainOneOfEach == Spec => []OneOfEach
<1>1. IInv => OneOfEach
  BY DEF IInv
<1> QED BY <1>1, BrainInvariant, PTL

\* Get Current never serves a version without evidence, diagnosis or validation,
\* although stale pipelines may set the founder-wide validation_state.
THEOREM BrainCurrentIsComplete == Spec => []CurrentIsComplete
<1>1. IInv => CurrentIsComplete
  BY DEF IInv
<1> QED BY <1>1, BrainInvariant, PTL

\* A stale unlocked commit leaves no rows behind for a discarded version.
THEOREM BrainNoOrphanRows == Spec => []NoOrphanRows
<1>1. IInv => NoOrphanRows
  BY DEF IInv
<1> QED BY <1>1, BrainInvariant, PTL

\* The progress a client polls agrees with the versions that exist.
THEOREM BrainStatusAgrees == Spec => []StatusAgrees
<1>1. IInv => StatusAgrees
  BY DEF IInv
<1> QED BY <1>1, BrainInvariant, PTL

\* A retried start creates no second version.
THEOREM BrainTokenBindsOnce == Spec => []TokenBindsOnce
<1>1. IInv => TokenBindsOnce
  BY DEF IInv
<1> QED BY <1>1, BrainInvariant, PTL

\* No version is promoted after a disconnect has returned and before the account is
\* connected again (businessbrain.routes.ts), unless the best-effort discard was
\* lost: a Candidate created behind the disconnect fails at its import.
THEOREM BrainNoPromotionAfterRevoke ==
  Spec => [][\A v \in Versions :
               Promote(v) => connected \/ v \in spared \/ \E r \in Requests : Revoking(r)]_vars
<1>1. ASSUME IInv, NEW v \in Versions, Promote(v)
      PROVE  connected \/ v \in spared \/ \E r \in Requests : Revoking(r)
  BY <1>1 DEF IInv, RevokedIsDiscarded, Promote, Promotable
<1>2. ASSUME IInv, [Next]_vars
      PROVE  [\A v \in Versions :
                Promote(v) => connected \/ v \in spared \/ \E r \in Requests : Revoking(r)]_vars
  BY <1>1, <1>2
<1> QED BY <1>2, BrainInvariant, PTL DEF Spec

\* A step that changes tokens is a startRefresh that found no row for its token.
THEOREM BrainTokenRowIsFinal == Spec => TokenRowIsFinal
<1>1. ASSUME IInv, [Next]_vars
      PROVE  [\A t \in Tokens : tokens[t] # NoTokenRow => tokens'[t] = tokens[t]]_vars
  <2>1. ASSUME NEW r \in Requests, NEW v \in Versions, CreateCandidate(r, v)
        PROVE  \A t \in Tokens : tokens[t] # NoTokenRow => tokens'[t] = tokens[t]
    BY <1>1, <2>1 DEF IInv, TypeOK, CreateCandidate, TokenUsed
  <2>2. CASE \E r \in Requests, v \in Versions : CreateCandidate(r, v)
    BY <2>1, <2>2
  <2>3. CASE /\ Next
             /\ ~ \E r \in Requests, v \in Versions : CreateCandidate(r, v)
    <3>1. UNCHANGED tokens
      BY <2>3
      DEF Next, RequestStep, StartTx, DisconnectTx, PipelineStep, Advance, Connect, BeginStart,
          ReplayStart, StartInProgress, Cancel, CancelBlocks, Disconnect, DisconnectDiscards,
          DisconnectFindsNone, DisconnectBlocks, BlockOn, FinishDiscard, AbortDiscard,
          RequestLost, ImportFails, FailWith, LoadToken, CheckImport, CheckDiagnosis, CheckCandidate,
          InsertImport, InsertDiagnosis, InsertChildren, CommitImport, CommitDiagnosis,
          CommitValidation, DraftAccepted, DraftRejected, UpdateJob, DiagnosisUnavailable,
          Promote, PromoteStale, FailAndDiscard, AbortCommit, PipelineError, PipelineLost
    <3> QED BY <3>1
  <2> QED BY <1>1, <2>2, <2>3
<1> QED BY <1>1, BrainInvariant, PTL DEF Spec, TokenRowIsFinal

\* Only a promotion touches a Current or a superseded version: every other step
\* leaves both sets of versions as they are.
LEMMA OnlyPromotionPublishes ==
  ASSUME IInv, [Next]_vars, ~ \E v \in Versions : Promote(v)
  PROVE  Currents' = Currents /\ Superseded' = Superseded
<1> USE DEF IInv, TypeOK, Currents, Superseded
<1>1. ASSUME NEW v \in Versions, DeleteCandidate(v)
      PROVE  Currents' = Currents /\ Superseded' = Superseded
  BY <1>1 DEF DeleteCandidate, IsActiveCandidate, rows, children
<1>2. ASSUME NEW r \in Requests, NEW v \in Versions, CreateCandidate(r, v)
      PROVE  Currents' = Currents /\ Superseded' = Superseded
  BY <1>2 DEF CreateCandidate
<1>3. CASE UNCHANGED lifecycle
  BY <1>3
<1>4. ASSUME NEW r \in Requests, RequestStep(r)
      PROVE  Currents' = Currents /\ Superseded' = Superseded
  <2>1. \/ UNCHANGED lifecycle
        \/ \E v \in Versions : DeleteCandidate(v)
        \/ \E v \in Versions : CreateCandidate(r, v)
    BY <1>4
    DEF RequestStep, StartTx, DisconnectTx, BeginStart, ReplayStart, StartInProgress,
        Cancel, CancelBlocks, Disconnect, DisconnectDiscards, DisconnectFindsNone,
        DisconnectBlocks, BlockOn, FinishDiscard, AbortDiscard, RequestLost, DiscardFor, rows, children
  <2> QED BY <2>1, <1>1, <1>2, <1>3
<1>5. ASSUME NEW v \in Versions, PipelineStep(v)
      PROVE  Currents' = Currents /\ Superseded' = Superseded
  <2>1. UNCHANGED lifecycle \/ DeleteCandidate(v)
    BY <1>5
    DEF PipelineStep, Advance, ImportFails, FailWith, LoadToken, CheckImport, CheckDiagnosis,
        CheckCandidate, InsertImport, InsertDiagnosis, InsertChildren, CommitImport,
        CommitDiagnosis, CommitValidation, DraftAccepted, DraftRejected, UpdateJob,
        DiagnosisUnavailable, PromoteStale, FailAndDiscard, AbortCommit,
        PipelineError, PipelineLost, rows, children
  <2> QED BY <2>1, <1>1, <1>3
<1>6. CASE Connect \/ UNCHANGED vars
  BY <1>3, <1>6 DEF Connect, vars, rows, children
<1> QED BY <1>4, <1>5, <1>6 DEF Next

\* Cancel, disconnect, failures and stale pipelines never take the Current
\* version away: only a promotion does, and it puts another one in its place.
THEOREM BrainCurrentOnlySuperseded == Spec => CurrentOnlySuperseded
<1>1. ASSUME IInv, [Next]_vars
      PROVE  [\A v \in Versions :
                lifecycle[v] = "current" /\ lifecycle'[v] # "current" =>
                  \E w \in Versions : lifecycle[w] = "candidate" /\ lifecycle'[w] = "current"]_vars
  <2>1. ASSUME NEW w \in Versions, Promote(w)
        PROVE  lifecycle[w] = "candidate" /\ lifecycle'[w] = "current"
    BY <2>1 DEF Promote, Promotable, IsActiveCandidate
  <2>2. CASE \E w \in Versions : Promote(w)
    BY <2>1, <2>2
  <2>3. CASE ~ \E w \in Versions : Promote(w)
    BY <1>1, <2>3, OnlyPromotionPublishes DEF Currents
  <2> QED BY <2>2, <2>3
<1> QED BY <1>1, BrainInvariant, PTL DEF Spec, CurrentOnlySuperseded

\* With at most one Current, it is the one the founder is shown.
LEMMA ShownVersion ==
  ASSUME OneOfEach, NEW v \in Versions, lifecycle[v] = "current"
  PROVE  CurrentVersion = v
<1>1. Currents = {v}
  BY DEF OneOfEach, IsLive, Currents
<1>2. Only({v}) = v
  BY DEF Only
<1> QED BY <1>1, <1>2 DEF CurrentVersion

\* A promotion publishes its version on the shelf and retires the one shown before.
LEMMA PromotePublishes ==
  ASSUME IInv, IInv', NEW v \in Versions, Promote(v)
  PROVE  Shelf!Publish(v)
<1>1. \A w \in Versions :
        lifecycle'[w] = IF w = v THEN "current"
                        ELSE IF lifecycle[w] = "current" THEN "superseded" ELSE lifecycle[w]
  BY DEF Promote
<1>2. lifecycle[v] = "candidate"
  BY DEF Promote, Promotable, IsActiveCandidate
<1>3. CurrentVersion' = v
  <2>1. Currents' = {v}
    BY <1>1 DEF Currents
  <2>2. Only({v}) = v
    BY DEF Only
  <2> QED BY <2>1, <2>2 DEF CurrentVersion
<1>4. CASE \E w \in Versions : lifecycle[w] = "current"
  <2>1. PICK w \in Versions : lifecycle[w] = "current"
    BY <1>4
  <2>2. CurrentVersion = w
    BY <2>1, ShownVersion DEF IInv
  <2>3. \A x \in Versions : lifecycle[x] = "current" => x = w
    BY <2>1 DEF IInv, OneOfEach, IsLive
  <2>4. Superseded' = Superseded \cup {w}
    BY <1>1, <1>2, <2>1, <2>3 DEF Superseded
  <2>5. v # w /\ w # NoVersion
    BY <1>2, <2>1
  <2> QED BY <1>2, <1>3, <2>2, <2>4, <2>5 DEF Shelf!Publish, Superseded
<1>5. CASE ~ \E w \in Versions : lifecycle[w] = "current"
  <2>1. CurrentVersion = NoVersion
    BY <1>5 DEF CurrentVersion, Currents
  <2>2. Superseded' = Superseded
    BY <1>1, <1>2, <1>5 DEF Superseded
  <2> QED BY <1>2, <1>3, <2>1, <2>2 DEF Shelf!Publish, Superseded
<1> QED BY <1>4, <1>5

\* Behind all its rows, locks, retries and stale pipelines the lifecycle is the
\* shelf of BrainShelf: one version shown, replaced in one step, never shown again.
THEOREM BrainImplementsShelf == Spec => ImplementsShelf
<1>1. Init => Shelf!Init
  <2> SUFFICES ASSUME Init
               PROVE  Shelf!Init
    OBVIOUS
  <2>1. Currents = {} /\ Superseded = {}
    BY DEF Init, Currents, Superseded
  <2> QED BY <2>1 DEF Shelf!Init, CurrentVersion
<1>2. ASSUME IInv, IInv', [Next]_vars
      PROVE  [Shelf!Next]_<<CurrentVersion, Superseded>>
  <2>1. CASE \E v \in Versions : Promote(v)
    BY <1>2, <2>1, PromotePublishes DEF Shelf!Next
  <2>2. CASE ~ \E v \in Versions : Promote(v)
    <3>1. Currents' = Currents /\ Superseded' = Superseded
      BY <1>2, <2>2, OnlyPromotionPublishes
    <3>2. CurrentVersion' = CurrentVersion
      BY <3>1 DEF CurrentVersion
    <3> QED BY <3>1, <3>2
  <2> QED BY <2>1, <2>2
<1> QED BY <1>1, <1>2, BrainInvariant, PTL DEF Spec, ImplementsShelf, Shelf!Spec

(***************************************************************************)
(* Reading, for any number of readers and any order of the sections: the   *)
(* statements of one read are not one snapshot, and what they put together *)
(* is whole or says what it lacks. ReadIInv adds to IInv what a reader     *)
(* under way holds.                                                        *)
(***************************************************************************)

HIDE LifecycleAssumption DEF LifecycleAssumption

\* Statement one by statement one, what a reader under way has found: the first sections of those it asked
\* for, up to the promotion that took its version away, and all of them while there was none.
ReaderHolds(d) ==
  LET v == read[d].version
      asked == {Sections[i] : i \in 1..read[d].next - 1}
  IN  /\ read[d].result # "none" => v \in Versions /\ lifecycle[v] \in {"current", "superseded"}
      /\ read[d].result = "reading" =>
           /\ lifecycle[v] = "current" => asked \subseteq read[d].got
           /\ \A i, j \in 1..read[d].next - 1 :
                i < j /\ Sections[j] \in read[d].got => Sections[i] \in read[d].got
           /\ read[d].got \subseteq asked

ReadIInv ==
  /\ IInv
  /\ ReadInv
  /\ \A d \in Readers : ReaderHolds(d)

\* Once superseded, a version stays so; the Current one is superseded or stays.
LEMMA PublishedStays ==
  ASSUME IInv, [Next]_vars, NEW v \in Versions
  PROVE  /\ lifecycle[v] = "superseded" => lifecycle'[v] = "superseded"
         /\ lifecycle[v] = "current" => lifecycle'[v] \in {"current", "superseded"}
<1>1. ASSUME NEW w \in Versions, Promote(w)
      PROVE  /\ lifecycle[v] = "superseded" => lifecycle'[v] = "superseded"
             /\ lifecycle[v] = "current" => lifecycle'[v] \in {"current", "superseded"}
  BY <1>1 DEF Promote, Promotable, IsActiveCandidate
<1>2. CASE ~ \E w \in Versions : Promote(w)
  BY <1>2, OnlyPromotionPublishes DEF Currents, Superseded
<1> QED BY <1>1, <1>2

\* What the SELECTs are.
LEMMA SectionFacts ==
  /\ Len(Sections) = 11
  /\ \A i \in 1..11 : Sections[i] \in ToSet(Sections)
  /\ ToSet(Sections) = {Sections[i] : i \in 1..11}
  /\ \A s \in Guarded \cup Edges \cup {"measures"} : \E i \in 1..11 : Sections[i] = s
  /\ Sections[1] = "header" /\ Sections[5] = "claims" /\ Sections[6] = "measures" /\ Sections[7] = "actions"
  /\ \A i \in 1..11 : Sections[i] = "measures" => i = 6
  /\ \A i, j \in 1..11 : Sections[i] = Sections[j] => i = j
<1>1. Len(Sections) = 11 /\ DOMAIN Sections = 1..11
  BY DEF Sections
<1>2. /\ Sections[1] = "header" /\ Sections[2] = "consequences" /\ Sections[3] = "rootCauses"
      /\ Sections[4] = "recommendations" /\ Sections[5] = "claims" /\ Sections[6] = "measures"
      /\ Sections[7] = "actions" /\ Sections[8] = "window" /\ Sections[9] = "rcEvidence"
      /\ Sections[10] = "recRootCause" /\ Sections[11] = "actionRec"
  BY DEF Sections
<1>3. 1..11 = {1, 2, 3, 4, 5, 6, 7, 8, 9, 10, 11}
  OBVIOUS
<1>4. ToSet(Sections) = {Sections[i] : i \in 1..11}
  BY <1>1 DEF ToSet
<1> HIDE DEF Sections
<1>5. \A i \in 1..11 : Sections[i] = "measures" => i = 6
  BY <1>2, <1>3
<1>7. \A i, j \in 1..11 : Sections[i] = Sections[j] => i = j
  BY <1>2, <1>3
<1>6. \A s \in Guarded \cup Edges \cup {"measures"} : \E i \in 1..11 : Sections[i] = s
  BY <1>2 DEF Guarded, Edges
<1> QED BY <1>1, <1>2, <1>4, <1>5, <1>6, <1>7

LEMMA ReadInitOK == ReadInit => ReadIInv
<1> SUFFICES ASSUME ReadInit PROVE ReadIInv
  OBVIOUS
<1>1. IInv /\ \A d \in Readers : read[d] = NoRead
  BY InitInv DEF ReadInit
<1>2. ReadTypeOK
  BY SectionFacts DEF ReadInit, ReadTypeOK, Read, NoRead
<1> QED BY <1>1, <1>2 DEF ReadIInv, ReadInv, ServedIsWhole, TornOnlyIfSuperseded, ReaderHolds, NoRead

\* A pipeline's or a request's step touches no reader.
LEMMA OthersKeepRead ==
  ASSUME ReadIInv, [Next]_vars, UNCHANGED read
  PROVE  ReadIInv'
<1>1. IInv'
  BY NextInv DEF ReadIInv
<1>2. IInv /\ ReadTypeOK /\ ServedIsWhole /\ TornOnlyIfSuperseded /\ \A d \in Readers : ReaderHolds(d)
  BY DEF ReadIInv, ReadInv
<1>3. ReadTypeOK' /\ ServedIsWhole'
  BY <1>2 DEF ReadTypeOK, ServedIsWhole
<1>4. ASSUME NEW d \in Readers
      PROVE  /\ ReaderHolds(d)'
             /\ \/ read[d].result \in {"error", "unavailable"}
                \/ read[d].result = "served" /\ ~(Edges \subseteq read[d].got)
                => lifecycle'[read[d].version] = "superseded"
  <2>1. CASE read[d].result = "none"
    BY <2>1 DEF ReaderHolds
  <2>2. CASE read[d].result # "none"
    <3>1. ReaderHolds(d) /\ read[d].version \in Versions
      BY <1>2, <2>2 DEF ReaderHolds
    <3>2. /\ lifecycle[read[d].version] = "superseded" => lifecycle'[read[d].version] = "superseded"
          /\ lifecycle[read[d].version] = "current" => lifecycle'[read[d].version] \in {"current", "superseded"}
      BY <1>2, <3>1, PublishedStays
    <3> QED BY <1>2, <3>1, <3>2 DEF ReaderHolds, TornOnlyIfSuperseded
  <2> QED BY <2>1, <2>2
<1>5. TornOnlyIfSuperseded' /\ \A d \in Readers : ReaderHolds(d)'
  BY <1>4 DEF TornOnlyIfSuperseded
<1> QED BY <1>1, <1>3, <1>5 DEF ReadIInv, ReadInv

\* A reader's step touches no other reader and no row.
LEMMA OneReads ==
  ASSUME ReadIInv, NEW d \in Readers, NEW new \in Read, read' = [read EXCEPT ![d] = new], UNCHANGED vars,
         ReaderHolds(d)',
         new.result = "served" => Guarded \cup {"measures"} \subseteq new.got,
         \/ new.result \in {"error", "unavailable"}
         \/ new.result = "served" /\ ~(Edges \subseteq new.got)
         => lifecycle[new.version] = "superseded"
  PROVE  ReadIInv'
<1>1. IInv'
  BY NextInv DEF ReadIInv
<1>2. ReadTypeOK /\ ServedIsWhole /\ TornOnlyIfSuperseded /\ \A c \in Readers : ReaderHolds(c)
  BY DEF ReadIInv, ReadInv
<1>3. read'[d] = new /\ \A c \in Readers \ {d} : read'[c] = read[c]
  BY <1>2 DEF ReadTypeOK
<1>4. lifecycle' = lifecycle
  BY DEF vars
<1>5. ReadTypeOK'
  BY <1>2 DEF ReadTypeOK
<1>6. ServedIsWhole'
  BY <1>2, <1>3 DEF ServedIsWhole
<1>7. TornOnlyIfSuperseded'
  BY <1>2, <1>3, <1>4 DEF TornOnlyIfSuperseded
<1>8. \A c \in Readers : ReaderHolds(c)'
  BY <1>2, <1>3, <1>4 DEF ReaderHolds
<1> QED BY <1>1, <1>5, <1>6, <1>7, <1>8 DEF ReadIInv, ReadInv

\* A version has its diagnosis exactly as long as it is the Current one, once it has been.
LEMMA PublishedRows ==
  ASSUME IInv, NEW v \in Versions, lifecycle[v] \in {"current", "superseded"}
  PROVE  v \in diagnosis <=> lifecycle[v] = "current"
BY DEF IInv, CurrentIsComplete, NoOrphanRows, IsLive

LEMMA ReadFields ==
  ASSUME ReadIInv, NEW d \in Readers
  PROVE  /\ read[d] \in Read /\ read[d].next \in 1..12 /\ read[d].got \subseteq ToSet(Sections)
         /\ read[d] = [version |-> read[d].version, next |-> read[d].next, got |-> read[d].got,
                       result |-> read[d].result]
         /\ read[d].version \in Versions \cup {NoVersion}
         /\ IInv /\ ReaderHolds(d)
<1>1. read[d] \in Read
  BY DEF ReadIInv, ReadInv, ReadTypeOK
<1> QED BY <1>1, SectionFacts DEF Read, ReadIInv

LEMMA BeginReadKeeps ==
  ASSUME ReadIInv, NEW d \in Readers, BeginRead(d)
  PROVE  ReadIInv'
<1>1. PICK v \in Versions :
        /\ lifecycle[v] = "current"
        /\ read' = [read EXCEPT ![d] = [NoRead EXCEPT !.version = v, !.result = "reading"]]
  BY DEF BeginRead
<1> DEFINE new == [version |-> v, next |-> 1, got |-> {}, result |-> "reading"]
<1>2. read' = [read EXCEPT ![d] = new] /\ UNCHANGED vars /\ lifecycle' = lifecycle
  BY <1>1 DEF BeginRead, NoRead, vars
<1>3. new \in Read
  BY SectionFacts DEF Read
<1>4. read'[d] = new
  BY <1>2 DEF ReadIInv, ReadInv, ReadTypeOK
<1>5. ReaderHolds(d)'
  <2>1. read'[d].next - 1 = 0 /\ 1..0 = {} /\ read'[d].got = {} /\ read'[d].version = v
    BY <1>4
  <2> QED BY <1>1, <1>2, <2>1 DEF ReaderHolds
<1>6. new.result = "reading"
  OBVIOUS
<1> HIDE DEF new
<1> QED BY <1>2, <1>3, <1>5, <1>6, OneReads

LEMMA HeaderGoneKeeps ==
  ASSUME ReadIInv, NEW d \in Readers, HeaderGone(d)
  PROVE  ReadIInv'
<1> DEFINE new == [version |-> read[d].version, next |-> read[d].next, got |-> read[d].got, result |-> "error"]
<1>1. read[d].result = "reading" /\ read[d].version \notin diagnosis /\ UNCHANGED vars
  BY DEF HeaderGone
<1>2. read' = [read EXCEPT ![d] = new]
  <2> DEFINE x == read[d]
  <2>1. read' = [read EXCEPT ![d] = [x EXCEPT !.result = "error"]]
    BY DEF HeaderGone, ReadIInv, ReadInv, ReadTypeOK
  <2>2. x = [version |-> read[d].version, next |-> read[d].next, got |-> read[d].got, result |-> read[d].result]
    BY ReadFields
  <2> HIDE DEF x
  <2>3. [x EXCEPT !.result = "error"] = new
    BY <2>2
  <2> QED BY <2>1, <2>3
<1>3. new \in Read
  BY ReadFields DEF Read
<1>4. new.result = "error" /\ new.version = read[d].version
  OBVIOUS
<1> HIDE DEF new
<1>5. read'[d] = new /\ lifecycle' = lifecycle
  BY <1>1, <1>2 DEF ReadIInv, ReadInv, ReadTypeOK, vars
<1>6. new.version \in Versions /\ lifecycle[new.version] = "superseded"
  <2>1. new.version \in Versions /\ lifecycle[new.version] \in {"current", "superseded"}
    BY <1>1, <1>4, ReadFields DEF ReaderHolds
  <2> QED BY <1>1, <1>4, <2>1, ReadFields, PublishedRows
<1>7. ReaderHolds(d)'
  BY <1>4, <1>5, <1>6 DEF ReaderHolds
<1> QED BY <1>1, <1>2, <1>3, <1>4, <1>6, <1>7, OneReads

LEMMA AnswerKeeps ==
  ASSUME ReadIInv, NEW d \in Readers, Answer(d)
  PROVE  ReadIInv'
<1> DEFINE result == IF Guarded \subseteq read[d].got THEN "served" ELSE "unavailable"
           new == [version |-> read[d].version, next |-> read[d].next, got |-> read[d].got, result |-> result]
<1>1. read[d].result = "reading" /\ read[d].next = 12 /\ UNCHANGED vars
  BY SectionFacts DEF Answer
<1>2. read' = [read EXCEPT ![d] = new]
  <2> HIDE DEF result
  <2> DEFINE x == read[d]
  <2>1. read' = [read EXCEPT ![d] = [x EXCEPT !.result = result]]
    BY DEF Answer, ReadIInv, ReadInv, ReadTypeOK, result
  <2>2. x = [version |-> read[d].version, next |-> read[d].next, got |-> read[d].got, result |-> read[d].result]
    BY ReadFields
  <2> HIDE DEF x
  <2>3. [x EXCEPT !.result = result] = new
    BY <2>2
  <2> QED BY <2>1, <2>3
<1>3. new \in Read
  BY ReadFields DEF Read
<1>4. /\ new.result = result /\ new.version = read[d].version /\ new.got = read[d].got
      /\ result \in {"served", "unavailable"} /\ (result = "served" <=> Guarded \subseteq read[d].got)
  OBVIOUS
<1> HIDE DEF new, result
<1>5. read'[d] = new /\ lifecycle' = lifecycle
  BY <1>1, <1>2 DEF ReadIInv, ReadInv, ReadTypeOK, vars
<1>6. new.version \in Versions /\ lifecycle[new.version] \in {"current", "superseded"}
  BY <1>1, <1>4, ReadFields DEF ReaderHolds
<1>7. ReaderHolds(d)'
  BY <1>4, <1>5, <1>6 DEF ReaderHolds
<1>8. lifecycle[new.version] = "current" => {Sections[i] : i \in 1..11} \subseteq new.got
  <2>1. read[d].next - 1 = 11
    BY <1>1
  <2> QED BY <1>1, <1>4, <2>1, ReadFields DEF ReaderHolds
<1>9. Guarded \cup Edges \subseteq {Sections[i] : i \in 1..11}
  BY SectionFacts
\* The execution plan was found, and so were the measures before it.
<1>10. "actions" \in new.got => "measures" \in new.got
  <2>1. \A i, j \in 1..11 : i < j /\ Sections[j] \in read[d].got => Sections[i] \in read[d].got
    <3>1. read[d].next - 1 = 11
      BY <1>1
    <3> QED BY <1>1, <3>1, ReadFields DEF ReaderHolds
  <2> QED BY <1>4, <2>1, SectionFacts
<1>11. new.result = "served" => Guarded \cup {"measures"} \subseteq new.got
  BY <1>4, <1>10 DEF Guarded
<1>12. \/ new.result \in {"error", "unavailable"}
       \/ new.result = "served" /\ ~(Edges \subseteq new.got)
       => lifecycle[new.version] = "superseded"
  BY <1>4, <1>6, <1>8, <1>9
<1> QED BY <1>1, <1>2, <1>3, <1>7, <1>11, <1>12, OneReads

LEMMA ReadSectionKeeps ==
  ASSUME ReadIInv, NEW d \in Readers, ReadSection(d)
  PROVE  ReadIInv'
<1> DEFINE k == read[d].next
           section == Sections[k]
           found == read[d].version \in diagnosis /\ (section = "measures" => "claims" \in read[d].got)
           got == IF found THEN read[d].got \cup {section} ELSE read[d].got
           new == [version |-> read[d].version, next |-> k + 1, got |-> got, result |-> "reading"]
<1>1. read[d].result = "reading" /\ k \in 1..11 /\ UNCHANGED vars
  <2>1. read[d].result = "reading" /\ k <= Len(Sections) /\ UNCHANGED vars
    BY DEF ReadSection
  <2>2. k \in 1..12 /\ k <= 11
    BY <2>1, ReadFields, SectionFacts
  <2> QED BY <2>1, <2>2
<1>2. read' = [read EXCEPT ![d] = new]
  <2> DEFINE x == read[d]
             step == [x EXCEPT !.next = k + 1]
  <2>1. step = [version |-> read[d].version, next |-> k + 1, got |-> read[d].got, result |-> read[d].result]
    <3>1. x = [version |-> read[d].version, next |-> k, got |-> read[d].got, result |-> read[d].result]
      BY ReadFields
    <3> HIDE DEF x
    <3> QED BY <3>1
  <2>2. read' = [read EXCEPT ![d] = [step EXCEPT !.got = got]]
    BY DEF ReadSection, ReadIInv, ReadInv, ReadTypeOK
  <2> HIDE DEF step, got
  <2>3. [step EXCEPT !.got = got] = new
    BY <1>1, <2>1
  <2> QED BY <2>2, <2>3
<1>3. new \in Read
  <2>1. got \subseteq ToSet(Sections)
    BY <1>1, ReadFields, SectionFacts
  <2>2. k + 1 \in 1..Len(Sections) + 1
    BY <1>1, SectionFacts
  <2> HIDE DEF got, k
  <2> QED BY <2>1, <2>2, ReadFields DEF Read
<1>4. /\ new.result = "reading" /\ new.version = read[d].version /\ new.got = got /\ new.next = k + 1
  OBVIOUS
<1> HIDE DEF new
<1>5. read'[d] = new /\ lifecycle' = lifecycle
  BY <1>1, <1>2 DEF ReadIInv, ReadInv, ReadTypeOK, vars
<1>6. new.version \in Versions /\ lifecycle[new.version] \in {"current", "superseded"}
  BY <1>1, <1>4, ReadFields DEF ReaderHolds
<1>7. read[d].version \in diagnosis <=> lifecycle[new.version] = "current"
  BY <1>4, <1>6, ReadFields, PublishedRows
<1>8. /\ lifecycle[new.version] = "current" => \A i \in 1..k - 1 : Sections[i] \in read[d].got
      /\ \A i, j \in 1..k - 1 : i < j /\ Sections[j] \in read[d].got => Sections[i] \in read[d].got
      /\ \A s \in read[d].got : \E i \in 1..k - 1 : Sections[i] = s
  <2>1. ReaderHolds(d)
    BY ReadFields
  <2> HIDE DEF got, found, section
  <2> QED BY <1>1, <1>4, <2>1 DEF ReaderHolds
\* While the version is Current the row is found: the measures are asked for after the claims.
<1>9. lifecycle[new.version] = "current" => found
  <2>1. section = "measures" => k = 6
    BY <1>1, SectionFacts
  <2> QED BY <1>1, <1>7, <1>8, <2>1, SectionFacts
<1>10. k + 1 - 1 = k /\ \A i \in 1..k : i \in 1..k - 1 \/ i = k
  BY <1>1
<1>11. read[d].got \subseteq got /\ (found => section \in got) /\ (~found => got = read[d].got)
       /\ got \subseteq read[d].got \cup {section}
  OBVIOUS
<1> HIDE DEF got
<1>12. lifecycle[new.version] = "current" => \A i \in 1..k : Sections[i] \in got
  BY <1>8, <1>9, <1>10, <1>11
<1>13. \A i, j \in 1..k : i < j /\ Sections[j] \in got => Sections[i] \in got
  <2>1. CASE found
    BY <1>7, <1>12, <2>1
  <2>2. CASE ~found
    <3>1. ASSUME NEW i \in 1..k, NEW j \in 1..k, i < j, Sections[j] \in read[d].got
          PROVE  Sections[i] \in read[d].got
      <4>1. j \in 1..k - 1
        \* No section is asked for twice.
        <5>1. PICK n \in 1..k - 1 : Sections[n] = Sections[j]
          BY <1>8, <3>1
        <5> QED BY <1>1, <1>10, <3>1, <5>1, SectionFacts
      <4> QED BY <1>1, <1>8, <3>1, <4>1
    <3> QED BY <1>11, <2>2, <3>1
  <2> QED BY <2>1, <2>2
<1>14. \A s \in got : \E i \in 1..k : Sections[i] = s
  <2>1. k \in 1..k /\ \A i \in 1..k - 1 : i \in 1..k
    BY <1>1
  <2> QED BY <1>8, <1>11, <2>1
<1>15. ReaderHolds(d)'
  <2>1. new.next - 1 = k
    BY <1>1, <1>4
  <2> HIDE DEF k
  <2> QED BY <1>4, <1>5, <1>6, <1>12, <1>13, <1>14, <2>1 DEF ReaderHolds
<1> QED BY <1>1, <1>2, <1>3, <1>4, <1>15, OneReads

LEMMA ReadNextOK ==
  ASSUME ReadIInv, [ReadNext]_readVars
  PROVE  ReadIInv'
<1>1. CASE UNCHANGED readVars
  BY <1>1, OthersKeepRead DEF readVars
<1>2. CASE Next /\ UNCHANGED read
  BY <1>2, OthersKeepRead
<1>3. ASSUME NEW d \in Readers, ReadStep(d)
      PROVE  ReadIInv'
  BY <1>3, BeginReadKeeps, HeaderGoneKeeps, ReadSectionKeeps, AnswerKeeps DEF ReadStep
<1> QED BY <1>1, <1>2, <1>3 DEF ReadNext

\* A version that GET /current answers with is whole in every section the route needs, its evidence measures
\* included, and an answer that lacks anything was read of a version that a promotion has superseded since
\* (getCurrentAggregate's separate SELECTs, for any number of readers and refreshes).
THEOREM BrainReadsAreWhole == ReadSpec => []ReadInv
<1>1. ReadInit => ReadIInv
  BY ReadInitOK
<1>2. ReadIInv /\ [ReadNext]_readVars => ReadIInv'
  BY ReadNextOK
<1>3. ReadIInv => ReadInv
  BY DEF ReadIInv
<1> QED BY <1>1, <1>2, <1>3, PTL DEF ReadSpec

=============================================================================
