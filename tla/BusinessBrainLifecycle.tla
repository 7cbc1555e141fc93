------------------------ MODULE BusinessBrainLifecycle ------------------------
(***************************************************************************)
(* The versioned lifecycle of one founder's Business Brain: the rows of    *)
(* bb_version and bb_refresh_status, the HTTP requests that start, cancel  *)
(* and disconnect, and the detached in-process pipelines that fill a       *)
(* Candidate and promote it (lifecycle-coordinator.ts,                     *)
(* pg-businessbrain.repository.ts).                                        *)
(*                                                                         *)
(* Founders share no row, so one founder is the whole system.  A           *)
(* transaction is one step where it first takes the founder's row lock     *)
(* (lockFounder); the three commits that never take it are split at the    *)
(* statements where another transaction can come between.                  *)
(***************************************************************************)
EXTENDS Naturals

CONSTANTS
  Versions,       \* version ids; generateId() never repeats, so each is used once
  Requests,       \* concurrently open HTTP requests
  Tokens,         \* idempotency tokens a client may send
  Fingerprints,   \* request semantics: fingerprint(opts)
  NoVersion, NoToken, NoRequest,
  MaxAttempts,    \* MAX_DIAGNOSIS_ATTEMPTS
  MaxFaults       \* bound: database errors and crashes per behaviour

ASSUME LifecycleAssumption ==
  /\ NoVersion \notin Versions
  /\ NoToken \notin Tokens
  /\ NoRequest \notin Requests
  /\ MaxAttempts \in Nat \ {0}
  /\ MaxFaults \in Nat

VARIABLES
  lifecycle,   \* bb_version: a deleted row is "discarded" or "superseded"
  evidence,    \* versions with committed bb_evidence_version / bb_import rows
  diagnosis,   \* versions with committed bb_diagnosis_version rows
  passed,      \* versions whose bb_diagnosis_job has validation_result 'passed'
  refresh,     \* the founder's bb_refresh_status row
  tokens,      \* bb_start_refresh_idempotency
  connected,   \* an Instagram credential is stored
  spared,      \* history: Candidates a disconnect failed to discard since the last connect
  lock,        \* the request that waits while its transaction holds the status row
  pc,          \* the detached pipeline of each version
  seen,        \* transition_marker read by bumpRefresh in an unlocked transaction
  attempt,     \* diagnosis drafts rejected so far
  req,         \* open HTTP requests
  faults

vars == <<lifecycle, evidence, diagnosis, passed, refresh, tokens, connected,
          spared, lock, pc, seen, attempt, req, faults>>
children == <<evidence, diagnosis, passed>>
rows == <<lifecycle, children, spared>>
locals == <<pc, seen, attempt>>

Lifecycles == {"absent", "candidate", "current", "discarded", "superseded"}
Steps == {"idle", "import", "import_fetch", "import_insert", "import_commit", "generate",
          "diagnose", "diagnose_insert", "diagnose_commit", "undiagnosed",
          "validate", "validate_commit", "promote", "failed", "ended"}

RefreshRow ==
  [reference  : Versions \cup {NoVersion},
   state      : {"none", "in_progress", "completed", "failed", "cancelled"},
   import     : {"none", "running", "sufficient", "insufficient", "failed"},
   diagnosis  : {"none", "produced", "generation_failed"},
   validation : {"none", "passed"},
   marker     : Nat]

NoRow == [reference |-> NoVersion, state |-> "none", import |-> "none",
          diagnosis |-> "none", validation |-> "none", marker |-> 0]

TokenRow == [reference : Versions, fingerprint : Fingerprints]
NoTokenRow == [reference |-> NoVersion]

Request == [op : {"idle"}]
           \cup [op : {"start"}, token : Tokens \cup {NoToken}, fingerprint : Fingerprints]
           \cup [op : {"disconnect"}]
           \cup [op : {"discard"}, outcome : {"cancelled", "failed"}]
Idle == [op |-> "idle"]

TypeOK ==
  /\ lifecycle \in [Versions -> Lifecycles]
  /\ evidence \subseteq Versions
  /\ diagnosis \subseteq Versions
  /\ passed \subseteq Versions
  /\ refresh \in RefreshRow
  /\ tokens \in [Tokens -> TokenRow \cup {NoTokenRow}]
  /\ connected \in BOOLEAN
  /\ spared \subseteq Versions
  /\ lock \in Requests \cup {NoRequest}
  /\ pc \in [Versions -> Steps]
  /\ seen \in [Versions -> Nat]
  /\ attempt \in [Versions -> 0..MaxAttempts]
  /\ req \in [Requests -> Request]
  /\ faults \in 0..MaxFaults

Init ==
  /\ lifecycle = [v \in Versions |-> "absent"]
  /\ evidence = {} /\ diagnosis = {} /\ passed = {}
  /\ refresh = NoRow
  /\ tokens = [t \in Tokens |-> NoTokenRow]
  /\ connected = FALSE /\ spared = {}
  /\ lock = NoRequest
  /\ pc = [v \in Versions |-> "idle"]
  /\ seen = [v \in Versions |-> 0]
  /\ attempt = [v \in Versions |-> 0]
  /\ req = [r \in Requests |-> Idle]
  /\ faults = 0

-----------------------------------------------------------------------------
(* Repository helpers                                                        *)

\* isActiveCandidate
IsActiveCandidate(v) == lifecycle[v] = "candidate"

\* The founder has no Candidate row.
NoCandidate == \A v \in Versions : ~IsActiveCandidate(v)

\* lockFounder returns at once: no open transaction holds the status row.
LockFree == lock = NoRequest

\* An open, unlocked commit of v's pipeline has touched bb_version(v) or one of
\* its children (foreign-key share lock, or the updated job row): a DELETE of v
\* has to wait for it.
RowLocked(v) ==
  /\ pc[v] \in {"import_commit", "diagnose_commit", "validate_commit"}
  /\ lifecycle[v] = "candidate"

\* Mutant: the DELETE does not test the lifecycle.
DeleteVersion(v) ==
  /\ lifecycle' = [lifecycle EXCEPT ![v] = "discarded"]
  /\ evidence' = evidence \ {v}
  /\ diagnosis' = diagnosis \ {v}
  /\ passed' = passed \ {v}
  /\ spared' = spared \ {v}

\* Mutant: the children are deleted first, whatever the version's lifecycle is.
DeleteChildrenFirst(v) ==
  /\ lifecycle' = IF IsActiveCandidate(v) THEN [lifecycle EXCEPT ![v] = "discarded"]
                  ELSE lifecycle
  /\ evidence' = evidence \ {v}
  /\ diagnosis' = diagnosis \ {v}
  /\ passed' = passed \ {v}
  /\ spared' = spared \ {v}

\* deleteCandidate: only a Candidate goes, and its children cascade with it.
DeleteCandidate(v) ==
  IF IsActiveCandidate(v)
  THEN /\ lifecycle' = [lifecycle EXCEPT ![v] = "discarded"]
       /\ evidence' = evidence \ {v}
       /\ diagnosis' = diagnosis \ {v}
       /\ passed' = passed \ {v}
       /\ spared' = spared \ {v}
  ELSE UNCHANGED rows

\* setRefresh: the status row with new states and marker, for the same reference.
Status(state, import, diagnosed, validated, marker) ==
  [reference |-> refresh.reference, state |-> state, import |-> import,
   diagnosis |-> diagnosed, validation |-> validated, marker |-> marker]

\* bumpRefresh inside a transaction that holds the status row.
BumpState(state) == Status(state, refresh.import, refresh.diagnosis,
                           refresh.validation, refresh.marker + 1)

GoTo(v, step) == pc' = [pc EXCEPT ![v] = step]

-----------------------------------------------------------------------------
(* POST /refresh: the connection is read before, and outside, the transaction *)

\* getConnectionStatus.  Bound: once every version id is used, only known tokens
\* are sent again.
BeginStart(r, t, f) ==
  /\ req[r] = Idle
  /\ connected
  /\ \/ \E v \in Versions : lifecycle[v] = "absent"
     \/ t \in Tokens /\ tokens[t] # NoTokenRow
  /\ req' = [req EXCEPT ![r] = [op |-> "start", token |-> t, fingerprint |-> f]]
  /\ UNCHANGED <<rows, refresh, tokens, connected, lock, locals, faults>>

\* Mutant: a token counts only while its refresh runs.
TokenOfCandidate(r) ==
  /\ req[r].token \in Tokens
  /\ tokens[req[r].token] # NoTokenRow
  /\ IsActiveCandidate(tokens[req[r].token].reference)

TokenUsed(r) == req[r].token \in Tokens /\ tokens[req[r].token] # NoTokenRow

\* The token already has a row: 'conflict' if the fingerprint differs, else 'replayed'.
ReplayStart(r) ==
  /\ req[r].op = "start"
  /\ LockFree
  /\ TokenUsed(r)
  /\ req' = [req EXCEPT ![r] = Idle]
  /\ UNCHANGED <<rows, refresh, tokens, connected, lock, locals, faults>>

\* Mutant: the token is bound to the refresh that runs already.
StartJoins(r) ==
  /\ req[r].op = "start"
  /\ LockFree
  /\ ~TokenUsed(r)
  /\ ~NoCandidate
  /\ tokens' = IF req[r].token = NoToken THEN tokens
               ELSE [tokens EXCEPT ![req[r].token] =
                       [reference |-> refresh.reference, fingerprint |-> req[r].fingerprint]]
  /\ req' = [req EXCEPT ![r] = Idle]
  /\ UNCHANGED <<rows, refresh, connected, lock, locals, faults>>

StartInProgress(r) ==
  /\ req[r].op = "start"
  /\ LockFree
  /\ ~TokenUsed(r)
  /\ ~NoCandidate
  /\ req' = [req EXCEPT ![r] = Idle]
  /\ UNCHANGED <<rows, refresh, tokens, connected, lock, locals, faults>>

CreateCandidate(r, v) ==
  /\ req[r].op = "start"
  /\ LockFree
  /\ ~TokenUsed(r)
  /\ NoCandidate
  /\ lifecycle[v] = "absent"
  /\ lifecycle' = [lifecycle EXCEPT ![v] = "candidate"]
  /\ refresh' = [reference |-> v, state |-> "in_progress", import |-> "running",
                 diagnosis |-> "none", validation |-> "none", marker |-> 1]
  /\ tokens' = IF req[r].token = NoToken THEN tokens
               ELSE [tokens EXCEPT ![req[r].token] =
                       [reference |-> v, fingerprint |-> req[r].fingerprint]]
  /\ GoTo(v, "import")                                  \* launchPipeline, detached
  /\ req' = [req EXCEPT ![r] = Idle]
  /\ UNCHANGED <<children, spared, connected, lock, seen, attempt, faults>>

-----------------------------------------------------------------------------
(* Discards asked for by a request: cancel and disconnect                     *)

\* Mutant: a disconnect discards without a word in the status row.
DiscardSilently(v, outcome) ==
  /\ DeleteCandidate(v)
  /\ refresh' = IF outcome = "cancelled" THEN BumpState(outcome) ELSE refresh

DiscardFor(v, outcome) ==
  /\ DeleteCandidate(v)
  /\ refresh' = BumpState(outcome)

\* cancelAndDiscard, when it finds a Candidate (it changes nothing otherwise).
Cancel(r) ==
  /\ req[r] = Idle
  /\ LockFree
  /\ \E v \in Versions : /\ IsActiveCandidate(v)
                         /\ ~RowLocked(v)
                         /\ DiscardFor(v, "cancelled")
  /\ UNCHANGED <<tokens, connected, lock, locals, req, faults>>

\* The DELETE waits for the pipeline's open transaction, holding the status row.
BlockOn(r, outcome) ==
  /\ LockFree
  /\ \E v \in Versions : RowLocked(v)
  /\ lock' = r
  /\ req' = [req EXCEPT ![r] = [op |-> "discard", outcome |-> outcome]]
  /\ UNCHANGED <<rows, refresh, tokens, connected, locals, faults>>

CancelBlocks(r) == req[r] = Idle /\ BlockOn(r, "cancelled")

\* POST /connection/disconnect, first half: the credential is deleted.
Disconnect(r) ==
  /\ req[r] = Idle
  /\ connected' = FALSE
  /\ req' = [req EXCEPT ![r] = [op |-> "disconnect"]]
  /\ UNCHANGED <<rows, refresh, tokens, lock, locals, faults>>

\* Second half: discardActiveCandidateOnDisconnect.
DisconnectDiscards(r) ==
  /\ req[r].op = "disconnect"
  /\ LockFree
  /\ \E v \in Versions : /\ IsActiveCandidate(v)
                         /\ ~RowLocked(v)
                         /\ DiscardFor(v, "failed")
  /\ req' = [req EXCEPT ![r] = Idle]
  /\ UNCHANGED <<tokens, connected, lock, locals, faults>>

DisconnectFindsNone(r) ==
  /\ req[r].op = "disconnect"
  /\ LockFree
  /\ NoCandidate
  /\ req' = [req EXCEPT ![r] = Idle]
  /\ UNCHANGED <<rows, refresh, tokens, connected, lock, locals, faults>>

DisconnectBlocks(r) == req[r].op = "disconnect" /\ BlockOn(r, "failed")

\* Mutant: the transaction is left open.
FinishUncommitted(r) ==
  /\ lock = r
  /\ \E v \in Versions : /\ IsActiveCandidate(v)
                         /\ ~RowLocked(v)
                         /\ DiscardFor(v, req[r].outcome)
  /\ req' = [req EXCEPT ![r] = Idle]
  /\ UNCHANGED <<tokens, connected, lock, locals, faults>>

\* The awaited row was released: the DELETE goes on and the transaction commits.
FinishDiscard(r) ==
  /\ lock = r
  /\ \E v \in Versions : /\ IsActiveCandidate(v)
                         /\ ~RowLocked(v)
                         /\ DiscardFor(v, req[r].outcome)
  /\ lock' = NoRequest
  /\ req' = [req EXCEPT ![r] = Idle]
  /\ UNCHANGED <<tokens, connected, locals, faults>>

\* The OAuth callback stores a credential.
Connect ==
  /\ ~connected
  /\ connected' = TRUE
  /\ spared' = {}
  /\ UNCHANGED <<lifecycle, children, refresh, tokens, lock, locals, req, faults>>

-----------------------------------------------------------------------------
(* runPipeline(v)                                                             *)

\* Where an exception in pipeline v is caught: the inner catch around
\* commitCandidateDiagnosis, or the outer one.
Caught(v) == IF pc[v] \in {"diagnose", "diagnose_insert", "diagnose_commit"}
             THEN "undiagnosed" ELSE "failed"

\* A transaction that takes the status row and discards v whatever the row says.
FailWith(v, row) ==
  /\ LockFree
  /\ DeleteCandidate(v)
  /\ refresh' = row
  /\ GoTo(v, "ended")
  /\ UNCHANGED <<tokens, connected, lock, seen, attempt, req, faults>>

\* Mutant: the import takes the connection the start had read.
LoadStaleToken(v) ==
  /\ pc[v] = "import"
  /\ GoTo(v, "import_fetch")
  /\ UNCHANGED <<rows, refresh, tokens, connected, lock, seen, attempt, req, faults>>

\* token(): the first thing importAccount does is to load the stored credential.
LoadToken(v) ==
  /\ pc[v] = "import"
  /\ connected
  /\ GoTo(v, "import_fetch")
  /\ UNCHANGED <<rows, refresh, tokens, connected, lock, seen, attempt, req, faults>>

\* Mutant: the pipeline returns without a word.
ImportGivesUp(v, outcome) ==
  /\ pc[v] = "import_fetch"
  /\ outcome = "insufficient"
  /\ GoTo(v, "ended")
  /\ UNCHANGED <<rows, refresh, tokens, connected, lock, seen, attempt, req, faults>>

\* importAccount threw (also: no credential), or its evidence is insufficient:
\* commitImportFailureAndDiscard.
ImportFails(v, outcome) ==
  /\ pc[v] = "import_fetch" \/ (pc[v] = "import" /\ outcome = "failed")
  /\ FailWith(v, Status("failed", outcome, "none", "none", refresh.marker + 1))

\* isActiveCandidate, at the start of the two unlocked commits that check it.
CheckCandidate(v, from, to) ==
  /\ pc[v] = from
  /\ GoTo(v, IF IsActiveCandidate(v) THEN to ELSE "ended")
  /\ UNCHANGED <<rows, refresh, tokens, connected, lock, seen, attempt, req, faults>>

CheckImport(v) == CheckCandidate(v, "import_fetch", "import_insert")
CheckDiagnosis(v) == CheckCandidate(v, "diagnose", "diagnose_insert")

\* The child rows are inserted (a foreign-key error if v has gone since the
\* check) and bumpRefresh reads the marker.
InsertChildren(v, from, to) ==
  /\ pc[v] = from
  /\ IF IsActiveCandidate(v)
     THEN /\ GoTo(v, to)
          /\ seen' = [seen EXCEPT ![v] = refresh.marker]
     ELSE /\ GoTo(v, Caught(v))
          /\ UNCHANGED seen
  /\ UNCHANGED <<rows, refresh, tokens, connected, lock, attempt, req, faults>>

InsertImport(v) == InsertChildren(v, "import_insert", "import_commit")
InsertDiagnosis(v) == InsertChildren(v, "diagnose_insert", "diagnose_commit")

\* bumpRefresh writes the marker it read plus one, and the transaction commits.
CommitImport(v) ==
  /\ pc[v] = "import_commit"
  /\ LockFree
  /\ evidence' = evidence \cup {v}
  /\ refresh' = Status(refresh.state, "sufficient", refresh.diagnosis,
                       refresh.validation, seen[v] + 1)
  /\ GoTo(v, "generate")
  /\ UNCHANGED <<lifecycle, diagnosis, passed, spared, tokens, connected, lock, seen,
                 attempt, req, faults>>

\* A lost acknowledgement (a fault) is caught like a failed commit.
CommitDiagnosis(v) ==
  /\ pc[v] = "diagnose_commit"
  /\ LockFree
  /\ diagnosis' = diagnosis \cup {v}
  /\ refresh' = Status(refresh.state, refresh.import, "produced",
                       refresh.validation, seen[v] + 1)
  /\ \/ GoTo(v, "validate") /\ UNCHANGED faults
     \/ GoTo(v, "undiagnosed") /\ faults < MaxFaults /\ faults' = faults + 1
  /\ UNCHANGED <<lifecycle, evidence, passed, spared, tokens, connected, lock, seen,
                 attempt, req>>

\* One draft that passes grounding and validateCandidate ends the loop.
DraftAccepted(v) ==
  /\ pc[v] = "generate"
  /\ GoTo(v, "diagnose")
  /\ UNCHANGED <<rows, refresh, tokens, connected, lock, seen, attempt, req, faults>>

\* Mutant: the attempts start again instead of ending.
DraftRestarts(v) ==
  /\ pc[v] = "generate"
  /\ attempt' = [attempt EXCEPT ![v] = (@ + 1) % MaxAttempts]
  /\ UNCHANGED <<rows, refresh, tokens, connected, lock, pc, seen, req, faults>>

\* The call threw, or the draft was rejected; the last attempt ends in failure.
DraftRejected(v) ==
  /\ pc[v] = "generate"
  /\ attempt' = [attempt EXCEPT ![v] = @ + 1]
  /\ GoTo(v, IF attempt[v] + 1 = MaxAttempts THEN "undiagnosed" ELSE "generate")
  /\ UNCHANGED <<rows, refresh, tokens, connected, lock, seen, req, faults>>

\* failAndDiscard(diagnosis_unavailable).
DiagnosisUnavailable(v) ==
  /\ pc[v] = "undiagnosed"
  /\ FailWith(v, Status("failed", "sufficient", "generation_failed",
                        refresh.validation, refresh.marker + 1))

\* commitValidationPassed: no lock and no candidate check.  The job row is
\* updated if it is still there, and bumpRefresh reads the marker.
UpdateJob(v) ==
  /\ pc[v] = "validate"
  /\ GoTo(v, "validate_commit")
  /\ seen' = [seen EXCEPT ![v] = refresh.marker]
  /\ UNCHANGED <<rows, refresh, tokens, connected, lock, attempt, req, faults>>

CommitValidation(v) ==
  /\ pc[v] = "validate_commit"
  /\ LockFree
  /\ passed' = passed \cup ({v} \cap diagnosis)
  /\ refresh' = Status(refresh.state, refresh.import, refresh.diagnosis,
                       "passed", seen[v] + 1)
  /\ GoTo(v, "promote")
  /\ UNCHANGED <<lifecycle, evidence, diagnosis, spared, tokens, connected, lock, seen,
                 attempt, req, faults>>

Promotable(v) ==
  /\ IsActiveCandidate(v)
  /\ v \in evidence
  /\ v \in diagnosis
  /\ refresh.validation = "passed"

\* promoteCandidateAtomically: the prior Current and its children are deleted.
\* The acknowledgement of the commit may be lost (a fault): the pipeline then
\* takes the exception path although v was promoted.
Promote(v) ==
  /\ pc[v] = "promote"
  /\ LockFree
  /\ Promotable(v)
  /\ LET prior == {w \in Versions : lifecycle[w] = "current"}
     IN /\ lifecycle' = [w \in Versions |-> IF w = v THEN "current"
                                            ELSE IF w \in prior THEN "superseded"
                                            ELSE lifecycle[w]]
        /\ evidence' = evidence \ prior
        /\ diagnosis' = diagnosis \ prior
        /\ passed' = passed \ prior
  /\ spared' = spared \ {v}
  /\ refresh' = BumpState("completed")
  /\ \/ GoTo(v, "ended") /\ UNCHANGED faults
     \/ GoTo(v, "failed") /\ faults < MaxFaults /\ faults' = faults + 1
  /\ UNCHANGED <<tokens, connected, lock, seen, attempt, req>>

\* 'stale': nothing is written and the pipeline returns.
PromoteStale(v) ==
  /\ pc[v] = "promote"
  /\ LockFree
  /\ ~Promotable(v)
  /\ GoTo(v, "ended")
  /\ UNCHANGED <<rows, refresh, tokens, connected, lock, seen, attempt, req, faults>>

\* The outer catch: failAndDiscard(temporary_failure).
FailAndDiscard(v) ==
  /\ pc[v] = "failed"
  /\ FailWith(v, BumpState("failed"))

-----------------------------------------------------------------------------
(* Deadlock, errors and crashes                                               *)

\* A disconnect that has yet to discard the Candidate.
Revoking(r) ==
  req[r].op = "disconnect" \/ (req[r].op = "discard" /\ req[r].outcome = "failed")

\* Its discard is best effort: lost, it lets the Candidate go on.
Spare(r) ==
  spared' = IF Revoking(r)
            THEN spared \cup {v \in Versions : IsActiveCandidate(v)}
            ELSE spared

\* The blocked discard holds the status row and waits for v's row; the pipeline
\* holds v's row and needs the status row.  The database aborts either one.
AbortDiscard(r) ==
  /\ lock = r
  /\ \E v \in Versions : RowLocked(v)
  /\ lock' = NoRequest
  /\ req' = [req EXCEPT ![r] = Idle]
  /\ Spare(r)
  /\ UNCHANGED <<lifecycle, children, refresh, tokens, connected, locals, faults>>

AbortCommit(v) ==
  /\ lock # NoRequest
  /\ RowLocked(v)
  /\ GoTo(v, Caught(v))
  /\ UNCHANGED <<rows, refresh, tokens, connected, lock, seen, attempt, req, faults>>

Running(v) == pc[v] \notin {"idle", "ended"}

\* A database error rolls the open transaction back and is caught; thrown in
\* the outer catch itself it is swallowed.
PipelineError(v) ==
  /\ Running(v)
  /\ faults < MaxFaults
  /\ GoTo(v, IF pc[v] = "failed" THEN "ended" ELSE Caught(v))
  /\ faults' = faults + 1
  /\ UNCHANGED <<rows, refresh, tokens, connected, lock, seen, attempt, req>>

\* The process that runs v's pipeline dies; nothing restarts the pipeline.
PipelineLost(v) ==
  /\ Running(v)
  /\ faults < MaxFaults
  /\ GoTo(v, "ended")
  /\ faults' = faults + 1
  /\ UNCHANGED <<rows, refresh, tokens, connected, lock, seen, attempt, req>>

\* A request fails or its process dies; a failed discard after a disconnect is
\* swallowed, so both leave the same state.
RequestLost(r) ==
  /\ req[r] # Idle
  /\ faults < MaxFaults
  /\ req' = [req EXCEPT ![r] = Idle]
  /\ lock' = IF lock = r THEN NoRequest ELSE lock
  /\ Spare(r)
  /\ faults' = faults + 1
  /\ UNCHANGED <<lifecycle, children, refresh, tokens, connected, locals>>

-----------------------------------------------------------------------------
StartTx(r) == \/ ReplayStart(r)
              \/ StartInProgress(r)
              \/ \E v \in Versions : CreateCandidate(r, v)

DisconnectTx(r) == DisconnectDiscards(r) \/ DisconnectFindsNone(r) \/ DisconnectBlocks(r)

RequestStep(r) ==
  \/ \E t \in Tokens \cup {NoToken}, f \in Fingerprints : BeginStart(r, t, f)
  \/ StartTx(r)
  \/ Cancel(r)
  \/ CancelBlocks(r)
  \/ Disconnect(r)
  \/ DisconnectTx(r)
  \/ FinishDiscard(r)
  \/ AbortDiscard(r)
  \/ RequestLost(r)

\* Steps the pipeline takes by itself ...
Advance(v) ==
  \/ \E outcome \in {"failed", "insufficient"} : ImportFails(v, outcome)
  \/ LoadToken(v) \/ CheckImport(v) \/ InsertImport(v) \/ CommitImport(v)
  \/ DraftAccepted(v) \/ DraftRejected(v) \/ DiagnosisUnavailable(v)
  \/ CheckDiagnosis(v) \/ InsertDiagnosis(v) \/ CommitDiagnosis(v)
  \/ UpdateJob(v) \/ CommitValidation(v)
  \/ Promote(v) \/ PromoteStale(v)
  \/ FailAndDiscard(v)

\* ... and steps done to it.
PipelineStep(v) == Advance(v) \/ AbortCommit(v) \/ PipelineError(v) \/ PipelineLost(v)

Next == \/ Connect
        \/ \E r \in Requests : RequestStep(r)
        \/ \E v \in Versions : PipelineStep(v)

Spec == Init /\ [][Next]_vars

(***************************************************************************)
(* Fairness.  A pipeline is a running async function whose external calls  *)
(* time out, so it takes its next step; waiters for a row lock are queued, *)
(* so one that is let in again and again gets it (strong fairness).  Open  *)
(* transactions finish and the database resolves deadlocks.  Nothing makes *)
(* a founder start, cancel, connect or disconnect.                         *)
(***************************************************************************)
Fairness ==
  /\ \A v \in Versions : SF_vars(Advance(v))
  /\ \A r \in Requests : /\ SF_vars(StartTx(r))
                         /\ SF_vars(DisconnectTx(r))
                         /\ WF_vars(FinishDiscard(r) \/ AbortDiscard(r))

FairSpec == Spec /\ Fairness
-----------------------------------------------------------------------------
(* Safety                                                                     *)

IsLive(v) == lifecycle[v] \in {"candidate", "current"}

\* At most one Candidate and one Current exist, whatever requests and pipelines
\* interleave: the code never runs into the unique indexes of bb_version.
OneOfEach ==
  \A v, w \in Versions : IsLive(v) /\ lifecycle[v] = lifecycle[w] => v = w

\* A Current version has its evidence, its diagnosis and a job marked as
\* validated by its own pipeline, although promoteCandidateAtomically tests the
\* founder-wide validation_state, which other pipelines also write.
CurrentIsComplete ==
  \A v \in Versions :
    lifecycle[v] = "current" => v \in evidence /\ v \in diagnosis /\ v \in passed

\* Children exist only under a live version: an unlocked commit can never leave
\* evidence or a diagnosis behind for a version discarded while it was open.
NoOrphanRows == \A v \in evidence \cup diagnosis \cup passed : IsLive(v)

\* What the progress row says agrees with bb_version: it names the live
\* Candidate, an in_progress refresh really has one (so a client never polls for
\* nothing), a cancelled one has none and a completed one is what Get Current serves.
StatusAgrees ==
  /\ \A v \in Versions : IsActiveCandidate(v) => refresh.reference = v
  /\ refresh.state = "in_progress" => \E v \in Versions : IsActiveCandidate(v)
  /\ refresh.state = "cancelled" => \A v \in Versions : ~IsActiveCandidate(v)
  /\ refresh.state = "completed" =>
       \E v \in Versions : lifecycle[v] = "current" /\ refresh.reference = v

\* A token is bound once, to the one refresh it created: a retried start never
\* creates a second version nor moves the token to another one.
TokenBindsOnce ==
  /\ \A t, u \in Tokens : tokens[t] # NoTokenRow /\ tokens[t].reference = tokens[u].reference
                          => t = u
  /\ \A t \in Tokens : tokens[t] # NoTokenRow => lifecycle[tokens[t].reference] # "absent"

\* Once a token has a row, the row never changes.
TokenRowIsFinal ==
  [][\A t \in Tokens : tokens[t] # NoTokenRow => tokens'[t] = tokens[t]]_vars

\* The Current version disappears only in the step that makes another version
\* Current: cancel, disconnect, failure and stale pipelines never touch it.
CurrentOnlySuperseded ==
  [][\A v \in Versions :
       lifecycle[v] = "current" /\ lifecycle'[v] # "current" =>
         \E w \in Versions : lifecycle[w] = "candidate" /\ lifecycle'[w] = "current"]_vars

\* The founder's view, abstractly: BrainShelf, with discarded Candidates invisible.
Currents == {v \in Versions : lifecycle[v] = "current"}
Only(S) == CHOOSE x \in S : TRUE
CurrentVersion == IF Currents = {} THEN NoVersion ELSE Only(Currents)
Superseded == {v \in Versions : lifecycle[v] = "superseded"}

Shelf == INSTANCE BrainShelf WITH
           Books <- Versions, Nothing <- NoVersion,
           shown <- CurrentVersion, retired <- Superseded

\* Get Current shows nothing, or one version that is replaced at once by a new one
\* and never comes back.
ImplementsShelf == Shelf!Spec

\* How far a pipeline has come tells which rows its Candidate has: an open
\* unlocked commit always has its Candidate underneath, and a pipeline about to
\* promote has filled and validated it.  No pipeline runs for an unused id, and
\* the drafts of one that still generates are not exhausted.
PipelineRows ==
  \A v \in Versions :
    /\ lifecycle[v] = "absent" => pc[v] = "idle"
    /\ pc[v] \notin {"undiagnosed", "failed", "ended"} => attempt[v] < MaxAttempts
    /\ pc[v] \in {"import_commit", "diagnose_commit"} => IsActiveCandidate(v)
    /\ IsActiveCandidate(v) =>
         /\ pc[v] \in {"generate", "diagnose", "diagnose_insert", "diagnose_commit",
                       "validate", "validate_commit", "promote"} => v \in evidence
         /\ pc[v] \in {"validate", "validate_commit", "promote"} => v \in diagnosis
         /\ pc[v] = "promote" => v \in passed

\* businessbrain.routes.ts: "a refresh cannot promote after access was revoked".
\* Once a disconnect has returned, no Candidate is left that a pipeline could still
\* fill and promote, also when a start had read the connection before: its import
\* finds no credential.  Only the best-effort discard of the route, lost to an
\* error or to the deadlock below, spares one.
RevokedIsDiscarded ==
  \A v \in Versions :
    IsActiveCandidate(v) /\ pc[v] \notin {"import", "failed", "ended"} =>
      connected \/ v \in spared \/ (\E r \in Requests : Revoking(r))

\* Only a blocked discard keeps the status row locked.
LockHolder == \A r \in Requests : lock = r => req[r].op = "discard"

\* The inductive strengthening of the invariants above.
IInv == /\ TypeOK
        /\ OneOfEach
        /\ NoOrphanRows
        /\ CurrentIsComplete
        /\ StatusAgrees
        /\ TokenBindsOnce
        /\ PipelineRows
        /\ RevokedIsDiscarded
        /\ LockHolder

-----------------------------------------------------------------------------
(* Liveness, under FairSpec                                                   *)

\* A launched pipeline ends: drafts are bounded and deadlocks are resolved.
PipelineEnds == \A v \in Versions : pc[v] = "import" ~> pc[v] = "ended"

\* A discard that waits while holding the status row does not wait for ever, so
\* refreshes of the founder are never blocked for good.
LockReleased == lock # NoRequest ~> lock = NoRequest

\* Without faults, a refresh that was accepted is decided: its version does not
\* stay a Candidate, unless an older pipeline interfered with the status row.
RefreshDecided ==
  \A v \in Versions :
    IsActiveCandidate(v) ~> (~IsActiveCandidate(v) \/ refresh.state # "in_progress")

-----------------------------------------------------------------------------
(* What the repository says and the code does not do                          *)

\* lifecycle-coordinator.ts: the pipeline "catches every failure, and commits an
\* authoritative failed/terminal Refresh state", so none leaves its Candidate.
EndedPipelineIsTerminal ==
  \A v \in Versions : pc[v] = "ended" => ~IsActiveCandidate(v)
=============================================================================
