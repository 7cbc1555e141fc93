------------------------------ MODULE WeeklyCycle ------------------------------
(* One founder's weekly cycles: a trigger starts a cycle, the LLM pipeline commits  *)
(* its brief, content delivery turns the brief into pieces, the founder decides on  *)
(* them. The handlers meet in rows of PostgreSQL and through the outbox, which      *)
(* delivers an event at least once (EventDelivery).                                 *)
EXTENDS Naturals, FiniteSets

CONSTANTS Cycles,      \* ids generateId can give to cycles
          Triggers,    \* open POST trigger requests
          Runs,        \* executions of LLM_PIPELINE jobs
          Deliveries,  \* executions of CONTENT_DELIVERY jobs
          Approvers,   \* open approve, edit and reject requests
          NoCycle, NoRun

ASSUME CycleAssumption == NoCycle \notin Cycles /\ NoRun \notin Runs

VARIABLES
  active,      \* founder.status = 'ACTIVE'
  cycle,       \* cycle.weekly_cycles
  brief,       \* cycle.internal_briefs, one row per cycle
  clock,       \* what new Date() gives to the handlers of CommitBrief
  trigger,     \* CycleController.trigger: the number it has derived, 0 when idle
  run,         \* LLMPipelineWorker.process
  jobs,        \* CONTENT_DELIVERY job ids the queue knows: cel-<BriefCommitted event of a run>
  rerun,       \* jobs taken for stalled and given to a second worker
  delivery,    \* ContentDeliveryWorker.process
  consumed,    \* app.consumed_events
  batches,     \* batches of cycle.content_pieces written for the event of a run
  readyFor,    \* events answered by ContentReadyForReview
  failedFor,   \* events answered by ContentGenerationFailed
  piece,       \* approval_status of (a piece of) the batch
  approval,    \* ApprovalController and the decision handlers
  decided      \* history: <<run, approver, decision>> of the decision events

cycleVars   == <<active, cycle, brief, clock, trigger, run>>
contentVars == <<jobs, rerun, delivery, consumed, batches, readyFor, failedFor>>
pieceVars   == <<piece, approval, decided>>
vars        == <<cycleVars, contentVars, pieceVars>>

InFlight  == {"COLLECTING", "REASONING", "CRITIQUE", "COMMITTING"}
Finished  == {"COMMITTED", "FALLBACK_COMMITTED"}
Decisions == {"APPROVED", "APPROVED_WITH_EDITS", "REJECTED", "AUTO_APPROVED"}

NoRow == [status |-> "none", number |-> 0, committedAt |-> 0]

Rows == {c \in Cycles : cycle[c].status # "none"}
Committed == {c \in Cycles : cycle[c].status \in Finished}

Init == /\ active \in BOOLEAN
        /\ cycle = [c \in Cycles |-> NoRow]
        /\ brief = [c \in Cycles |-> "none"]
        /\ clock = 0
        /\ trigger = [r \in Triggers |-> 0]
        /\ run = [p \in Runs |-> [pc |-> "free", cycle |-> NoCycle, brief |-> "none", at |-> 0]]
        /\ jobs = {} /\ rerun = {}
        /\ delivery = [x \in Deliveries |-> [pc |-> "free", event |-> NoRun]]
        /\ consumed = {}
        /\ batches = [p \in Runs |-> 0]
        /\ readyFor = {} /\ failedFor = {}
        /\ piece = [p \in Runs |-> "none"]
        /\ approval = [a \in Approvers |-> [pc |-> "idle", piece |-> NoRun, seen |-> "none", row |-> NoRow]]
        /\ decided = {}
--------------------------------------------------------------------------------
(* The founder pauses or resumes.                                                   *)
ChangeFounder == /\ active' = ~active
                 /\ UNCHANGED <<cycle, brief, clock, trigger, run, contentVars, pieceVars>>

(* CycleController.trigger: the newest history item gives the number.               *)
LastCommitted(c) == c \in Committed /\ \A d \in Committed : cycle[d].committedAt <= cycle[c].committedAt

DeriveNumber(r) == /\ trigger[r] = 0
                   /\ \/ Committed = {} /\ trigger' = [trigger EXCEPT ![r] = 1]
                      \/ \E c \in Cycles : /\ LastCommitted(c)
                                           /\ trigger' = [trigger EXCEPT ![r] = cycle[c].number + 1]
                   /\ UNCHANGED <<active, cycle, brief, clock, run, contentVars, pieceVars>>

(* Mutant: the unique index covers the cycles in flight only.                       *)
NumberInFlight(n) == \E c \in Rows : cycle[c].number = n /\ cycle[c].status \in InFlight

NumberTaken(n) == \E c \in Rows : cycle[c].number = n

MayStart == active /\ \A c \in Cycles : cycle[c].status \notin InFlight

(* Mutant: the id of an earlier cycle comes again, and save is an upsert.           *)
StartAgain(r, c) == /\ trigger[r] # 0
                    /\ MayStart /\ ~NumberTaken(trigger[r])
                    /\ cycle' = [cycle EXCEPT ![c] = [status |-> "PENDING", number |-> trigger[r], committedAt |-> 0]]
                    /\ trigger' = [trigger EXCEPT ![r] = 0]
                    /\ UNCHANGED <<active, brief, clock, run, contentVars, pieceVars>>

(* StartWeeklyCycle: one transaction under the founder's row lock.                  *)
StartCycle(r, c) == /\ trigger[r] # 0 /\ c \notin Rows
                    /\ MayStart /\ ~NumberTaken(trigger[r])
                    /\ cycle' = [cycle EXCEPT ![c] = [status |-> "PENDING", number |-> trigger[r], committedAt |-> 0]]
                    /\ trigger' = [trigger EXCEPT ![r] = 0]
                    /\ UNCHANGED <<active, brief, clock, run, contentVars, pieceVars>>

(* FOUNDER_NOT_ACTIVE, CYCLE_ALREADY_RUNNING, or the unique index on the number.    *)
StartFails(r) == /\ trigger[r] # 0
                 /\ ~MayStart \/ NumberTaken(trigger[r])
                 /\ trigger' = [trigger EXCEPT ![r] = 0]
                 /\ UNCHANGED <<active, cycle, brief, clock, run, contentVars, pieceVars>>
--------------------------------------------------------------------------------
(* WeeklyCycleStarted is delivered, perhaps again: each time a new job.             *)
EnqueuePipeline(p, c) == /\ c \in Rows /\ run[p].pc = "free"
                         /\ run' = [run EXCEPT ![p] = [pc |-> "queued", cycle |-> c, brief |-> "none", at |-> 0]]
                         /\ UNCHANGED <<active, cycle, brief, clock, trigger, contentVars, pieceVars>>

MoveRun(p, pc, kind, at) == run' = [run EXCEPT ![p] = [pc |-> pc, cycle |-> run[p].cycle, brief |-> kind, at |-> at]]

(* executePipeline ends with a brief, of the main path or of the fallback.          *)
PipelineDrafts(p, kind) == /\ run[p].pc = "queued"
                           /\ MoveRun(p, "drafted", kind, 0)
                           /\ UNCHANGED <<active, cycle, brief, clock, trigger, contentVars, pieceVars>>

(* It throws, or ends without one: the job ends and the cycle is left as it is.     *)
PipelineGivesUp(p) == /\ run[p].pc \in {"queued", "drafted", "committing"}
                      /\ MoveRun(p, "gone", "none", 0)
                      /\ UNCHANGED <<active, cycle, brief, clock, trigger, contentVars, pieceVars>>

(* CommitBriefHandler.handle: committedAt is taken before the transaction.          *)
BeginCommit(p) == /\ run[p].pc = "drafted"
                  /\ clock' = clock + 1
                  /\ MoveRun(p, "committing", run[p].brief, clock + 1)
                  /\ UNCHANGED <<active, cycle, brief, trigger, contentVars, pieceVars>>

StatusOf(kind) == IF kind = "fallback" THEN "FALLBACK_COMMITTED" ELSE "COMMITTED"

(* The transaction: whatever the status is, the cycle is committed with the brief   *)
(* and the event.                                                                   *)
CommitBrief(p) == /\ run[p].pc = "committing"
                  /\ LET c == run[p].cycle IN
                       /\ cycle' = [cycle EXCEPT ![c] = [status |-> StatusOf(run[p].brief),
                                                         number |-> cycle[c].number,
                                                         committedAt |-> run[p].at]]
                       /\ brief' = [brief EXCEPT ![c] = run[p].brief]
                  /\ MoveRun(p, "committed", run[p].brief, run[p].at)
                  /\ UNCHANGED <<active, clock, trigger, contentVars, pieceVars>>
--------------------------------------------------------------------------------
MoveDelivery(x, pc, event) == delivery' = [delivery EXCEPT ![x] = [pc |-> pc, event |-> event]]

(* (Fallback)BriefCommitted is delivered: a job id the queue has seen is ignored.   *)
EnqueueDelivery(x, p) == /\ run[p].pc = "committed" /\ p \notin jobs
                         /\ delivery[x].pc = "free"
                         /\ jobs' = jobs \cup {p}
                         /\ MoveDelivery(x, "queued", p)
                         /\ UNCHANGED <<cycleVars, rerun, consumed, batches, readyFor, failedFor, pieceVars>>

Running(x) == delivery[x].pc \in {"producing", "persisting", "failing"}

(* BullMQ takes a running job for stalled, once, and another worker runs it too.    *)
RerunStalled(x, y) == /\ Running(y) /\ delivery[y].event \notin rerun
                      /\ delivery[x].pc = "free"
                      /\ rerun' = rerun \cup {delivery[y].event}
                      /\ MoveDelivery(x, "queued", delivery[y].event)
                      /\ UNCHANGED <<cycleVars, jobs, consumed, batches, readyFor, failedFor, pieceVars>>

(* A step of process that writes nothing.                                           *)
Proceed(x, pc) == /\ MoveDelivery(x, pc, delivery[x].event)
                  /\ UNCHANGED <<cycleVars, jobs, rerun, consumed, batches, readyFor, failedFor, pieceVars>>

(* The idempotency precheck.                                                        *)
Precheck(x) == /\ delivery[x].pc = "queued"
               /\ \/ delivery[x].event \in consumed /\ Proceed(x, "done")
                  \/ delivery[x].event \notin consumed /\ Proceed(x, "producing")

(* ContentExecutionService.execute returns the pieces.                              *)
Produce(x) == /\ delivery[x].pc = "producing"
              /\ brief[run[delivery[x].event].cycle] # "none"
              /\ Proceed(x, "persisting")

(* No brief, no pieces in time, or a transaction that is rolled back: the catch.    *)
ProduceFails(x) == delivery[x].pc \in {"producing", "persisting"} /\ Proceed(x, "failing")

(* An error outside the try, in the precheck or in emitFailure; or the worker dies  *)
(* on a job that has been rerun already.                                            *)
JobFails(x) == /\ \/ delivery[x].pc \in {"queued", "failing"}
                  \/ Running(x) /\ delivery[x].event \in rerun
               /\ Proceed(x, "gone")

(* Mutant: the claim in the transaction is left to the precheck.                    *)
PersistAnyway(x, next) ==
  /\ delivery[x].pc = "persisting"
  /\ LET p == delivery[x].event IN
       /\ consumed' = consumed \cup {p}
       /\ batches' = [batches EXCEPT ![p] = @ + 1]
       /\ piece' = [piece EXCEPT ![p] = "AWAITING_APPROVAL"]
       /\ readyFor' = readyFor \cup {p}
       /\ MoveDelivery(x, next, p)
  /\ UNCHANGED <<cycleVars, jobs, rerun, failedFor, approval, decided>>

(* The claim of the event, the pieces and ContentReadyForReview in one transaction; *)
(* if its acknowledgement is lost the worker takes it for failed.                   *)
Persist(x, next) ==
  /\ delivery[x].pc = "persisting"
  /\ LET p == delivery[x].event IN
       \/ /\ p \notin consumed
          /\ consumed' = consumed \cup {p}
          /\ batches' = [batches EXCEPT ![p] = @ + 1]
          /\ piece' = [piece EXCEPT ![p] = "AWAITING_APPROVAL"]
          /\ readyFor' = readyFor \cup {p}
          /\ MoveDelivery(x, next, p)
       \/ /\ p \in consumed
          /\ MoveDelivery(x, "done", p)
          /\ UNCHANGED <<consumed, batches, piece, readyFor>>
  /\ UNCHANGED <<cycleVars, jobs, rerun, failedFor, approval, decided>>

(* Mutant: a failure is logged only.                                                *)
LogFailure(x) == delivery[x].pc = "failing" /\ Proceed(x, "done")

(* ContentGenerationFailed.                                                         *)
EmitFailure(x) == /\ delivery[x].pc = "failing"
                  /\ failedFor' = failedFor \cup {delivery[x].event}
                  /\ MoveDelivery(x, "done", delivery[x].event)
                  /\ UNCHANGED <<cycleVars, jobs, rerun, consumed, batches, readyFor, pieceVars>>
--------------------------------------------------------------------------------
MoveApproval(a, pc, p, seen, row) ==
  approval' = [approval EXCEPT ![a] = [pc |-> pc, piece |-> p, seen |-> seen, row |-> row]]

(* Mutant: CONTENT_PIECE_NOT_FOUND is not tested.                                   *)
LoadAny(a, p) == /\ approval[a].pc = "idle"
                 /\ MoveApproval(a, "loaded", p, piece[p], NoRow)
                 /\ UNCHANGED <<cycleVars, contentVars, piece, decided>>

(* ApprovalController.loadPiece.                                                    *)
LoadPiece(a, p) == /\ approval[a].pc = "idle" /\ piece[p] # "none"
                   /\ MoveApproval(a, "loaded", p, piece[p], NoRow)
                   /\ UNCHANGED <<cycleVars, contentVars, piece, decided>>

(* cycleRepo.findById, on another connection and without a lock.                    *)
ReadCycle(a) == /\ approval[a].pc = "loaded"
                /\ MoveApproval(a, "read", approval[a].piece, approval[a].seen, cycle[run[approval[a].piece].cycle])
                /\ UNCHANGED <<cycleVars, contentVars, piece, decided>>

(* approveContent, editAndApproveContent, rejectContent on the piece as it was      *)
(* loaded; the whole cycle row as it was read, the piece and the event are saved.   *)
Decide(a, d) == /\ approval[a].pc = "read"
                /\ approval[a].seen = "AWAITING_APPROVAL"
                /\ LET p == approval[a].piece IN
                     /\ cycle' = [cycle EXCEPT ![run[p].cycle] = approval[a].row]
                     /\ piece' = [piece EXCEPT ![p] = d]
                     /\ decided' = decided \cup {<<p, a, d>>}
                /\ MoveApproval(a, "idle", NoRun, "none", NoRow)
                /\ UNCHANGED <<active, brief, clock, trigger, run, contentVars>>

(* PIECE_ALREADY_DECIDED, EDITS_REQUIRED, or an error: nothing is saved.            *)
DecideFails(a) == /\ approval[a].pc = "read"
                  /\ MoveApproval(a, "idle", NoRun, "none", NoRow)
                  /\ UNCHANGED <<cycleVars, contentVars, piece, decided>>
--------------------------------------------------------------------------------
TriggerStep(r) == DeriveNumber(r) \/ StartFails(r) \/ \E c \in Cycles : StartCycle(r, c)

RunStep(p) == \/ \E c \in Cycles : EnqueuePipeline(p, c)
              \/ \E kind \in {"main", "fallback"} : PipelineDrafts(p, kind)
              \/ PipelineGivesUp(p) \/ BeginCommit(p) \/ CommitBrief(p)

DeliveryWork(x) == \/ Precheck(x) \/ Produce(x) \/ ProduceFails(x) \/ EmitFailure(x)
                   \/ \E next \in {"done", "failing"} : Persist(x, next)

DeliveryStep(x) == \/ \E p \in Runs : EnqueueDelivery(x, p)
                   \/ \E y \in Deliveries : RerunStalled(x, y)
                   \/ DeliveryWork(x) \/ JobFails(x)

ApprovalStep(a) == \/ \E p \in Runs : LoadPiece(a, p)
                   \/ ReadCycle(a) \/ DecideFails(a)
                   \/ \E d \in Decisions : Decide(a, d)

Next == \/ ChangeFounder
        \/ \E r \in Triggers : TriggerStep(r)
        \/ \E p \in Runs : RunStep(p)
        \/ \E x \in Deliveries : DeliveryStep(x)
        \/ \E a \in Approvers : ApprovalStep(a)

Spec == Init /\ [][Next]_vars

FirstRun(c) == (\A p \in Runs : run[p].cycle # c) /\ \E p \in Runs : EnqueuePipeline(p, c)

(* The relay delivers an event until the subscriber has enqueued the job, and a     *)
(* worker that runs a job goes on: every call it waits for has a timeout.           *)
Fairness == /\ \A p \in Runs : WF_vars(\E x \in Deliveries : EnqueueDelivery(x, p))
            /\ \A p \in Runs : /\ WF_vars(\E kind \in {"main", "fallback"} : PipelineDrafts(p, kind))
                               /\ WF_vars(BeginCommit(p)) /\ WF_vars(CommitBrief(p))
            /\ \A c \in Cycles : WF_vars(FirstRun(c))
            /\ \A x \in Deliveries : WF_vars(DeliveryWork(x))

FairSpec == Spec /\ Fairness
--------------------------------------------------------------------------------
Kinds == {"none", "main", "fallback"}

CycleRows == [status : {"none", "PENDING"} \cup Finished, number : Nat, committedAt : Nat]

RunRows == [pc : {"free", "queued", "drafted", "committing", "committed", "gone"},
            cycle : Cycles \cup {NoCycle}, brief : Kinds, at : Nat]

DeliveryRows == [pc : {"free", "queued", "producing", "persisting", "failing", "done", "gone"},
                 event : Runs \cup {NoRun}]

PieceStates == {"none", "AWAITING_APPROVAL"} \cup Decisions

ApprovalRows == [pc : {"idle", "loaded", "read"}, piece : Runs \cup {NoRun},
                 seen : PieceStates, row : CycleRows]

TypeOK ==
  /\ active \in BOOLEAN
  /\ cycle \in [Cycles -> CycleRows]
  /\ brief \in [Cycles -> Kinds]
  /\ clock \in Nat
  /\ trigger \in [Triggers -> Nat]
  /\ run \in [Runs -> RunRows]
  /\ jobs \subseteq Runs /\ rerun \subseteq Runs
  /\ delivery \in [Deliveries -> DeliveryRows]
  /\ consumed \subseteq Runs
  /\ batches \in [Runs -> Nat]
  /\ readyFor \subseteq Runs /\ failedFor \subseteq Runs
  /\ piece \in [Runs -> PieceStates]
  /\ approval \in [Approvers -> ApprovalRows]
  /\ decided \subseteq Runs \X Approvers \X Decisions

(* The cycles of a founder are numbered 1, 2, 3, ..., each number once, and only the *)
(* newest can be unfinished: the CYCLE_ALREADY_RUNNING test never fires (PENDING is  *)
(* not among its states), the numbers derived from history keep the promise.         *)
Numbering == \A c \in Rows :
                /\ cycle[c].number > 0
                /\ \A n \in 1 .. cycle[c].number : NumberTaken(n)
                /\ \A d \in Rows \ {c} : /\ cycle[d].number # cycle[c].number
                                         /\ cycle[c].number < cycle[d].number => c \in Committed

(* Once a brief is committed the cycle stays finished and keeps its number and its   *)
(* brief, though every handler that saves a cycle overwrites the whole row with what *)
(* it has read before, outside its transaction.                                      *)
CommittedStays == [][\A c \in Committed : /\ cycle'[c].status \in Finished
                                          /\ cycle'[c].number = cycle[c].number
                                          /\ brief'[c] # "none"]_vars

(* A (Fallback)BriefCommitted event has one batch of pieces or none, whatever is     *)
(* delivered or rerun, and exactly when it is consumed and ContentReadyForReview is  *)
(* announced.                                                                        *)
ContentOnce == \A p \in Runs : /\ batches[p] = IF p \in consumed THEN 1 ELSE 0
                               /\ p \in consumed <=> p \in readyFor
                               /\ p \in consumed <=> piece[p] # "none"

(* Whatever has content, or is decided, is the content of a committed brief.         *)
ContentOfBrief == \A p \in Runs : p \in consumed \cup failedFor \cup jobs =>
                     run[p].pc = "committed" /\ run[p].cycle \in Committed /\ brief[run[p].cycle] # "none"

(* Content delivery handles its events once.                                         *)
Once == INSTANCE OnceOnly WITH Events <- Runs, effects <- batches,
                               announced <- {p \in Runs : run[p].pc = "committed"}
ImplementsOnceOnly == Once!Spec

(* The inductive invariant.                                                          *)
TriggersBacked == \A r \in Triggers : trigger[r] > 1 => \E c \in Committed : cycle[c].number = trigger[r] - 1

RunsBacked == \A p \in Runs :
                 /\ run[p].pc # "free" => run[p].cycle \in Rows
                 /\ run[p].pc \in {"drafted", "committing", "committed"} => run[p].brief # "none"
                 /\ run[p].pc = "committed" => run[p].cycle \in Committed

BriefsBacked == \A c \in Cycles : brief[c] # "none" <=> c \in Committed

DeliveriesBacked == \A x \in Deliveries : delivery[x].pc # "free" => delivery[x].event \in jobs

ApprovalsBacked == \A a \in Approvers :
                      /\ approval[a].pc # "idle" => approval[a].piece \in consumed
                      /\ approval[a].pc = "read" =>
                            LET c == run[approval[a].piece].cycle IN
                              approval[a].row.status \in Finished /\ approval[a].row.number = cycle[c].number

CycleInv == /\ TypeOK /\ Numbering /\ ContentOnce /\ ContentOfBrief
            /\ TriggersBacked /\ RunsBacked /\ BriefsBacked /\ DeliveriesBacked /\ ApprovalsBacked

Answered(p) == p \in readyFor \cup failedFor

(* A committed brief is answered with content or with a failure, unless a job for it *)
(* broke off outside its error handling or its worker died twice.                    *)
BriefAnswered == \A p \in Runs : run[p].pc = "committed" ~>
                    Answered(p) \/ \E x \in Deliveries : delivery[x] = [pc |-> "gone", event |-> p]

--------------------------------------------------------------------------------
(* What the repository says and the code does not do                                *)

(* A content piece that has been approved or rejected is not decided again.          *)
DecidedOnce == \A s, t \in decided : s[1] = t[1] => s = t

(* A failing pipeline falls back, so that the cycle still ends.                      *)
CycleEnds == \A c \in Cycles : c \in Rows ~> c \in Committed
================================================================================
