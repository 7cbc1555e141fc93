-------------------------- MODULE WeeklyCycleProofs --------------------------
(* The weekly cycle: its numbering, the permanence of what is committed, and that   *)
(* content delivery handles an event once, for any number of cycles, triggers, jobs *)
(* and requests.                                                                    *)
EXTENDS WeeklyCycle, TLAPS

USE CycleAssumption DEF CycleAssumption

--------------------------------------------------------------------------------
(* Which actions write which variable.                                              *)
LEMMA WhoWrites ==
  ASSUME [Next]_vars
  PROVE  /\ \/ UNCHANGED <<cycle, brief>>
            \/ \E r \in Triggers, c \in Cycles : StartCycle(r, c)
            \/ \E p \in Runs : CommitBrief(p)
            \/ \E a \in Approvers, d \in Decisions : Decide(a, d)
         /\ \/ UNCHANGED trigger
            \/ \E r \in Triggers : TriggerStep(r)
         /\ \/ UNCHANGED run
            \/ \E p \in Runs : RunStep(p)
         /\ \/ UNCHANGED <<jobs, delivery>>
            \/ \E x \in Deliveries : DeliveryStep(x)
         /\ \/ UNCHANGED <<consumed, batches, readyFor>>
            \/ \E x \in Deliveries, next \in {"done", "failing"} : Persist(x, next)
         /\ \/ UNCHANGED failedFor
            \/ \E x \in Deliveries : EmitFailure(x)
         /\ \/ UNCHANGED piece
            \/ \E x \in Deliveries, next \in {"done", "failing"} : Persist(x, next)
            \/ \E a \in Approvers, d \in Decisions : Decide(a, d)
         /\ \/ UNCHANGED approval
            \/ \E a \in Approvers : ApprovalStep(a)
<1>1. CASE UNCHANGED vars
  BY <1>1 DEF vars, cycleVars, contentVars, pieceVars
<1>2. CASE ChangeFounder
  BY <1>2 DEF ChangeFounder, contentVars, pieceVars
<1>3. ASSUME NEW r \in Triggers, TriggerStep(r)
      PROVE  /\ UNCHANGED <<brief, run, jobs, delivery, consumed, batches, readyFor, failedFor, piece, approval>>
             /\ UNCHANGED cycle \/ \E c \in Cycles : StartCycle(r, c)
  BY <1>3 DEF TriggerStep, DeriveNumber, StartFails, StartCycle, contentVars, pieceVars
<1>4. ASSUME NEW p \in Runs, RunStep(p)
      PROVE  /\ UNCHANGED <<trigger, jobs, delivery, consumed, batches, readyFor, failedFor, piece, approval>>
             /\ UNCHANGED <<cycle, brief>> \/ CommitBrief(p)
  BY <1>4 DEF RunStep, EnqueuePipeline, PipelineDrafts, PipelineGivesUp, BeginCommit, CommitBrief,
              contentVars, pieceVars
<1>5. ASSUME NEW x \in Deliveries, DeliveryStep(x)
      PROVE  /\ UNCHANGED <<cycle, brief, trigger, run, approval>>
             /\ \/ UNCHANGED <<consumed, batches, readyFor, piece>>
                \/ \E next \in {"done", "failing"} : Persist(x, next)
             /\ UNCHANGED failedFor \/ EmitFailure(x)
  <2>1. CASE (\E p \in Runs : EnqueueDelivery(x, p)) \/ (\E y \in Deliveries : RerunStalled(x, y))
    BY <2>1 DEF EnqueueDelivery, RerunStalled, cycleVars, pieceVars
  <2>2. CASE Precheck(x) \/ Produce(x) \/ ProduceFails(x) \/ JobFails(x)
    BY <2>2 DEF Precheck, Produce, ProduceFails, JobFails, Proceed, cycleVars, pieceVars
  <2>3. CASE EmitFailure(x)
    BY <2>3 DEF EmitFailure, cycleVars, pieceVars
  <2>4. CASE \E next \in {"done", "failing"} : Persist(x, next)
    BY <2>4 DEF Persist, cycleVars
  <2> QED BY <1>5, <2>1, <2>2, <2>3, <2>4 DEF DeliveryStep, DeliveryWork
<1>6. ASSUME NEW a \in Approvers, ApprovalStep(a)
      PROVE  /\ UNCHANGED <<trigger, run, jobs, delivery, consumed, batches, readyFor, failedFor>>
             /\ UNCHANGED <<cycle, brief, piece>> \/ \E d \in Decisions : Decide(a, d)
  BY <1>6 DEF ApprovalStep, LoadPiece, ReadCycle, Decide, DecideFails, cycleVars, contentVars
<1> QED BY <1>1, <1>2, <1>3, <1>4, <1>5, <1>6 DEF Next
--------------------------------------------------------------------------------
(* Types.                                                                           *)
LEMMA FieldTypes ==
  ASSUME TypeOK
  PROVE  /\ \A c \in Cycles : /\ cycle[c] \in CycleRows
                              /\ cycle[c].status \in {"none", "PENDING"} \cup Finished
                              /\ cycle[c].number \in Nat /\ cycle[c].committedAt \in Nat
         /\ \A p \in Runs : /\ run[p].cycle \in Cycles \cup {NoCycle}
                            /\ run[p].brief \in Kinds /\ run[p].at \in Nat
         /\ \A x \in Deliveries : delivery[x].event \in Runs \cup {NoRun}
         /\ \A a \in Approvers : /\ approval[a].piece \in Runs \cup {NoRun}
                                 /\ approval[a].seen \in PieceStates
                                 /\ approval[a].row \in CycleRows
         /\ NoRow \in CycleRows
BY DEF TypeOK, CycleRows, RunRows, DeliveryRows, ApprovalRows, NoRow

LEMMA MoveRunType ==
  ASSUME TypeOK, NEW p \in Runs, NEW pc \in {"drafted", "committing", "committed", "gone"},
         NEW kind \in Kinds, NEW at \in Nat, MoveRun(p, pc, kind, at)
  PROVE  run' \in [Runs -> RunRows]
<1>1. [pc |-> pc, cycle |-> run[p].cycle, brief |-> kind, at |-> at] \in RunRows
  BY FieldTypes DEF RunRows
<1> QED BY <1>1 DEF MoveRun, TypeOK

LEMMA MoveDeliveryType ==
  ASSUME TypeOK, NEW x \in Deliveries, NEW p \in Runs \cup {NoRun},
         NEW pc \in {"queued", "producing", "persisting", "failing", "done", "gone"},
         MoveDelivery(x, pc, p)
  PROVE  delivery' \in [Deliveries -> DeliveryRows]
<1>1. [pc |-> pc, event |-> p] \in DeliveryRows
  BY DEF DeliveryRows
<1> QED BY <1>1 DEF MoveDelivery, TypeOK

LEMMA MoveApprovalType ==
  ASSUME TypeOK, NEW a \in Approvers, NEW p \in Runs \cup {NoRun}, NEW pc \in {"idle", "loaded", "read"},
         NEW seen \in PieceStates, NEW row \in CycleRows, MoveApproval(a, pc, p, seen, row)
  PROVE  approval' \in [Approvers -> ApprovalRows]
<1>1. [pc |-> pc, piece |-> p, seen |-> seen, row |-> row] \in ApprovalRows
  BY DEF ApprovalRows
<1> QED BY <1>1 DEF MoveApproval, TypeOK

LEMMA TriggerTypes ==
  ASSUME CycleInv, NEW r \in Triggers, TriggerStep(r)
  PROVE  TypeOK'
<1> USE FieldTypes DEF CycleInv
<1>1. CASE DeriveNumber(r)
  BY <1>1 DEF DeriveNumber, LastCommitted, Committed, TypeOK, contentVars, pieceVars
<1>2. ASSUME NEW c \in Cycles, StartCycle(r, c)
      PROVE  TypeOK'
  <2>1. [status |-> "PENDING", number |-> trigger[r], committedAt |-> 0] \in CycleRows
    BY DEF CycleRows, TypeOK
  <2> QED BY <1>2, <2>1 DEF StartCycle, TypeOK, contentVars, pieceVars
<1>3. CASE StartFails(r)
  BY <1>3 DEF StartFails, TypeOK, contentVars, pieceVars
<1> QED BY <1>1, <1>2, <1>3 DEF TriggerStep

LEMMA RunTypes ==
  ASSUME CycleInv, NEW p \in Runs, RunStep(p)
  PROVE  TypeOK'
<1> USE FieldTypes DEF CycleInv
<1>1. ASSUME NEW c \in Cycles, EnqueuePipeline(p, c)
      PROVE  TypeOK'
  <2>1. [pc |-> "queued", cycle |-> c, brief |-> "none", at |-> 0] \in RunRows
    BY DEF RunRows, Kinds
  <2> QED BY <1>1, <2>1 DEF EnqueuePipeline, TypeOK, contentVars, pieceVars
<1>2. ASSUME NEW kind \in {"main", "fallback"}, PipelineDrafts(p, kind)
      PROVE  TypeOK'
  <2>1. run' \in [Runs -> RunRows]
    BY <1>2, MoveRunType DEF PipelineDrafts, Kinds
  <2> QED BY <1>2, <2>1 DEF PipelineDrafts, TypeOK, contentVars, pieceVars
<1>3. CASE PipelineGivesUp(p)
  <2>1. run' \in [Runs -> RunRows]
    BY <1>3, MoveRunType DEF PipelineGivesUp, Kinds
  <2> QED BY <1>3, <2>1 DEF PipelineGivesUp, TypeOK, contentVars, pieceVars
<1>4. CASE BeginCommit(p)
  <2>1. clock + 1 \in Nat
    BY DEF TypeOK
  <2>2. run' \in [Runs -> RunRows]
    BY <1>4, <2>1, MoveRunType DEF BeginCommit
  <2> QED BY <1>4, <2>1, <2>2 DEF BeginCommit, TypeOK, contentVars, pieceVars
<1>5. CASE CommitBrief(p)
  <2> DEFINE c == run[p].cycle
  <2>1. c \in Cycles
    BY <1>5 DEF CommitBrief, RunsBacked, Rows
  <2>2. [status |-> StatusOf(run[p].brief), number |-> cycle[c].number, committedAt |-> run[p].at] \in CycleRows
    BY <2>1 DEF CycleRows, StatusOf, Finished
  <2>3. run' \in [Runs -> RunRows]
    BY <1>5, MoveRunType DEF CommitBrief
  <2> QED BY <1>5, <2>1, <2>2, <2>3 DEF CommitBrief, TypeOK, contentVars, pieceVars
<1> QED BY <1>1, <1>2, <1>3, <1>4, <1>5 DEF RunStep

\* A job that is past the queue is the job of an event.
LEMMA DeliveryEvent ==
  ASSUME CycleInv, NEW x \in Deliveries, delivery[x].pc # "free"
  PROVE  delivery[x].event \in jobs /\ delivery[x].event \in Runs
BY DEF CycleInv, DeliveriesBacked, TypeOK

LEMMA DeliveryTypes ==
  ASSUME CycleInv, NEW x \in Deliveries, DeliveryStep(x)
  PROVE  TypeOK'
<1> USE FieldTypes DEF CycleInv
<1>1. ASSUME NEW p \in Runs, EnqueueDelivery(x, p)
      PROVE  TypeOK'
  <2>1. delivery' \in [Deliveries -> DeliveryRows]
    BY <1>1, MoveDeliveryType DEF EnqueueDelivery
  <2> QED BY <1>1, <2>1 DEF EnqueueDelivery, TypeOK, cycleVars, pieceVars
<1>2. ASSUME NEW y \in Deliveries, RerunStalled(x, y)
      PROVE  TypeOK'
  <2>1. delivery[y].event \in Runs
    BY <1>2, DeliveryEvent DEF RerunStalled, Running
  <2>2. delivery' \in [Deliveries -> DeliveryRows]
    BY <1>2, MoveDeliveryType DEF RerunStalled
  <2> QED BY <1>2, <2>1, <2>2 DEF RerunStalled, TypeOK, cycleVars, pieceVars
<1>3. ASSUME NEW pc \in {"producing", "persisting", "failing", "done", "gone"}, Proceed(x, pc)
      PROVE  TypeOK'
  <2>1. delivery' \in [Deliveries -> DeliveryRows]
    BY <1>3, MoveDeliveryType DEF Proceed
  <2> QED BY <1>3, <2>1 DEF Proceed, TypeOK, cycleVars, pieceVars
<1>4. CASE EmitFailure(x)
  <2>1. delivery[x].event \in Runs
    BY <1>4, DeliveryEvent DEF EmitFailure
  <2>2. delivery' \in [Deliveries -> DeliveryRows]
    BY <1>4, MoveDeliveryType DEF EmitFailure
  <2> QED BY <1>4, <2>1, <2>2 DEF EmitFailure, TypeOK, cycleVars, pieceVars
<1>5. ASSUME NEW next \in {"done", "failing"}, Persist(x, next)
      PROVE  TypeOK'
  <2>1. delivery[x].event \in Runs
    BY <1>5, DeliveryEvent DEF Persist
  <2>2. delivery' \in [Deliveries -> DeliveryRows]
    BY <1>5, MoveDeliveryType DEF Persist
  <2>3. /\ consumed' \subseteq Runs /\ readyFor' \subseteq Runs
        /\ batches' \in [Runs -> Nat] /\ piece' \in [Runs -> PieceStates]
    BY <1>5, <2>1 DEF Persist, TypeOK, PieceStates
  <2> QED BY <1>5, <2>2, <2>3 DEF Persist, TypeOK, cycleVars
<1> QED BY <1>1, <1>2, <1>3, <1>4, <1>5
        DEF DeliveryStep, DeliveryWork, Precheck, Produce, ProduceFails, JobFails

\* A request that has loaded a piece has loaded one that was written.
LEMMA ApprovalPiece ==
  ASSUME CycleInv, NEW a \in Approvers, approval[a].pc # "idle"
  PROVE  /\ approval[a].piece \in consumed /\ approval[a].piece \in Runs
         /\ run[approval[a].piece].cycle \in Committed
         /\ run[approval[a].piece].cycle \in Cycles
BY DEF CycleInv, ApprovalsBacked, TypeOK, ContentOfBrief, Committed

LEMMA ApprovalTypes ==
  ASSUME CycleInv, NEW a \in Approvers, ApprovalStep(a)
  PROVE  TypeOK'
<1> USE FieldTypes DEF CycleInv
<1>1. ASSUME NEW p \in Runs, LoadPiece(a, p)
      PROVE  TypeOK'
  <2>1. piece[p] \in PieceStates
    BY DEF TypeOK
  <2>2. approval' \in [Approvers -> ApprovalRows]
    BY <1>1, <2>1, MoveApprovalType DEF LoadPiece
  <2> QED BY <1>1, <2>2 DEF LoadPiece, TypeOK, cycleVars, contentVars
<1>2. CASE ReadCycle(a)
  <2>1. approval' \in [Approvers -> ApprovalRows]
    BY <1>2, ApprovalPiece, MoveApprovalType DEF ReadCycle
  <2> QED BY <1>2, <2>1 DEF ReadCycle, TypeOK, cycleVars, contentVars
<1>3. CASE DecideFails(a)
  <2>1. approval' \in [Approvers -> ApprovalRows]
    BY <1>3, MoveApprovalType DEF DecideFails, PieceStates
  <2> QED BY <1>3, <2>1 DEF DecideFails, TypeOK, cycleVars, contentVars
<1>4. ASSUME NEW d \in Decisions, Decide(a, d)
      PROVE  TypeOK'
  <2>1. approval' \in [Approvers -> ApprovalRows]
    BY <1>4, MoveApprovalType DEF Decide, PieceStates
  <2>2. cycle' \in [Cycles -> CycleRows] /\ piece' \in [Runs -> PieceStates]
    BY <1>4, ApprovalPiece DEF Decide, TypeOK, PieceStates
  <2>3. decided' \subseteq Runs \X Approvers \X Decisions
    BY <1>4, ApprovalPiece DEF Decide, TypeOK
  <2> QED BY <1>4, <2>1, <2>2, <2>3 DEF Decide, TypeOK, contentVars
<1> QED BY <1>1, <1>2, <1>3, <1>4 DEF ApprovalStep

LEMMA TypesKept ==
  ASSUME CycleInv, [Next]_vars
  PROVE  TypeOK'
<1>1. CASE UNCHANGED vars
  BY <1>1 DEF CycleInv, TypeOK, vars, cycleVars, contentVars, pieceVars
<1>2. CASE ChangeFounder
  BY <1>2 DEF ChangeFounder, CycleInv, TypeOK, contentVars, pieceVars
<1> QED BY <1>1, <1>2, TriggerTypes, RunTypes, DeliveryTypes, ApprovalTypes DEF Next
--------------------------------------------------------------------------------
(* What never goes back.                                                            *)
LEMMA RowsKept ==
  ASSUME CycleInv, [Next]_vars
  PROVE  /\ \A c \in Rows : cycle'[c].status # "none" /\ cycle'[c].number = cycle[c].number
         /\ \A c \in Committed : cycle'[c].status \in Finished /\ brief'[c] # "none"
<1> USE DEF Rows, Committed, Finished
<1>0. cycle \in [Cycles -> CycleRows] /\ brief \in [Cycles -> Kinds]
  BY DEF CycleInv, TypeOK
<1>1. CASE UNCHANGED <<cycle, brief>>
  BY <1>1 DEF CycleInv, BriefsBacked
<1>2. ASSUME NEW r \in Triggers, NEW c \in Cycles, StartCycle(r, c)
      PROVE  /\ \A d \in Rows : cycle'[d] = cycle[d]
             /\ UNCHANGED brief
  BY <1>0, <1>2 DEF StartCycle
<1>3. ASSUME NEW p \in Runs, CommitBrief(p)
      PROVE  /\ \A d \in Rows : cycle'[d].status # "none" /\ cycle'[d].number = cycle[d].number
             /\ \A d \in Committed : cycle'[d].status \in Finished /\ brief'[d] # "none"
  <2>1. run[p].brief # "none" /\ run[p].cycle \in Rows
    BY <1>3 DEF CommitBrief, CycleInv, RunsBacked
  <2> QED BY <1>0, <1>3, <2>1 DEF CommitBrief, StatusOf, CycleInv, BriefsBacked
<1>4. ASSUME NEW a \in Approvers, NEW d \in Decisions, Decide(a, d)
      PROVE  /\ \A e \in Rows : cycle'[e].status # "none" /\ cycle'[e].number = cycle[e].number
             /\ \A e \in Committed : cycle'[e].status \in Finished
             /\ UNCHANGED brief
  <2>1. /\ approval[a].row.status \in Finished
        /\ approval[a].row.number = cycle[run[approval[a].piece].cycle].number
    BY <1>4 DEF Decide, CycleInv, ApprovalsBacked
  <2> QED BY <1>0, <1>4, <2>1 DEF Decide
<1>5. \A c \in Committed : brief[c] # "none"
  BY DEF CycleInv, BriefsBacked
<1> QED BY <1>1, <1>2, <1>3, <1>4, <1>5, WhoWrites

LEMMA RunsKept ==
  ASSUME CycleInv, [Next]_vars
  PROVE  \A p \in Runs : /\ run[p].pc # "free" => run'[p].pc # "free" /\ run'[p].cycle = run[p].cycle
                         /\ run[p].pc = "committed" => run'[p].pc = "committed"
<1>0. run \in [Runs -> RunRows]
  BY DEF CycleInv, TypeOK
<1>1. CASE UNCHANGED run
  BY <1>1
<1>2. ASSUME NEW p \in Runs, RunStep(p)
      PROVE  \A q \in Runs : /\ run[q].pc # "free" => run'[q].pc # "free" /\ run'[q].cycle = run[q].cycle
                             /\ run[q].pc = "committed" => run'[q].pc = "committed"
  BY <1>0, <1>2 DEF RunStep, EnqueuePipeline, PipelineDrafts, PipelineGivesUp, BeginCommit, CommitBrief, MoveRun
<1> QED BY <1>1, <1>2, WhoWrites

LEMMA EventsKept ==
  ASSUME CycleInv, [Next]_vars
  PROVE  jobs \subseteq jobs' /\ consumed \subseteq consumed'
<1>1. ASSUME NEW x \in Deliveries, DeliveryStep(x)
      PROVE  jobs \subseteq jobs'
  BY <1>1 DEF DeliveryStep, DeliveryWork, EnqueueDelivery, RerunStalled, Precheck, Produce, ProduceFails,
              JobFails, EmitFailure, Persist, Proceed
<1>2. ASSUME NEW x \in Deliveries, NEW next \in {"done", "failing"}, Persist(x, next)
      PROVE  consumed \subseteq consumed'
  BY <1>2 DEF Persist
<1> QED BY <1>1, <1>2, WhoWrites
--------------------------------------------------------------------------------
(* The numbers.                                                                     *)

\* A step that keeps the rows and starts no cycle keeps the numbering.
LEMMA NumberingKept ==
  ASSUME Numbering,
         \A c \in Cycles : cycle'[c].status # "none" <=> c \in Rows,
         \A c \in Rows : cycle'[c].number = cycle[c].number,
         \A c \in Committed : cycle'[c].status \in Finished
  PROVE  Numbering'
BY DEF Numbering, NumberTaken, Rows, Committed

LEMMA NumberingStep ==
  ASSUME CycleInv, [Next]_vars
  PROVE  Numbering'
<1>0. cycle \in [Cycles -> CycleRows]
  BY DEF CycleInv, TypeOK
<1>1. CASE UNCHANGED cycle
  BY <1>1 DEF CycleInv, Numbering, NumberTaken, Rows, Committed
<1>2. ASSUME NEW r \in Triggers, NEW c \in Cycles, StartCycle(r, c)
      PROVE  Numbering'
  <2> DEFINE n == trigger[r]
  <2>1. /\ cycle' = [cycle EXCEPT ![c] = [status |-> "PENDING", number |-> n, committedAt |-> 0]]
        /\ c \in Cycles \ Rows /\ n \in Nat \ {0}
        /\ \A d \in Rows : cycle[d].number # n
    BY <1>2 DEF StartCycle, NumberTaken, CycleInv, TypeOK
  <2>2. /\ Rows' = Rows \cup {c} /\ Committed' = Committed
        /\ cycle'[c].number = n /\ \A d \in Rows : cycle'[d] = cycle[d]
    BY <1>0, <2>1 DEF Rows, Committed, Finished
  <2>3. \A d \in Rows : cycle[d].number \in Nat
    BY FieldTypes DEF CycleInv, Rows
  <2>4. n > 1 => \E d \in Committed : d \in Rows /\ cycle[d].number = n - 1
    BY DEF CycleInv, TriggersBacked, Committed, Rows, Finished
  <2>5. \A m \in 1 .. n - 1 : \E d \in Rows : cycle[d].number = m
    <3>1. CASE n = 1
      BY <3>1
    <3>2. CASE n > 1
      BY <3>2, <2>4 DEF CycleInv, Numbering, NumberTaken
    <3> QED BY <2>1, <3>1, <3>2
  <2>6. \A d \in Rows : cycle[d].number < n
    <3> SUFFICES ASSUME NEW d \in Rows, cycle[d].number > n
                 PROVE  FALSE
      BY <2>1, <2>3
    <3>1. n \in 1 .. cycle[d].number
      BY <2>1, <2>3
    <3> QED BY <3>1, <2>1 DEF CycleInv, Numbering, NumberTaken
  <2>7. \A d \in Rows : d \in Committed
    <3> SUFFICES ASSUME NEW d \in Rows
                 PROVE  d \in Committed
      OBVIOUS
    <3>1. n > 1
      BY <2>1, <2>3, <2>6 DEF CycleInv, Numbering
    <3>2. PICK e \in Committed : e \in Rows /\ cycle[e].number = n - 1
      BY <3>1, <2>4
    <3>3. CASE d = e
      BY <3>2, <3>3
    <3>4. CASE d # e
      <4>1. cycle[d].number # n - 1
        BY <3>2, <3>4 DEF CycleInv, Numbering
      <4>2. cycle[d].number < cycle[e].number
        BY <4>1, <3>2, <2>1, <2>3, <2>6
      <4> QED BY <4>2, <3>2, <3>4 DEF CycleInv, Numbering
    <3> QED BY <3>3, <3>4
  <2>8. ASSUME NEW b \in Rows'
        PROVE  /\ cycle'[b].number > 0
               /\ \A m \in 1 .. cycle'[b].number : \E d \in Rows' : cycle'[d].number = m
    <3>1. CASE b = c
      BY <3>1, <2>1, <2>2, <2>5
    <3>2. CASE b \in Rows
      BY <3>2, <2>2 DEF CycleInv, Numbering, NumberTaken
    <3> QED BY <2>8, <2>2, <3>1, <3>2
  <2>9. ASSUME NEW b \in Rows', NEW d \in Rows' \ {b}
        PROVE  /\ cycle'[d].number # cycle'[b].number
               /\ cycle'[b].number < cycle'[d].number => b \in Committed'
    <3>1. CASE b = c
      BY <3>1, <2>1, <2>2, <2>3, <2>6
    <3>2. CASE b \in Rows /\ d = c
      BY <3>2, <2>1, <2>2, <2>7
    <3>3. CASE b \in Rows /\ d \in Rows
      BY <3>3, <2>2 DEF CycleInv, Numbering
    <3> QED BY <2>9, <2>2, <3>1, <3>2, <3>3
  <2> QED BY <2>8, <2>9 DEF Numbering, NumberTaken
<1>3. ASSUME NEW p \in Runs, CommitBrief(p)
      PROVE  \A c \in Cycles : cycle'[c].status # "none" <=> c \in Rows
  BY <1>0, <1>3, RowsKept DEF CommitBrief, Rows, CycleInv, RunsBacked
<1>4. ASSUME NEW a \in Approvers, NEW d \in Decisions, Decide(a, d)
      PROVE  \A c \in Cycles : cycle'[c].status # "none" <=> c \in Rows
  <2>1. run[approval[a].piece].cycle \in Rows
    BY <1>4, ApprovalPiece DEF Decide, Committed, Rows, Finished
  <2> QED BY <1>0, <1>4, <2>1, RowsKept DEF Decide, Rows
<1>5. CASE \A c \in Cycles : cycle'[c].status # "none" <=> c \in Rows
  BY <1>5, RowsKept, NumberingKept DEF CycleInv
<1> QED BY <1>1, <1>2, <1>3, <1>4, <1>5, WhoWrites

LEMMA TriggersStep ==
  ASSUME CycleInv, [Next]_vars
  PROVE  TriggersBacked'
<1>0. trigger \in [Triggers -> Nat]
  BY DEF CycleInv, TypeOK
<1>1. \A c \in Committed : c \in Committed' /\ cycle'[c].number = cycle[c].number
  BY RowsKept DEF Committed, Rows, Finished
<1>2. CASE UNCHANGED trigger
  BY <1>1, <1>2 DEF CycleInv, TriggersBacked
<1>3. ASSUME NEW r \in Triggers, TriggerStep(r)
      PROVE  TriggersBacked'
  <2>1. CASE DeriveNumber(r)
    BY <1>0, <1>1, <2>1, FieldTypes DEF DeriveNumber, LastCommitted, CycleInv, TriggersBacked
  <2>2. CASE StartFails(r) \/ \E c \in Cycles : StartCycle(r, c)
    BY <1>0, <1>1, <2>2 DEF StartFails, StartCycle, CycleInv, TriggersBacked
  <2> QED BY <1>3, <2>1, <2>2 DEF TriggerStep
<1> QED BY <1>2, <1>3, WhoWrites
--------------------------------------------------------------------------------
(* The rows and processes behind one another.                                       *)
LEMMA RunsStep ==
  ASSUME CycleInv, [Next]_vars
  PROVE  RunsBacked'
<1>0. run \in [Runs -> RunRows] /\ cycle \in [Cycles -> CycleRows]
  BY DEF CycleInv, TypeOK
<1>1. /\ \A c \in Rows : c \in Rows'
      /\ \A c \in Committed : c \in Committed'
  BY RowsKept DEF Rows, Committed
<1>2. CASE UNCHANGED run
  BY <1>1, <1>2 DEF CycleInv, RunsBacked
<1>3. ASSUME NEW p \in Runs, RunStep(p)
      PROVE  RunsBacked'
  <2>1. ASSUME NEW q \in Runs \ {p}
        PROVE  run'[q] = run[q]
    BY <1>0, <1>3 DEF RunStep, EnqueuePipeline, PipelineDrafts, PipelineGivesUp, BeginCommit, CommitBrief, MoveRun
  <2>2. /\ run'[p].cycle \in Rows
        /\ run'[p].pc \in {"drafted", "committing", "committed"} => run'[p].brief # "none"
    BY <1>0, <1>3 DEF RunStep, EnqueuePipeline, PipelineDrafts, PipelineGivesUp, BeginCommit, CommitBrief,
                      MoveRun, CycleInv, RunsBacked
  <2>3. run'[p].pc = "committed" => run'[p].cycle \in Committed'
    <3>1. CASE CommitBrief(p)
      BY <1>0, <3>1 DEF CommitBrief, MoveRun, CycleInv, RunsBacked, Rows, Committed, StatusOf, Finished
    <3>2. CASE ~CommitBrief(p)
      BY <1>0, <1>3, <3>2 DEF RunStep, EnqueuePipeline, PipelineDrafts, PipelineGivesUp, BeginCommit, MoveRun
    <3> QED BY <3>1, <3>2
  <2> QED BY <1>1, <2>1, <2>2, <2>3 DEF CycleInv, RunsBacked
<1> QED BY <1>2, <1>3, WhoWrites

LEMMA BriefsStep ==
  ASSUME CycleInv, [Next]_vars
  PROVE  BriefsBacked'
<1>0. cycle \in [Cycles -> CycleRows] /\ brief \in [Cycles -> Kinds]
  BY DEF CycleInv, TypeOK
<1>1. CASE UNCHANGED <<cycle, brief>>
  BY <1>1 DEF CycleInv, BriefsBacked, Committed
<1>2. ASSUME NEW r \in Triggers, NEW c \in Cycles, StartCycle(r, c)
      PROVE  BriefsBacked'
  BY <1>0, <1>2 DEF StartCycle, CycleInv, BriefsBacked, Committed, Rows, Finished
<1>3. ASSUME NEW p \in Runs, CommitBrief(p)
      PROVE  BriefsBacked'
  <2>1. run[p].brief # "none" /\ run[p].cycle \in Cycles
    BY <1>3 DEF CommitBrief, CycleInv, RunsBacked, Rows
  <2> QED BY <1>0, <1>3, <2>1 DEF CommitBrief, CycleInv, BriefsBacked, Committed, StatusOf, Finished
<1>4. ASSUME NEW a \in Approvers, NEW d \in Decisions, Decide(a, d)
      PROVE  BriefsBacked'
  <2>1. approval[a].row.status \in Finished
    BY <1>4 DEF Decide, CycleInv, ApprovalsBacked
  <2>2. run[approval[a].piece].cycle \in Committed
    BY <1>4, ApprovalPiece DEF Decide
  <2> QED BY <1>0, <1>4, <2>1, <2>2 DEF Decide, CycleInv, BriefsBacked, Committed
<1> QED BY <1>1, <1>2, <1>3, <1>4, WhoWrites

LEMMA DeliveriesStep ==
  ASSUME CycleInv, [Next]_vars
  PROVE  DeliveriesBacked'
<1>0. delivery \in [Deliveries -> DeliveryRows]
  BY DEF CycleInv, TypeOK
<1>1. CASE UNCHANGED <<jobs, delivery>>
  BY <1>1 DEF CycleInv, DeliveriesBacked
<1>2. ASSUME NEW x \in Deliveries, DeliveryStep(x)
      PROVE  DeliveriesBacked'
  <2>1. ASSUME NEW p \in Runs, EnqueueDelivery(x, p)
        PROVE  DeliveriesBacked'
    BY <1>0, <2>1 DEF EnqueueDelivery, MoveDelivery, CycleInv, DeliveriesBacked
  <2>2. ASSUME NEW y \in Deliveries, RerunStalled(x, y)
        PROVE  DeliveriesBacked'
    <3>1. delivery[y].event \in jobs
      BY <2>2, DeliveryEvent DEF RerunStalled, Running
    <3> QED BY <1>0, <2>2, <3>1 DEF RerunStalled, MoveDelivery, CycleInv, DeliveriesBacked
  <2>3. ASSUME delivery[x].pc # "free", NEW pc, MoveDelivery(x, pc, delivery[x].event), UNCHANGED jobs
        PROVE  DeliveriesBacked'
    BY <1>0, <2>3 DEF MoveDelivery, CycleInv, DeliveriesBacked
  <2>4. CASE Precheck(x) \/ Produce(x) \/ ProduceFails(x) \/ JobFails(x)
    BY <2>3, <2>4 DEF Precheck, Produce, ProduceFails, JobFails, Proceed, Running
  <2>5. CASE EmitFailure(x)
    BY <2>3, <2>5 DEF EmitFailure
  <2>6. ASSUME NEW next \in {"done", "failing"}, Persist(x, next)
        PROVE  DeliveriesBacked'
    BY <2>3, <2>6 DEF Persist
  <2> QED BY <1>2, <2>1, <2>2, <2>4, <2>5, <2>6 DEF DeliveryStep, DeliveryWork
<1> QED BY <1>1, <1>2, WhoWrites

LEMMA ApprovalsStep ==
  ASSUME CycleInv, [Next]_vars
  PROVE  ApprovalsBacked'
<1>0. approval \in [Approvers -> ApprovalRows]
  BY DEF CycleInv, TypeOK
<1>1. CASE UNCHANGED approval
  <2> SUFFICES ASSUME NEW a \in Approvers, approval[a].pc # "idle"
               PROVE  /\ approval[a].piece \in consumed'
                      /\ approval[a].pc = "read" =>
                            /\ approval[a].row.status \in Finished
                            /\ approval[a].row.number = cycle'[run'[approval[a].piece].cycle].number
    BY <1>1 DEF ApprovalsBacked
  <2> DEFINE p == approval[a].piece
  <2>1. p \in consumed /\ p \in Runs /\ run[p].cycle \in Rows /\ run[p].pc = "committed"
    BY ApprovalPiece DEF CycleInv, ContentOfBrief, Committed, Rows, Finished
  <2>2. run'[p].cycle = run[p].cycle
    BY <2>1, RunsKept
  <2>3. cycle'[run[p].cycle].number = cycle[run[p].cycle].number
    BY <2>1, RowsKept
  <2> QED BY <2>1, <2>2, <2>3, EventsKept DEF CycleInv, ApprovalsBacked
<1>2. ASSUME NEW a \in Approvers, ApprovalStep(a)
      PROVE  ApprovalsBacked'
  <2>1. /\ UNCHANGED <<run, consumed>>
        /\ \A b \in Approvers \ {a} : approval'[b] = approval[b]
    BY <1>0, <1>2 DEF ApprovalStep, LoadPiece, ReadCycle, Decide, DecideFails, MoveApproval, cycleVars, contentVars
  <2>2. ASSUME NEW b \in Approvers \ {a}
        PROVE  /\ approval'[b].pc # "idle" => approval'[b].piece \in consumed'
               /\ approval'[b].pc = "read" =>
                     /\ approval'[b].row.status \in Finished
                     /\ approval'[b].row.number = cycle'[run'[approval'[b].piece].cycle].number
    <3>1. approval[b].pc # "idle" =>
            /\ approval[b].piece \in consumed
            /\ run[approval[b].piece].cycle \in Rows
      BY ApprovalPiece DEF Committed, Rows, Finished
    <3> QED BY <2>1, <2>2, <3>1, RowsKept DEF CycleInv, ApprovalsBacked
  <2>3. ASSUME NEW p \in Runs, LoadPiece(a, p)
        PROVE  approval'[a].pc = "loaded" /\ approval'[a].piece \in consumed
    BY <1>0, <2>3 DEF LoadPiece, MoveApproval, CycleInv, ContentOnce
  <2>4. CASE ReadCycle(a)
    <3>1. /\ approval[a].piece \in consumed
          /\ run[approval[a].piece].cycle \in Committed
      BY <2>4, ApprovalPiece DEF ReadCycle
    <3>2. /\ approval'[a].piece = approval[a].piece
          /\ approval'[a].row = cycle[run[approval[a].piece].cycle]
          /\ UNCHANGED cycle
      BY <1>0, <2>4 DEF ReadCycle, MoveApproval, cycleVars
    <3>3. /\ approval'[a].piece \in consumed'
          /\ approval'[a].row.status \in Finished
          /\ approval'[a].row.number = cycle'[run'[approval'[a].piece].cycle].number
      BY <2>1, <3>1, <3>2 DEF Committed
    <3> QED BY <2>2, <3>3 DEF ApprovalsBacked
  <2>5. CASE DecideFails(a) \/ \E d \in Decisions : Decide(a, d)
    <3>1. approval'[a].pc = "idle"
      BY <1>0, <2>5 DEF DecideFails, Decide, MoveApproval
    <3> QED BY <2>2, <3>1 DEF ApprovalsBacked
  <2>6. CASE \E p \in Runs : LoadPiece(a, p)
    BY <2>1, <2>2, <2>3, <2>6 DEF ApprovalsBacked
  <2> QED BY <1>2, <2>4, <2>5, <2>6 DEF ApprovalStep
<1> QED BY <1>1, <1>2, WhoWrites
--------------------------------------------------------------------------------
(* The content of an event.                                                         *)
LEMMA ContentOnceStep ==
  ASSUME CycleInv, [Next]_vars
  PROVE  ContentOnce'
<1>0. batches \in [Runs -> Nat] /\ piece \in [Runs -> PieceStates]
  BY DEF CycleInv, TypeOK
<1>1. CASE UNCHANGED <<consumed, batches, readyFor, piece>>
  BY <1>1 DEF CycleInv, ContentOnce
<1>2. ASSUME NEW x \in Deliveries, NEW next \in {"done", "failing"}, Persist(x, next)
      PROVE  ContentOnce'
  <2>1. delivery[x].event \in Runs
    BY <1>2, DeliveryEvent DEF Persist
  <2> QED BY <1>0, <1>2, <2>1 DEF Persist, CycleInv, ContentOnce
<1>3. ASSUME NEW a \in Approvers, NEW d \in Decisions, Decide(a, d)
      PROVE  ContentOnce'
  <2>1. approval[a].piece \in consumed /\ approval[a].piece \in Runs /\ d # "none"
    BY <1>3, ApprovalPiece DEF Decide, Decisions
  <2> QED BY <1>0, <1>3, <2>1 DEF Decide, contentVars, CycleInv, ContentOnce
<1> QED BY <1>1, <1>2, <1>3, WhoWrites

\* What a committed run has committed stays.
LEMMA CommittedRunKept ==
  ASSUME CycleInv, [Next]_vars, NEW p \in Runs, run[p].pc = "committed", run[p].cycle \in Committed
  PROVE  run'[p].pc = "committed" /\ run'[p].cycle \in Committed' /\ brief'[run'[p].cycle] # "none"
<1>1. run'[p].pc = "committed" /\ run'[p].cycle = run[p].cycle
  BY RunsKept
<1>2. cycle'[run[p].cycle].status \in Finished /\ brief'[run[p].cycle] # "none"
  BY RowsKept
<1>3. run[p].cycle \in Cycles
  BY DEF Committed
<1> QED BY <1>1, <1>2, <1>3 DEF Committed

LEMMA ContentOfBriefStep ==
  ASSUME CycleInv, [Next]_vars
  PROVE  ContentOfBrief'
<1>1. ASSUME NEW p \in Runs, p \in consumed \cup failedFor \cup jobs
      PROVE  run'[p].pc = "committed" /\ run'[p].cycle \in Committed' /\ brief'[run'[p].cycle] # "none"
  <2>1. run[p].pc = "committed" /\ run[p].cycle \in Committed
    BY <1>1 DEF CycleInv, ContentOfBrief
  <2> QED BY <2>1, CommittedRunKept
<1>2. \A p \in (consumed \cup failedFor)' : p \in consumed \cup failedFor \cup jobs
  <2>1. CASE UNCHANGED <<consumed, failedFor>>
    BY <2>1
  <2>2. ASSUME NEW x \in Deliveries, NEW next \in {"done", "failing"}, Persist(x, next)
        PROVE  consumed' \subseteq consumed \cup jobs
    BY <2>2, DeliveryEvent DEF Persist
  <2>3. ASSUME NEW x \in Deliveries, EmitFailure(x)
        PROVE  failedFor' \subseteq failedFor \cup jobs
    BY <2>3, DeliveryEvent DEF EmitFailure
  <2> QED BY <2>1, <2>2, <2>3, WhoWrites
<1>3. ASSUME NEW p \in jobs' \ jobs, p \in Runs
      PROVE  run'[p].pc = "committed" /\ run'[p].cycle \in Committed' /\ brief'[run'[p].cycle] # "none"
  <2>1. PICK x \in Deliveries : DeliveryStep(x)
    BY <1>3, WhoWrites
  <2>2. run[p].pc = "committed"
    BY <1>3, <2>1 DEF DeliveryStep, DeliveryWork, EnqueueDelivery, RerunStalled, Precheck, Produce, ProduceFails,
                      JobFails, EmitFailure, Persist, Proceed
  <2>3. run[p].cycle \in Committed
    BY <1>3, <2>2 DEF CycleInv, RunsBacked
  <2> QED BY <1>3, <2>2, <2>3, CommittedRunKept
<1> QED BY <1>1, <1>2, <1>3 DEF ContentOfBrief
--------------------------------------------------------------------------------
LEMMA CycleInit ==
  ASSUME Init
  PROVE  CycleInv
<1> USE DEF Init, NoRow
<1>1. TypeOK
  BY DEF TypeOK, CycleRows, RunRows, DeliveryRows, ApprovalRows, Kinds, PieceStates
<1>2. Rows = {} /\ Committed = {}
  BY DEF Rows, Committed, Finished
<1> QED BY <1>1, <1>2 DEF CycleInv, Numbering, ContentOnce, ContentOfBrief, TriggersBacked, RunsBacked,
                          BriefsBacked, DeliveriesBacked, ApprovalsBacked

LEMMA CycleStep ==
  ASSUME CycleInv, [Next]_vars
  PROVE  CycleInv'
BY TypesKept, NumberingStep, ContentOnceStep, ContentOfBriefStep, TriggersStep, RunsStep, BriefsStep,
   DeliveriesStep, ApprovalsStep DEF CycleInv

(* Rows, numbers, jobs, content and requests agree in every reachable state.        *)
THEOREM CycleInvariant == Spec => []CycleInv
BY CycleInit, CycleStep, PTL DEF Spec

(* Every variable keeps its type.                                                   *)
THEOREM CycleTypes == Spec => []TypeOK
<1>1. CycleInv => TypeOK
  BY DEF CycleInv
<1> QED BY <1>1, CycleInvariant, PTL

(* A founder's cycles are numbered without gap or repetition, only the newest can be *)
(* unfinished, however many triggers race and in whatever order briefs are committed.*)
THEOREM CycleNumbering == Spec => []Numbering
<1>1. CycleInv => Numbering
  BY DEF CycleInv
<1> QED BY <1>1, CycleInvariant, PTL

(* A committed cycle stays committed, with its number and a brief, though stale rows *)
(* are saved over it.                                                                *)
THEOREM CycleCommittedStays == Spec => CommittedStays
<1>1. CycleInv /\ [Next]_vars =>
        [\A c \in Committed : /\ cycle'[c].status \in Finished
                              /\ cycle'[c].number = cycle[c].number
                              /\ brief'[c] # "none"]_vars
  <2> SUFFICES ASSUME CycleInv, [Next]_vars, NEW c \in Committed
               PROVE  /\ cycle'[c].status \in Finished
                      /\ cycle'[c].number = cycle[c].number
                      /\ brief'[c] # "none"
    OBVIOUS
  <2>1. c \in Rows
    BY DEF Committed, Rows, Finished
  <2> QED BY <2>1, RowsKept
<1> QED BY <1>1, CycleInvariant, PTL DEF Spec, CommittedStays

(* One batch of content per BriefCommitted event, announced exactly if it is there.  *)
THEOREM CycleContentOnce == Spec => []ContentOnce
<1>1. CycleInv => ContentOnce
  BY DEF CycleInv
<1> QED BY <1>1, CycleInvariant, PTL

(* Content, failures and jobs are those of a committed brief.                        *)
THEOREM CycleContentOfBrief == Spec => []ContentOfBrief
<1>1. CycleInv => ContentOfBrief
  BY DEF CycleInv
<1> QED BY <1>1, CycleInvariant, PTL
--------------------------------------------------------------------------------
(* The refinement: a commit announces, a first persist takes effect, the rest        *)
(* stutters.                                                                         *)
CommittedRuns == {p \in Runs : run[p].pc = "committed"}

LEMMA OnceStep ==
  ASSUME CycleInv, [Next]_vars
  PROVE  [Once!Next]_<<CommittedRuns, batches>>
<1> USE DEF CommittedRuns
<1>0. run \in [Runs -> RunRows] /\ batches \in [Runs -> Nat]
  BY DEF CycleInv, TypeOK
<1>1. ASSUME NEW p \in Runs, RunStep(p)
      PROVE  Once!Announce(p) \/ UNCHANGED <<CommittedRuns, batches>>
  <2>1. UNCHANGED batches
    BY <1>1 DEF RunStep, EnqueuePipeline, PipelineDrafts, PipelineGivesUp, BeginCommit, CommitBrief, contentVars
  <2>2. CASE CommitBrief(p)
    BY <1>0, <2>1, <2>2 DEF CommitBrief, MoveRun, Once!Announce
  <2>3. CASE ~CommitBrief(p)
    BY <1>0, <1>1, <2>1, <2>3 DEF RunStep, EnqueuePipeline, PipelineDrafts, PipelineGivesUp, BeginCommit, MoveRun
  <2> QED BY <2>2, <2>3
<1>2. ASSUME NEW x \in Deliveries, NEW next \in {"done", "failing"}, Persist(x, next)
      PROVE  \/ \E p \in Runs : Once!TakeEffect(p)
             \/ UNCHANGED <<CommittedRuns, batches>>
  <2> DEFINE p == delivery[x].event
  <2>1. p \in Runs /\ p \in jobs /\ UNCHANGED run
    BY <1>2, DeliveryEvent DEF Persist, cycleVars
  <2>2. p \in CommittedRuns
    BY <2>1 DEF CycleInv, ContentOfBrief
  <2>3. CASE p \in consumed
    BY <1>2, <2>1, <2>3 DEF Persist
  <2>4. CASE p \notin consumed
    <3>1. batches[p] = 0 /\ batches' = [batches EXCEPT ![p] = batches[p] + 1]
      BY <1>2, <2>1, <2>4 DEF Persist, CycleInv, ContentOnce
    <3>2. batches' = [batches EXCEPT ![p] = 1]
      BY <3>1
    <3>3. Once!TakeEffect(p)
      BY <2>1, <2>2, <3>1, <3>2 DEF Once!TakeEffect
    <3> QED BY <2>1, <3>3
  <2> QED BY <2>3, <2>4
<1>3. CASE UNCHANGED run /\ UNCHANGED batches
  BY <1>3
<1>4. CASE \E p \in Runs : RunStep(p)
  BY <1>1, <1>4 DEF Once!Next
<1>5. CASE UNCHANGED run /\ \E x \in Deliveries, next \in {"done", "failing"} : Persist(x, next)
  BY <1>2, <1>5 DEF Once!Next
<1> QED BY <1>3, <1>4, <1>5, WhoWrites

(* Content delivery handles each BriefCommitted event at most once, and none that    *)
(* was not committed, however events and jobs are repeated.                          *)
THEOREM CycleImplementsOnceOnly == Spec => ImplementsOnceOnly
<1>1. Init => Once!Init
  BY DEF Init, Once!Init
<1>2. CycleInv /\ [Next]_vars => [Once!Next]_(Once!vars)
  BY OnceStep DEF Once!vars, CommittedRuns
<1> QED BY <1>1, <1>2, CycleInvariant, PTL DEF Spec, ImplementsOnceOnly, Once!Spec
================================================================================
