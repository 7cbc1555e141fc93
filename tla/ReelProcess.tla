----------------------------- MODULE ReelProcess -----------------------------
(***************************************************************************)
(* From uploaded clips to an opportunity or a fulfilment report: the       *)
(* reel-process queue and its worker.  An upload set of its own has a job  *)
(* row whose stage the founder polls; the upload set of a shooting plan is *)
(* matched against the plan and has a report instead.  The queue runs a    *)
(* job at least once and at most twice, and keeps a job that has ended     *)
(* under its id, so that an id is never queued a second time.              *)
(***************************************************************************)
EXTENDS Naturals, Sequences

CONSTANTS Clips,
          RowJobs,     \* ids of the jobs that have a row ("use my clips")
          Plan,        \* the plan version, whose id is the id of its job
          MaxSets,     \* bound: understandings saved
          MaxMishaps   \* bound: crashes of a worker and errors it throws

Jobs == RowJobs \cup {Plan}

ASSUME ProcessAssumption ==
    /\ Plan \notin RowJobs
    /\ MaxSets \in Nat /\ MaxMishaps \in Nat

VARIABLES clips,     \* clips registered in the upload set of each job
          row,       \* reel_job: stage, understanding and opportunity, by number
          queue,     \* the queue's entry with the id of the job
          throws,     \* attempts that threw
          at,        \* next step of the worker that runs it
          copy,      \* the row as the worker has read it
          listed,      \* the clips it has listed
          made,      \* the understanding it has saved in this run
          sets,      \* understandings: whose upload set, which clips
          ideas,     \* opportunities: of which understanding, and whether it is a blocked one
          report,    \* the fulfilment report: the understanding it matched; 0: none
          mishaps,
          asked      \* history: the plan's clips when it was first queued

processVars == <<clips, row, queue, throws, at, copy, listed, made, sets, ideas, report,
                 mishaps, asked>>

Stages == {"none", "uploaded", "probing", "observing", "transcribing", "understanding_ready",
           "opportunity_ready", "failed"}
ReelRow == [stage : Stages, set : 0..MaxSets, idea : 0..MaxSets]
NoReelRow == [stage |-> "none", set |-> 0, idea |-> 0]
WorkerSteps == {"idle", "read", "list", "unseen", "probing", "observing", "transcribing", "save",
                "understood", "report", "reread", "recommend", "ready", "refuse"}

ProcessTypeOK ==
    /\ clips \in [Jobs -> SUBSET Clips]
    /\ row \in [RowJobs -> ReelRow]
    /\ queue \in [Jobs -> {"none", "waiting", "active", "completed", "failed"}]
    /\ throws \in [Jobs -> 0..2]
    /\ at \in [Jobs -> WorkerSteps]
    /\ copy \in [RowJobs -> ReelRow]
    /\ listed \in [Jobs -> SUBSET Clips]
    /\ made \in [Jobs -> 0..MaxSets]
    /\ sets \in Seq([job : Jobs, clips : SUBSET Clips]) /\ Len(sets) <= MaxSets
    /\ ideas \in Seq([set : 1..MaxSets, blocked : BOOLEAN])
    /\ report \in 0..MaxSets
    /\ mishaps \in 0..MaxMishaps
    /\ asked \subseteq Clips

ProcessInit ==
    /\ clips = [j \in Jobs |-> {}]
    /\ row = [j \in RowJobs |-> NoReelRow] /\ copy = [j \in RowJobs |-> NoReelRow]
    /\ queue = [j \in Jobs |-> "none"]
    /\ throws = [j \in Jobs |-> 0] /\ made = [j \in Jobs |-> 0]
    /\ at = [j \in Jobs |-> "idle"]
    /\ listed = [j \in Jobs |-> {}]
    /\ sets = <<>> /\ ideas = <<>>
    /\ report = 0 /\ mishaps = 0 /\ asked = {}

-----------------------------------------------------------------------------
\* register: the clips whose bytes the object store has.
Register(j, c) ==
    /\ c \notin clips[j]
    /\ clips' = [clips EXCEPT ![j] = @ \cup {c}]
    /\ UNCHANGED <<row, queue, throws, at, copy, listed, made, sets, ideas, report, mishaps, asked>>

\* An add with the id of an entry that exists changes nothing, whatever became of the entry.
Enqueue(j) ==
    queue' = [queue EXCEPT ![j] = IF @ = "none" THEN "waiting" ELSE @]

\* POST /reel/uploads/:set/process writes the row first; the process may die before it is queued.
SaveRow(j) ==
    /\ row[j].stage = "none"
    /\ row' = [row EXCEPT ![j].stage = "uploaded"]
    /\ UNCHANGED <<clips, queue, throws, at, copy, listed, made, sets, ideas, report, mishaps, asked>>

QueueRow(j) ==
    /\ row[j].stage = "uploaded" /\ queue[j] = "none"
    /\ Enqueue(j)
    /\ UNCHANGED <<clips, row, throws, at, copy, listed, made, sets, ideas, report, mishaps, asked>>

\* POST /reel/plans/:id/process and /add-shot.
QueuePlan ==
    /\ Enqueue(Plan)
    /\ asked' = IF queue[Plan] = "none" THEN clips[Plan] ELSE asked
    /\ UNCHANGED <<clips, row, throws, at, copy, listed, made, sets, ideas, report, mishaps>>

-----------------------------------------------------------------------------
Goes(j, s) == at' = [at EXCEPT ![j] = s]

\* A run ends and its locals with it.
JobDone(j, entry) ==
    /\ queue' = [queue EXCEPT ![j] = entry]
    /\ Goes(j, "idle")
    /\ copy' = [i \in RowJobs |-> IF i = j THEN NoReelRow ELSE copy[i]]
    /\ listed' = [listed EXCEPT ![j] = {}]
    /\ made' = [made EXCEPT ![j] = 0]

\* A worker takes the job; the id of a plan has no row.
Take(j) ==
    /\ queue[j] = "waiting" /\ Len(sets) < MaxSets
    /\ queue' = [queue EXCEPT ![j] = "active"]
    /\ Goes(j, IF j = Plan THEN "list" ELSE "read")
    /\ UNCHANGED <<clips, row, throws, copy, listed, made, sets, ideas, report, mishaps, asked>>

ReadRow(j) ==
    /\ at[j] = "read"
    /\ copy' = [copy EXCEPT ![j] = row[j]]
    /\ Goes(j, "list")
    /\ UNCHANGED <<clips, row, queue, throws, listed, made, sets, ideas, report, mishaps, asked>>

\* listSources.  Without clips a plan is left without a report and a row fails.
ListSources(j) ==
    /\ at[j] = "list"
    /\ IF clips[j] = {} /\ j = Plan
       THEN JobDone(j, "completed")
       ELSE /\ listed' = [listed EXCEPT ![j] = clips[j]]
            /\ Goes(j, IF clips[j] = {} THEN "unseen" ELSE IF j = Plan THEN "save" ELSE "probing")
            /\ UNCHANGED <<queue, copy, made>>
    /\ UNCHANGED <<clips, row, throws, sets, ideas, report, mishaps, asked>>

\* setStage: the row becomes the worker's copy with another stage.
SetStage(j, stage) == row' = [row EXCEPT ![j] = [copy[j] EXCEPT !.stage = stage]]

Fail(j) ==
    /\ at[j] \in {"unseen", "refuse"}
    /\ SetStage(j, "failed")
    /\ JobDone(j, "completed")
    /\ UNCHANGED <<clips, throws, sets, ideas, report, mishaps, asked>>

\* Probing, the vision model, transcription: one stage each.
Observe(j) ==
    /\ at[j] \in {"probing", "observing", "transcribing"}
    /\ SetStage(j, at[j])
    /\ Goes(j, CASE at[j] = "probing" -> "observing"
                 [] at[j] = "observing" -> "transcribing"
                 [] OTHER -> "save")
    /\ UNCHANGED <<clips, queue, throws, copy, listed, made, sets, ideas, report, mishaps, asked>>

\* saveVideoSetUnderstanding.
SaveSet(j) ==
    /\ at[j] = "save" /\ Len(sets) < MaxSets
    /\ sets' = Append(sets, [job |-> j, clips |-> listed[j]])
    /\ made' = [made EXCEPT ![j] = Len(sets) + 1]
    /\ Goes(j, IF j = Plan THEN "report" ELSE "understood")
    /\ UNCHANGED <<clips, row, queue, throws, copy, listed, ideas, report, mishaps, asked>>

\* matchUploads: the report replaces the one before.
Match(j) ==
    /\ at[j] = "report"
    /\ report' = made[j]
    /\ JobDone(j, "completed")
    /\ UNCHANGED <<clips, row, throws, sets, ideas, mishaps, asked>>

Understood(j) ==
    /\ at[j] = "understood"
    /\ row' = [row EXCEPT ![j] = [copy[j] EXCEPT !.stage = "understanding_ready", !.set = made[j]]]
    /\ Goes(j, "reread")
    /\ UNCHANGED <<clips, queue, throws, copy, listed, made, sets, ideas, report, mishaps, asked>>

\* Mutant: the copy read at the start is used to the end.
KeepCopy(j) ==
    /\ at[j] = "reread"
    /\ Goes(j, "recommend")
    /\ UNCHANGED <<clips, row, queue, throws, copy, listed, made, sets, ideas, report, mishaps, asked>>

Reread(j) ==
    /\ at[j] = "reread"
    /\ copy' = [copy EXCEPT ![j] = row[j]]
    /\ Goes(j, "recommend")
    /\ UNCHANGED <<clips, row, queue, throws, listed, made, sets, ideas, report, mishaps, asked>>

\* recommend: an opportunity; a blocked one when no angle is the founder's own, which leaves the
\* stage as it is; or nothing, when the business has no strategy.
Recommend(j) ==
    /\ at[j] = "recommend"
    /\ \/ /\ ideas' = Append(ideas, [set |-> made[j], blocked |-> FALSE])
          /\ Goes(j, "ready") /\ UNCHANGED <<queue, copy, listed, made>>
       \/ /\ ideas' = Append(ideas, [set |-> made[j], blocked |-> TRUE])
          /\ JobDone(j, "completed")
       \/ Goes(j, "refuse") /\ UNCHANGED <<ideas, queue, copy, listed, made>>
    /\ UNCHANGED <<clips, row, throws, sets, report, mishaps, asked>>

\* The opportunity this run has saved.
OwnIdea(j) == CHOOSE i \in 1..Len(ideas) : ideas[i].set = made[j]

MarkReady(j) ==
    /\ at[j] = "ready"
    /\ row' = [row EXCEPT ![j] = [copy[j] EXCEPT !.stage = "opportunity_ready", !.idea = OwnIdea(j)]]
    /\ JobDone(j, "completed")
    /\ UNCHANGED <<clips, throws, sets, ideas, report, mishaps, asked>>

\* Mutant: an attempt that threw is the last.
OnlyAttempt(j) ==
    IF throws[j] = 0 THEN "failed" ELSE "waiting"

\* attempts: 2.
NextAttempt(j) ==
    IF throws[j] = 1 THEN "failed" ELSE "waiting"

\* The worker throws: the attempt is counted, and the job waits again or has failed for good.
Throw(j) ==
    /\ at[j] # "idle" /\ mishaps < MaxMishaps
    /\ mishaps' = mishaps + 1
    /\ throws' = [throws EXCEPT ![j] = @ + 1]
    /\ JobDone(j, NextAttempt(j))
    /\ UNCHANGED <<clips, row, sets, ideas, report, asked>>

\* The worker dies: the queue finds the job stalled and lets it wait again.
Stall(j) ==
    /\ at[j] # "idle" /\ mishaps < MaxMishaps
    /\ mishaps' = mishaps + 1
    /\ JobDone(j, "waiting")
    /\ UNCHANGED <<clips, row, throws, sets, ideas, report, asked>>

WorkerStep(j) ==
    \/ Take(j) \/ ListSources(j) \/ SaveSet(j)
    \/ j = Plan /\ Match(j)
    \/ /\ j \in RowJobs
       /\ ReadRow(j) \/ Fail(j) \/ Observe(j) \/ Understood(j) \/ Reread(j) \/ Recommend(j) \/ MarkReady(j)

ProcessNext ==
    \/ \E j \in RowJobs : SaveRow(j) \/ QueueRow(j)
    \/ QueuePlan
    \/ \E j \in Jobs : \/ \E c \in Clips : Register(j, c)
                       \/ WorkerStep(j) \/ Throw(j) \/ Stall(j)

ProcessSpec == ProcessInit /\ [][ProcessNext]_processVars

\* Workers take what is queued and every model call of theirs ends.
ProcessFairness == \A j \in Jobs : WF_processVars(WorkerStep(j))

ProcessFairSpec == ProcessSpec /\ ProcessFairness

-----------------------------------------------------------------------------
\* An opportunity the founder is shown was recommended for the very understanding its job row
\* names, also when a crash had the clips observed twice: the row is re-read between the two.
ReadyIsTraceable ==
    \A j \in RowJobs :
        row[j].stage = "opportunity_ready" =>
            /\ row[j].idea \in 1..Len(ideas)
            /\ ideas[row[j].idea] = [set |-> row[j].set, blocked |-> FALSE]
            /\ sets[row[j].set].job = j

\* A fulfilment report covers every clip that was registered before the plan was first processed,
\* and no clip of another upload set.
ReportCoversAsked ==
    report # 0 => /\ sets[report].job = Plan
                  /\ asked \subseteq sets[report].clips

\* What the founder is shown came from the clips it is shown for.
ProcessInv ==
    /\ ProcessTypeOK
    /\ ReadyIsTraceable
    /\ ReportCoversAsked

\* One error or crash of a worker never leaves a plan without its report, nor a job row without
\* its end: a stage that is final, or a blocked opportunity the stage is silent about.
JobsAreAnswered ==
    /\ asked # {} ~> report # 0
    /\ \A j \in RowJobs :
          queue[j] # "none" ~>
              \/ row[j].stage \in {"opportunity_ready", "failed"}
              \/ \E i \in 1..Len(ideas) : ideas[i].blocked /\ sets[ideas[i].set].job = j
=============================================================================
