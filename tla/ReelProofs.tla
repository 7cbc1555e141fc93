----------------------------- MODULE ReelProofs -----------------------------
(***************************************************************************)
(* The safety of reels: what is proposed from an upload, and the versions  *)
(* that are rendered from a proposal.                                      *)
(***************************************************************************)
EXTENDS ReelProcess, ReelRender, FiniteSetTheorems, SequenceTheorems, TLAPS

(***************************************************************************)
(* For any number of jobs and uploads, stalls and final failures: every    *)
(* proposal leads back to the material it was made from, whichever run     *)
(* wrote it. ProcessIInv is inductive.                                     *)
(***************************************************************************)

USE ProcessAssumption DEF ProcessAssumption

\* A worker runs the active jobs only, and a job that threw twice is not run again; what a run has
\* saved is its own and, until it recommends, of no opportunity.
RunHolds(j) ==
    /\ at[j] # "idle" <=> queue[j] = "active"
    /\ throws[j] = 2 => queue[j] = "failed"
    /\ at[j] \in {"understood", "report", "reread", "recommend", "ready", "refuse"} <=> made[j] # 0
    /\ made[j] # 0 => made[j] \in 1..Len(sets) /\ sets[made[j]].job = j
    /\ at[j] \in {"understood", "reread", "recommend"} =>
          \A i \in 1..Len(ideas) : ideas[i].set # made[j]
    /\ at[j] = "ready" => \E i \in 1..Len(ideas) : ideas[i] = [set |-> made[j], blocked |-> FALSE]

\* From the re-read on, row and copy name the understanding of this very run.
RowNamesOwnSet(j) ==
    /\ at[j] = "reread" => row[j].set = made[j]
    /\ at[j] \in {"recommend", "ready", "refuse"} => copy[j].set = made[j]

\* An understanding gets at most one opportunity.
OneIdeaOfSet ==
    /\ \A i \in 1..Len(ideas) : ideas[i].set <= Len(sets)
    /\ \A i, k \in 1..Len(ideas) : ideas[i].set = ideas[k].set => i = k

\* The clips the plan was first queued with are on their way into the report.
PlanCovers ==
    /\ queue[Plan] = "none" => report = 0
    /\ asked \subseteq clips[Plan]
    /\ at[Plan] \in {"idle", "list", "save", "report"}
    /\ at[Plan] = "save" => asked \subseteq listed[Plan]
    /\ at[Plan] = "report" => asked \subseteq sets[made[Plan]].clips
    /\ report <= Len(sets)

ProcessIInv ==
    /\ ProcessInv
    /\ \A j \in Jobs : RunHolds(j)
    /\ \A j \in RowJobs : RowNamesOwnSet(j)
    /\ OneIdeaOfSet
    /\ PlanCovers

-----------------------------------------------------------------------------
LEMMA ProcessInitOK == ProcessInit => ProcessIInv
<1> SUFFICES ASSUME ProcessInit PROVE ProcessIInv
  OBVIOUS
<1> USE DEF ProcessInit
<1>1. ProcessTypeOK
  BY DEF ProcessTypeOK, Jobs, ReelRow, NoReelRow, Stages, WorkerSteps
<1>2. ReadyIsTraceable /\ ReportCoversAsked
  BY DEF ReadyIsTraceable, ReportCoversAsked, NoReelRow
<1>3. (\A j \in Jobs : RunHolds(j)) /\ (\A j \in RowJobs : RowNamesOwnSet(j))
  BY DEF RunHolds, RowNamesOwnSet, Jobs
<1>4. OneIdeaOfSet /\ PlanCovers
  BY DEF OneIdeaOfSet, PlanCovers, Jobs
<1> QED BY <1>1, <1>2, <1>3, <1>4 DEF ProcessIInv, ProcessInv

\* What the sequences hold.
LEMMA ProcessFields ==
    ASSUME ProcessTypeOK
    PROVE  /\ Len(sets) \in Nat /\ Len(ideas) \in Nat
           /\ \A i \in 1..Len(sets) : sets[i] \in [job : Jobs, clips : SUBSET Clips]
           /\ \A i \in 1..Len(ideas) : ideas[i] \in [set : 1..MaxSets, blocked : BOOLEAN]
<1> DEFINE S == [job : Jobs, clips : SUBSET Clips]
           I == [set : 1..MaxSets, blocked : BOOLEAN]
<1>1. sets \in Seq(S) /\ ideas \in Seq(I)
  BY DEF ProcessTypeOK
<1> HIDE DEF S, I
<1>2. /\ Len(sets) \in Nat /\ Len(ideas) \in Nat
      /\ \A i \in 1..Len(sets) : sets[i] \in S
      /\ \A i \in 1..Len(ideas) : ideas[i] \in I
  BY <1>1, ElementOfSeq
<1> QED BY <1>2 DEF S, I

\* There are no more opportunities than understandings.
LEMMA IdeasFewerThanSets ==
    ASSUME ProcessTypeOK, OneIdeaOfSet
    PROVE  Len(ideas) <= Len(sets)
<1> DEFINE f == [i \in 1..Len(ideas) |-> ideas[i].set]
<1>1. Len(sets) \in Nat /\ Len(ideas) \in Nat
  BY ProcessFields
<1>2. \A i \in 1..Len(ideas) : ideas[i].set \in 1..Len(sets)
  BY <1>1, ProcessFields DEF OneIdeaOfSet
<1>3. f \in Injection(1..Len(ideas), 1..Len(sets))
  BY <1>2 DEF Injection, OneIdeaOfSet, IsInjective
<1>4. IsFiniteSet(1..Len(sets)) /\ Cardinality(1..Len(ideas)) = Len(ideas)
      /\ Cardinality(1..Len(sets)) = Len(sets)
  <2>1. ASSUME NEW n \in Nat PROVE IsFiniteSet(1..n) /\ Cardinality(1..n) = n
    <3>1. IsFiniteSet(1..n) /\ Cardinality(1..n) = IF 1 > n THEN 0 ELSE n - 1 + 1
      BY FS_Interval
    <3> QED BY <3>1
  <2> QED BY <1>1, <2>1
<1>5. Cardinality(1..Len(ideas)) <= Cardinality(1..Len(sets))
  BY <1>3, <1>4, FS_Injection
<1> QED BY <1>4, <1>5

-----------------------------------------------------------------------------
\* What the runs of other jobs rest on: their locals do not change, and nobody recommends for their
\* understandings.
LEMMA OtherRuns ==
    ASSUME ProcessIInv, NEW j \in Jobs,
           \A i \in Jobs \ {j} : /\ at'[i] = at[i] /\ queue'[i] = queue[i]
                                 /\ throws'[i] = throws[i] /\ made'[i] = made[i],
           \A i \in RowJobs \ {j} : row'[i] = row[i] /\ copy'[i] = copy[i],
           Len(sets) <= Len(sets'), Len(sets') \in Nat,
           \A n \in 1..Len(sets) : sets'[n] = sets[n],
           Len(ideas) <= Len(ideas'), Len(ideas') \in Nat,
           \A n \in 1..Len(ideas) : ideas'[n] = ideas[n],
           \A n \in 1..Len(ideas') : n > Len(ideas) => ideas'[n].set = made[j] /\ made[j] # 0
    PROVE  /\ \A i \in Jobs \ {j} : RunHolds(i)'
           /\ \A i \in RowJobs \ {j} : RowNamesOwnSet(i)'
           /\ \A i \in RowJobs \ {j} :
                 row'[i].stage = "opportunity_ready" =>
                    /\ row'[i].idea \in 1..Len(ideas')
                    /\ ideas'[row'[i].idea] = [set |-> row'[i].set, blocked |-> FALSE]
                    /\ sets'[row'[i].set].job = i
<1>0. /\ ProcessTypeOK /\ Len(sets) \in Nat /\ Len(ideas) \in Nat
      /\ \A i \in Jobs : RunHolds(i)
  BY ProcessFields DEF ProcessIInv, ProcessInv
<1>1. ASSUME NEW i \in Jobs \ {j} PROVE RunHolds(i)'
  <2>1. RunHolds(i) /\ RunHolds(j)
    BY <1>0
  <2>2. made[i] # 0 => made[i] \in 1..Len(sets') /\ sets'[made[i]].job = i
    BY <1>0, <2>1 DEF RunHolds
  <2>3. made[i] # 0 => made[i] # made[j]
    BY <2>1 DEF RunHolds
  <2>4. at[i] \in {"understood", "reread", "recommend"} => \A n \in 1..Len(ideas') : ideas'[n].set # made[i]
    <3> SUFFICES ASSUME at[i] \in {"understood", "reread", "recommend"}, NEW n \in 1..Len(ideas')
                 PROVE  ideas'[n].set # made[i]
      OBVIOUS
    <3>1. CASE n <= Len(ideas)
      <4>1. n \in 1..Len(ideas)
        BY <1>0, <3>1
      <4> QED BY <2>1, <4>1 DEF RunHolds
    <3>2. CASE n > Len(ideas)
      BY <2>1, <2>3, <3>2 DEF RunHolds
    <3> QED BY <1>0, <3>1, <3>2
  <2>5. at[i] = "ready" => \E n \in 1..Len(ideas') : ideas'[n] = [set |-> made[i], blocked |-> FALSE]
    <3> SUFFICES ASSUME at[i] = "ready"
                 PROVE  \E n \in 1..Len(ideas') : ideas'[n] = [set |-> made[i], blocked |-> FALSE]
      OBVIOUS
    <3>1. PICK n \in 1..Len(ideas) : ideas[n] = [set |-> made[i], blocked |-> FALSE]
      BY <2>1 DEF RunHolds
    <3>2. n \in 1..Len(ideas') /\ ideas'[n] = ideas[n]
      BY <1>0, <3>1
    <3> QED BY <3>1, <3>2
  <2>6. at'[i] = at[i] /\ queue'[i] = queue[i] /\ throws'[i] = throws[i] /\ made'[i] = made[i]
    BY <1>0
  <2>7. /\ at'[i] # "idle" <=> queue'[i] = "active"
        /\ throws'[i] = 2 => queue'[i] = "failed"
        /\ at'[i] \in {"understood", "report", "reread", "recommend", "ready", "refuse"} <=> made'[i] # 0
        /\ made'[i] # 0 => made'[i] \in 1..Len(sets') /\ sets'[made'[i]].job = i
    BY <2>1, <2>2, <2>6 DEF RunHolds
  <2>8. /\ at'[i] \in {"understood", "reread", "recommend"} => \A n \in 1..Len(ideas') : ideas'[n].set # made'[i]
        /\ at'[i] = "ready" => \E n \in 1..Len(ideas') : ideas'[n] = [set |-> made'[i], blocked |-> FALSE]
    BY <2>4, <2>5, <2>6
  <2> QED BY <2>7, <2>8 DEF RunHolds
<1>2. \A i \in RowJobs \ {j} : RowNamesOwnSet(i)'
  BY DEF ProcessIInv, RowNamesOwnSet, Jobs
<1>3. ASSUME NEW i \in RowJobs \ {j}, row[i].stage = "opportunity_ready"
      PROVE  /\ row[i].idea \in 1..Len(ideas')
             /\ ideas'[row[i].idea] = [set |-> row[i].set, blocked |-> FALSE]
             /\ sets'[row[i].set].job = i
  <2>1. /\ row[i].idea \in 1..Len(ideas) /\ ideas[row[i].idea] = [set |-> row[i].set, blocked |-> FALSE]
        /\ sets[row[i].set].job = i
    BY <1>3 DEF ProcessIInv, ProcessInv, ReadyIsTraceable
  <2>2. row[i].set \in 1..MaxSets /\ row[i].set <= Len(sets)
    BY <1>0, <2>1, ProcessFields DEF ProcessIInv, OneIdeaOfSet
  <2>3. row[i].set \in 1..Len(sets) /\ row[i].idea \in 1..Len(ideas')
    BY <1>0, <2>1, <2>2
  <2> QED BY <2>1, <2>3
<1> QED BY <1>1, <1>2, <1>3

\* A step of one job that saves nothing in the sequences.
LEMMA RunMoves ==
    ASSUME ProcessIInv, ProcessTypeOK', NEW j \in Jobs, UNCHANGED <<sets, ideas>>,
           \A i \in Jobs \ {j} : /\ at'[i] = at[i] /\ queue'[i] = queue[i]
                                 /\ throws'[i] = throws[i] /\ made'[i] = made[i],
           \A i \in RowJobs \ {j} : row'[i] = row[i] /\ copy'[i] = copy[i],
           RunHolds(j)', PlanCovers', ReportCoversAsked',
           j \in RowJobs =>
              /\ RowNamesOwnSet(j)'
              /\ row'[j].stage = "opportunity_ready" =>
                    /\ row'[j].idea \in 1..Len(ideas)
                    /\ ideas[row'[j].idea] = [set |-> row'[j].set, blocked |-> FALSE]
                    /\ sets[row'[j].set].job = j
    PROVE  ProcessIInv'
<1>0. Len(sets) \in Nat /\ Len(ideas) \in Nat
  BY ProcessFields DEF ProcessIInv, ProcessInv
<1>1. /\ \A i \in Jobs \ {j} : RunHolds(i)'
      /\ \A i \in RowJobs \ {j} : RowNamesOwnSet(i)'
      /\ \A i \in RowJobs \ {j} :
            row'[i].stage = "opportunity_ready" =>
               /\ row'[i].idea \in 1..Len(ideas')
               /\ ideas'[row'[i].idea] = [set |-> row'[i].set, blocked |-> FALSE]
               /\ sets'[row'[i].set].job = i
  BY <1>0, OtherRuns
<1>2. ReadyIsTraceable'
  BY <1>1 DEF ReadyIsTraceable
<1>3. OneIdeaOfSet'
  BY DEF ProcessIInv, OneIdeaOfSet
<1> QED BY <1>1, <1>2, <1>3 DEF ProcessIInv, ProcessInv

\* A step of a job whose row stays: an upload set of its own, or the plan's.
LEMMA RowStays ==
    ASSUME ProcessIInv, NEW j \in RowJobs, row'[j] = row[j]
    PROVE  row'[j].stage = "opportunity_ready" =>
              /\ row'[j].idea \in 1..Len(ideas)
              /\ ideas[row'[j].idea] = [set |-> row'[j].set, blocked |-> FALSE]
              /\ sets[row'[j].set].job = j
  BY DEF ProcessIInv, ProcessInv, ReadyIsTraceable

\* What a job that is done leaves behind.
LEMMA JobDoneLeaves ==
    ASSUME ProcessTypeOK, NEW j \in Jobs, NEW e \in {"waiting", "completed", "failed"}, JobDone(j, e)
    PROVE  /\ queue' \in [Jobs -> {"none", "waiting", "active", "completed", "failed"}]
           /\ at' \in [Jobs -> WorkerSteps]
           /\ copy' \in [RowJobs -> ReelRow]
           /\ listed' \in [Jobs -> SUBSET Clips]
           /\ made' \in [Jobs -> 0..MaxSets]
           /\ queue'[j] = e /\ at'[j] = "idle" /\ made'[j] = 0
           /\ \A i \in Jobs \ {j} : /\ queue'[i] = queue[i] /\ at'[i] = at[i]
                                    /\ made'[i] = made[i] /\ listed'[i] = listed[i]
           /\ \A i \in RowJobs \ {j} : copy'[i] = copy[i]
<1> USE DEF JobDone, Goes
<1>1. /\ queue' \in [Jobs -> {"none", "waiting", "active", "completed", "failed"}]
      /\ at' \in [Jobs -> WorkerSteps]
  BY DEF ProcessTypeOK, WorkerSteps
<1>2. copy' \in [RowJobs -> ReelRow]
  <2>1. NoReelRow \in ReelRow
    BY DEF NoReelRow, ReelRow, Stages
  <2> QED BY <2>1 DEF ProcessTypeOK
<1>3. listed' \in [Jobs -> SUBSET Clips] /\ made' \in [Jobs -> 0..MaxSets]
  BY DEF ProcessTypeOK
<1>4. /\ queue'[j] = e /\ at'[j] = "idle" /\ made'[j] = 0
      /\ \A i \in Jobs \ {j} : /\ queue'[i] = queue[i] /\ at'[i] = at[i]
                               /\ made'[i] = made[i] /\ listed'[i] = listed[i]
      /\ \A i \in RowJobs \ {j} : copy'[i] = copy[i]
  BY DEF ProcessTypeOK
<1> QED BY <1>1, <1>2, <1>3, <1>4

\* A run that ends without a report of its own keeps everything.
LEMMA JobDoneKeeps ==
    ASSUME ProcessIInv, NEW j \in Jobs, NEW e \in {"waiting", "completed", "failed"}, JobDone(j, e),
           UNCHANGED <<clips, row, sets, ideas, report, asked>>,
           throws' \in [Jobs -> 0..2], \A i \in Jobs \ {j} : throws'[i] = throws[i],
           throws'[j] = 2 => e = "failed", mishaps' \in 0..MaxMishaps
    PROVE  ProcessIInv'
<1>0. ProcessTypeOK
  BY DEF ProcessIInv, ProcessInv
<1>1. ProcessTypeOK'
  BY <1>0, JobDoneLeaves DEF ProcessTypeOK
<1>2. RunHolds(j)'
  BY <1>0, JobDoneLeaves DEF RunHolds
<1>3. PlanCovers'
  BY <1>0, JobDoneLeaves DEF ProcessIInv, PlanCovers, Jobs
<1>4. ReportCoversAsked'
  BY DEF ProcessIInv, ProcessInv, ReportCoversAsked
<1>5. j \in RowJobs => RowNamesOwnSet(j)'
  BY <1>0, JobDoneLeaves DEF RowNamesOwnSet
<1>6. \A i \in Jobs \ {j} : /\ at'[i] = at[i] /\ queue'[i] = queue[i]
                            /\ throws'[i] = throws[i] /\ made'[i] = made[i]
  BY <1>0, JobDoneLeaves
<1>7. \A i \in RowJobs \ {j} : row'[i] = row[i] /\ copy'[i] = copy[i]
  BY <1>0, JobDoneLeaves
<1> QED BY <1>1, <1>2, <1>3, <1>4, <1>5, <1>6, <1>7, RunMoves, RowStays

-----------------------------------------------------------------------------
LEMMA RegisterKeeps == ASSUME ProcessIInv, NEW j \in Jobs, NEW c \in Clips, Register(j, c) PROVE ProcessIInv'
<1> USE DEF Register
<1>0. ProcessTypeOK
  BY DEF ProcessIInv, ProcessInv
<1>1. ProcessTypeOK'
  BY <1>0 DEF ProcessTypeOK
<1>2. PlanCovers'
  BY <1>0 DEF ProcessIInv, PlanCovers, ProcessTypeOK, Jobs
<1>3. RunHolds(j)' /\ ReportCoversAsked' /\ (j \in RowJobs => RowNamesOwnSet(j)')
  BY DEF ProcessIInv, ProcessInv, RunHolds, ReportCoversAsked, RowNamesOwnSet
<1> QED BY <1>1, <1>2, <1>3, RunMoves, RowStays

LEMMA SaveRowKeeps == ASSUME ProcessIInv, NEW j \in RowJobs, SaveRow(j) PROVE ProcessIInv'
<1> USE DEF SaveRow
<1>0. ProcessTypeOK /\ j \in Jobs
  BY DEF ProcessIInv, ProcessInv, Jobs
<1>1. row[j] \in ReelRow
  BY <1>0 DEF ProcessTypeOK
<1>2. /\ row'[j] = [row[j] EXCEPT !.stage = "uploaded"] /\ row' \in [RowJobs -> ReelRow]
      /\ \A i \in RowJobs \ {j} : row'[i] = row[i]
  BY <1>0, <1>1 DEF ProcessTypeOK, ReelRow, Stages
<1>3. row'[j].stage = "uploaded" /\ row'[j].set = row[j].set
  BY <1>1, <1>2 DEF ReelRow
<1>4. UNCHANGED <<clips, queue, throws, at, copy, listed, made, sets, ideas, report, mishaps, asked>>
  OBVIOUS
<1> HIDE DEF SaveRow
<1>5. ProcessTypeOK'
  BY <1>0, <1>2, <1>4 DEF ProcessTypeOK
<1>6. PlanCovers' /\ RunHolds(j)' /\ ReportCoversAsked'
  BY <1>0, <1>4 DEF ProcessIInv, ProcessInv, RunHolds, PlanCovers, ReportCoversAsked
<1>7. RowNamesOwnSet(j)'
  BY <1>3, <1>4 DEF ProcessIInv, RowNamesOwnSet
<1> QED BY <1>0, <1>2, <1>3, <1>4, <1>5, <1>6, <1>7, RunMoves

LEMMA QueueRowKeeps == ASSUME ProcessIInv, NEW j \in RowJobs, QueueRow(j) PROVE ProcessIInv'
<1> USE DEF QueueRow, Enqueue
<1>0. ProcessTypeOK /\ j \in Jobs /\ j # Plan
  BY DEF ProcessIInv, ProcessInv, Jobs
<1>1. ProcessTypeOK'
  BY <1>0 DEF ProcessTypeOK
<1>2. queue'[j] = "waiting" /\ \A i \in Jobs \ {j} : queue'[i] = queue[i]
  BY <1>0 DEF ProcessTypeOK
<1>3. PlanCovers' /\ ReportCoversAsked'
  BY <1>0, <1>2 DEF ProcessIInv, ProcessInv, PlanCovers, ReportCoversAsked, Jobs
<1>4. RunHolds(j)' /\ RowNamesOwnSet(j)'
  BY <1>0, <1>2 DEF ProcessIInv, RunHolds, RowNamesOwnSet
<1> QED BY <1>0, <1>1, <1>2, <1>3, <1>4, RunMoves, RowStays

LEMMA QueuePlanKeeps == ASSUME ProcessIInv, QueuePlan PROVE ProcessIInv'
<1> USE DEF QueuePlan, Enqueue
<1>0. ProcessTypeOK /\ Plan \in Jobs
  BY DEF ProcessIInv, ProcessInv, Jobs
<1>1. ProcessTypeOK'
  BY <1>0 DEF ProcessTypeOK
<1>2. /\ queue'[Plan] = (IF queue[Plan] = "none" THEN "waiting" ELSE queue[Plan])
      /\ \A i \in Jobs \ {Plan} : queue'[i] = queue[i]
  BY <1>0 DEF ProcessTypeOK
<1>3. RunHolds(Plan)'
  BY <1>0, <1>2 DEF ProcessIInv, RunHolds
<1>4. queue[Plan] = "none" => report = 0 /\ at[Plan] = "idle"
  BY <1>0 DEF ProcessIInv, PlanCovers, RunHolds
<1>5. PlanCovers' /\ ReportCoversAsked'
  BY <1>0, <1>2, <1>4 DEF ProcessIInv, ProcessInv, PlanCovers, ReportCoversAsked
<1> QED BY <1>0, <1>1, <1>2, <1>3, <1>5, RunMoves

LEMMA TakeKeeps == ASSUME ProcessIInv, NEW j \in Jobs, Take(j) PROVE ProcessIInv'
<1> USE DEF Take, Goes
<1>0. ProcessTypeOK /\ at[j] = "idle" /\ (j \in RowJobs => j # Plan)
  BY DEF ProcessIInv, ProcessInv, RunHolds
<1>1. ProcessTypeOK'
  BY <1>0 DEF ProcessTypeOK, WorkerSteps
<1>2. /\ queue'[j] = "active" /\ at'[j] = (IF j = Plan THEN "list" ELSE "read")
      /\ \A i \in Jobs \ {j} : queue'[i] = queue[i] /\ at'[i] = at[i]
  BY <1>0 DEF ProcessTypeOK
<1>3. RunHolds(j)'
  BY <1>0, <1>2 DEF ProcessIInv, RunHolds
<1>4. PlanCovers' /\ ReportCoversAsked'
  BY <1>0, <1>2 DEF ProcessIInv, ProcessInv, PlanCovers, ReportCoversAsked, Jobs
<1>5. j \in RowJobs => RowNamesOwnSet(j)'
  BY <1>0, <1>2 DEF RowNamesOwnSet
<1> QED BY <1>1, <1>2, <1>3, <1>4, <1>5, RunMoves, RowStays

LEMMA ReadRowKeeps == ASSUME ProcessIInv, NEW j \in RowJobs, ReadRow(j) PROVE ProcessIInv'
<1> USE DEF ReadRow, Goes
<1>0. ProcessTypeOK /\ j \in Jobs /\ j # Plan
  BY DEF ProcessIInv, ProcessInv, Jobs
<1>1. ProcessTypeOK'
  BY <1>0 DEF ProcessTypeOK, WorkerSteps
<1>2. /\ at'[j] = "list" /\ \A i \in Jobs \ {j} : at'[i] = at[i]
      /\ \A i \in RowJobs \ {j} : copy'[i] = copy[i]
  BY <1>0 DEF ProcessTypeOK
<1>3. RunHolds(j)' /\ RowNamesOwnSet(j)'
  BY <1>0, <1>2 DEF ProcessIInv, RunHolds, RowNamesOwnSet
<1>4. PlanCovers' /\ ReportCoversAsked'
  BY <1>0, <1>2 DEF ProcessIInv, ProcessInv, PlanCovers, ReportCoversAsked, Jobs
<1> QED BY <1>0, <1>1, <1>2, <1>3, <1>4, RunMoves, RowStays

LEMMA ListSourcesKeeps == ASSUME ProcessIInv, NEW j \in Jobs, ListSources(j) PROVE ProcessIInv'
<1> USE DEF ListSources, Goes
<1>0. ProcessTypeOK /\ RunHolds(j) /\ (j \in RowJobs => j # Plan) /\ Plan \in Jobs
  BY DEF ProcessIInv, ProcessInv, Jobs
<1>1. CASE clips[j] = {} /\ j = Plan
  <2>1. throws' = throws /\ throws[j] # 2
    BY <1>0 DEF RunHolds
  <2> QED BY <1>0, <1>1, <2>1, JobDoneKeeps DEF ProcessTypeOK
<1>2. CASE ~(clips[j] = {} /\ j = Plan)
  <2>1. /\ listed' = [listed EXCEPT ![j] = clips[j]]
        /\ at' = [at EXCEPT ![j] = IF clips[j] = {} THEN "unseen" ELSE IF j = Plan THEN "save" ELSE "probing"]
        /\ UNCHANGED <<clips, row, queue, throws, copy, made, sets, ideas, report, mishaps, asked>>
    BY <1>2
  <2> HIDE DEF ListSources
  <2>2. at[j] = "list"
    BY DEF ListSources
  <2>3. ProcessTypeOK'
    BY <1>0, <2>1 DEF ProcessTypeOK, WorkerSteps
  <2>4. /\ listed'[j] = clips[j] /\ at'[j] \in {"unseen", "save", "probing"}
        /\ j = Plan => at'[j] = "save"
        /\ \A i \in Jobs \ {j} : at'[i] = at[i] /\ listed'[i] = listed[i]
    BY <1>0, <1>2, <2>1 DEF ProcessTypeOK
  <2>5. RunHolds(j)' /\ (j \in RowJobs => RowNamesOwnSet(j)')
    BY <1>0, <2>1, <2>2, <2>4 DEF RunHolds, RowNamesOwnSet
  <2>6. PlanCovers' /\ ReportCoversAsked'
    BY <1>0, <2>1, <2>4 DEF ProcessIInv, ProcessInv, PlanCovers, ReportCoversAsked
  <2> QED BY <2>1, <2>3, <2>4, <2>5, <2>6, RunMoves, RowStays
<1> QED BY <1>1, <1>2

\* The row becomes the copy with another stage.
LEMMA StageSet ==
    ASSUME ProcessTypeOK, NEW j \in RowJobs, NEW e \in Stages, SetStage(j, e)
    PROVE  /\ row' \in [RowJobs -> ReelRow]
           /\ row'[j].stage = e /\ row'[j].set = copy[j].set
           /\ \A i \in RowJobs \ {j} : row'[i] = row[i]
<1>1. copy[j] \in ReelRow
  BY DEF ProcessTypeOK
<1>2. [copy[j] EXCEPT !.stage = e] \in ReelRow /\ [copy[j] EXCEPT !.stage = e].stage = e
      /\ [copy[j] EXCEPT !.stage = e].set = copy[j].set
  BY <1>1 DEF ReelRow
<1> QED BY <1>2 DEF SetStage, ProcessTypeOK

LEMMA FailKeeps == ASSUME ProcessIInv, NEW j \in RowJobs, Fail(j) PROVE ProcessIInv'
<1>0. /\ ProcessTypeOK /\ j \in Jobs /\ j # Plan /\ RunHolds(j)
      /\ at[j] # "idle" /\ SetStage(j, "failed") /\ JobDone(j, "completed")
      /\ UNCHANGED <<clips, throws, sets, ideas, report, mishaps, asked>>
  BY DEF ProcessIInv, ProcessInv, Jobs, Fail
<1>1. "failed" \in Stages
  BY DEF Stages
<1>2. ProcessTypeOK'
  BY <1>0, <1>1, JobDoneLeaves, StageSet DEF ProcessTypeOK
<1>3. RunHolds(j)' /\ RowNamesOwnSet(j)'
  BY <1>0, JobDoneLeaves DEF RunHolds, RowNamesOwnSet
<1>4. PlanCovers' /\ ReportCoversAsked'
  BY <1>0, JobDoneLeaves DEF ProcessIInv, ProcessInv, PlanCovers, ReportCoversAsked, Jobs
<1>5. /\ row'[j].stage # "opportunity_ready"
      /\ \A i \in RowJobs \ {j} : row'[i] = row[i] /\ copy'[i] = copy[i]
  BY <1>0, <1>1, StageSet, JobDoneLeaves
<1>6. \A i \in Jobs \ {j} : /\ at'[i] = at[i] /\ queue'[i] = queue[i]
                            /\ throws'[i] = throws[i] /\ made'[i] = made[i]
  BY <1>0, JobDoneLeaves
<1> QED BY <1>0, <1>2, <1>3, <1>4, <1>5, <1>6, RunMoves

LEMMA ObserveKeeps == ASSUME ProcessIInv, NEW j \in RowJobs, Observe(j) PROVE ProcessIInv'
<1>0. /\ ProcessTypeOK /\ j \in Jobs /\ j # Plan /\ RunHolds(j)
      /\ at[j] \in {"probing", "observing", "transcribing"} /\ SetStage(j, at[j])
      /\ UNCHANGED <<clips, queue, throws, copy, listed, made, sets, ideas, report, mishaps, asked>>
  BY DEF ProcessIInv, ProcessInv, Jobs, Observe
<1>1. at[j] \in Stages /\ at[j] # "opportunity_ready"
  BY <1>0 DEF Stages
<1>2. PICK e \in {"observing", "transcribing", "save"} : at' = [at EXCEPT ![j] = e]
  BY <1>0 DEF Observe, Goes
<1>3. ProcessTypeOK'
  <2>1. at' \in [Jobs -> WorkerSteps]
    BY <1>0, <1>2 DEF ProcessTypeOK, WorkerSteps
  <2> QED BY <1>0, <1>1, <2>1, StageSet DEF ProcessTypeOK
<1>4. at'[j] = e /\ \A i \in Jobs \ {j} : at'[i] = at[i]
  BY <1>0, <1>2 DEF ProcessTypeOK
<1>5. RunHolds(j)' /\ RowNamesOwnSet(j)'
  BY <1>0, <1>4 DEF RunHolds, RowNamesOwnSet
<1>6. PlanCovers' /\ ReportCoversAsked'
  BY <1>0, <1>4 DEF ProcessIInv, ProcessInv, PlanCovers, ReportCoversAsked, Jobs
<1>7. row'[j].stage # "opportunity_ready" /\ \A i \in RowJobs \ {j} : row'[i] = row[i]
  BY <1>0, <1>1, StageSet
<1> QED BY <1>0, <1>3, <1>4, <1>5, <1>6, <1>7, RunMoves

LEMMA MatchKeeps == ASSUME ProcessIInv, Match(Plan) PROVE ProcessIInv'
<1>0. /\ ProcessTypeOK /\ Plan \in Jobs /\ RunHolds(Plan)
      /\ at[Plan] = "report" /\ report' = made[Plan] /\ JobDone(Plan, "completed")
      /\ UNCHANGED <<clips, row, throws, sets, ideas, mishaps, asked>>
  BY DEF ProcessIInv, ProcessInv, Jobs, Match
<1>1. made[Plan] \in 1..Len(sets) /\ sets[made[Plan]].job = Plan
  BY <1>0 DEF RunHolds
<1>2. ProcessTypeOK'
  <2>1. report' \in 0..MaxSets
    BY <1>0 DEF ProcessTypeOK
  <2> QED BY <1>0, <2>1, JobDoneLeaves DEF ProcessTypeOK
<1>3. RunHolds(Plan)'
  BY <1>0, JobDoneLeaves DEF RunHolds
<1>4. ReportCoversAsked'
  BY <1>0, <1>1 DEF ProcessIInv, PlanCovers, ReportCoversAsked
<1>5. PlanCovers'
  BY <1>0, <1>1, JobDoneLeaves DEF ProcessIInv, PlanCovers
<1>6. \A i \in Jobs \ {Plan} : /\ at'[i] = at[i] /\ queue'[i] = queue[i]
                               /\ throws'[i] = throws[i] /\ made'[i] = made[i]
  BY <1>0, JobDoneLeaves
<1>7. \A i \in RowJobs \ {Plan} : row'[i] = row[i] /\ copy'[i] = copy[i]
  BY <1>0, JobDoneLeaves
<1> QED BY <1>0, <1>2, <1>3, <1>4, <1>5, <1>6, <1>7, RunMoves

LEMMA UnderstoodKeeps == ASSUME ProcessIInv, NEW j \in RowJobs, Understood(j) PROVE ProcessIInv'
<1> USE DEF Understood, Goes
<1> DEFINE new == [copy[j] EXCEPT !.stage = "understanding_ready", !.set = made[j]]
<1>0. ProcessTypeOK /\ j \in Jobs /\ j # Plan /\ RunHolds(j)
  BY DEF ProcessIInv, ProcessInv, Jobs
<1>1. copy[j] \in ReelRow /\ made[j] \in 0..MaxSets
  BY <1>0 DEF ProcessTypeOK
<1>2. new \in ReelRow /\ new.stage = "understanding_ready" /\ new.set = made[j]
  BY <1>1 DEF ReelRow, Stages
<1>3. at[j] = "understood" /\ row' = [row EXCEPT ![j] = new] /\ at' = [at EXCEPT ![j] = "reread"]
      /\ UNCHANGED <<clips, queue, throws, copy, listed, made, sets, ideas, report, mishaps, asked>>
  OBVIOUS
<1> HIDE DEF Understood, new
<1>4. /\ row' \in [RowJobs -> ReelRow] /\ row'[j] = new
      /\ \A i \in RowJobs \ {j} : row'[i] = row[i]
      /\ at' \in [Jobs -> WorkerSteps] /\ at'[j] = "reread"
      /\ \A i \in Jobs \ {j} : at'[i] = at[i]
  BY <1>0, <1>2, <1>3 DEF ProcessTypeOK, WorkerSteps
<1>5. ProcessTypeOK'
  BY <1>0, <1>3, <1>4 DEF ProcessTypeOK
<1>6. RunHolds(j)' /\ RowNamesOwnSet(j)'
  BY <1>0, <1>2, <1>3, <1>4 DEF RunHolds, RowNamesOwnSet
<1>7. PlanCovers' /\ ReportCoversAsked'
  BY <1>0, <1>3, <1>4 DEF ProcessIInv, ProcessInv, PlanCovers, ReportCoversAsked, Jobs
<1> QED BY <1>0, <1>2, <1>3, <1>4, <1>5, <1>6, <1>7, RunMoves

LEMMA RereadKeeps == ASSUME ProcessIInv, NEW j \in RowJobs, Reread(j) PROVE ProcessIInv'
<1> USE DEF Reread, Goes
<1>0. ProcessTypeOK /\ j \in Jobs /\ j # Plan /\ RunHolds(j)
  BY DEF ProcessIInv, ProcessInv, Jobs
<1>1. ProcessTypeOK'
  BY <1>0 DEF ProcessTypeOK, WorkerSteps
<1>2. /\ at'[j] = "recommend" /\ copy'[j] = row[j]
      /\ \A i \in Jobs \ {j} : at'[i] = at[i]
      /\ \A i \in RowJobs \ {j} : copy'[i] = copy[i]
  BY <1>0 DEF ProcessTypeOK
<1>3. RunHolds(j)' /\ RowNamesOwnSet(j)'
  BY <1>0, <1>2 DEF ProcessIInv, RunHolds, RowNamesOwnSet
<1>4. PlanCovers' /\ ReportCoversAsked'
  BY <1>0, <1>2 DEF ProcessIInv, ProcessInv, PlanCovers, ReportCoversAsked, Jobs
<1> QED BY <1>0, <1>1, <1>2, <1>3, <1>4, RunMoves, RowStays

LEMMA SaveSetKeeps == ASSUME ProcessIInv, NEW j \in Jobs, SaveSet(j) PROVE ProcessIInv'
<1> USE DEF SaveSet, Goes
<1> DEFINE S == [job : Jobs, clips : SUBSET Clips]
           new == [job |-> j, clips |-> listed[j]]
<1>0. ProcessTypeOK /\ RunHolds(j) /\ at[j] = "save" /\ Len(sets) < MaxSets
      /\ Len(sets) \in Nat /\ Len(ideas) \in Nat /\ (j \in RowJobs => j # Plan) /\ Plan \in Jobs
  BY ProcessFields DEF ProcessIInv, ProcessInv, Jobs
<1>1. new \in S /\ sets \in Seq(S) /\ sets' = Append(sets, new) /\ new.clips = listed[j] /\ new.job = j
  BY <1>0 DEF ProcessTypeOK
<1> HIDE DEF new, S
<1>2. /\ sets' \in Seq(S) /\ Len(sets') = Len(sets) + 1
      /\ \A n \in 1..Len(sets) : sets'[n] = sets[n]
      /\ sets'[Len(sets) + 1] = new
  BY <1>1, AppendProperties
<1>3. /\ made' = [made EXCEPT ![j] = Len(sets) + 1]
      /\ at' = [at EXCEPT ![j] = IF j = Plan THEN "report" ELSE "understood"]
      /\ UNCHANGED <<clips, row, queue, throws, copy, listed, ideas, report, mishaps, asked>>
  OBVIOUS
<1> HIDE DEF SaveSet
<1>4. /\ made' \in [Jobs -> 0..MaxSets] /\ made'[j] = Len(sets) + 1
      /\ at' \in [Jobs -> WorkerSteps] /\ at'[j] = (IF j = Plan THEN "report" ELSE "understood")
      /\ \A i \in Jobs \ {j} : at'[i] = at[i] /\ made'[i] = made[i]
  <2>1. Len(sets) + 1 \in 0..MaxSets
    BY <1>0
  <2> QED BY <1>0, <1>3, <2>1 DEF ProcessTypeOK, WorkerSteps
<1>5. ProcessTypeOK'
  BY <1>0, <1>2, <1>3, <1>4 DEF ProcessTypeOK, S
<1>6. \A i \in 1..Len(ideas) : ideas[i].set <= Len(sets) /\ ideas[i].set \in 1..MaxSets
  BY <1>0, ProcessFields DEF ProcessIInv, OneIdeaOfSet
<1>7. RunHolds(j)'
  BY <1>0, <1>1, <1>2, <1>3, <1>4, <1>6 DEF RunHolds
<1>8. j \in RowJobs => RowNamesOwnSet(j)'
  BY <1>0, <1>4 DEF RowNamesOwnSet
<1>9. OneIdeaOfSet'
  BY <1>0, <1>2, <1>3, <1>6 DEF ProcessIInv, OneIdeaOfSet
<1>10. PlanCovers'
  <2>1. /\ queue'[Plan] = "none" => report' = 0
        /\ asked' \subseteq clips'[Plan]
        /\ at'[Plan] \in {"idle", "list", "save", "report"}
        /\ at'[Plan] = "save" => asked' \subseteq listed'[Plan]
        /\ report' <= Len(sets')
    BY <1>0, <1>2, <1>3, <1>4 DEF ProcessIInv, PlanCovers, ProcessTypeOK
  <2>2. at'[Plan] = "report" => asked' \subseteq sets'[made'[Plan]].clips
    <3>1. CASE j = Plan
      BY <1>0, <1>1, <1>2, <1>3, <1>4, <3>1 DEF ProcessIInv, PlanCovers
    <3>2. CASE j # Plan
      <4>1. at[Plan] = "report" => made[Plan] \in 1..Len(sets)
        BY <1>0 DEF ProcessIInv, RunHolds
      <4> QED BY <1>0, <1>2, <1>3, <1>4, <3>2, <4>1 DEF ProcessIInv, PlanCovers
    <3> QED BY <3>1, <3>2
  <2> QED BY <2>1, <2>2 DEF PlanCovers
<1>11. ReportCoversAsked'
  <2>1. report # 0 => report \in 1..Len(sets)
    BY <1>0 DEF ProcessIInv, PlanCovers, ProcessTypeOK
  <2> QED BY <1>2, <1>3, <2>1 DEF ProcessIInv, ProcessInv, ReportCoversAsked
<1>12. /\ \A i \in Jobs \ {j} : RunHolds(i)'
       /\ \A i \in RowJobs \ {j} : RowNamesOwnSet(i)'
       /\ \A i \in RowJobs \ {j} :
             row'[i].stage = "opportunity_ready" =>
                /\ row'[i].idea \in 1..Len(ideas')
                /\ ideas'[row'[i].idea] = [set |-> row'[i].set, blocked |-> FALSE]
                /\ sets'[row'[i].set].job = i
  BY <1>0, <1>2, <1>3, <1>4, OtherRuns
<1>13. ReadyIsTraceable'
  <2>1. ASSUME j \in RowJobs, row[j].stage = "opportunity_ready"
        PROVE  /\ row[j].idea \in 1..Len(ideas)
               /\ ideas[row[j].idea] = [set |-> row[j].set, blocked |-> FALSE]
               /\ sets'[row[j].set].job = j
    <3>1. /\ row[j].idea \in 1..Len(ideas) /\ ideas[row[j].idea] = [set |-> row[j].set, blocked |-> FALSE]
          /\ sets[row[j].set].job = j
      BY <2>1 DEF ProcessIInv, ProcessInv, ReadyIsTraceable
    <3>2. row[j].set \in 1..Len(sets)
      BY <1>0, <1>6, <3>1
    <3> QED BY <1>2, <3>1, <3>2
  <2> QED BY <1>3, <1>12, <2>1 DEF ReadyIsTraceable
<1> QED BY <1>5, <1>7, <1>8, <1>9, <1>10, <1>11, <1>12, <1>13 DEF ProcessIInv, ProcessInv

\* An opportunity is recommended for the understanding of this run.
LEMMA IdeaAdded ==
    ASSUME ProcessIInv, NEW j \in RowJobs, at[j] = "recommend", NEW b \in BOOLEAN,
           ideas' = Append(ideas, [set |-> made[j], blocked |-> b]), UNCHANGED sets
    PROVE  /\ ideas' \in Seq([set : 1..MaxSets, blocked : BOOLEAN])
           /\ Len(ideas') = Len(ideas) + 1 /\ Len(ideas') \in Nat
           /\ \A n \in 1..Len(ideas) : ideas'[n] = ideas[n]
           /\ ideas'[Len(ideas')] = [set |-> made[j], blocked |-> b]
           /\ \A n \in 1..Len(ideas') : n > Len(ideas) => n = Len(ideas')
           /\ OneIdeaOfSet'
<1> DEFINE I == [set : 1..MaxSets, blocked : BOOLEAN]
           new == [set |-> made[j], blocked |-> b]
<1>0. /\ ProcessTypeOK /\ RunHolds(j) /\ j \in Jobs /\ Len(ideas) \in Nat /\ Len(sets) \in Nat
      /\ Len(sets) <= MaxSets
  BY ProcessFields DEF ProcessIInv, ProcessInv, ProcessTypeOK, Jobs
<1>1. made[j] \in 1..Len(sets) /\ made[j] \in 1..MaxSets
  BY <1>0 DEF RunHolds
<1>2. ideas \in Seq(I) /\ new \in I /\ ideas' = Append(ideas, new) /\ new.set = made[j]
  BY <1>0, <1>1 DEF ProcessTypeOK
<1> HIDE DEF new, I
<1>3. /\ ideas' \in Seq(I) /\ Len(ideas') = Len(ideas) + 1
      /\ \A n \in 1..Len(ideas) : ideas'[n] = ideas[n]
      /\ ideas'[Len(ideas) + 1] = new
  BY <1>2, AppendProperties
<1>4. \A n \in 1..Len(ideas') : n > Len(ideas) => n = Len(ideas')
  BY <1>0, <1>3
<1>5. OneIdeaOfSet'
  <2>1. \A i \in 1..Len(ideas) : ideas[i].set # made[j] /\ ideas[i].set <= Len(sets)
    BY <1>0 DEF RunHolds, ProcessIInv, OneIdeaOfSet
  <2>2. \A i \in 1..Len(ideas') : \/ i \in 1..Len(ideas) /\ ideas'[i] = ideas[i]
                                  \/ i = Len(ideas) + 1 /\ ideas'[i].set = made[j]
    BY <1>0, <1>2, <1>3
  <2>3. \A i \in 1..Len(ideas') : ideas'[i].set <= Len(sets)
    BY <1>0, <1>1, <2>1, <2>2
  <2>4. \A i, k \in 1..Len(ideas') : ideas'[i].set = ideas'[k].set => i = k
    BY <2>1, <2>2 DEF ProcessIInv, OneIdeaOfSet
  <2> QED BY <2>3, <2>4 DEF OneIdeaOfSet
<1> QED BY <1>0, <1>3, <1>4, <1>5 DEF I, new

LEMMA RecommendKeeps == ASSUME ProcessIInv, NEW j \in RowJobs, Recommend(j) PROVE ProcessIInv'
<1>0. /\ ProcessTypeOK /\ j \in Jobs /\ j # Plan /\ RunHolds(j) /\ RowNamesOwnSet(j)
      /\ at[j] = "recommend" /\ made[j] # 0 /\ throws[j] # 2
      /\ Len(ideas) \in Nat /\ Len(sets) \in Nat
      /\ UNCHANGED <<clips, row, throws, sets, report, mishaps, asked>>
  BY ProcessFields DEF ProcessIInv, ProcessInv, Jobs, Recommend, RunHolds
\* Nothing is recommended.
<1>1. CASE Goes(j, "refuse") /\ UNCHANGED <<ideas, queue, copy, listed, made>>
  <2>1. at'[j] = "refuse" /\ \A i \in Jobs \ {j} : at'[i] = at[i]
    BY <1>0, <1>1 DEF ProcessTypeOK, Goes
  <2>2. ProcessTypeOK'
    BY <1>0, <1>1 DEF ProcessTypeOK, Goes, WorkerSteps
  <2>3. RunHolds(j)' /\ RowNamesOwnSet(j)'
    BY <1>0, <1>1, <2>1 DEF RunHolds, RowNamesOwnSet
  <2>4. PlanCovers' /\ ReportCoversAsked'
    BY <1>0, <1>1, <2>1 DEF ProcessIInv, ProcessInv, PlanCovers, ReportCoversAsked, Jobs
  <2> QED BY <1>0, <1>1, <2>1, <2>2, <2>3, <2>4, RunMoves, RowStays
\* An opportunity, or a blocked one, which ends the run.
<1>2. ASSUME NEW b \in BOOLEAN, ideas' = Append(ideas, [set |-> made[j], blocked |-> b]),
             \/ b = FALSE /\ Goes(j, "ready") /\ UNCHANGED <<queue, copy, listed, made>>
             \/ JobDone(j, "completed")
      PROVE  ProcessIInv'
  <2>1. /\ ideas' \in Seq([set : 1..MaxSets, blocked : BOOLEAN])
        /\ Len(ideas') = Len(ideas) + 1 /\ Len(ideas') \in Nat
        /\ \A n \in 1..Len(ideas) : ideas'[n] = ideas[n]
        /\ ideas'[Len(ideas')] = [set |-> made[j], blocked |-> b]
        /\ \A n \in 1..Len(ideas') : n > Len(ideas) => n = Len(ideas')
        /\ OneIdeaOfSet'
    BY <1>0, <1>2, IdeaAdded
  <2>2. /\ \A i \in Jobs \ {j} : /\ at'[i] = at[i] /\ queue'[i] = queue[i]
                                 /\ throws'[i] = throws[i] /\ made'[i] = made[i]
        /\ \A i \in RowJobs \ {j} : row'[i] = row[i] /\ copy'[i] = copy[i]
    <3>1. CASE Goes(j, "ready") /\ UNCHANGED <<queue, copy, listed, made>>
      BY <1>0, <3>1 DEF ProcessTypeOK, Goes
    <3>2. CASE JobDone(j, "completed")
      BY <1>0, <3>2, JobDoneLeaves
    <3> QED BY <1>2, <3>1, <3>2
  <2>3. ProcessTypeOK'
    <3>1. CASE Goes(j, "ready") /\ UNCHANGED <<queue, copy, listed, made>>
      BY <1>0, <2>1, <3>1 DEF ProcessTypeOK, Goes, WorkerSteps
    <3>2. CASE JobDone(j, "completed")
      BY <1>0, <2>1, <3>2, JobDoneLeaves DEF ProcessTypeOK
    <3> QED BY <1>2, <3>1, <3>2
  <2>4. RunHolds(j)' /\ RowNamesOwnSet(j)'
    <3>1. CASE b = FALSE /\ Goes(j, "ready") /\ UNCHANGED <<queue, copy, listed, made>>
      <4>1. at'[j] = "ready"
        BY <1>0, <3>1 DEF ProcessTypeOK, Goes
      <4>2. \E i \in 1..Len(ideas') : ideas'[i] = [set |-> made[j], blocked |-> FALSE]
        <5>1. Len(ideas') \in 1..Len(ideas')
          BY <1>0, <2>1
        <5> QED BY <2>1, <3>1, <5>1
      <4> QED BY <1>0, <3>1, <4>1, <4>2 DEF RunHolds, RowNamesOwnSet
    <3>2. CASE JobDone(j, "completed")
      BY <1>0, <3>2, JobDoneLeaves DEF RunHolds, RowNamesOwnSet
    <3> QED BY <1>2, <3>1, <3>2
  <2>5. PlanCovers'
    <3>1. CASE Goes(j, "ready") /\ UNCHANGED <<queue, copy, listed, made>>
      BY <1>0, <2>2, <3>1 DEF ProcessIInv, PlanCovers, Jobs
    <3>2. CASE JobDone(j, "completed")
      BY <1>0, <3>2, JobDoneLeaves DEF ProcessIInv, PlanCovers, Jobs
    <3> QED BY <1>2, <3>1, <3>2
  <2>6. ReportCoversAsked'
    BY <1>0 DEF ProcessIInv, ProcessInv, ReportCoversAsked
  <2>7. /\ \A i \in Jobs \ {j} : RunHolds(i)'
        /\ \A i \in RowJobs \ {j} : RowNamesOwnSet(i)'
        /\ \A i \in RowJobs \ {j} :
             row'[i].stage = "opportunity_ready" =>
                /\ row'[i].idea \in 1..Len(ideas')
                /\ ideas'[row'[i].idea] = [set |-> row'[i].set, blocked |-> FALSE]
                /\ sets'[row'[i].set].job = i
    BY <1>0, <2>1, <2>2, OtherRuns
  <2>8. ReadyIsTraceable'
    <3>1. row[j].stage = "opportunity_ready" =>
            /\ row[j].idea \in 1..Len(ideas')
            /\ ideas'[row[j].idea] = [set |-> row[j].set, blocked |-> FALSE]
            /\ sets[row[j].set].job = j
      <4>1. \A n : n \in 1..Len(ideas) => n \in 1..Len(ideas') /\ ideas'[n] = ideas[n]
        BY <1>0, <2>1
      <4> QED BY <4>1 DEF ProcessIInv, ProcessInv, ReadyIsTraceable
    <3> QED BY <1>0, <2>7, <3>1 DEF ReadyIsTraceable
  <2> QED BY <2>1, <2>3, <2>4, <2>5, <2>6, <2>7, <2>8 DEF ProcessIInv, ProcessInv
<1> QED BY <1>1, <1>2 DEF Recommend

\* The opportunity a run has saved is found by its understanding.
LEMMA OwnIdeaIsMine ==
    ASSUME ProcessIInv, NEW j \in RowJobs, at[j] = "ready"
    PROVE  OwnIdea(j) \in 1..Len(ideas) /\ ideas[OwnIdea(j)] = [set |-> made[j], blocked |-> FALSE]
<1>1. PICK n \in 1..Len(ideas) : ideas[n] = [set |-> made[j], blocked |-> FALSE]
  BY DEF ProcessIInv, RunHolds, Jobs
<1>2. OwnIdea(j) \in 1..Len(ideas) /\ ideas[OwnIdea(j)].set = made[j]
  BY <1>1 DEF OwnIdea
<1>3. OwnIdea(j) = n
  BY <1>1, <1>2 DEF ProcessIInv, OneIdeaOfSet
<1> QED BY <1>1, <1>3

LEMMA MarkReadyKeeps == ASSUME ProcessIInv, NEW j \in RowJobs, MarkReady(j) PROVE ProcessIInv'
<1> DEFINE new == [copy[j] EXCEPT !.stage = "opportunity_ready", !.idea = OwnIdea(j)]
<1>0. /\ ProcessTypeOK /\ j \in Jobs /\ j # Plan /\ RunHolds(j) /\ RowNamesOwnSet(j)
      /\ at[j] = "ready" /\ JobDone(j, "completed") /\ row' = [row EXCEPT ![j] = new]
      /\ Len(ideas) \in Nat /\ Len(sets) \in Nat /\ Len(sets) <= MaxSets
      /\ UNCHANGED <<clips, throws, sets, ideas, report, mishaps, asked>>
  BY ProcessFields DEF ProcessIInv, ProcessInv, ProcessTypeOK, Jobs, MarkReady
<1>1. /\ made[j] \in 1..Len(sets) /\ sets[made[j]].job = j /\ copy[j].set = made[j]
      /\ throws[j] # 2
  BY <1>0 DEF RunHolds, RowNamesOwnSet
<1>2. OwnIdea(j) \in 1..Len(ideas) /\ ideas[OwnIdea(j)] = [set |-> made[j], blocked |-> FALSE]
  BY <1>0, OwnIdeaIsMine
<1>3. OwnIdea(j) \in 0..MaxSets
  <2>1. Len(ideas) <= Len(sets)
    BY <1>0, IdeasFewerThanSets DEF ProcessIInv
  <2> QED BY <1>0, <1>2, <2>1
<1>4. copy[j] \in ReelRow
  BY <1>0 DEF ProcessTypeOK
<1>5. new \in ReelRow /\ new.stage = "opportunity_ready" /\ new.set = copy[j].set /\ new.idea = OwnIdea(j)
  BY <1>3, <1>4 DEF ReelRow, Stages
<1> HIDE DEF new
<1>6. /\ row' \in [RowJobs -> ReelRow] /\ row'[j] = new
      /\ \A i \in RowJobs \ {j} : row'[i] = row[i]
  BY <1>0, <1>5 DEF ProcessTypeOK
<1>7. ProcessTypeOK'
  BY <1>0, <1>6, JobDoneLeaves DEF ProcessTypeOK
<1>8. RunHolds(j)' /\ RowNamesOwnSet(j)'
  BY <1>0, <1>1, JobDoneLeaves DEF RunHolds, RowNamesOwnSet
<1>9. PlanCovers' /\ ReportCoversAsked'
  BY <1>0, JobDoneLeaves DEF ProcessIInv, ProcessInv, PlanCovers, ReportCoversAsked, Jobs
<1>10. \A i \in Jobs \ {j} : /\ at'[i] = at[i] /\ queue'[i] = queue[i]
                             /\ throws'[i] = throws[i] /\ made'[i] = made[i]
  BY <1>0, JobDoneLeaves
<1>11. \A i \in RowJobs \ {j} : row'[i] = row[i] /\ copy'[i] = copy[i]
  BY <1>0, <1>6, JobDoneLeaves
<1>12. /\ row'[j].idea \in 1..Len(ideas)
       /\ ideas[row'[j].idea] = [set |-> row'[j].set, blocked |-> FALSE]
       /\ sets[row'[j].set].job = j
  BY <1>1, <1>2, <1>5, <1>6
<1> QED BY <1>0, <1>7, <1>8, <1>9, <1>10, <1>11, <1>12, RunMoves

LEMMA ThrowKeeps == ASSUME ProcessIInv, NEW j \in Jobs, Throw(j) PROVE ProcessIInv'
<1>0. ProcessTypeOK /\ RunHolds(j) /\ at[j] # "idle"
  BY DEF ProcessIInv, ProcessInv, Throw
<1>1. throws[j] \in 0..1 /\ throws' = [throws EXCEPT ![j] = throws[j] + 1]
  BY <1>0 DEF RunHolds, ProcessTypeOK, Throw
<1>2. /\ throws' \in [Jobs -> 0..2] /\ throws'[j] = throws[j] + 1
      /\ \A i \in Jobs \ {j} : throws'[i] = throws[i]
  <2>1. throws[j] + 1 \in 0..2
    BY <1>1
  <2> QED BY <1>0, <1>1, <2>1 DEF ProcessTypeOK
<1>3. NextAttempt(j) \in {"waiting", "failed"} /\ (throws'[j] = 2 => NextAttempt(j) = "failed")
  BY <1>1, <1>2 DEF NextAttempt
<1>4. mishaps' \in 0..MaxMishaps
  BY <1>0 DEF ProcessTypeOK, Throw
<1> QED BY <1>2, <1>3, <1>4, JobDoneKeeps DEF Throw

LEMMA StallKeeps == ASSUME ProcessIInv, NEW j \in Jobs, Stall(j) PROVE ProcessIInv'
<1>0. ProcessTypeOK /\ RunHolds(j)
  BY DEF ProcessIInv, ProcessInv
<1>1. throws[j] # 2 /\ throws' = throws /\ throws \in [Jobs -> 0..2]
  BY <1>0 DEF RunHolds, ProcessTypeOK, Stall
<1>2. mishaps' \in 0..MaxMishaps
  BY <1>0 DEF ProcessTypeOK, Stall
<1> QED BY <1>1, <1>2, JobDoneKeeps DEF Stall

-----------------------------------------------------------------------------
LEMMA ProcessStepKeeps == ProcessIInv /\ [ProcessNext]_processVars => ProcessIInv'
<1> SUFFICES ASSUME ProcessIInv, [ProcessNext]_processVars PROVE ProcessIInv'
  OBVIOUS
<1>1. ASSUME NEW j \in Jobs, WorkerStep(j) PROVE ProcessIInv'
  BY <1>1, TakeKeeps, ListSourcesKeeps, SaveSetKeeps, MatchKeeps, ReadRowKeeps, FailKeeps, ObserveKeeps,
     UnderstoodKeeps, RereadKeeps, RecommendKeeps, MarkReadyKeeps DEF WorkerStep
<1>2. CASE UNCHANGED processVars
  <2> USE <1>2 DEF processVars
  <2>1. ProcessInv'
    BY DEF ProcessIInv, ProcessInv, ProcessTypeOK, ReadyIsTraceable, ReportCoversAsked
  <2>2. (\A j \in Jobs : RunHolds(j)') /\ (\A j \in RowJobs : RowNamesOwnSet(j)')
    BY DEF ProcessIInv, RunHolds, RowNamesOwnSet
  <2>3. OneIdeaOfSet' /\ PlanCovers'
    BY DEF ProcessIInv, OneIdeaOfSet, PlanCovers
  <2> QED BY <2>1, <2>2, <2>3 DEF ProcessIInv
<1> QED BY <1>1, <1>2, SaveRowKeeps, QueueRowKeeps, QueuePlanKeeps, RegisterKeeps, ThrowKeeps, StallKeeps
        DEF ProcessNext

\* Whatever crash or error has a job run again, what the founder is shown came from the clips it is
\* shown for, by the understanding its row names (the reel-process worker).
THEOREM ReelsAreTraceable == ProcessSpec => []ProcessInv
<1>1. ProcessIInv => ProcessInv
  BY DEF ProcessIInv
<1> QED BY ProcessInitOK, ProcessStepKeeps, <1>1, PTL DEF ProcessSpec

(***************************************************************************)
(* For any finite set of founders' requests and any number of reels:       *)
(* versions are numbered, pointed at and rendered as their rows say.       *)
(* RenderIInv is inductive.                                                *)
(***************************************************************************)

HIDE ProcessAssumption DEF ProcessAssumption
USE RenderAssumption DEF RenderAssumption

\* The versions a request holds: saved, of the asset it is about, and of the number that follows.
MakerHolds(r) ==
    /\ making[r] \in {"idle", "queue"} <=> kind[r] = "none"
    /\ making[r] = "idle" => mine[r] = 0
    /\ kind[r] = "swap" => /\ making[r] \in {"asset", "point", "row"}
                           /\ base[r] \in 1..Len(reels) /\ current[AssetOf(base[r])] # 0
                           /\ making[r] = "asset" <=> mine[r] = 0
    /\ kind[r] \in {"accept", "create"} => making[r] \in {"asset", "context", "row"}
    /\ kind[r] # "none" /\ mine[r] = 0 => kind[r] = "swap"
    /\ kind[r] # "none" /\ mine[r] # 0 => mine[r] \in 1..Len(reels)
    /\ making[r] = "point" => /\ AssetOf(mine[r]) = AssetOf(base[r])
                              /\ reels[mine[r]].number = reels[base[r]].number + 1
    /\ making[r] = "asset" /\ kind[r] # "swap" =>
          AssetOf(mine[r]) = mine[r] /\ reels[mine[r]].number = 1 /\ current[mine[r]] = 0
    /\ making[r] \in {"context", "row"} /\ kind[r] # "swap" => current[AssetOf(mine[r])] # 0
    /\ making[r] = "queue" => mine[r] \in 1..Len(renders) /\ entry[mine[r]] = "none"

\* Two requests never hold the same new version or the same new job.
MakersApart ==
    \A q, r \in Makers :
        making[q] = making[r] /\ making[q] \in {"asset", "queue"} /\ mine[q] = mine[r] /\ mine[q] # 0
            => q = r

\* A version's number and its asset's are at most its place; versions shown are saved, and of an asset with a
\* current one; without a race that one has the highest number of them.
CurrentIsLatest ==
    /\ \A v \in 1..Len(reels) : reels[v].number <= v /\ AssetOf(v) <= v
    /\ \A a \in Numbers : current[a] # 0 => current[a] \in shown /\ AssetOf(current[a]) = a
    /\ \A v \in shown : v \in 1..Len(reels) /\ current[AssetOf(v)] # 0
    /\ raced = {} => \A v \in shown : reels[v].number <= reels[current[AssetOf(v)]].number

\* A job the queue has an entry of has a row; a worker runs active ones only.
JobsHold ==
    \A j \in Numbers :
        /\ entry[j] # "none" => j <= Len(renders)
        /\ entry[j] = "active" <=> work[j] # "idle"
        /\ errors[j] = 2 => entry[j] = "failed"
        /\ entry[j] = "none" => errors[j] = 0
        /\ work[j] = "ready" => renders[j].version \in rendered

\* There is room for what the requests under way still have to write.
Claimed  == {r \in Makers : kind[r] = "swap" /\ mine[r] = 0}
Rowless  == {r \in Makers : making[r] \notin {"idle", "queue"}}
RoomLeft == /\ Len(reels) + Cardinality(Claimed) <= MaxReels
            /\ Len(renders) + Cardinality(Rowless) <= MaxReels

RenderIInv ==
    /\ RenderInv
    /\ \A r \in Makers : MakerHolds(r)
    /\ MakersApart
    /\ CurrentIsLatest
    /\ JobsHold
    /\ RoomLeft

-----------------------------------------------------------------------------
LEMMA RenderInitOK == RenderInit => RenderIInv
<1> SUFFICES ASSUME RenderInit PROVE RenderIInv
  OBVIOUS
<1> USE DEF RenderInit
<1>1. RenderTypeOK
  BY DEF RenderTypeOK, Numbers
<1>2. ReadyMeansRendered /\ PointerNeverDangles /\ NumbersUniqueUnlessRaced
  BY DEF ReadyMeansRendered, PointerNeverDangles, NumbersUniqueUnlessRaced
<1>3. (\A r \in Makers : MakerHolds(r)) /\ MakersApart
  BY DEF MakerHolds, MakersApart
<1>4. CurrentIsLatest /\ JobsHold
  BY DEF CurrentIsLatest, JobsHold
<1>5. Claimed = {} /\ Rowless = {}
  BY DEF Claimed, Rowless
<1>6. RoomLeft
  BY <1>5, FS_EmptySet DEF RoomLeft
<1> QED BY <1>1, <1>2, <1>3, <1>4, <1>6 DEF RenderIInv, RenderInv

-----------------------------------------------------------------------------
LEMMA RenderFields ==
    ASSUME RenderTypeOK
    PROVE  /\ \A v \in 1..Len(reels) : /\ reels[v] \in Reel /\ reels[v].asset \in Numbers
                                       /\ reels[v].number \in Numbers
           /\ \A j \in 1..Len(renders) : renders[j].version \in Numbers
           /\ Len(reels) \in Nat /\ Len(renders) \in Nat
           /\ 1..Len(reels) \subseteq Numbers /\ 1..Len(renders) \subseteq Numbers
<1> DEFINE JobRow == [version : Numbers, stage : RenderStages]
<1>1. /\ reels \in Seq(Reel) /\ Len(reels) <= MaxReels
      /\ renders \in Seq(JobRow) /\ Len(renders) <= MaxReels
  BY DEF RenderTypeOK
<1> HIDE DEF JobRow
<1>2. /\ Len(reels) \in Nat /\ \A v \in 1..Len(reels) : reels[v] \in Reel
      /\ Len(renders) \in Nat /\ \A j \in 1..Len(renders) : renders[j] \in JobRow
  BY <1>1, ElementOfSeq
<1>3. 1..Len(reels) \subseteq Numbers /\ 1..Len(renders) \subseteq Numbers
  BY <1>1, <1>2 DEF Numbers
<1> QED BY <1>2, <1>3 DEF Reel, JobRow

\* What the other requests hold stays theirs: saved versions do not change, an asset keeps having a
\* current version, and nobody touches an asset or a job that is about to be theirs.
LEMMA OthersHold ==
    ASSUME RenderIInv, NEW r \in Makers,
           \A s \in Makers \ {r} : /\ making'[s] = making[s] /\ kind'[s] = kind[s]
                                   /\ base'[s] = base[s] /\ mine'[s] = mine[s],
           Len(reels) <= Len(reels'), Len(reels') \in Nat,
           \A v \in 1..Len(reels) : reels'[v] = reels[v],
           Len(renders) <= Len(renders'), Len(renders') \in Nat,
           \A a \in Numbers : current[a] # 0 => current'[a] # 0,
           \A s \in Makers \ {r} : making[s] = "asset" /\ kind[s] # "swap" => current'[mine[s]] = current[mine[s]],
           \A s \in Makers \ {r} : making[s] = "queue" => entry'[mine[s]] = entry[mine[s]]
    PROVE  \A s \in Makers \ {r} : MakerHolds(s)'
<1>1. RenderTypeOK /\ \A s \in Makers : MakerHolds(s)
  BY DEF RenderIInv, RenderInv
<1> SUFFICES ASSUME NEW s \in Makers \ {r} PROVE MakerHolds(s)'
  OBVIOUS
<1>2. Len(reels) \in Nat /\ Len(renders) \in Nat
  BY <1>1, RenderFields
<1>3. kind[s] # "none" /\ mine[s] # 0 => mine[s] \in 1..Len(reels) /\ reels'[mine[s]] = reels[mine[s]]
                                        /\ reels[mine[s]].asset \in Numbers
  BY <1>1, RenderFields DEF MakerHolds
<1>4. kind[s] = "swap" => base[s] \in 1..Len(reels) /\ reels'[base[s]] = reels[base[s]]
                          /\ reels[base[s]].asset \in Numbers
  BY <1>1, RenderFields DEF MakerHolds
<1>5. \A n : n \in 1..Len(reels) => n \in 1..Len(reels')
  BY <1>2
<1>6. \A n : n \in 1..Len(renders) => n \in 1..Len(renders')
  BY <1>2
<1>7. making[s] = "asset" /\ kind[s] # "swap" => mine[s] # 0
  BY <1>1 DEF MakerHolds
<1>8. MakerHolds(s)
  BY <1>1
<1>9. UNCHANGED <<making[s], kind[s], base[s], mine[s]>>
  OBVIOUS
<1>10. kind[s] = "swap" => current'[AssetOf(base[s])'] # 0 /\ base[s] \in 1..Len(reels')
  BY <1>4, <1>5, <1>8 DEF MakerHolds, AssetOf
<1>11. kind[s] # "none" /\ mine[s] # 0 =>
          /\ mine[s] \in 1..Len(reels') /\ AssetOf(mine[s])' = AssetOf(mine[s])
          /\ reels'[mine[s]].number = reels[mine[s]].number
          /\ current[AssetOf(mine[s])] # 0 => current'[AssetOf(mine[s])] # 0
  BY <1>3, <1>5, <1>9 DEF AssetOf
<1>12. making[s] = "point" => /\ AssetOf(mine[s])' = AssetOf(base[s])'
                              /\ reels'[mine[s]].number = reels'[base[s]].number + 1
  <2> SUFFICES ASSUME making[s] = "point"
               PROVE  AssetOf(mine[s])' = AssetOf(base[s])' /\ reels'[mine[s]].number = reels'[base[s]].number + 1
    OBVIOUS
  <2>1. kind[s] = "swap" /\ mine[s] # 0
    BY <1>1, <1>8 DEF MakerHolds, RenderTypeOK
  <2> QED BY <1>3, <1>4, <1>8, <1>9, <2>1 DEF MakerHolds, AssetOf
<1>13. making[s] = "queue" => mine[s] \in 1..Len(renders') /\ entry'[mine[s]] = "none"
  BY <1>6, <1>8 DEF MakerHolds
<1>14. making[s] \in {"asset", "context", "row"} /\ kind[s] # "swap" => kind[s] # "none" /\ mine[s] # 0
  BY <1>8 DEF MakerHolds
<1>15. making[s] = "asset" /\ kind[s] # "swap" => current'[mine[s]] = 0
  BY <1>8 DEF MakerHolds
<1> QED BY <1>8, <1>9, <1>10, <1>11, <1>12, <1>13, <1>14, <1>15 DEF MakerHolds

\* Rooms are counted over requests.
LEMMA RoomCounts ==
    /\ IsFiniteSet(Claimed) /\ IsFiniteSet(Rowless)
    /\ Cardinality(Claimed) \in Nat /\ Cardinality(Rowless) \in Nat
<1>1. Claimed \subseteq Makers /\ Rowless \subseteq Makers
  BY DEF Claimed, Rowless
<1> QED BY <1>1, FS_Subset, FS_CardinalityType

\* The same sets, or one request more or less.
LEMMA OneMore ==
    ASSUME NEW S, IsFiniteSet(S), NEW x
    PROVE  /\ x \notin S => Cardinality(S \cup {x}) = Cardinality(S) + 1
           /\ x \in S => Cardinality(S \ {x}) = Cardinality(S) - 1
  BY FS_AddElement, FS_RemoveElement

\* A job of the queue, or one that a worker runs, has a row.
LEMMA JobHasRow ==
    ASSUME RenderIInv, NEW j \in Numbers, entry[j] # "none" \/ work[j] # "idle"
    PROVE  j \in 1..Len(renders)
<1>1. j <= Len(renders)
  BY DEF RenderIInv, JobsHold
<1>2. Len(renders) \in Nat
  BY RenderFields DEF RenderIInv, RenderInv
<1> QED BY <1>1, <1>2 DEF Numbers

\* A worker writes the stage of its row.
LEMMA StageWritten ==
    ASSUME RenderTypeOK, NEW j \in 1..Len(renders), NEW e \in RenderStages,
           renders' = [renders EXCEPT ![j].stage = e]
    PROVE  /\ renders' \in Seq([version : Numbers, stage : RenderStages])
           /\ Len(renders') = Len(renders)
           /\ \A i \in 1..Len(renders) : renders'[i].version = renders[i].version
           /\ renders'[j].stage = e
           /\ \A i \in 1..Len(renders) : i # j => renders'[i].stage = renders[i].stage
<1> DEFINE JobRow == [version : Numbers, stage : RenderStages]
<1>1. renders \in Seq(JobRow)
  BY DEF RenderTypeOK
<1>2. renders[j] \in JobRow
  BY <1>1, ElementOfSeq
<1>3. [renders[j] EXCEPT !.stage = e] \in JobRow
  BY <1>2
<1>4. renders' = [renders EXCEPT ![j] = [renders[j] EXCEPT !.stage = e]]
  OBVIOUS
<1> QED BY <1>1, <1>2, <1>3, <1>4, ExceptSeq

\* A worker's step leaves the requests, the versions and the pointers as they are.
LEMMA WorkerKeeps ==
    ASSUME RenderIInv, RenderTypeOK', ReadyMeansRendered', JobsHold',
           UNCHANGED <<reels, current, requestVars, shown, raced>>,
           Len(renders') = Len(renders),
           \A i \in Numbers : entry[i] = "none" => entry'[i] = "none"
    PROVE  RenderIInv'
<1> USE DEF requestVars
<1>1. PointerNeverDangles' /\ NumbersUniqueUnlessRaced'
  BY DEF RenderIInv, RenderInv, PointerNeverDangles, NumbersUniqueUnlessRaced, AssetOf
<1>2. \A r \in Makers : MakerHolds(r)'
  <2>1. \A r \in Makers : making[r] = "queue" => mine[r] \in Numbers
    BY RenderFields DEF RenderIInv, RenderInv, MakerHolds
  <2> QED BY <2>1 DEF RenderIInv, MakerHolds, AssetOf
<1>3. MakersApart' /\ CurrentIsLatest'
  BY DEF RenderIInv, MakersApart, CurrentIsLatest, AssetOf
<1>4. RoomLeft'
  BY DEF RenderIInv, RoomLeft, Claimed, Rowless
<1> QED BY <1>1, <1>2, <1>3, <1>4 DEF RenderIInv, RenderInv

LEMMA TakeRenderKeeps == ASSUME RenderIInv, NEW j \in Numbers, TakeRender(j) PROVE RenderIInv'
<1> USE DEF TakeRender, JobEnds, Works
<1>0. RenderTypeOK /\ JobsHold /\ j \in 1..Len(renders)
  BY JobHasRow DEF RenderIInv, RenderInv
<1>1. /\ Len(renders') = Len(renders)
      /\ \A i \in 1..Len(renders) : renders'[i].version = renders[i].version
      /\ \A i \in 1..Len(renders) : renders'[i].stage \in {renders[i].stage, "rendering"}
  BY <1>0, StageWritten DEF RenderStages
<1>2. RenderTypeOK'
  <2>1. entry' \in [Numbers -> {"none", "waiting", "active", "completed", "failed"}]
    <3>1. \E e \in {"completed", "active"} : entry' = [entry EXCEPT ![j] = e]
      OBVIOUS
    <3> QED BY <1>0, <3>1 DEF RenderTypeOK
  <2>3. work' \in [Numbers -> {"idle", "render", "store", "ready", "failed"}]
    <3>1. \E s \in {"idle", "render"} : work' = [work EXCEPT ![j] = s]
      OBVIOUS
    <3> QED BY <1>0, <3>1 DEF RenderTypeOK
  <2>2. renders' \in Seq([version : Numbers, stage : RenderStages]) /\ Len(renders') <= MaxReels
    BY <1>0, StageWritten DEF RenderTypeOK, RenderStages
  <2> QED BY <1>0, <2>1, <2>2, <2>3 DEF RenderTypeOK, requestVars
<1>3. ReadyMeansRendered'
  BY <1>1 DEF RenderIInv, RenderInv, ReadyMeansRendered
<1>4. /\ entry'[j] \in {"completed", "active"} /\ (entry'[j] = "active" <=> work'[j] = "render")
      /\ work'[j] \in {"idle", "render"}
      /\ \A i \in Numbers \ {j} : entry'[i] = entry[i] /\ work'[i] = work[i]
  BY <1>0 DEF RenderTypeOK
<1>5. JobsHold'
  BY <1>0, <1>1, <1>4, RenderFields DEF JobsHold, Numbers
<1> QED BY <1>1, <1>2, <1>3, <1>4, <1>5, WorkerKeeps

LEMMA RenderKeeps == ASSUME RenderIInv, NEW j \in Numbers, Render(j) PROVE RenderIInv'
<1> USE DEF Render, Works
<1>1. RenderTypeOK'
  BY DEF RenderIInv, RenderInv, RenderTypeOK, requestVars
<1>2. ReadyMeansRendered'
  BY DEF RenderIInv, RenderInv, ReadyMeansRendered
<1>3. JobsHold'
  BY DEF RenderIInv, RenderInv, JobsHold, RenderTypeOK
<1> QED BY <1>1, <1>2, <1>3, WorkerKeeps

LEMMA SaveRenderKeeps == ASSUME RenderIInv, NEW j \in Numbers, SaveRender(j) PROVE RenderIInv'
<1> USE DEF SaveRender, Works
<1>0. j \in 1..Len(renders)
  BY JobHasRow
<1>1. RenderTypeOK'
  BY <1>0, RenderFields DEF RenderIInv, RenderInv, RenderTypeOK, requestVars
<1>2. ReadyMeansRendered'
  BY DEF RenderIInv, RenderInv, ReadyMeansRendered
<1>3. JobsHold'
  BY DEF RenderIInv, RenderInv, JobsHold, RenderTypeOK
<1> QED BY <1>1, <1>2, <1>3, WorkerKeeps

LEMMA SettleKeeps == ASSUME RenderIInv, NEW j \in Numbers, Settle(j) PROVE RenderIInv'
<1> USE DEF Settle, JobEnds, Works
<1>0. RenderTypeOK /\ JobsHold /\ j \in 1..Len(renders) /\ entry[j] = "active"
  BY JobHasRow DEF RenderIInv, RenderInv, JobsHold
<1>1. /\ Len(renders') = Len(renders)
      /\ \A i \in 1..Len(renders) : renders'[i].version = renders[i].version
      /\ renders'[j].stage = work[j]
      /\ \A i \in 1..Len(renders) : i # j => renders'[i].stage = renders[i].stage
  BY <1>0, StageWritten DEF RenderStages
<1>2. RenderTypeOK'
  BY <1>0, StageWritten DEF RenderTypeOK, requestVars, RenderStages
<1>3. ReadyMeansRendered'
  BY <1>0, <1>1 DEF RenderIInv, RenderInv, ReadyMeansRendered, JobsHold
<1>4. /\ entry'[j] = "completed" /\ work'[j] = "idle"
      /\ \A i \in Numbers \ {j} : entry'[i] = entry[i] /\ work'[i] = work[i]
  BY <1>0 DEF RenderTypeOK
<1>5. JobsHold'
  BY <1>0, <1>1, <1>4, RenderFields DEF JobsHold, Numbers
<1> QED BY <1>0, <1>1, <1>2, <1>3, <1>4, <1>5, WorkerKeeps

LEMMA WorkerFallsKeeps == ASSUME RenderIInv, NEW j \in Numbers, WorkerFalls(j) PROVE RenderIInv'
<1> USE DEF WorkerFalls, JobEnds, Works
<1>0. errors[j] \in 0..1 /\ falls' \in 0..MaxFalls
  BY DEF RenderIInv, RenderInv, RenderTypeOK, JobsHold
<1>1. RenderTypeOK'
  <2>1. errors' = errors \/ errors' = [errors EXCEPT ![j] = errors[j] + 1]
    OBVIOUS
  <2>2. errors[j] + 1 \in 0..2 /\ errors \in [Numbers -> 0..2]
    BY <1>0 DEF RenderIInv, RenderInv, RenderTypeOK
  <2>3. errors' \in [Numbers -> 0..2]
    BY <2>1, <2>2
  <2> QED BY <1>0, <2>3 DEF RenderIInv, RenderInv, RenderTypeOK, requestVars
<1>2. ReadyMeansRendered'
  BY DEF RenderIInv, RenderInv, ReadyMeansRendered
<1>3. /\ entry'[j] \in {"waiting", "failed"} /\ work'[j] = "idle"
      /\ errors'[j] = 2 => entry'[j] = "failed"
      /\ \A i \in Numbers \ {j} : entry'[i] = entry[i] /\ work'[i] = work[i] /\ errors'[i] = errors[i]
  BY <1>0 DEF RenderIInv, RenderInv, RenderTypeOK
<1>4. JobsHold'
  BY <1>3 DEF RenderIInv, RenderInv, JobsHold
<1> QED BY <1>1, <1>2, <1>3, <1>4, WorkerKeeps

-----------------------------------------------------------------------------
\* New versions disturb no pointer.
LEMMA PointersStay ==
    ASSUME RenderIInv, UNCHANGED <<current, shown, raced>>,
           Len(reels') \in Nat, Len(reels) <= Len(reels'),
           \A v \in 1..Len(reels) : reels'[v] = reels[v],
           \A v \in 1..Len(reels') : v > Len(reels) => reels'[v].number <= v /\ AssetOf(v)' <= v
    PROVE  PointerNeverDangles' /\ NumbersUniqueUnlessRaced' /\ CurrentIsLatest'
<1>1. Len(reels) \in Nat /\ \A v \in 1..Len(reels) : reels[v].asset \in Numbers
  BY RenderFields DEF RenderIInv, RenderInv
<1>2. \A v \in shown : v \in 1..Len(reels) /\ reels'[v] = reels[v]
  BY DEF RenderIInv, CurrentIsLatest
<1>3. \A a \in Numbers : current[a] # 0 => current[a] \in 1..Len(reels) /\ reels'[current[a]] = reels[current[a]]
  BY <1>2 DEF RenderIInv, CurrentIsLatest
<1>4. PointerNeverDangles'
  BY <1>1, <1>3 DEF RenderIInv, RenderInv, PointerNeverDangles, AssetOf
<1>5. NumbersUniqueUnlessRaced'
  BY <1>2 DEF RenderIInv, RenderInv, NumbersUniqueUnlessRaced, AssetOf
<1>6. CurrentIsLatest'
  <2>1. \A v \in 1..Len(reels') : reels'[v].number <= v /\ AssetOf(v)' <= v
    BY <1>1 DEF RenderIInv, CurrentIsLatest, AssetOf
  <2>2. \A a \in Numbers : current'[a] # 0 => current'[a] \in shown' /\ AssetOf(current[a])' = a
    BY <1>3 DEF RenderIInv, CurrentIsLatest, AssetOf
  <2>3. \A v \in shown' : v \in 1..Len(reels') /\ current'[AssetOf(v)'] # 0
    BY <1>1, <1>2 DEF RenderIInv, CurrentIsLatest, AssetOf
  <2>4. ASSUME raced' = {}, NEW v \in shown'
        PROVE  reels'[v].number <= reels'[current'[AssetOf(v)']].number
    <3>1. AssetOf(v) \in Numbers /\ current[AssetOf(v)] # 0
      BY <1>1, <1>2, <2>4 DEF RenderIInv, CurrentIsLatest, AssetOf
    <3>2. reels[v].number <= reels[current[AssetOf(v)]].number
      BY <2>4 DEF RenderIInv, CurrentIsLatest
    <3> QED BY <1>2, <1>3, <2>4, <3>1, <3>2 DEF AssetOf
  <2> QED BY <2>1, <2>2, <2>3, <2>4 DEF CurrentIsLatest, AssetOf
<1> QED BY <1>4, <1>5, <1>6

\* A new job row is queued and of nobody's yet.
LEMMA JobsStay ==
    ASSUME RenderIInv, UNCHANGED workerVars,
           Len(renders') \in Nat, Len(renders) <= Len(renders'),
           \A j \in 1..Len(renders) : renders'[j] = renders[j],
           \A j \in 1..Len(renders') : j > Len(renders) => renders'[j].stage = "render_queued"
    PROVE  ReadyMeansRendered' /\ JobsHold'
<1> USE DEF workerVars
<1>1. Len(renders) \in Nat
  BY RenderFields DEF RenderIInv, RenderInv
<1>2. ReadyMeansRendered'
  BY <1>1 DEF RenderIInv, RenderInv, ReadyMeansRendered
<1>3. JobsHold'
  <2>1. \A j \in Numbers : work[j] # "idle" => renders'[j] = renders[j]
    BY JobHasRow
  <2>2. \A j \in Numbers : entry[j] # "none" => j <= Len(renders')
    BY <1>1 DEF RenderIInv, JobsHold, Numbers
  <2> QED BY <2>1, <2>2 DEF RenderIInv, JobsHold
<1> QED BY <1>2, <1>3

\* What a request takes no other one holds.
LEMMA ApartStays ==
    ASSUME MakersApart, NEW r \in Makers,
           \A s \in Makers \ {r} : making'[s] = making[s] /\ mine'[s] = mine[s],
           making'[r] \in {"asset", "queue"} /\ mine'[r] # 0 =>
               \A s \in Makers \ {r} : making[s] = making'[r] => mine[s] # mine'[r]
    PROVE  MakersApart'
  BY DEF MakersApart

LEMMA RoomShrinks ==
    ASSUME RoomLeft, Claimed' \subseteq Claimed, Rowless' \subseteq Rowless,
           UNCHANGED <<reels, renders>>, Len(reels) \in Nat, Len(renders) \in Nat
    PROVE  RoomLeft'
<1>1. Cardinality(Claimed') <= Cardinality(Claimed) /\ Cardinality(Rowless') <= Cardinality(Rowless)
  BY RoomCounts, FS_Subset
<1>2. Cardinality(Claimed') \in Nat /\ Cardinality(Rowless') \in Nat
  BY RoomCounts, FS_Subset, FS_CardinalityType
<1> QED BY <1>1, <1>2, RoomCounts DEF RoomLeft

\* A request that is over holds nothing.
LEMMA OverHolds ==
    ASSUME RenderTypeOK, NEW r \in Makers, Over(r)
    PROVE  /\ making'[r] = "idle" /\ kind'[r] = "none" /\ base'[r] = 0 /\ mine'[r] = 0
           /\ MakerHolds(r)'
           /\ \A s \in Makers \ {r} : /\ making'[s] = making[s] /\ kind'[s] = kind[s]
                                      /\ base'[s] = base[s] /\ mine'[s] = mine[s]
           /\ Claimed' \subseteq Claimed /\ Rowless' \subseteq Rowless
           /\ making' \in [Makers -> {"idle", "asset", "context", "point", "row", "queue"}]
           /\ kind' \in [Makers -> {"none", "accept", "create", "swap"}]
           /\ base' \in [Makers -> 0..MaxReels] /\ mine' \in [Makers -> 0..MaxReels]
<1> USE DEF Over, Advance
<1>1. /\ making'[r] = "idle" /\ kind'[r] = "none" /\ base'[r] = 0 /\ mine'[r] = 0
      /\ \A s \in Makers \ {r} : /\ making'[s] = making[s] /\ kind'[s] = kind[s]
                                 /\ base'[s] = base[s] /\ mine'[s] = mine[s]
  BY DEF RenderTypeOK
<1>2. MakerHolds(r)'
  BY <1>1 DEF MakerHolds
<1>3. Claimed' \subseteq Claimed /\ Rowless' \subseteq Rowless
  BY <1>1 DEF Claimed, Rowless
<1>4. /\ making' \in [Makers -> {"idle", "asset", "context", "point", "row", "queue"}]
      /\ kind' \in [Makers -> {"none", "accept", "create", "swap"}]
      /\ base' \in [Makers -> 0..MaxReels] /\ mine' \in [Makers -> 0..MaxReels]
  BY DEF RenderTypeOK
<1> QED BY <1>1, <1>2, <1>3, <1>4

LEMMA RequestDiesKeeps == ASSUME RenderIInv, NEW r \in Makers, RequestDies(r) PROVE RenderIInv'
<1>0. RenderTypeOK /\ Over(r) /\ UNCHANGED <<reels, current, shoots, renders, shown, raced, workerVars>>
  BY DEF RenderIInv, RenderInv, RequestDies
<1>1. RenderTypeOK'
  <2>1. falls' \in 0..MaxFalls
    BY <1>0 DEF RenderTypeOK, RequestDies
  <2> QED BY <1>0, <2>1, OverHolds DEF RenderTypeOK, workerVars
<1>2. Len(reels) \in Nat /\ Len(renders) \in Nat
  BY <1>0, RenderFields
<1>3. \A s \in Makers : MakerHolds(s)'
  <2>1. /\ MakerHolds(r)'
        /\ \A s \in Makers \ {r} : /\ making'[s] = making[s] /\ kind'[s] = kind[s]
                                   /\ base'[s] = base[s] /\ mine'[s] = mine[s]
    BY <1>0, OverHolds
  <2>2. \A s \in Makers \ {r} : MakerHolds(s)'
    BY <1>0, <1>2, <2>1, OthersHold DEF workerVars
  <2> QED BY <2>1, <2>2
<1>4. MakersApart'
  BY <1>0, ApartStays, OverHolds DEF RenderIInv
<1>5. PointerNeverDangles' /\ NumbersUniqueUnlessRaced' /\ CurrentIsLatest'
  BY <1>0, <1>2, PointersStay
<1>6. ReadyMeansRendered' /\ JobsHold'
  BY <1>0, <1>2, JobsStay
<1>7. RoomLeft'
  BY <1>0, <1>2, OverHolds, RoomShrinks DEF RenderIInv
<1> QED BY <1>1, <1>3, <1>4, <1>5, <1>6, <1>7 DEF RenderIInv, RenderInv

LEMMA AcceptVersionKeeps ==
    ASSUME RenderIInv, NEW r \in Makers, NEW k \in {"accept", "create"}, AcceptVersion(r, k)
    PROVE  RenderIInv'
<1> USE DEF AcceptVersion, Fresh, Advance
<1> DEFINE new == [asset |-> Next1, number |-> 1, from |-> 0]
<1>0. RenderTypeOK /\ making[r] = "idle" /\ kind[r] = "none" /\ mine[r] = 0
  BY DEF RenderIInv, RenderInv, MakerHolds
<1>1. Len(reels) \in Nat /\ Len(renders) \in Nat
  BY <1>0, RenderFields
<1>2. Len(reels) + Cardinality(Claimed) < MaxReels
  BY DEF RoomToMake, Busy, Claimed
<1>3. Len(reels) < MaxReels
  BY <1>1, <1>2, RoomCounts
<1>4. Next1 \in Numbers /\ Next1 = Len(reels) + 1
  BY <1>1, <1>3 DEF Next1, Numbers
<1>5. new \in Reel
  BY <1>4 DEF Reel, Numbers
<1>6. /\ reels' \in Seq(Reel) /\ Len(reels') = Len(reels) + 1
      /\ \A v \in 1..Len(reels) : reels'[v] = reels[v]
      /\ reels'[Next1] = new
  BY <1>0, <1>4, <1>5, AppendProperties DEF RenderTypeOK
<1>7. /\ making'[r] = "asset" /\ kind'[r] = k /\ mine'[r] = Next1
      /\ \A s \in Makers \ {r} : /\ making'[s] = making[s] /\ kind'[s] = kind[s]
                                 /\ base'[s] = base[s] /\ mine'[s] = mine[s]
  BY <1>0 DEF RenderTypeOK
<1> UNCHANGED <<current, shoots, renders, base, falls, shown, raced, workerVars>>
  OBVIOUS
<1>8. RenderTypeOK'
  <2>1. mine' \in [Makers -> 0..MaxReels]
    BY <1>0, <1>4 DEF RenderTypeOK, Numbers
  <2>2. /\ making' \in [Makers -> {"idle", "asset", "context", "point", "row", "queue"}]
        /\ kind' \in [Makers -> {"none", "accept", "create", "swap"}]
    BY <1>0 DEF RenderTypeOK
  <2> HIDE DEF AcceptVersion
  <2> QED BY <1>0, <1>1, <1>3, <1>6, <2>1, <2>2 DEF RenderTypeOK, workerVars
<1> HIDE DEF AcceptVersion
<1>9. MakerHolds(r)'
  <2>1. current[Next1] = 0
    <3> SUFFICES ASSUME current[Next1] # 0 PROVE FALSE
      OBVIOUS
    <3>1. current[Next1] \in 1..Len(reels) /\ AssetOf(current[Next1]) = Next1
      BY <1>4 DEF RenderIInv, CurrentIsLatest
    <3>2. Next1 <= current[Next1]
      BY <3>1 DEF RenderIInv, CurrentIsLatest
    <3> QED BY <3>1, <3>2, <1>1, <1>4
  <2> QED BY <2>1, <1>4, <1>6, <1>7 DEF MakerHolds, AssetOf
<1>10. \A s \in Makers : MakerHolds(s)'
  <2>1. \A s \in Makers \ {r} : making[s] = "asset" /\ kind[s] # "swap" => current'[mine[s]] = current[mine[s]]
    BY DEF workerVars
  <2> QED BY <1>1, <1>6, <1>7, <1>9, <2>1, OthersHold DEF workerVars
<1>11. MakersApart'
  <2>1. \A s \in Makers \ {r} : making[s] = "asset" => mine[s] # Next1
    BY <1>0, <1>1, <1>4 DEF RenderIInv, MakerHolds
  <2> QED BY <1>7, <2>1, ApartStays DEF RenderIInv
<1>12. PointerNeverDangles' /\ NumbersUniqueUnlessRaced' /\ CurrentIsLatest'
  <2>1. \A v \in 1..Len(reels') : v > Len(reels) => v = Next1
    BY <1>1, <1>4, <1>6
  <2> QED BY <1>1, <1>4, <1>6, <2>1, PointersStay DEF AssetOf
<1>13. ReadyMeansRendered' /\ JobsHold'
  BY <1>1, JobsStay
<1>14. RoomLeft'
  <2>1. Claimed' = Claimed
    BY <1>0, <1>7 DEF Claimed
  <2>2. Rowless' = Rowless \cup {r} /\ r \notin Rowless
    BY <1>0, <1>7 DEF Rowless
  <2>3. Cardinality(Rowless') = Cardinality(Rowless) + 1
    BY <2>2, RoomCounts, OneMore
  <2>4. Cardinality(Rowless) <= Owing
    BY FS_Subset DEF Rowless, Owing
  <2>5. Owing \in Nat
    BY FS_Subset, FS_CardinalityType DEF Owing
  <2>6. Len(renders) + Owing < MaxReels
    BY DEF RoomToMake, AcceptVersion
  <2> QED BY <1>1, <1>2, <1>6, <2>1, <2>3, <2>4, <2>5, <2>6, RoomCounts DEF RoomLeft
<1> QED BY <1>8, <1>10, <1>11, <1>12, <1>13, <1>14 DEF RenderIInv, RenderInv

LEMMA ReadCurrentKeeps ==
    ASSUME RenderIInv, NEW r \in Makers, NEW a \in Numbers, ReadCurrent(r, a) PROVE RenderIInv'
<1> USE DEF ReadCurrent, Fresh, Advance
<1>0. /\ RenderTypeOK /\ making[r] = "idle" /\ kind[r] = "none" /\ mine[r] = 0
      /\ current[a] # 0
  BY DEF RenderIInv, RenderInv, MakerHolds, Known
<1>1. Len(reels) \in Nat /\ Len(renders) \in Nat
  BY <1>0, RenderFields
<1>2. Len(reels) + Cardinality(Claimed) < MaxReels /\ Len(renders) + Owing < MaxReels
  BY DEF RoomToMake, Busy, Claimed
<1>3. current[a] \in 1..Len(reels) /\ AssetOf(current[a]) = a
  BY <1>0 DEF RenderIInv, CurrentIsLatest
<1>4. /\ making'[r] = "asset" /\ kind'[r] = "swap" /\ mine'[r] = 0 /\ base'[r] = current[a]
      /\ \A s \in Makers \ {r} : /\ making'[s] = making[s] /\ kind'[s] = kind[s]
                                 /\ base'[s] = base[s] /\ mine'[s] = mine[s]
  BY <1>0 DEF RenderTypeOK
<1>5. UNCHANGED <<reels, current, shoots, renders, mine, falls, shown, raced, workerVars>>
  OBVIOUS
<1>6. RenderTypeOK'
  <2>1. /\ making' \in [Makers -> {"idle", "asset", "context", "point", "row", "queue"}]
        /\ kind' \in [Makers -> {"none", "accept", "create", "swap"}]
        /\ base' \in [Makers -> 0..MaxReels]
    BY <1>0 DEF RenderTypeOK
  <2> QED BY <1>0, <1>5, <2>1 DEF RenderTypeOK, workerVars
<1> HIDE DEF ReadCurrent, Fresh, Advance
<1>7. MakerHolds(r)'
  BY <1>0, <1>3, <1>4, <1>5 DEF MakerHolds, AssetOf
<1>8. \A s \in Makers : MakerHolds(s)'
  BY <1>1, <1>4, <1>5, <1>7, OthersHold DEF workerVars
<1>9. MakersApart'
  BY <1>4, ApartStays DEF RenderIInv
<1>10. PointerNeverDangles' /\ NumbersUniqueUnlessRaced' /\ CurrentIsLatest'
  BY <1>1, <1>5, PointersStay
<1>11. ReadyMeansRendered' /\ JobsHold'
  BY <1>1, <1>5, JobsStay
<1>12. RoomLeft'
  <2>1. Claimed' = Claimed \cup {r} /\ r \notin Claimed
    BY <1>0, <1>4 DEF Claimed
  <2>2. Rowless' = Rowless \cup {r} /\ r \notin Rowless
    BY <1>0, <1>4 DEF Rowless
  <2>3. /\ Cardinality(Rowless') = Cardinality(Rowless) + 1
        /\ Cardinality(Claimed') = Cardinality(Claimed) + 1
    BY <2>1, <2>2, RoomCounts, OneMore
  <2>4. Cardinality(Rowless) <= Owing
    BY FS_Subset DEF Rowless, Owing
  <2>5. Owing \in Nat
    BY FS_Subset, FS_CardinalityType DEF Owing
  <2> QED BY <1>1, <1>2, <1>5, <2>3, <2>4, <2>5, RoomCounts DEF RoomLeft
<1> QED BY <1>6, <1>8, <1>9, <1>10, <1>11, <1>12 DEF RenderIInv, RenderInv

LEMMA SaveVersionKeeps == ASSUME RenderIInv, NEW r \in Makers, SaveVersion(r) PROVE RenderIInv'
<1> USE DEF SaveVersion, Advance
<1> DEFINE new == [asset |-> AssetOf(base[r]), number |-> NumberOf(r), from |-> base[r]]
<1>0. /\ RenderTypeOK /\ making[r] = "asset" /\ kind[r] = "swap" /\ mine[r] = 0
      /\ base[r] \in 1..Len(reels) /\ current[AssetOf(base[r])] # 0
  BY DEF RenderIInv, RenderInv, MakerHolds
<1>1. Len(reels) \in Nat /\ Len(renders) \in Nat
  BY <1>0, RenderFields
<1>2. r \in Claimed /\ Cardinality(Claimed \ {r}) = Cardinality(Claimed) - 1
  BY <1>0, RoomCounts, OneMore DEF Claimed
<1>3. Cardinality(Claimed \ {r}) \in Nat /\ Len(reels) + Cardinality(Claimed) <= MaxReels
  BY RoomCounts, FS_Subset, FS_CardinalityType DEF RenderIInv, RoomLeft
<1>4. Len(reels) < MaxReels
  BY <1>1, <1>2, <1>3, RoomCounts
<1>5. Next1 \in Numbers /\ Next1 = Len(reels) + 1
  BY <1>1, <1>4 DEF Next1, Numbers
<1>6. /\ reels[base[r]].number \in Numbers /\ reels[base[r]].number <= base[r]
      /\ AssetOf(base[r]) \in Numbers /\ AssetOf(base[r]) <= base[r]
  BY <1>0, RenderFields DEF RenderIInv, CurrentIsLatest, AssetOf
<1>7. new \in Reel
  BY <1>0, <1>1, <1>4, <1>6 DEF Reel, Numbers, NumberOf
<1>8. /\ reels' \in Seq(Reel) /\ Len(reels') = Len(reels) + 1
      /\ \A v \in 1..Len(reels) : reels'[v] = reels[v]
      /\ reels'[Next1] = new
  BY <1>0, <1>5, <1>7, AppendProperties DEF RenderTypeOK
<1>9. /\ making'[r] = "point" /\ kind'[r] = "swap" /\ mine'[r] = Next1 /\ base'[r] = base[r]
      /\ \A s \in Makers \ {r} : /\ making'[s] = making[s] /\ kind'[s] = kind[s]
                                 /\ base'[s] = base[s] /\ mine'[s] = mine[s]
  BY <1>0 DEF RenderTypeOK
<1>10. UNCHANGED <<current, shoots, renders, kind, base, falls, shown, raced, workerVars>>
  OBVIOUS
<1>11. RenderTypeOK'
  <2>1. mine' \in [Makers -> 0..MaxReels]
    BY <1>0, <1>5 DEF RenderTypeOK, Numbers
  <2>2. making' \in [Makers -> {"idle", "asset", "context", "point", "row", "queue"}]
    BY <1>0 DEF RenderTypeOK
  <2> HIDE DEF SaveVersion
  <2> QED BY <1>0, <1>1, <1>4, <1>8, <1>10, <2>1, <2>2 DEF RenderTypeOK, workerVars
<1>12. new.asset = AssetOf(base[r]) /\ new.number = reels[base[r]].number + 1
  BY DEF NumberOf
<1> HIDE DEF SaveVersion, new
<1>13. MakerHolds(r)'
  BY <1>0, <1>1, <1>5, <1>6, <1>8, <1>9, <1>10, <1>12 DEF MakerHolds, AssetOf
<1>14. \A s \in Makers : MakerHolds(s)'
  BY <1>1, <1>8, <1>9, <1>10, <1>13, OthersHold DEF workerVars
<1>15. MakersApart'
  BY <1>9, ApartStays DEF RenderIInv
<1>16. PointerNeverDangles' /\ NumbersUniqueUnlessRaced' /\ CurrentIsLatest'
  <2>1. \A v \in 1..Len(reels') : v > Len(reels) => v = Next1
    BY <1>1, <1>5, <1>8
  <2>2. new.number <= Next1 /\ new.asset <= Next1
    BY <1>0, <1>1, <1>5, <1>6, <1>12 DEF Numbers
  <2> QED BY <1>1, <1>5, <1>8, <1>10, <2>1, <2>2, PointersStay DEF AssetOf
<1>17. ReadyMeansRendered' /\ JobsHold'
  BY <1>1, <1>10, JobsStay
<1>18. RoomLeft'
  <2>1. Claimed' = Claimed \ {r}
    BY <1>1, <1>5, <1>9 DEF Claimed
  <2>2. Rowless' = Rowless
    BY <1>0, <1>9 DEF Rowless
  <2> QED BY <1>1, <1>2, <1>3, <1>8, <1>10, <2>1, <2>2, RoomCounts DEF RenderIInv, RoomLeft
<1> QED BY <1>11, <1>14, <1>15, <1>16, <1>17, <1>18 DEF RenderIInv, RenderInv

LEMMA SaveContextKeeps == ASSUME RenderIInv, NEW r \in Makers, SaveContext(r) PROVE RenderIInv'
<1> USE DEF SaveContext, Advance
<1>0. /\ RenderTypeOK /\ making[r] = "context" /\ kind[r] \in {"accept", "create"} /\ mine[r] # 0
      /\ mine[r] \in 1..Len(reels) /\ AssetOf(mine[r]) \in Numbers
  BY RenderFields DEF RenderIInv, RenderInv, MakerHolds, RenderTypeOK, AssetOf
<1>1. Len(reels) \in Nat /\ Len(renders) \in Nat
  BY <1>0, RenderFields
<1>2. /\ making'[r] = "row" /\ UNCHANGED <<kind, base, mine>>
      /\ \A s \in Makers \ {r} : making'[s] = making[s]
  BY <1>0 DEF RenderTypeOK
<1>3. UNCHANGED <<reels, current, renders, falls, shown, raced, workerVars>>
  OBVIOUS
<1>4. RenderTypeOK'
  BY <1>0 DEF RenderTypeOK, workerVars
<1> HIDE DEF SaveContext
<1>5. MakerHolds(r)'
  BY <1>0, <1>2, <1>3 DEF RenderIInv, MakerHolds, AssetOf
<1>6. \A s \in Makers : MakerHolds(s)'
  BY <1>1, <1>2, <1>3, <1>5, OthersHold DEF workerVars
<1>7. MakersApart'
  BY <1>2, ApartStays DEF RenderIInv
<1>8. PointerNeverDangles' /\ NumbersUniqueUnlessRaced' /\ CurrentIsLatest'
  BY <1>1, <1>3, PointersStay
<1>9. ReadyMeansRendered' /\ JobsHold'
  BY <1>1, <1>3, JobsStay
<1>10. Claimed' = Claimed /\ Rowless' = Rowless
  BY <1>0, <1>2 DEF Claimed, Rowless
<1>11. RoomLeft'
  BY <1>1, <1>3, <1>10, RoomShrinks DEF RenderIInv
<1> QED BY <1>4, <1>6, <1>7, <1>8, <1>9, <1>11 DEF RenderIInv, RenderInv

LEMMA SaveJobKeeps == ASSUME RenderIInv, NEW r \in Makers, SaveJob(r) PROVE RenderIInv'
<1> USE DEF SaveJob, Advance
<1> DEFINE JobRow == [version : Numbers, stage : RenderStages]
           ver == IF kind[r] = "create" THEN current[AssetOf(mine[r])] ELSE mine[r]
           new == [version |-> ver, stage |-> "render_queued"]
<1>0. /\ RenderTypeOK /\ making[r] = "row" /\ kind[r] # "none" /\ mine[r] # 0
      /\ mine[r] \in 1..Len(reels)
      /\ kind[r] = "create" => current[AssetOf(mine[r])] # 0
  BY DEF RenderIInv, RenderInv, MakerHolds
<1>1. Len(reels) \in Nat /\ Len(renders) \in Nat
  BY <1>0, RenderFields
<1>2. r \in Rowless /\ Cardinality(Rowless \ {r}) = Cardinality(Rowless) - 1
  BY <1>0, RoomCounts, OneMore DEF Rowless
<1>3. Cardinality(Rowless \ {r}) \in Nat /\ Len(renders) + Cardinality(Rowless) <= MaxReels
  BY RoomCounts, FS_Subset, FS_CardinalityType DEF RenderIInv, RoomLeft
<1>4. Len(renders) < MaxReels
  BY <1>1, <1>2, <1>3, RoomCounts
<1>5. ver \in Numbers
  <2>1. AssetOf(mine[r]) \in Numbers /\ mine[r] \in Numbers
    BY <1>0, RenderFields DEF AssetOf
  <2> QED BY <1>0, <2>1 DEF RenderTypeOK, Numbers
<1>6. new \in JobRow
  BY <1>5 DEF RenderStages
<1>7. renders \in Seq(JobRow) /\ renders' = Append(renders, new)
  BY <1>0 DEF RenderTypeOK
<1> HIDE DEF new, ver, JobRow
<1>8. /\ renders' \in Seq(JobRow) /\ Len(renders') = Len(renders) + 1
      /\ \A j \in 1..Len(renders) : renders'[j] = renders[j]
      /\ renders'[Len(renders) + 1] = new
  BY <1>6, <1>7, AppendProperties
<1>9. /\ making'[r] = "queue" /\ kind'[r] = "none" /\ mine'[r] = Len(renders) + 1
      /\ \A s \in Makers \ {r} : /\ making'[s] = making[s] /\ kind'[s] = kind[s]
                                 /\ base'[s] = base[s] /\ mine'[s] = mine[s]
  BY <1>0 DEF RenderTypeOK
<1>10. UNCHANGED <<reels, current, shoots, base, falls, shown, raced, workerVars>>
  OBVIOUS
<1>11. RenderTypeOK'
  <2>1. Len(renders) + 1 \in 0..MaxReels
    BY <1>1, <1>4
  <2>2. mine' \in [Makers -> 0..MaxReels]
    BY <1>0, <2>1 DEF RenderTypeOK
  <2>3. /\ making' \in [Makers -> {"idle", "asset", "context", "point", "row", "queue"}]
        /\ kind' \in [Makers -> {"none", "accept", "create", "swap"}]
    BY <1>0 DEF RenderTypeOK
  <2> HIDE DEF SaveJob
  <2> QED BY <1>0, <1>8, <1>10, <2>1, <2>2, <2>3 DEF RenderTypeOK, workerVars, JobRow
<1> HIDE DEF SaveJob
<1>12. MakerHolds(r)'
  <2>1. entry[Len(renders) + 1] = "none"
    BY <1>1, <1>4 DEF RenderIInv, JobsHold, Numbers
  <2> QED BY <1>1, <1>8, <1>9, <1>10, <2>1 DEF MakerHolds, workerVars
<1>13. \A s \in Makers : MakerHolds(s)'
  BY <1>1, <1>8, <1>9, <1>10, <1>12, OthersHold DEF workerVars
<1>14. MakersApart'
  <2>1. \A s \in Makers \ {r} : making[s] = "queue" => mine[s] # Len(renders) + 1
    BY <1>1 DEF RenderIInv, MakerHolds
  <2> QED BY <1>9, <2>1, ApartStays DEF RenderIInv
<1>15. PointerNeverDangles' /\ NumbersUniqueUnlessRaced' /\ CurrentIsLatest'
  BY <1>1, <1>10, PointersStay
<1>16. ReadyMeansRendered' /\ JobsHold'
  <2>1. \A j \in 1..Len(renders') : j > Len(renders) => j = Len(renders) + 1
    BY <1>1, <1>8
  <2>2. new.stage = "render_queued"
    BY DEF new
  <2> QED BY <1>1, <1>8, <1>10, <2>1, <2>2, JobsStay
<1>17. RoomLeft'
  <2>1. Claimed' = Claimed
    BY <1>0, <1>9 DEF Claimed
  <2>2. Rowless' = Rowless \ {r}
    BY <1>0, <1>9 DEF Rowless
  <2> QED BY <1>1, <1>2, <1>3, <1>8, <1>10, <2>1, <2>2, RoomCounts DEF RenderIInv, RoomLeft
<1> QED BY <1>11, <1>13, <1>14, <1>15, <1>16, <1>17 DEF RenderIInv, RenderInv

LEMMA QueueRenderKeeps == ASSUME RenderIInv, NEW r \in Makers, QueueRender(r) PROVE RenderIInv'
<1> DEFINE j == mine[r]
<1>0. /\ RenderTypeOK /\ making[r] = "queue" /\ Over(r) /\ j \in 1..Len(renders) /\ entry[j] = "none"
      /\ entry' = [entry EXCEPT ![j] = "waiting"]
      /\ UNCHANGED <<reels, current, shoots, rendered, renders, errors, work, falls, shown, raced>>
  BY DEF RenderIInv, RenderInv, QueueRender, MakerHolds
<1>1. Len(reels) \in Nat /\ Len(renders) \in Nat /\ j \in Numbers
  BY <1>0, RenderFields
<1>2. entry'[j] = "waiting" /\ \A i \in Numbers \ {j} : entry'[i] = entry[i]
  BY <1>0, <1>1 DEF RenderTypeOK
<1>3. RenderTypeOK'
  <2>1. entry' \in [Numbers -> {"none", "waiting", "active", "completed", "failed"}]
    BY <1>0, <1>1 DEF RenderTypeOK
  <2> QED BY <1>0, <2>1, OverHolds DEF RenderTypeOK
<1>4. \A s \in Makers : MakerHolds(s)'
  <2>1. \A s \in Makers \ {r} : making[s] = "queue" => mine[s] \in Numbers /\ mine[s] # j
    BY <1>0, RenderFields DEF RenderIInv, MakerHolds, MakersApart
  <2>2. /\ MakerHolds(r)'
        /\ \A s \in Makers \ {r} : /\ making'[s] = making[s] /\ kind'[s] = kind[s]
                                   /\ base'[s] = base[s] /\ mine'[s] = mine[s]
    BY <1>0, OverHolds
  <2>3. \A s \in Makers \ {r} : making[s] = "queue" => entry'[mine[s]] = entry[mine[s]]
    BY <1>2, <2>1
  <2> HIDE DEF j
  <2>4. \A s \in Makers \ {r} : MakerHolds(s)'
    BY <1>0, <1>1, <2>2, <2>3, OthersHold
  <2> QED BY <2>2, <2>4
<1>5. MakersApart'
  BY <1>0, ApartStays, OverHolds DEF RenderIInv
<1>6. PointerNeverDangles' /\ NumbersUniqueUnlessRaced' /\ CurrentIsLatest'
  BY <1>0, <1>1, PointersStay
<1>7. ReadyMeansRendered'
  BY <1>0 DEF RenderIInv, RenderInv, ReadyMeansRendered
<1>8. JobsHold'
  BY <1>0, <1>1, <1>2 DEF RenderIInv, JobsHold
<1>9. RoomLeft'
  BY <1>0, <1>1, OverHolds, RoomShrinks DEF RenderIInv
<1> QED BY <1>3, <1>4, <1>5, <1>6, <1>7, <1>8, <1>9 DEF RenderIInv, RenderInv

-----------------------------------------------------------------------------
\* A saved version becomes the current one of its asset and is shown; unless it is a race, no version
\* of the asset that was shown has its number or a higher one.
LEMMA PointerMoves ==
    ASSUME RenderIInv, NEW v \in 1..Len(reels), UNCHANGED reels,
           current' = [current EXCEPT ![AssetOf(v)] = v],
           shown' = shown \cup {v},
           raced \subseteq raced',
           raced' = {} => \A w \in shown : AssetOf(w) = AssetOf(v) => reels[w].number < reels[v].number
    PROVE  PointerNeverDangles' /\ NumbersUniqueUnlessRaced' /\ CurrentIsLatest'
<1>0. RenderTypeOK
  BY DEF RenderIInv, RenderInv
<1>1. AssetOf(v) \in Numbers /\ v \in Numbers /\ Len(reels) \in Nat /\ v # 0 /\ v <= Len(reels)
  BY <1>0, RenderFields DEF AssetOf
<1>2. \A a \in Numbers : current'[a] = IF a = AssetOf(v) THEN v ELSE current[a]
  BY <1>0, <1>1 DEF RenderTypeOK
<1>3. \A w \in 1..Len(reels) : AssetOf(w) \in Numbers /\ reels[w].number \in Nat
  BY <1>0, RenderFields DEF AssetOf, Numbers
<1>4. \A w : AssetOf(w)' = AssetOf(w)
  BY DEF AssetOf
<1>5. PointerNeverDangles'
  BY <1>1, <1>2, <1>4 DEF RenderIInv, RenderInv, PointerNeverDangles, AssetOf
<1>6. NumbersUniqueUnlessRaced'
  <2> SUFFICES ASSUME raced' = {}, NEW x \in shown', NEW y \in shown',
                      AssetOf(x) = AssetOf(y), reels[x].number = reels[y].number
               PROVE  x = y
    BY <1>4 DEF NumbersUniqueUnlessRaced, AssetOf
  <2>1. raced = {} /\ \A w \in shown : AssetOf(w) = AssetOf(v) => reels[w].number < reels[v].number
    OBVIOUS
  <2>2. \A w \in shown : w \in 1..Len(reels)
    BY DEF RenderIInv, CurrentIsLatest
  <2>3. CASE x \in shown /\ y \in shown
    BY <2>1, <2>3 DEF RenderIInv, RenderInv, NumbersUniqueUnlessRaced
  <2>4. CASE x = v /\ y = v
    BY <2>4
  <2>5. CASE x = v /\ y \in shown
    BY <1>3, <2>1, <2>2, <2>5
  <2>6. CASE x \in shown /\ y = v
    BY <1>3, <2>1, <2>2, <2>6
  <2> QED BY <2>3, <2>4, <2>5, <2>6
<1>7. CurrentIsLatest'
  <2>1. \A w \in 1..Len(reels') : reels'[w].number <= w /\ AssetOf(w)' <= w
    BY <1>4 DEF RenderIInv, CurrentIsLatest
  <2>2. \A a \in Numbers : current'[a] # 0 => current'[a] \in shown' /\ reels'[current'[a]].asset = a
    BY <1>2 DEF RenderIInv, CurrentIsLatest, AssetOf
  <2>3. \A w \in shown' : w \in 1..Len(reels') /\ current'[AssetOf(w)'] # 0
    BY <1>1, <1>2, <1>3, <1>4 DEF RenderIInv, CurrentIsLatest
  <2>4. ASSUME raced' = {}, NEW w \in shown' PROVE reels'[w].number <= reels'[current'[AssetOf(w)']].number
    <3>1. w \in 1..Len(reels) /\ AssetOf(w) \in Numbers
      BY <1>3, <2>3
    <3>5. current'[AssetOf(w)'] = IF AssetOf(w) = AssetOf(v) THEN v ELSE current[AssetOf(w)]
      BY <1>2, <1>4, <3>1
    <3>6. reels[w].number \in Nat /\ reels[v].number \in Nat
      BY <1>3, <3>1
    <3>2. CASE w = v
      BY <3>2, <3>5, <3>6
    <3>3. CASE w \in shown /\ AssetOf(w) = AssetOf(v)
      BY <2>4, <3>3, <3>5, <3>6
    <3>4. CASE w \in shown /\ AssetOf(w) # AssetOf(v)
      <4>1. raced = {}
        BY <2>4
      <4>2. reels[w].number <= reels[current[AssetOf(w)]].number
        BY <3>4, <4>1 DEF RenderIInv, CurrentIsLatest
      <4> QED BY <3>4, <3>5, <4>2
    <3> QED BY <3>2, <3>3, <3>4
  <2> QED BY <2>1, <2>2, <2>3, <2>4 DEF CurrentIsLatest, AssetOf
<1> QED BY <1>5, <1>6, <1>7

LEMMA SaveAssetKeeps == ASSUME RenderIInv, NEW r \in Makers, kind[r] # "swap", SaveAsset(r) PROVE RenderIInv'
<1> USE DEF SaveAsset, Advance
<1> DEFINE v == mine[r]
<1>0. /\ RenderTypeOK /\ making[r] = "asset" /\ kind[r] \in {"accept", "create"} /\ v # 0
      /\ v \in 1..Len(reels) /\ AssetOf(v) = v /\ reels[v].number = 1 /\ current[v] = 0
  BY DEF RenderIInv, RenderInv, MakerHolds, RenderTypeOK
<1>1. Len(reels) \in Nat /\ Len(renders) \in Nat /\ v \in Numbers
  BY <1>0, RenderFields
<1>2. /\ making'[r] \in {"context", "row"} /\ (making'[r] = "context" => kind[r] = "create")
      /\ UNCHANGED <<kind, base, mine>>
      /\ \A s \in Makers \ {r} : making'[s] = making[s]
  BY <1>0 DEF RenderTypeOK
<1>3. /\ current' = [current EXCEPT ![v] = v] /\ shown' = shown \cup {v}
      /\ UNCHANGED <<reels, shoots, renders, falls, raced, workerVars>>
  BY <1>0
<1>4. \A a \in Numbers : current'[a] = IF a = v THEN v ELSE current[a]
  BY <1>0, <1>3 DEF RenderTypeOK
<1>5. RenderTypeOK'
  <2>1. making' \in [Makers -> {"idle", "asset", "context", "point", "row", "queue"}]
    BY <1>0 DEF RenderTypeOK
  <2>2. current' \in [Numbers -> 0..MaxReels] /\ shown' \subseteq Numbers
    <3>1. v \in 0..MaxReels
      BY <1>0 DEF RenderTypeOK
    <3> QED BY <1>0, <1>1, <1>3, <3>1 DEF RenderTypeOK
  <2> HIDE DEF SaveAsset
  <2> QED BY <1>0, <1>2, <1>3, <2>1, <2>2 DEF RenderTypeOK, workerVars
<1> HIDE DEF SaveAsset
<1>6. MakerHolds(r)'
  BY <1>0, <1>1, <1>2, <1>3, <1>4 DEF MakerHolds, AssetOf
<1>7. \A s \in Makers : MakerHolds(s)'
  <2>1. ASSUME NEW s \in Makers \ {r}, making[s] = "asset", kind[s] # "swap"
        PROVE  current'[mine[s]] = current[mine[s]]
    <3>1. mine[s] # 0 /\ mine[s] \in 1..Len(reels)
      BY <2>1 DEF RenderIInv, MakerHolds
    <3>2. mine[s] # v /\ mine[s] \in Numbers
      BY <1>0, <2>1, <3>1, RenderFields DEF RenderIInv, MakersApart
    <3> QED BY <1>4, <3>2
  <2> QED BY <1>1, <1>2, <1>3, <1>4, <1>6, <2>1, OthersHold DEF workerVars
<1>8. MakersApart'
  BY <1>2, ApartStays DEF RenderIInv
<1>9. PointerNeverDangles' /\ NumbersUniqueUnlessRaced' /\ CurrentIsLatest'
  <2>1. \A w \in shown : AssetOf(w) # AssetOf(v)
    BY <1>0 DEF RenderIInv, CurrentIsLatest
  <2> QED BY <1>0, <1>3, <2>1, PointerMoves
<1>10. ReadyMeansRendered' /\ JobsHold'
  BY <1>1, <1>3, JobsStay
<1>11. Claimed' = Claimed /\ Rowless' = Rowless
  BY <1>0, <1>2 DEF Claimed, Rowless
<1>12. RoomLeft'
  BY <1>1, <1>3, <1>11, RoomShrinks DEF RenderIInv
<1> QED BY <1>5, <1>7, <1>8, <1>9, <1>10, <1>12 DEF RenderIInv, RenderInv

LEMMA SetCurrentKeeps == ASSUME RenderIInv, NEW r \in Makers, SetCurrent(r) PROVE RenderIInv'
<1> USE DEF SetCurrent, Advance
<1> DEFINE v == mine[r]
           a == AssetOf(v)
<1>0. RenderTypeOK /\ making[r] = "point" /\ MakerHolds(r)
  BY DEF RenderIInv, RenderInv
<1>1. kind[r] = "swap" /\ v # 0
  BY <1>0 DEF MakerHolds, RenderTypeOK
<1>2. /\ v \in 1..Len(reels) /\ base[r] \in 1..Len(reels) /\ a = AssetOf(base[r]) /\ current[a] # 0
      /\ reels[v].number = reels[base[r]].number + 1
  BY <1>0, <1>1 DEF MakerHolds
<1>3. Len(reels) \in Nat /\ Len(renders) \in Nat /\ v \in Numbers /\ a \in Numbers
  BY <1>0, <1>2, RenderFields DEF AssetOf
<1>4. /\ making'[r] = "row" /\ UNCHANGED <<kind, base, mine>>
      /\ \A s \in Makers \ {r} : making'[s] = making[s]
  BY <1>0 DEF RenderTypeOK
<1>5. /\ current' = [current EXCEPT ![a] = v] /\ shown' = shown \cup {v}
      /\ raced' = IF current[a] = base[r] THEN raced ELSE raced \cup {v}
      /\ UNCHANGED <<reels, shoots, renders, falls, workerVars>>
  OBVIOUS
<1>6. \A b \in Numbers : current'[b] = IF b = a THEN v ELSE current[b]
  BY <1>0, <1>3, <1>5 DEF RenderTypeOK
<1>7. RenderTypeOK'
  <2>1. making' \in [Makers -> {"idle", "asset", "context", "point", "row", "queue"}]
    BY <1>0 DEF RenderTypeOK
  <2>2. current' \in [Numbers -> 0..MaxReels] /\ shown' \subseteq Numbers /\ raced' \subseteq Numbers
    <3>1. v \in 0..MaxReels
      BY <1>0 DEF RenderTypeOK
    <3> QED BY <1>0, <1>3, <1>5, <3>1 DEF RenderTypeOK
  <2> HIDE DEF SetCurrent
  <2> QED BY <1>0, <1>4, <1>5, <2>1, <2>2 DEF RenderTypeOK, workerVars
<1> HIDE DEF SetCurrent
<1>8. MakerHolds(r)'
  <2>1. reels' = reels /\ AssetOf(base[r])' = a /\ current'[a] # 0
    BY <1>2, <1>3, <1>4, <1>5, <1>6 DEF AssetOf
  <2> QED BY <1>0, <1>1, <1>2, <1>4, <2>1 DEF MakerHolds
<1>9. \A s \in Makers : MakerHolds(s)'
  <2>1. ASSUME NEW s \in Makers \ {r}, making[s] = "asset", kind[s] # "swap"
        PROVE  current'[mine[s]] = current[mine[s]]
    <3>1. mine[s] # 0 /\ mine[s] \in 1..Len(reels) /\ current[mine[s]] = 0
      BY <2>1 DEF RenderIInv, MakerHolds
    <3>2. mine[s] # a /\ mine[s] \in Numbers
      BY <1>0, <1>2, <3>1, RenderFields
    <3> QED BY <1>6, <3>2
  <2>2. \A b \in Numbers : current[b] # 0 => current'[b] # 0
    BY <1>1, <1>6
  <2> QED BY <1>3, <1>4, <1>5, <1>8, <2>1, <2>2, OthersHold DEF workerVars
<1>10. MakersApart'
  BY <1>4, ApartStays DEF RenderIInv
<1>11. PointerNeverDangles' /\ NumbersUniqueUnlessRaced' /\ CurrentIsLatest'
  <2>1. raced \subseteq raced'
    BY <1>5
  <2>2. ASSUME raced' = {}, NEW w \in shown, AssetOf(w) = a PROVE reels[w].number < reels[v].number
    <3>1. raced = {} /\ current[a] = base[r]
      BY <1>5, <2>2
    <3>2. w \in 1..Len(reels) /\ reels[w].number <= reels[base[r]].number
      BY <2>2, <3>1 DEF RenderIInv, CurrentIsLatest
    <3>3. reels[w].number \in Nat /\ reels[base[r]].number \in Nat
      BY <1>0, <1>2, <3>2, RenderFields DEF Numbers
    <3> QED BY <1>2, <3>2, <3>3
  <2> QED BY <1>2, <1>5, <2>1, <2>2, PointerMoves
<1>12. ReadyMeansRendered' /\ JobsHold'
  BY <1>3, <1>5, JobsStay
<1>13. Claimed' = Claimed /\ Rowless' = Rowless
  BY <1>0, <1>4 DEF Claimed, Rowless
<1>14. RoomLeft'
  BY <1>3, <1>5, <1>13, RoomShrinks DEF RenderIInv
<1> QED BY <1>7, <1>9, <1>10, <1>11, <1>12, <1>14 DEF RenderIInv, RenderInv

-----------------------------------------------------------------------------
LEMMA RenderStepKeeps == RenderIInv /\ [RenderNext]_renderVars => RenderIInv'
<1> SUFFICES ASSUME RenderIInv, [RenderNext]_renderVars PROVE RenderIInv'
  OBVIOUS
<1>1. ASSUME NEW r \in Makers, RequestStep(r) PROVE RenderIInv'
  BY <1>1, AcceptVersionKeeps, ReadCurrentKeeps, SaveAssetKeeps, SaveContextKeeps, SaveVersionKeeps,
     SetCurrentKeeps, SaveJobKeeps, QueueRenderKeeps, RequestDiesKeeps DEF RequestStep
<1>2. ASSUME NEW j \in Numbers, RenderStep(j) \/ WorkerFalls(j) PROVE RenderIInv'
  BY <1>2, TakeRenderKeeps, RenderKeeps, SaveRenderKeeps, SettleKeeps, WorkerFallsKeeps DEF RenderStep
<1>3. CASE UNCHANGED renderVars
  <2> USE <1>3 DEF renderVars
  <2>1. RenderTypeOK'
    BY DEF RenderIInv, RenderInv, RenderTypeOK
  <2>2. ReadyMeansRendered' /\ JobsHold'
    BY DEF RenderIInv, RenderInv, ReadyMeansRendered, JobsHold
  <2> QED BY <2>1, <2>2, WorkerKeeps DEF requestVars
<1> QED BY <1>1, <1>2, <1>3 DEF RenderNext

\* Wherever a request or a worker is interrupted, a row that says ready has its render, an asset points
\* at a saved version of its own, and versions the founder has seen are numbered apart unless two
\* swaps overlapped (the reel routes and the reel-render worker).
THEOREM ReelsStayWhole == RenderSpec => []RenderInv
<1>1. RenderIInv => RenderInv
  BY DEF RenderIInv
<1> QED BY RenderInitOK, RenderStepKeeps, <1>1, PTL DEF RenderSpec

-----------------------------------------------------------------------------
\* A settled row is that of a job the queue has done with.
SettledIsOver ==
    \A j \in 1..Len(renders) : renders[j].stage \in {"ready", "failed"} => entry[j] = "completed"

RowsStay == \A j \in 1..Len(renders) : renders[j].stage \in {"ready", "failed"} => renders'[j] = renders[j]

\* What leaves the rows alone, and what is not queued no more.
LEMMA SettledUntouched ==
    ASSUME SettledIsOver, Len(renders') = Len(renders),
           \A i \in 1..Len(renders) : renders'[i] = renders[i],
           \A i \in 1..Len(renders) : entry[i] = "completed" => entry'[i] = "completed"
    PROVE  SettledIsOver' /\ RowsStay
BY DEF SettledIsOver, RowsStay

LEMMA RequestSettles ==
    ASSUME RenderIInv, SettledIsOver, NEW r \in Makers, RequestStep(r)
    PROVE  SettledIsOver' /\ RowsStay
<1>0. RenderTypeOK /\ MakerHolds(r) /\ Len(renders) \in Nat
  BY RenderFields DEF RenderIInv, RenderInv
<1>1. CASE SaveJob(r)
  <2> DEFINE new == [version |-> IF kind[r] = "create" THEN current[AssetOf(mine[r])] ELSE mine[r],
                     stage |-> "render_queued"]
  <2>1. renders' = Append(renders, new) /\ entry' = entry /\ new.stage = "render_queued"
    BY <1>1 DEF SaveJob, workerVars
  <2> HIDE DEF new
  <2>2. /\ Len(renders') = Len(renders) + 1
        /\ \A i \in 1..Len(renders) : renders'[i] = renders[i]
        /\ renders'[Len(renders) + 1] = new
    BY <1>0, <2>1 DEF RenderTypeOK
  <2>3. \A i \in 1..Len(renders') : i \in 1..Len(renders) \/ i = Len(renders) + 1
    BY <1>0, <2>2
  <2> QED BY <2>1, <2>2, <2>3 DEF SettledIsOver, RowsStay
<1>2. CASE QueueRender(r)
  <2>1. entry[mine[r]] = "none" /\ entry' = [entry EXCEPT ![mine[r]] = "waiting"] /\ renders' = renders
    BY <1>0, <1>2 DEF QueueRender, MakerHolds
  <2>2. \A i \in 1..Len(renders) : entry[i] = "completed" => entry'[i] = "completed"
    BY <1>0, <2>1 DEF RenderTypeOK
  <2> QED BY <2>1, <2>2, SettledUntouched
<1>3. CASE ~SaveJob(r) /\ ~QueueRender(r)
  <2>1. renders' = renders /\ entry' = entry
    BY <1>3 DEF RequestStep, AcceptVersion, ReadCurrent, SaveAsset, SaveContext, SaveVersion, SetCurrent,
                RequestDies, workerVars
  <2> QED BY <2>1, SettledUntouched
<1> QED BY <1>1, <1>2, <1>3

LEMMA WorkerSettles ==
    ASSUME RenderIInv, SettledIsOver, NEW j \in Numbers, RenderStep(j) \/ WorkerFalls(j)
    PROVE  SettledIsOver' /\ RowsStay
<1>0. RenderTypeOK /\ JobsHold /\ entry \in [Numbers -> {"none", "waiting", "active", "completed", "failed"}]
      /\ 1..Len(renders) \subseteq Numbers
  BY RenderFields DEF RenderIInv, RenderInv, RenderTypeOK
<1>1. ASSUME NEW e \in RenderStages, j \in 1..Len(renders), renders' = [renders EXCEPT ![j].stage = e],
             entry[j] # "completed", e \in {"ready", "failed"} => entry'[j] = "completed",
             \A i \in Numbers \ {j} : entry'[i] = entry[i]
      PROVE  SettledIsOver' /\ RowsStay
  <2>1. /\ Len(renders') = Len(renders) /\ renders'[j].stage = e
        /\ \A i \in 1..Len(renders) : i # j => renders'[i] = renders[i]
    BY <1>0, <1>1, StageWritten DEF RenderTypeOK
  <2> QED BY <1>0, <1>1, <2>1 DEF SettledIsOver, RowsStay
<1>2. ASSUME renders' = renders, entry[j] # "completed", \A i \in Numbers \ {j} : entry'[i] = entry[i]
      PROVE  SettledIsOver' /\ RowsStay
  BY <1>0, <1>2, SettledUntouched
<1>3. CASE TakeRender(j)
  <2>1. j \in 1..Len(renders) /\ entry[j] = "waiting"
    BY <1>3, JobHasRow DEF TakeRender
  <2>2. \A i \in Numbers \ {j} : entry'[i] = entry[i]
    <3>1. \E e \in {"completed", "active"} : entry' = [entry EXCEPT ![j] = e]
      BY <1>3 DEF TakeRender, JobEnds
    <3> QED BY <1>0, <3>1
  <2>3. renders' = renders \/ renders' = [renders EXCEPT ![j].stage = "rendering"]
    BY <1>3 DEF TakeRender
  <2>4. "rendering" \in RenderStages
    BY DEF RenderStages
  <2> QED BY <1>1, <1>2, <2>1, <2>2, <2>3, <2>4
<1>4. CASE Render(j) \/ SaveRender(j)
  BY <1>4, SettledUntouched DEF Render, SaveRender
<1>5. CASE Settle(j)
  <2>1. j \in 1..Len(renders) /\ entry[j] = "active" /\ work[j] \in {"ready", "failed"}
    BY <1>0, <1>5, JobHasRow DEF Settle, JobsHold
  <2>2. /\ renders' = [renders EXCEPT ![j].stage = work[j]]
        /\ entry'[j] = "completed" /\ \A i \in Numbers \ {j} : entry'[i] = entry[i]
    BY <1>0, <1>5 DEF Settle, JobEnds
  <2>3. work[j] \in RenderStages
    BY <2>1 DEF RenderStages
  <2> QED BY <1>1, <2>1, <2>2, <2>3
<1>6. CASE WorkerFalls(j)
  <2>1. entry[j] # "completed" /\ renders' = renders
    BY <1>6 DEF WorkerFalls, requestVars
  <2>2. \E e \in {"waiting", "failed"} : entry' = [entry EXCEPT ![j] = e]
    BY <1>6 DEF WorkerFalls, JobEnds
  <2>3. \A i \in Numbers \ {j} : entry'[i] = entry[i]
    BY <1>0, <2>2
  <2> QED BY <1>2, <2>1, <2>3
<1> QED BY <1>3, <1>4, <1>5, <1>6 DEF RenderStep

\* A row that says ready or failed is final: no retry, no stalled job that is run again and no other request
\* for the same version changes what the founder was told (the reel-render worker).
THEOREM SettledRendersStay == RenderSpec =>
    [][\A j \in 1..Len(renders) : renders[j].stage \in {"ready", "failed"} => renders'[j] = renders[j]]_renderVars
<1>1. RenderInit => SettledIsOver
  BY DEF RenderInit, SettledIsOver
<1>2. RenderIInv /\ SettledIsOver /\ [RenderNext]_renderVars => SettledIsOver' /\ [RowsStay]_renderVars
  <2>1. CASE UNCHANGED renderVars
    BY <2>1 DEF renderVars, SettledIsOver, requestVars, workerVars
  <2>2. CASE RenderNext
    BY <2>2, RequestSettles, WorkerSettles DEF RenderNext
  <2> QED BY <2>1, <2>2
<1>3. RenderSpec => [][RowsStay]_renderVars
  BY RenderInitOK, RenderStepKeeps, <1>1, <1>2, PTL DEF RenderSpec
<1> QED BY <1>3 DEF RowsStay

=============================================================================
