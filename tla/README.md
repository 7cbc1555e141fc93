# Verification of business-brain

This directory holds TLA+ modules that model business-brain, the TLC configurations that
check them on small instances, and proofs checked by TLAPS. Every definition is translated
from the source under `src/`; `PROJECT.json` maps each one to its lines. To check a run:
`tlc -config <run>.cfg <module>.tla`; to check the proofs: `tlapm <name>Proofs.tla`.

## 1. The system and its parts

business-brain turns what a founder connects or tells (an Instagram account, a website,
answers) into a diagnosis, a strategy, a weekly brief and content, and learns from results.
It runs as an API (at least two replicas, `deployment/k8s/api-deployment.yaml`), a worker
process with BullMQ queues over Redis, and PostgreSQL, which holds all lasting state.
Language models and social networks are called over HTTP.

| Part | State | Operations | Hard behaviour |
|---|---|---|---|
| **Business Brain lifecycle** (`pg-businessbrain.repository.ts`, `lifecycle-coordinator.ts`, `businessbrain.routes.ts`) | `bb_version` and its cascading children, `bb_refresh_status` (also the founder's lock), idempotency tokens, the Instagram credential | start, cancel, progress, current, connect, disconnect; a detached in-process pipeline: import, commit evidence, up to three drafts, commit diagnosis, validate, promote | requests in several API processes against pipelines; three commits that do not take the founder's lock; stale pipelines; lost acknowledgements; a process that dies |
| **Business Brain reading** (`getCurrentAggregate`, `traceability.ts`) | none of its own | a dozen SELECTs without a transaction | a promotion between two of them |
| **Data deletion** (`instagram-compliance.*`) | the same tables, other lock order | delete all Instagram data of a founder | races with a running refresh |
| **Weekly cycle** (`weekly-cycle.aggregate.ts`, `application/src/cycle`) | `cycle.weekly_cycles`, its content pieces, signals and decisions, briefs | start, collect, commit brief, fail, approve, edit, reject | aggregate read outside the transaction that saves the whole row |
| **Event store, outbox and bus** (`event-store`, `event-bus`, `outbox-relay.worker.ts`) | the `outbox` with locks and publication marks | append, claim a batch, publish, mark | overlapping ticks, a crash after publishing, one failing handler |
| **LLM pipeline** (`llm-pipeline`) | queue jobs, pipeline context | twelve stages, commit or fallback brief | jobs enqueued twice, no retry |
| **Content delivery** (`content-delivery`) | `consumed_events`, content pieces | enqueue, produce with bounded repair, persist and announce once | at-least-once delivery, a crash between steps |
| **Projections and scheduler** (`projection`, `scheduler`) | read models, advisory lock | project events; start due cycles | reordered and repeated events |
| **Founder, intake, recalibration** (`domain/src/founder`, `application/src/founder`) | founder profile, intake and recalibration sessions, voice versions | onboarding, pause, resume, offers, recalibrate | optimistic saves, process managers |
| **Campaign** (`domain/src/campaign`) | campaign with phases | launch, advance, interrupt, complete, fail | aggregate transitions across processes |
| **Memory and outcomes** (`domain/src/memory`, `workers/memory`, `workers/attribution`) | patterns, snapshots, outcome reports | accumulate, recognise, rebuild, attribute | repeated events, stale snapshots |
| **Understanding records** (`domain/src/understanding`, `application/src/understanding`) | append-only claims, declarations, reviews, recognitions, presentations, facets, snapshots | append with idempotency, supersede, project, generate snapshots | concurrent appends, replays, deterministic identity |
| **Understanding mechanics and business model** (`understanding-mechanics`, `business-model-engine`, `api/src/business-model`) | none, and a recompute store | pure evaluation of offers; recompute | boundary values; stale recompute |
| **Learn-business, governance** (`application/src/bi`) | runs, governed understanding | ingest, synthesise, ground numbers, validate | partial failure, grounding |
| **Product slices** (`conversation`, `strategy`, `voice`, `plan`, `arc`, `carousel`, `photocarousel`, `reel`, `reel-shoot`, `move-draft`, `result-loop`, `impact`, `mirror`, `communication`, `reach`, `proof`, `atoms`, `home`, `business`) | one append-only store each | propose, validate, repair within a budget, fail closed, adopt, revise, export | repair loops, supersession, lifecycle against stale inputs |
| **Media workers** (`workers/reel`, `reel-shoot`, `move-draft`, `services/reel-studio`) | render jobs | render, retry, finish | retries of half-done work |
| **OAuth connectors, auth, sessions, plugins** (`api/src/connectors`, `auth`, `plugins`, `middleware`) | credentials, tokens, idempotency keys, rate limits | authorise, callback, refresh, disconnect | expiry and refresh races |
| **Model and rendering adapters** (`infrastructure/src/business-intelligence`, `render`, `reel`, `llm`, `connectors`) | none | HTTP calls, prompts, layout | I/O |
| **Web client** (`apps/web`) | view state | views, polling | none that the server depends on |

The parts meet in three ways: an HTTP handler calls a service that runs one or several
transactions; a transaction appends an event to the outbox, from which the relay publishes
it to in-process handlers, which write projections or enqueue jobs; and several processes
share rows of PostgreSQL, guarded by row locks, unique indexes and conditional writes.

`docs/operations/known-issues.md:264-288` says that no workers are deployed in production at
present; landing pages are then produced inline, in the request (`move-draft.routes.ts:64-68`),
which is how `LandingDraft` has it. The queues and workers are modelled as the code runs them.

| Modules | Part | Section |
|---|---|---|
| `BusinessBrainLifecycle`, `BrainShelf`, `CurrentVersionRead` | Business Brain and its reading | 2 |
| `OutboxRelay`, `EventDelivery` | event store, outbox, bus | 3 |
| `WeeklyCycle`, `OnceOnly` | weekly cycle, pipeline job, content delivery, decisions | 4 |
| `UnderstandingLog`, `RecordLedger` | the five append services of the understanding records | 5.1 |
| `PourIn` | sources of a business and their reading (learn-business, arc) | 5.2 |
| `StrategyDraft`, `StrategyVersions` | one generation of a strategy; its versions and adoption | 5.3 |
| `PlanLifecycle`, `TodaySelection` | plans and their adoption; what is shown as today's move | 5.4 |
| `LandingDraft`, `CarouselStudio` | landing pages; carousels | 5.5 |
| `ReelProcess`, `ReelRender` | clips to opportunities; accepted reels and renders | 5.6 |
| `FounderIntake`, `LawfulFounder` | the founder's row, the intake and the connection pool | 5.7 |
| `MCBusinessBrain`, `MCCurrentVersionRead`, `MCOutboxRelay`, `MCWeeklyCycle`, `MCProduct` | instances for TLC | |
| `BusinessBrainProofs`, `OutboxRelayProofs`, `WeeklyCycleProofs`, `UnderstandingProofs`, `StrategyPlanProofs`, `StudioProofs`, `ReelProofs`, `FounderIntakeProofs` | the theorems, one section per component | 6 |

## 2. The Business Brain lifecycle

### What is modelled

`BusinessBrainLifecycle` is one founder's Business Brain. Founders share no row, so one is
enough. `lifecycle` is `bb_version` (a deleted row stays visible as "discarded" or
"superseded", a ghost that only properties read); `evidence`, `diagnosis` and `passed` are
the children a version has; `refresh` is the `bb_refresh_status` row (the reference and the
candidate id are always written together and are one field; the failure category is left
out); `tokens` is `bb_start_refresh_idempotency`; `connected` says that a credential is
stored. `pc`, `seen` and `attempt` are the local state of the detached pipeline of each
version, `req` that of the open HTTP requests; `spared` is history.

A start and its pipeline read the credential separately: the start before its transaction, the
pipeline as the first statement of `importAccount` (`LoadToken`, `instagram.connector.ts:104-108`),
which throws when a disconnect has deleted the credential in between; the import then fails.

Granularity follows the locks. A transaction that begins with `lockFounder` is one step
(`CreateCandidate`, `Cancel`, `ImportFails`, `Promote`, `FailAndDiscard`, ...): no other
locked transaction comes between. Three commits never take that lock
(`commitImportSufficient`, `commitCandidateDiagnosis`, `commitValidationPassed`), so each is
split where another transaction can come between: the candidate check, the inserts with the
read of the marker, the write of the marker with the commit. While such a commit is open it
holds a foreign-key or row lock under its version (`RowLocked`), and a discard that wants to
delete the version waits for it, holding the status row (`BlockOn`, `FinishDiscard`); the
commit in turn needs the status row to write its marker. That is a real deadlock, which the
database resolves by aborting either side (`AbortDiscard`, `AbortCommit`).

An error in a transaction rolls it back and takes the code's catch blocks (`Caught`); a
process may die at any point (`PipelineLost`, `RequestLost`); a promotion may be committed
and its acknowledgement lost, and so may the commit of a diagnosis (its own catch block then fails
the refresh). `MaxFaults` bounds how often this happens. Not modelled: the
import job row, which no decision reads (the commit of the import even updates it under a
fresh id that matches no row); `commitValidationFailedAndDiscard`, which the coordinator
cannot reach, because it runs the same deterministic validation that the accepted draft has
just passed; the already-imported branch of `commitImportSufficient`, which needs a second
delivery that nothing makes; audit rows.

`CurrentVersionRead` adds readers of `GET /current`: the SELECTs of `getCurrentAggregate` in
program order, each of which finds its rows or not, and the route's structural guard.

`BrainShelf` is what the founder is promised: nothing is shown, then one version after
another, each replacing the last in one step, none coming back. `ImplementsShelf` maps
`shown` to the Current version and `retired` to the superseded ones.

### Properties

- `OneOfEach`: at most one Candidate and one Current (the unique indexes never fire).
- `CurrentIsComplete`: what is served has its own evidence, diagnosis and validation, though
  promotion reads a founder-wide `validation_state` that stale pipelines also write.
- `NoOrphanRows`: no unlocked commit leaves children of a discarded version.
- `StatusAgrees`: the polled status row agrees with the versions that exist.
- `RevokedIsDiscarded`: while the account is disconnected no Candidate goes on past its import,
  also one whose start had read the connection before, unless the disconnect is still at work or
  its discard was lost (`spared`).
- `TokenBindsOnce`, `TokenRowIsFinal`: a retried start creates nothing and moves nothing.
- `CurrentOnlySuperseded`, `ImplementsShelf`: only a promotion takes the Current away.
- `PipelineEnds`, `LockReleased`, `RefreshDecided`: liveness, see below.
- `ServedIsWhole`, `TornOnlyIfSuperseded`: a torn read is refused or lacks only the edges of
  its traceability graph, and only when its version has been superseded.

### Runs and bounds

| Run | Instance | Shows |
|---|---|---|
| `brain` | 2 versions, 2 requests, 2 tokens, 2 fingerprints, 1 reader, 1 attempt, 1 fault, within `InScope` | every safety property, the inductive invariant, the refinement, the idempotency of start, the reads |
| `brain_liveness` | 2 versions, 1 request, 2 attempts, no fault | liveness |
| `ended_with_candidate` | 2 versions, 1 request | violation of `EndedPipelineIsTerminal` |

`InScope` (a CONSTRAINT of `brain`) keeps its 1.5 million states to two questions: two
concurrent requests that use one token and one fingerprint, without readers; and one request at
a time with every token, fingerprint and reader. Versions, requests, tokens and fingerprints are
symmetric. `ReadInv` is the type invariant of the reads with `ServedIsWhole` and
`TornOnlyIfSuperseded`; `OneOfEach`, `NoOrphanRows`, `TokenBindsOnce` and `RevokedIsDiscarded`
are conjuncts of the inductive invariant `IInv`. `brain_liveness` runs `UndisturbedSpec`, the
specification without faults: nothing in the code restarts a pipeline whose process died.

Two versions are enough for a stale pipeline beside a new refresh and for a Current beside a
Candidate; two requests for a cancel that waits while another request comes; one fault for a
lost acknowledgement, a crash or an error at any step. The theorems of section 6 remove the
bounds for the safety properties. Deadlock checking is on.

The violation is a sentence of a comment that the code does not keep (`PROJECT.json`,
"findings"). `ended_with_candidate`: a stale pipeline of a cancelled refresh resets the
founder-wide `validation_state` between the validation and the promotion of the next refresh;
promotion then answers 'stale', the pipeline ends, the row says 'failed', and the Candidate
stays, so that every later start is refused until the founder cancels.

The properties above are worded around further weaknesses of the code, which the model has and
no property denies: a failing pipeline whose Candidate is gone still writes the status row;
the transition marker can go back (two statements without a lock); a token replayed after a
later refresh is answered with that refresh's reference; the progress row shows combinations
that `public-mappers.ts` does not list; the discard of a disconnect is best effort
(`businessbrain.routes.ts:119-127`), and one that is lost to an error, a crash or the deadlock
lets its Candidate be promoted after the account was disconnected.

### Fairness

A pipeline is a running async function whose external calls all time out, so it takes its
next step (strong fairness of `Advance`, since a row lock can be taken away and given back:
waiters are queued). Open transactions finish and deadlocks are resolved (weak fairness of
`FinishDiscard`/`AbortDiscard`). A started request goes on (`StartTx`, `DisconnectTx`).
Nothing makes a founder act, and the liveness run has no crash: a pipeline that dies is not
restarted by anything, which is one of the hazards.

## 3. The outbox relay

`OutboxRelay` is `app.domain_events` and the relay. `appended`, `published` and `locked` are
sets of rows (a row is `locked` while `relay_locked_until` is in the future); `hand` and `at`
are the local state of a tick, one call of `relayBatch`: the rows of its batch it has not
marked, and the row between its publication and its mark. `received` says which handler has
had which event; `repeated` and `overran` are history. Events are numbers, the order of
`emitted_at`; which transaction appends next is open, so events are committed out of order.

A tick claims in one transaction (`Claim`; SKIP LOCKED makes concurrent claims disjoint), then
publishes and marks row by row, as separate steps. `PublishFails` is what happens when
`Promise.all` rejects: some handlers have succeeded, the exception leaves the loop, the locks
stay. A handler that is still running when another one rejects is counted as done or as failed
at that moment. `TickLost` is a crash or a failing statement, `LockExpires` the five minutes
passing, also under a tick that is still at work. Ticks overlap because `setInterval` does not
wait and two worker processes run.

`EventDelivery` is what the outbox promises: an event counts as done only when every
subscriber has had it. `OutboxRelay` implements it (`ImplementsDelivery`, TLC and TLAPS).

- `RelayInv`, the inductive invariant, with `MarkedOnlyReceived`: no crash or overrun loses an
  event.
- `RepeatedOnlyOverrun`: a handler gets an event twice only after the row's lock ran out.
- `EventuallyPublished`: liveness, under fairness.

| Run | Instance | Shows |
|---|---|---|
| `relay` | 2 events, 2 subscribers, 2 ticks, batches of 2 | safety, the inductive invariant, the refinement, liveness; 14,000 states |
| `relay_one_failure` | an event whose handler always fails, and one after it | violation: the second is never published |

Two events give a batch in which the first blocks the second, two subscribers an event that is
half delivered, two ticks every overlap; the theorems cover any numbers and batch sizes. All
events are published in the end and none is left to append, so deadlock checking is off.
Fairness: the timer claims (weak), locks run out (weak), an open
tick that is not lost settles its publication, and an attempt made again and again succeeds
and is marked one day (strong, since each attempt can fail or die; a poisoned event's never
does).

## 4. The weekly cycle and its content

### What is modelled

`WeeklyCycle` is one founder's cycles. `cycle` is `cycle.weekly_cycles`, `brief` the row of
`cycle.internal_briefs` of each cycle (its kind), `batches` and `piece` are
`cycle.content_pieces` (one approval status stands for the pieces of a batch: a piece takes
part in no other's decision), `consumed` is `app.consumed_events`; `jobs` are the job ids the
queue remembers. `trigger`, `run`, `delivery` and `approval` are the local state of the open
requests and job executions. A run stands for one LLM_PIPELINE job, and, once it has
committed, for the (Fallback)BriefCommitted event it appended.

- Trigger: the number is derived from history (`DeriveNumber`) before the transaction under
  the founder's row lock that uses it (`StartCycle`, `StartFails`).
- `EnqueuePipeline` is one delivery of WeeklyCycleStarted. The relay repeats deliveries
  (section 3) and every one of them gets a job id of its own. The twelve stages are a choice
  of outcome: main brief, fallback brief, none. `committedAt` is taken before the commit's
  transaction (`BeginCommit`, `CommitBrief`); its order is the only thing read of it. The
  clocks of the processes are taken to agree, but runs commit in any order of their times.
- Delivery jobs have the event's id, so the queue ignores a repetition; BullMQ may still take
  a running job for stalled and give it to a second worker once (`RerunStalled`). `Precheck`,
  `Produce`, `Persist` and `EmitFailure` follow `process`; `JobFails` is an error outside its
  `try`. `Persist` may be committed and its acknowledgement lost (`next = "failing"`).
- Decisions: the piece is loaded by the controller, the cycle is read on a connection of its
  own, and the transaction writes both back whole (`LoadPiece`, `ReadCycle`, `Decide`).

Not modelled: `updateSituationModel`, `recordProvisionalDecision`, `recordCritiqueResult`,
`failCycle` and `emitIntelligenceEvents`, whose commands nothing dispatches, so that no cycle
is ever in flight or FAILED (`TypeOK` says so, and `MayStart` keeps the code's test); signals;
the process managers of `application/src/cycle`, which nothing constructs.

`OnceOnly` is what a consumer promises: an announced event has its effect at most once.

### Properties

`CycleInv` is the inductive invariant of section 6; of its conjuncts, `Numbering`, `ContentOnce`
and `ContentOfBrief` are what a reader should know.

- `Numbering`: the cycles are numbered 1, 2, 3, ..., each once, and only the newest can be
  unfinished, though the number is derived outside the transaction and the "already running"
  test never fires.
- `CommittedStays`: no whole-row save of stale data undoes a commit, its number or its brief.
- `ContentOnce`, `ImplementsOnceOnly`: one batch for each brief event, announced exactly when
  it is stored, whatever is delivered or rerun.
- `ContentOfBrief`: content is produced only for a committed cycle that has a brief.
- `BriefAnswered`: liveness, a brief is answered with content or a failure unless its job
  broke off.

### Runs and bounds

| Run | Instance | Shows |
|---|---|---|
| `product`, part "numbers" | 2 cycles, 2 triggers, 2 runs, no content | numbering and commits |
| `product`, part "deliveries" | 1 cycle, 2 runs, 2 executions of delivery jobs | content once |
| `product`, part "approvals" | 1 cycle, 2 runs, 1 execution, 1 decision | stale saves |
| `product_liveness`, part "deliveries" | 1 cycle, 1 run, 2 executions | a committed brief is answered |
| `cycle_never_ends` | 1 cycle, 1 run | violation of `CycleEnds` |
| `decided_twice` | 1 cycle, 1 run, 1 execution, 2 decisions at a time | violation of `DecidedOnce` |

Two triggers race for a number; two runs commit one cycle twice; two executions are a job and
its stalled rerun, or the jobs of the two events; a decision holds its stale row while the other
run commits. `CycleScope` keeps the three questions apart, since content says nothing of
numbers. Checked separately: 3 cycles, 2 triggers and 3 runs (731,000 states). The ids of cycles
and of job executions are used up in the bounded instances, so these runs switch deadlock
checking off; the theorems of section 6 cover every number of each.

The violations: `cycle_never_ends`, a pipeline stage that throws leaves its cycle PENDING
(and every later trigger of that founder derives the same number from the finished cycles and
is refused by the unique index); `decided_twice`, two requests that loaded a piece before
their transactions both decide it.

The properties are worded around further weaknesses of the code, which the model has and no
property denies: a redelivered WeeklyCycleStarted leads to a second commit, which can turn
COMMITTED into FALLBACK_COMMITTED and gets a second batch of content (`ContentOnce` is about
events, not cycles); a failure may be announced for an event whose content is stored, when an
acknowledgement is lost; an error in the precheck ends a job without any event (hence the
exception in `BriefAnswered`); a decision can write back the status a second commit has just
changed (`CommittedStays` only keeps it finished).

Fairness: the relay delivers an event until the subscriber has enqueued its job (section 3), a
pipeline run ends with a brief of one kind unless it gives up and then commits, and a worker
that runs a job goes on. Nothing is assumed of founders, of stalled jobs or of failures.

## 5. The components around them

These components share no rows with one another, so any interleaving of two of them is an
interleaving of each. `MCProduct` puts them side by side for TLC: the variable `part` says which
one a behaviour moves, all others rest in one initial state. Two runs check all of them:
`product` (safety, 565,000 states up to symmetry) and `product_liveness`. Each `...Inv` below is
the conjunction of the named parts of one module, its type invariant among them.

`product` takes requests, pour-ins, clips, visits, askers, callers and pipeline runs for alike:
`Alike` holds the identity and the renaming that swaps the two of every pair at once, which
halves the states of each part. No definition tells the two of a pair apart; sets of which a
definition picks one by CHOOSE (makers, cycles, triggers, executions, intents) are left out.
`product_liveness` has no symmetry.

### 5.1 Understanding records: `UnderstandingLog`

Claims, recognitions, presentations, reviews and founder declarations are five logs with one
protocol; `log` says which of them a behaviour is about, and guards the steps that only some of
them have (the check of the snapshot and statement a record refers to, the retry of the claim
log with another id). A request is one READ COMMITTED transaction: lookup by client event id,
mint an id, lock the business's counter row, look again, insert with the next number, commit.
`LogInv`: an event is recorded once, numbers have no gap, answers are true, and one client at
most is told that it created a record. `LogIsLedger`: the protocol implements `RecordLedger`,
an append-only ledger. `EveryRequestIsAnswered`: no chain of taken ids or waiting transactions
keeps a request for ever. Two requests, two ids and two contents make every collision of pairs;
three requests were checked separately.

### 5.2 Sources and readings: `PourIn`

A source is fetched, its fragments are bound, and an event that nobody awaits puts it on the
list; "done adding" reads what is bound into one understanding and, if it is a re-read, reopens
the review by a second event. Requests run in one process and interleave at every await; events
can be lost, and a crash ends all requests. `PourInv`: the founder has confirmed the latest
understanding, never an older one, except where the event that reopens the review was itself lost,
or was written as the first one because the flags could not be read (`has`, `founder-events.ts:304`, swallows the error;
`unmarked` records both); a reading contains every source whose addition was answered before it; a removed
source stays out; one reading at a time. `ReadingEnds` under the process's own progress.
`removed_stays_bound` is a violation: a typed description is listed as a website, and removing it
unlinks nothing. Bounds: one website, two requests, three events
(four were checked separately), two readings.

### 5.3 Strategy: `StrategyDraft` and `StrategyVersions`

`StrategyDraft` is one generation: structural repairs until the gates pass, a judge that may
throw, repairs it asks for, the deterministic omission of secondary fields, the conservative
fallback. A draft is the set of what gates and judge can find wrong, in its central or its
secondary fields. `DraftInv`: what becomes a proposal passes every gate after its last change; an
approval is of the very draft that is stored; the calls of a generation are bounded.

`StrategyVersions` is the store: generations that read their inputs first and take a version
number a minute later, the founder's further words, adoption. `inputs` counts what is recorded. A
caller adds options: the arc its read or assumed goal (`WithRead`, the states in which it has
one), a result loop its results, the other entry points nothing. The context hash covers both
(`Context`), so a result of one entry point is in general not recognised at another
(`AlreadyTried`). A challenge regenerates, drops the version it gets and then answers with the
arc's view (`JoinView`, `ShowBet`, `ViewAnew`, `ShowNoBet`). `VersionsInv` has four parts:

- `NewerKnowsMore`: a version that knows less than an earlier one was being generated when that one
  was stored.
- `WordsAreAnswered`: the version generated for a response contains the response.
- `SameInputsOneResult`: looking at the arc again repeats a result of the same context only when
  generations overlapped, or when the newest result was of the same inputs and another entry point.
  The second case is real: `strategy.service.ts:139-142` and `arc.routes.ts:286-287` say that
  unchanged inputs are not generated from again, and across entry points they are. The property
  says that nothing else leads to it.
- `UnmetIsExplained`: a challenge is answered with a bet that does not know it only when its own
  version is insufficient, or when a generation under way was stored behind it.

`challenge_reflected` is the violation of the plain promise (`ChallengeIsReflected`,
`arc.routes.ts:417-418`): when the regenerated version is insufficient, the founder sees the old bet
with the note that it changed because of the challenge. `AdoptedIsKept`: the adopted version is a
proposal and no stored version changes. Two askers, three versions and two inputs give every overlap
of two, a stored result between them, and a state without and with a read.

### 5.4 Plan and today: `PlanLifecycle` and `TodaySelection`

Proposed, adopted and superseded are events of an append-only table; the active plan is computed
from them. Requests interleave between statements and may fail between two (`Break`).
`PlanInv`: two plans are in force only when two adoptions overlapped, a plan is lost only between
the two statements of an adoption or after one that failed there, and a plan builds on the cycle
of an earlier, adopted one. `PlanIsAnswered`: a request ends within its attempts. Bounds: two
callers, three plans, one failure (three callers: 511,000 states, checked separately).

`TodaySelection` derives readiness from plan, ledger, what the founder holds and staleness, in
the code's order of checks, and the selection from it. An action may lack several things at once
(`lack` is a set). `TodayInv`: while an action is open the
founder is given a move; a standstill has a cause (an action held back, put off, or waiting for
itself); the focus is not crowded out. Sort and slice are stated by what they leave: `Shown` is the
ready actions with fewer than TODAY_MAX ready ones before them (`TodayShowsTheFirst` proves that
this is the beginning of the list); `WaitsFor`, which only properties use, is a least closed set. `ReadyStaysReady`: marking an action never takes another
one's readiness away. Three actions, every graph of prerequisites, the focus with two of the
actions (`TodayScope`; both foci were checked separately, 131,000 states).

### 5.5 Landing page and carousel: `LandingDraft` and `CarouselStudio`

`LandingDraft`: the first view writes the page, with up to two repairs; accept, edit and rewrite
insert the next row. `LandingInv`: what a model wrote is stored only when the whole page passed,
and a page that was shown stays unless two first views overlapped. `refusals_are_named` is a
violation: accepting, editing or rewriting keeps the primary key of the row it starts from, so
that its insert fails.

`CarouselStudio`: generation through drafts, stripping in code and a constrained realization
with repairs; revision and another angle; the separate inserts of version, asset or pointer,
record and render, each of which can throw; a crash. `CarouselInv`: whichever way a carousel
came, it is stored without a finding of its gates (genericness excepted, where the code does);
refusals leave nothing behind; what is current is rendered or its writes were cut short; a change
is kept, or two were made from one version. `OrdersAreAnswered`. Two orders give every race of
two (three: 1.2 million states, checked separately).

The properties are worded around what the code does: the constrained fallback writes inside its
`try` (`carousel.service.ts:452`), so a failing third insert is answered with "insufficient"
although rows are stored, and the next generation answers with an asset that has no render; two
generations at once create two assets; a draft that fails only the anti-template gate has no
blocking finding, so it is the one retained as best, and cannot be stripped.

### 5.6 Reels: `ReelProcess` and `ReelRender`

`ReelProcess` is the reel-process queue (two attempts, stalled jobs, ids never queued twice) and
its worker, which saves an understanding, re-reads the job row and recommends. `ProcessInv`: an
opportunity shown comes from the understanding its row names; a fulfilment report covers every
clip registered before. `JobsAreAnswered`: one error or crash leaves no plan without its report
and no row without an end (an opportunity the gate blocks leaves its stage silent, as in the code).

`ReelRender` is acceptance, swaps of the opening, and renders: version, pointer, revision, job
row and queue entry are written without a transaction. `RenderInv`: "ready" has its render, the
pointer never dangles, numbers repeat only after overlapping swaps. `RenderSettles`: a queued
render is stored or failed, though the row may say "rendering" for ever. Two parts check it:
"renders" with crashes and up to two versions, "swaps" with three versions and no crash (the
union without the split: 487,000 states, checked separately).

### 5.7 The founder's row: `FounderIntake`

Answer, complete, pause, resume, recalibrate lock the founder's row in a transaction; completing
also marks the session and seeds the memory through repositories that take a second connection
and commit at once; decisions about content read their cycle that way too. `PoolSize`
connections are handed out, everybody else waits, without a timeout (`client.ts:20`).
`FounderInv`: the row's status is what the events announce, each lawfully after the one before,
so no command saves over another; what is in the memory comes from a completed, announced
intake. `CommandsActOneAtATime`: `FounderIntake` implements `LawfulFounder`, whose visible state
(status, announced events, seeded memory) changes by one whole lawful command at a time. `CommandsAreAnswered`: commands stay unanswered in one way only, when the pool stays
drained by transactions that wait for a second connection. That state is reachable (two
decisions, two connections; by default ten of each), which is why the property has its premise.
Two commands (three: 197,000 states, checked separately).

Further things the model shows: the session is completed outside the transaction, against the
comment at `complete-intake.handler.ts:13-17` ("all inside one transaction"), so that a rollback
leaves a founder INTAKE_PENDING whose session is closed; an answer accepted after the completion
has read the session is not seeded; pausing and resuming turns CREATED, INTAKE_PENDING and
RECALIBRATING into ACTIVE; `daysSinceLastRecalibration` is always null, so the 14-day cooldown
is never enforced; nothing dispatches CompleteRecalibration or StartIntake.

### Fairness

A function that runs takes its next step (weak fairness of `Progress`, `ReadingStep`,
`WorkerStep`, `RenderStep`, `PlanStep`, `OrderStep`, `CommandStep`): calls of models, fetches and
ffmpeg time out, and nothing else can take the step's guard away for ever. The counter row of a
log and the founder's row are granted when they stay free (`LockSeq`, `CommandStep`). Queues hand
out what is queued. No request is fair: nobody must ask. Crashes are bounded by `MaxMishaps` and
`MaxFalls` where the queue's attempts are.

All of these instances come to an end when their requests, ids and bounds are used up, so deadlock
checking is off; what must not stop is stated as liveness.

## 6. What is proved

Every theorem is for all values of the constants, from the named assumptions of its module only
(the "no value" constants are outside their sets, bounds are numbers).

`BusinessBrainProofs`, from `LifecycleAssumption`:

- `BrainInvariant`: `IInv` is an invariant. None of the safety properties is inductive alone.
  `CurrentIsComplete` needs to know that a pipeline about to promote has filled and validated
  *its own* Candidate, whatever the founder-wide flag says; `NoOrphanRows` needs that an open
  commit still has its Candidate, which holds because a discard waits for it. `PipelineRows`
  says both, and `LockHolder` that only a waiting discard holds the lock.
- `BrainTypes`, `BrainOneOfEach`, `BrainCurrentIsComplete`, `BrainNoOrphanRows`,
  `BrainStatusAgrees`, `BrainTokenBindsOnce` follow from it; `BrainTokenRowIsFinal`,
  `BrainCurrentOnlySuperseded` and `BrainNoPromotionAfterRevoke` are action properties proved with
  it. The last is what `RevokedIsDiscarded` is for: no promotion while the account is disconnected,
  unless the disconnect is still at work or its discard was lost.
- `BrainImplementsShelf`: the lifecycle implements `BrainShelf`. `OnlyPromotionPublishes`
  shows that every step but a promotion leaves the shelf alone, `PromotePublishes` that a
  promotion is `Publish`.

The proof goes by kinds of effect: a step that writes no row (`QuietData`), one that discards
(`DiscardData`), an unlocked commit (`CommitData`), a creation and a promotion.

`OutboxRelayProofs`, from `RelayAssumption`: `RelayInvariant`, `RelayTypes`,
`RelayLosesNothing`, `RelayRepeatsOnlyOverrun`, `RelayImplementsDelivery`. `MarkedOnlyReceived`
needs `AtIsInHand` (a tick marks what it has published); `RepeatedOnlyOverrun` needs `Exclusive`:
until its lock runs out an event is in one tick's hand only, and has reached nobody before that
tick publishes it.

`WeeklyCycleProofs`, from `CycleAssumption`: `CycleInvariant`, `CycleTypes`, `CycleNumbering`,
`CycleCommittedStays`, `CycleContentOnce`, `CycleContentOfBrief`, `CycleImplementsOnceOnly`.
`Numbering` needs `TriggersBacked` (a derived number follows a committed one) and
`CommittedStays` needs `ApprovalsBacked` (a row that was read for a decision is of a finished
cycle and has its number, because content exists only for committed cycles). The proof first
classifies the steps by the variables they write, then treats each class once.

`UnderstandingProofs`, from `LogAssumption` and `PourInAssumption`:

- `LogIsSound` (`LogInv`) and `LogImplementsLedger` (`LogIsLedger`). `LogIInv` adds whose lock it
  is (`LockOwner`), that what was looked up under the lock still holds at the insert because every
  other insert needs the lock (`LookupHolds`), and that a request is silent until it is done.
- `PouringInIsKept` (`PourInv`) and `AnsweredStaysBound`. `PourHolds` says what each request has in
  its hands: a source being added is of no page under removal, a reading has the pages it promises.
  `AnsweredIsBound`, the heart of it: a source that was answered for stays bound as long as nobody
  starts to remove it. `GoneIsGoing` ties a removed source to its removal, `ReviewHolds` the order
  of the arc's events to the latest understanding.

`StrategyPlanProofs`, from `DraftAssumption`, `VersionsAssumption`, `PlanAssumption` and
`TodayAssumption`:

- `DraftIsSound` (`DraftInv`). `StageKeeps` says what each stage leaves to the next (no judge before
  the gates pass, a verdict is about the draft in hand); `RepairsPayForCalls` that every call was
  paid for by a repair or a try, from which the bound follows by arithmetic on the rounds
  (`JudgeRounds`).
- `VersionsAreHonest` (`VersionsInv`), `AdoptedStands` (`AdoptedIsKept`). The inductive invariant
  says of every generation, stored or under way, that whatever was stored when it began knows no
  more than it does (`Builds`); `Challenged` says that a challenge which waits for the view has its own
  version stored, and that an older bet was shown for it only when that version is insufficient.
- `PlanIsKept` (`PlanInv`). `TakesOver`: as long as no adoption was overlaid, one that is not
  overtaken replaces the only plan in force; `LastIsReplaced`: the plan adopted last is in force, or
  the request that superseded it is about to adopt or failed.
- `TodayIsExplained` (`TodayInv`), `ReadyIsNotTakenAway` (`ReadyStaysReady`), `TodayShowsTheFirst`.
  The types alone are inductive; the rest is what the selection computes from any state. That a
  first action and a first obstacle exist is proved by the least element of a set of numbers
  (`LeastNumber`, from the well-foundedness of < on the naturals in its set form, which needs no
  operator parameter); that at most TODAY_MAX are shown by the injection of what is shown into its
  places (`ShownBegins`).

`StudioProofs`, from `CarouselAssumption` and `LandingAssumption`:

- `CarouselIsSound` (`CarouselInv`). The pointer always moves from the version a change was made
  from to the change, or the asset is forked, and a fork stays one; numbers are at most the current
  version's, or one more for its pending child.
- `LandingPageStays` (`LandingInv`), `LandingStoresFirstVersionsOnly`. `RowsAreProductions`: every
  row is the first version of one production, which is its id, so that whatever follows up on a row
  has a taken id and is refused; the second theorem is that fact. `OneRowUnlessCrossed` makes the
  page the only one as long as no two first views overlapped; that the bound on rows is never in the
  way counts the productions against the rows and drafts that have one.

`ReelProofs`, from `ProcessAssumption` and `RenderAssumption`:

- `ReelsAreTraceable` (`ProcessInv`). `RunHolds`: a run works on an active job, and what it has saved
  is its own and of no opportunity until it recommends; `RowNamesOwnSet`: from the re-read on, the
  row and its copy name that very understanding, whatever a stalled twin saved; `PlanCovers` follows
  the clips from the enqueued plan into the report.
- `ReelsStayWhole` (`RenderInv`). `MakerHolds` says what each request holds between its writes,
  `MakersApart` that no two hold one version or job; `CurrentIsLatest`: without overlapping swaps the
  pointed version has the highest number shown of its asset; `JobsHold` ties queue, worker and row.
  `RoomLeft` counts the rows still owed against the bound, for which the requests must be finitely
  many (`RenderAssumption`).
- `SettledRendersStay`: a row that says ready or failed never changes again, because its job is one
  the queue has done with (`SettledIsOver`).

`FounderIntakeProofs`, from `FounderAssumption`: `FounderIsWhatItAnnounced` (`FounderInv`),
`FounderRowIsExclusive`, `FounderActsOneAtATime` (`CommandsActOneAtATime`). `RowOwner`: whoever is
past the lock holds the row, alone, and what it has read of the row still stands; `LawfulChange`
and `LayersOfCompletion`: what it has written is lawful from there, and layers belong to a completion
whose session is closed. The refinement then has one case: `CommitChange` is the command, every
other step is unseen, and a completion finds the memory empty (`CompletesFirst`).

In `BusinessBrainProofs`, `BrainReadsAreWhole` (`ReadInv`) extends `IInv` by `ReaderHolds`: what a
reader under way has found is a beginning of the sections it has asked for, and all of them while its
version is Current.

So every safety property, every action property and every refinement that a run checks is proved.
Only model-checked: liveness, with the fairness it needs (`brain_liveness`, `product_liveness`,
`EventuallyPublished`), which is beyond the prover because it needs ENABLED; and the seven refuted
statements, for which a counterexample is the point. The bounds on retries, rows and events that the
models have (`MaxReels`, `MaxRows`, ...) are arbitrary in the theorems.

## 7. Mutants

Definitions under a comment "Mutant" are plausible bugs of the definition they stand before: a
dropped test, a look that is not repeated under the lock, a missing reset, a repair that is not
gated, a counter that starts anew, an error that is logged instead of announced. For every
property of a passing run `PROJECT.json` names the mutant that TLC finds to violate it, under the
run's own instance. A conjunctive invariant has one mutant.

## 8. What is open

### Hazards without a property

- `pg-businessbrain.repository.ts:739`: the transition marker goes back when a cancel commits
  between two statements. The steps are modelled; nothing decides on the marker. The same for
  the combinations a poll can see at `:368` that `public-mappers.ts` does not list.
- `scheduler.worker.ts:87`: a session-level advisory lock is taken through a pool and never
  released. Every job behind it is a stub at this commit.
- `projection.worker.ts:103`: ten concurrent jobs project events without order or version. Only
  displayed.
- `instagram-compliance.store.ts:79`: deletion of a founder's data takes the rows of a running
  refresh in another lock order. `BusinessBrainLifecycle` has no founder without rows after
  `Init`; the deletion would add that state to every step, to the proof of `IInv` and to a run
  of 1.5 million states.
- `weekly-cycle.aggregate.ts:281`: a brief without a uniqueness score compares `undefined < 50`.
  The content of briefs is abstracted.
- `pg-evidence.repository.ts:22`: fragments are keyed by content and keep the time of their first
  reading, so a page that returns to an earlier text is outvoted by the text in between. `PourIn`
  abstracts the text of a page.
- `learn-business.use-case.ts:340`: the onboarding routes synthesize outside the operation that
  the arc tracks; an understanding of theirs reopens no review. Those routes are not modelled.
- `reel-shoot.routes.ts:156`: "add-shot" queues a plan under the id of its first job, which the
  queue ignores, so the added clip is never matched. `QueuePlan` has it; no property claims more.
- `reel.routes.ts:157`: a crash between acceptance and the queue leaves an asset whose render
  nothing asks for again; `RenderSettles` starts at the queue.
- `strategy.routes.ts:72`: this route generates at every read while there is no proposal
  (`AskAgain`); `SameInputsOneResult` is about the arc's views, which the web client uses.
- `plan.service.ts:311` and `:347`, `composition-root.ts:774`: handoffs of a stale plan, and rows
  whose empty plan version the foreign key refuses only after the models have been called.

### Not modelled

Projections, scheduler and clean-up (see above). Campaign: one registered command on an aggregate
saved whole, the form of `CommittedStays`. Memory and outcomes: handlers that insert one row for
each event; that an event can come twice is section 3. Understanding mechanics, the business
model, facets, snapshots and governance: arithmetic and text processing on contents which the
models abstract. Of the slices: conversation, voice, mirror, communication, photo carousel,
result loop, proof, impact and reach; they repeat the form of 5.3 to 5.5 with other gates. OAuth
connectors, sessions, rate limits: rows of one owner or maps in one process's memory. The
idempotency plugin is such a map, filled when an answer is sent; two requests with one key that
overlap both run, so every model lets a client's repetition run. Model and rendering adapters,
prompts, web client: I/O and layout. This leaves most lines of the implementation outside: of
83,000 lines about 5,900 are mapped; a large part of the rest is text, layout and validation
rules of contents.

### Plan

1. (done) Business Brain lifecycle, its shelf, reading, proofs.
2. (done) Outbox relay and bus; weekly cycle, content delivery; their abstract specifications and
   proofs.
3. (done) Understanding records as an append-only ledger, with proofs.
4. (done) Strategy, plan, today, landing page, carousel, reels; proofs of strategy, plan and
   carousel.
5. (done) Founder, intake and the connection pool.
6. (done) Proofs of all safety properties; `LawfulFounder` and its refinement.
7. The facet resolver and offer evaluation as functions, against reference definitions over
   bounded inputs; the bounded repair of a content piece; the pipeline's stages as functions of
   their inputs.
8. Data deletion beside the lifecycle; projections with versions.
