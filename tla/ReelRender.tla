------------------------------ MODULE ReelRender ------------------------------
(***************************************************************************)
(* Accepted reels: the asset with its current version, the versions that   *)
(* "use a different opening" derives from it, and the queue of renders.    *)
(* The routes write without a transaction: version, asset or pointer,      *)
(* revision, job row, queue entry; a crash of the API ends a request       *)
(* between any two.  The worker renders a version once and is run again    *)
(* when it throws or stalls.                                               *)
(***************************************************************************)
EXTENDS Naturals, Sequences, FiniteSets

CONSTANTS Makers,       \* concurrent requests
          MaxReels,  \* bound: versions, and render jobs, made
          MaxFalls      \* bound: crashes and errors, of routes and of workers

ASSUME RenderAssumption == IsFiniteSet(Makers) /\ MaxReels \in Nat \ {0} /\ MaxFalls \in Nat

Numbers == 1..MaxReels

VARIABLES reels,  \* reel_asset_version: asset, number, and the version it was derived from
          current,   \* reel_asset: the current version of each asset; 0: no such row
          shoots,    \* reel_shoot_context: assets a shooting plan knows
          rendered,  \* versions with a row of reel_render
          renders,      \* reel_job rows of renders: version and stage
          entry,     \* the queue's entry of each job
          errors,    \* attempts that threw
          work,      \* next step of the worker that runs it
          making,      \* next step of each request
          kind,      \* accept, create-reel or swap-opening
          base,      \* swap: the version it has read as current
          mine,      \* the version the request has saved
          falls,
          shown,     \* history: versions that were current at some time
          raced      \* history: versions made current when their base was current no more

renderVars == <<reels, current, shoots, rendered, renders, entry, errors, work, making, kind,
                base, mine, falls, shown, raced>>

requestVars == <<making, kind, base, mine>>
workerVars == <<rendered, entry, errors, work>>

RenderStages == {"render_queued", "rendering", "ready", "failed"}
Reel == [asset : Numbers, number : Numbers, from : 0..MaxReels]

RenderTypeOK ==
    /\ reels \in Seq(Reel) /\ Len(reels) <= MaxReels
    /\ current \in [Numbers -> 0..MaxReels]
    /\ shoots \subseteq Numbers /\ rendered \subseteq Numbers
    /\ renders \in Seq([version : Numbers, stage : RenderStages]) /\ Len(renders) <= MaxReels
    /\ entry \in [Numbers -> {"none", "waiting", "active", "completed", "failed"}]
    /\ errors \in [Numbers -> 0..2]
    /\ work \in [Numbers -> {"idle", "render", "store", "ready", "failed"}]
    /\ making \in [Makers -> {"idle", "asset", "context", "point", "row", "queue"}]
    /\ kind \in [Makers -> {"none", "accept", "create", "swap"}]
    /\ base \in [Makers -> 0..MaxReels] /\ mine \in [Makers -> 0..MaxReels]
    /\ falls \in 0..MaxFalls
    /\ shown \subseteq Numbers /\ raced \subseteq Numbers

RenderInit ==
    /\ reels = <<>> /\ renders = <<>>
    /\ current = [a \in Numbers |-> 0]
    /\ shoots = {} /\ rendered = {} /\ shown = {} /\ raced = {}
    /\ entry = [j \in Numbers |-> "none"] /\ work = [j \in Numbers |-> "idle"]
    /\ errors = [j \in Numbers |-> 0]
    /\ making = [r \in Makers |-> "idle"] /\ kind = [r \in Makers |-> "none"]
    /\ base = [r \in Makers |-> 0] /\ mine = [r \in Makers |-> 0]
    /\ falls = 0

-----------------------------------------------------------------------------
Next1 == Len(reels) + 1
AssetOf(v) == reels[v].asset

Busy == Cardinality({r \in Makers : kind[r] = "swap" /\ mine[r] = 0})
Owing == Cardinality({r \in Makers : making[r] # "idle"})

\* Room for one more version and its job.
RoomToMake == /\ Len(reels) + Busy < MaxReels
              /\ Len(renders) + Owing < MaxReels

\* The request that comes next; which of the idle ids it takes makes no difference.
Fresh(r) == making[r] = "idle" /\ r = (CHOOSE q \in Makers : making[q] = "idle")

Advance(r, s) == making' = [making EXCEPT ![r] = s]

Over(r) ==
    /\ Advance(r, "idle")
    /\ kind' = [kind EXCEPT ![r] = "none"]
    /\ base' = [base EXCEPT ![r] = 0]
    /\ mine' = [mine EXCEPT ![r] = 0]

\* accept: the first version of a new asset, saved before the asset.
AcceptVersion(r, k) ==
    /\ Fresh(r) /\ RoomToMake
    /\ reels' = Append(reels, [asset |-> Next1, number |-> 1, from |-> 0])
    /\ kind' = [kind EXCEPT ![r] = k]
    /\ mine' = [mine EXCEPT ![r] = Next1]
    /\ Advance(r, "asset")
    /\ UNCHANGED <<current, shoots, renders, base, falls, shown, raced, workerVars>>

SaveAsset(r) ==
    /\ making[r] = "asset"
    /\ current' = [current EXCEPT ![AssetOf(mine[r])] = mine[r]]
    /\ shown' = shown \cup {mine[r]}
    /\ Advance(r, IF kind[r] = "create" THEN "context" ELSE "row")
    /\ UNCHANGED <<reels, shoots, renders, kind, base, mine, falls, raced, workerVars>>

\* converge records the asset of the plan; create-reel then renders what is current by now.
SaveContext(r) ==
    /\ making[r] = "context"
    /\ shoots' = shoots \cup {AssetOf(mine[r])}
    /\ Advance(r, "row")
    /\ UNCHANGED <<reels, current, renders, kind, base, mine, falls, shown, raced, workerVars>>

\* An asset the client has been told of: by the answer, or by the plan's shoot context.
Known(a) ==
    /\ current[a] # 0
    /\ a \in shoots \/ \A r \in Makers : kind[r] \in {"accept", "create"} => AssetOf(mine[r]) # a

\* swap-opening reads the asset and its current version.
ReadCurrent(r, a) ==
    /\ Fresh(r) /\ RoomToMake /\ Known(a)
    /\ kind' = [kind EXCEPT ![r] = "swap"]
    /\ base' = [base EXCEPT ![r] = current[a]]
    /\ Advance(r, "asset")
    /\ UNCHANGED <<reels, current, shoots, renders, mine, falls, shown, raced, workerVars>>

NumberOf(r) == reels[base[r]].number + 1

SaveVersion(r) ==
    /\ making[r] = "asset" /\ kind[r] = "swap"
    /\ reels' = Append(reels, [asset |-> AssetOf(base[r]), number |-> NumberOf(r), from |-> base[r]])
    /\ mine' = [mine EXCEPT ![r] = Next1]
    /\ Advance(r, "point")
    /\ UNCHANGED <<current, shoots, renders, kind, base, falls, shown, raced, workerVars>>

\* recordRevision follows: an insert that nothing reads back.
SetCurrent(r) ==
    LET a == AssetOf(mine[r]) IN
    /\ making[r] = "point"
    /\ current' = [current EXCEPT ![a] = mine[r]]
    /\ shown' = shown \cup {mine[r]}
    /\ raced' = IF current[a] = base[r] THEN raced ELSE raced \cup {mine[r]}
    /\ Advance(r, "row")
    /\ UNCHANGED <<reels, shoots, renders, kind, base, mine, falls, workerVars>>

\* enqueueRender: the job row, then the queue.
SaveJob(r) ==
    /\ making[r] = "row"
    /\ renders' = Append(renders, [version |-> IF kind[r] = "create" THEN current[AssetOf(mine[r])] ELSE mine[r],
                             stage |-> "render_queued"])
    /\ mine' = [mine EXCEPT ![r] = Len(renders) + 1]
    /\ kind' = [kind EXCEPT ![r] = "none"]
    /\ Advance(r, "queue")
    /\ UNCHANGED <<reels, current, shoots, base, falls, shown, raced, workerVars>>

QueueRender(r) ==
    /\ making[r] = "queue"
    /\ entry' = [entry EXCEPT ![mine[r]] = "waiting"]
    /\ Over(r)
    /\ UNCHANGED <<reels, current, shoots, rendered, renders, errors, work, falls, shown, raced>>

\* The API dies, or a write of the request fails.
RequestDies(r) ==
    /\ making[r] # "idle" /\ falls < MaxFalls
    /\ falls' = falls + 1
    /\ Over(r)
    /\ UNCHANGED <<reels, current, shoots, renders, shown, raced, workerVars>>

-----------------------------------------------------------------------------
Works(j, s) == work' = [work EXCEPT ![j] = s]

JobEnds(j, e) == Works(j, "idle") /\ entry' = [entry EXCEPT ![j] = e]

\* The worker takes the job and looks: a version that is rendered already is answered with, and
\* the row keeps its stage.
TakeRender(j) ==
    /\ entry[j] = "waiting"
    /\ IF renders[j].version \in rendered
       THEN JobEnds(j, "completed") /\ UNCHANGED renders
       ELSE /\ renders' = [renders EXCEPT ![j].stage = "rendering"]
            /\ Works(j, "render")
            /\ entry' = [entry EXCEPT ![j] = "active"]
    /\ UNCHANGED <<reels, current, shoots, rendered, errors, requestVars, falls, shown, raced>>

\* Mutant: a render that fails is thrown and tried again.
RenderOrThrow(j) ==
    /\ work[j] = "render"
    /\ \/ Works(j, "store") /\ UNCHANGED <<entry, errors>>
       \/ /\ errors' = [errors EXCEPT ![j] = @ + 1]
          /\ JobEnds(j, IF errors[j] = 1 THEN "failed" ELSE "waiting")
    /\ UNCHANGED <<reels, current, shoots, rendered, renders, requestVars, falls, shown, raced>>

\* ffmpeg and the object store: they succeed, or the error is caught and the row fails.
Render(j) ==
    /\ work[j] = "render"
    /\ Works(j, "store") \/ Works(j, "failed")
    /\ UNCHANGED <<reels, current, shoots, rendered, renders, entry, errors, requestVars, falls, shown, raced>>

\* Mutant: the row is ready before the render is saved.
ReadyFirst(j) ==
    /\ work[j] = "store"
    /\ renders' = [renders EXCEPT ![j].stage = "ready"]
    /\ Works(j, "ready")
    /\ UNCHANGED <<reels, current, shoots, rendered, entry, errors, requestVars, falls, shown, raced>>

SaveRender(j) ==
    /\ work[j] = "store"
    /\ rendered' = rendered \cup {renders[j].version}
    /\ Works(j, "ready")
    /\ UNCHANGED <<reels, current, shoots, renders, entry, errors, requestVars, falls, shown, raced>>

Settle(j) ==
    /\ work[j] \in {"ready", "failed"}
    /\ renders' = [renders EXCEPT ![j].stage = work[j]]
    /\ JobEnds(j, "completed")
    /\ UNCHANGED <<reels, current, shoots, rendered, errors, requestVars, falls, shown, raced>>

\* The worker throws (a repository call), or dies and the queue finds the job stalled.
WorkerFalls(j) ==
    /\ entry[j] \in {"waiting", "active"} /\ falls < MaxFalls
    /\ falls' = falls + 1
    /\ \/ JobEnds(j, "waiting") /\ UNCHANGED errors
       \/ /\ errors' = [errors EXCEPT ![j] = @ + 1]
          /\ JobEnds(j, IF errors[j] = 1 THEN "failed" ELSE "waiting")
    /\ UNCHANGED <<reels, current, shoots, rendered, renders, requestVars, shown, raced>>

RenderStep(j) == TakeRender(j) \/ Render(j) \/ SaveRender(j) \/ Settle(j)

RequestStep(r) ==
    \/ \E k \in {"accept", "create"} : AcceptVersion(r, k)
    \/ \E a \in Numbers : ReadCurrent(r, a)
    \/ kind[r] # "swap" /\ SaveAsset(r)
    \/ SaveContext(r) \/ SaveVersion(r) \/ SetCurrent(r)
    \/ SaveJob(r) \/ QueueRender(r) \/ RequestDies(r)

RenderNext ==
    \/ \E r \in Makers : RequestStep(r)
    \/ \E j \in Numbers : RenderStep(j) \/ WorkerFalls(j)

RenderSpec == RenderInit /\ [][RenderNext]_renderVars

\* Workers take what is queued, and ffmpeg ends.
RenderFairness == \A j \in Numbers : WF_renderVars(RenderStep(j))

RenderFairSpec == RenderSpec /\ RenderFairness

-----------------------------------------------------------------------------
\* A job row that says ready is the job of a version whose render is stored.
ReadyMeansRendered ==
    \A j \in 1..Len(renders) : renders[j].stage = "ready" => renders[j].version \in rendered

\* The asset points at a version that is saved and its own, wherever a route is interrupted.
PointerNeverDangles ==
    \A a \in Numbers : current[a] # 0 => /\ current[a] <= Len(reels)
                                         /\ AssetOf(current[a]) = a

\* Two versions of an asset the founder has seen carry the same number only if swaps overlapped:
\* a version that a crash has left behind unpointed never takes part.
NumbersUniqueUnlessRaced ==
    raced = {} => \A v, w \in shown :
        AssetOf(v) = AssetOf(w) /\ reels[v].number = reels[w].number => v = w

\* Assets, versions, renders and their job rows agree.
RenderInv ==
    /\ RenderTypeOK
    /\ ReadyMeansRendered
    /\ PointerNeverDangles
    /\ NumbersUniqueUnlessRaced

\* A render that was queued is stored or its row has failed, one crash or error allowed.
RenderSettles ==
    \A j \in Numbers :
        entry[j] # "none" ~> /\ j \in 1..Len(renders)
                             /\ renders[j].version \in rendered \/ renders[j].stage = "failed"
=============================================================================
