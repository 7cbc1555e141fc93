--------------------------- MODULE StrategyVersions ---------------------------
(***************************************************************************)
(* The strategies of one business: immutable versions, a proposal or an    *)
(* honest "insufficient" each, and the pointer to the one the founder has  *)
(* adopted.  A generation reads its inputs, calls models for a minute and  *)
(* only then takes the next version number.  The arc passes more to it     *)
(* than the other entry points do, and the hash that recognises a result   *)
(* covers that too.  What the generation itself does is StrategyDraft.     *)
(***************************************************************************)
EXTENDS Naturals, Sequences, FiniteSetsExt

CONSTANTS Askers,       \* concurrent requests
          MaxVersions,  \* bound: generations
          MaxInputs,    \* bound: things recorded
          WithRead      \* the recorded states in which the arc has a read, or a goal to assume

ASSUME VersionsAssumption == MaxVersions \in Nat /\ MaxInputs \in Nat /\ WithRead \subseteq 0..MaxInputs

VARIABLES inputs,     \* how much is recorded: the founder's words, the understanding, the read
          versions,   \* workspace.strategy_versions, in the order of the version number
          adopted,    \* workspace.strategy_pointer: a version, or 0
          asker,      \* next step of each request
          draftOf,    \* what each request has read
          begun,      \* history: generations begun
          bets        \* history: the bets shown in answer to a challenge

strategyVersionsVars == <<inputs, versions, adopted, asker, draftOf, begun, bets>>

\* What began a generation: a view of the arc or its retry, words or a challenge of the founder's,
\* a plain request, a reported result.
Causes == {"view", "retry", "words", "challenge", "asked", "result"}
ArcCauses == {"view", "retry"}
\* since: history, the versions stored when the generation read its inputs.
Version == [status : {"proposal", "insufficient"}, inputs : Nat, cause : Causes, since : Nat]
\* own: the version made for the challenge this request answers, or 0.
Draft == [inputs : Nat, cause : Causes, since : Nat, number : Nat, own : Nat]
DraftFrom(known, cause, since, number, own) ==
    [inputs |-> known, cause |-> cause, since |-> since, number |-> number, own |-> own]
NoDraftYet == DraftFrom(0, "view", 0, 0, 0)

VersionsTypeOK ==
    /\ inputs \in 0..MaxInputs
    /\ versions \in Seq(Version)
    /\ adopted \in 0..Len(versions)
    /\ asker \in [Askers -> {"idle", "drafting", "storing", "viewing", "joined"}]
    /\ draftOf \in [Askers -> Draft]
    /\ begun \in 0..MaxVersions
    /\ bets \subseteq [own : 1..Len(versions), shown : 1..Len(versions)]

VersionsInit ==
    /\ inputs = 0 /\ versions = <<>> /\ adopted = 0 /\ begun = 0 /\ bets = {}
    /\ asker = [a \in Askers |-> "idle"]
    /\ draftOf = [a \in Askers |-> NoDraftYet]

-----------------------------------------------------------------------------
Proposals == {i \in 1..Len(versions) : versions[i].status = "proposal"}

\* latest: ORDER BY version DESC.
Newest == Len(versions)

\* What the caller adds to what is recorded: the arc its read or assumed goal, a result loop the
\* results, the other entry points nothing.
Options(cause, known) ==
    IF cause \in ArcCauses /\ known \in WithRead THEN "read"
    ELSE IF cause = "result" THEN "results" ELSE "plain"

\* The context hash of a generation, or of a stored version.
Context(d) == <<d.inputs, Options(d.cause, d.inputs)>>

\* The newest result is insufficient and has the context that a view of the arc has now.
AlreadyTried ==
    /\ Newest > 0
    /\ versions[Newest].status = "insufficient"
    /\ Context(versions[Newest]) = <<inputs, Options("view", inputs)>>

Generating(a) == asker[a] \in {"drafting", "storing"}

\* track: one strategy of the arc at a time, and whoever comes meanwhile joins it.
ArcRuns == \E a \in Askers : Generating(a) /\ draftOf[a].cause \in ArcCauses

\* prepare: the inputs as they are now.
Begins(a, cause, known) ==
    /\ begun < MaxVersions
    /\ begun' = begun + 1
    /\ asker' = [asker EXCEPT ![a] = "drafting"]
    /\ draftOf' = [draftOf EXCEPT ![a] = DraftFrom(known, cause, Newest, 0, draftOf[a].own)]
    /\ UNCHANGED <<versions, adopted, bets>>

\* currentOrGenerate: the arc shows the latest proposal, or the failure this context led to.
ViewGenerates(a) ==
    /\ ~ArcRuns /\ Proposals = {} /\ ~AlreadyTried
    /\ Begins(a, "view", inputs)
    /\ UNCHANGED inputs

\* A view that finds a proposal, the stored failure or a generation to join changes nothing.
ViewArc(a) == asker[a] = "idle" /\ ViewGenerates(a)

\* POST arc/strategy/retry: only the moment before adoption shows a strategy.
Retry(a) ==
    /\ asker[a] = "idle" /\ ~ArcRuns /\ adopted = 0
    /\ Begins(a, "retry", inputs)
    /\ UNCHANGED inputs

\* POST /strategy, GET /strategy/proposal while there is none, an impact that calls for a new one.
AskAgain(a) == asker[a] = "idle" /\ Begins(a, "asked", inputs) /\ UNCHANGED inputs

\* An outcome that calls for a new strategy: the reported results join the inputs.
ReportResult(a) ==
    /\ asker[a] = "idle" /\ adopted > 0
    /\ Begins(a, "result", inputs)
    /\ UNCHANGED inputs

\* Mutant: the words are recorded when the generation has been asked for.
RespondLate(a, cause) ==
    /\ asker[a] = "idle"
    /\ inputs < MaxInputs /\ inputs' = inputs + 1
    /\ Begins(a, cause, inputs)

\* recordFounderInput: the founder's words are held, then a proposal is generated from them.
Respond(a, cause) ==
    /\ asker[a] = "idle"
    /\ inputs < MaxInputs /\ inputs' = inputs + 1
    /\ Begins(a, cause, inputs + 1)

\* Recorded without a generation: a goal, an answer in a conversation, a new read.
StateMore ==
    /\ inputs < MaxInputs /\ inputs' = inputs + 1
    /\ UNCHANGED <<versions, adopted, asker, draftOf, begun, bets>>

\* nextVersion, after the models have answered.
TakeNumber(a) ==
    /\ asker[a] = "drafting"
    /\ asker' = [asker EXCEPT ![a] = "storing"]
    /\ LET d == draftOf[a] IN
       draftOf' = [draftOf EXCEPT ![a] = DraftFrom(d.inputs, d.cause, d.since, Newest + 1, d.own)]
    /\ UNCHANGED <<inputs, versions, adopted, begun, bets>>

\* The challenges that wait for what a generates: its own, and those that joined it.
Waiting(a) ==
    {b \in Askers : \/ b = a /\ draftOf[a].own > 0
                    \/ asker[b] = "joined" /\ draftOf[a].cause \in ArcCauses}

\* The requests that were waiting are answered; a challenge whose own version is stored asks for the view.
Released(a, stored) ==
    LET views == stored /\ draftOf[a].cause = "challenge"
        done == Waiting(a) \cup (IF views THEN {} ELSE {a})
    IN  /\ asker' = [b \in Askers |-> IF b \in done THEN "idle" ELSE IF b = a THEN "viewing" ELSE asker[b]]
        /\ draftOf' = [b \in Askers |-> IF b \in done THEN NoDraftYet
                                        ELSE IF b = a THEN DraftFrom(0, "view", 0, 0, Newest + 1)
                                        ELSE draftOf[b]]

\* Mutant: without the unique number a version replaces another.
StoreOver(a) ==
    /\ asker[a] = "storing"
    /\ \E s \in {"proposal", "insufficient"} :
          LET d == draftOf[a]
              row == [status |-> s, inputs |-> d.inputs, cause |-> d.cause, since |-> d.since]
          IN  versions' = IF d.number > Newest THEN Append(versions, row)
                                               ELSE [versions EXCEPT ![d.number] = row]
    /\ Released(a, TRUE)
    /\ UNCHANGED <<inputs, adopted, begun, bets>>

\* The insert; UNIQUE (business_id, version) refuses a number that is taken, and the request fails.
Store(a) ==
    /\ asker[a] = "storing"
    /\ LET d == draftOf[a] IN
       \/ /\ d.number > Newest
          /\ \E s \in {"proposal", "insufficient"} :
                /\ versions' = Append(versions,
                       [status |-> s, inputs |-> d.inputs, cause |-> d.cause, since |-> d.since])
                /\ bets' = IF s = "insufficient" THEN bets
                              ELSE bets \cup {[own |-> draftOf[b].own, shown |-> Newest + 1] : b \in Waiting(a)}
          /\ Released(a, TRUE)
       \/ /\ d.number <= Newest
          /\ Released(a, FALSE)
          /\ UNCHANGED <<versions, bets>>
    /\ UNCHANGED <<inputs, adopted, begun>>

\* The view after a challenge: the strategy of the arc that is being generated ...
JoinView(a) ==
    /\ asker[a] = "viewing" /\ adopted = 0 /\ ArcRuns
    /\ asker' = [asker EXCEPT ![a] = "joined"]
    /\ UNCHANGED <<inputs, versions, adopted, draftOf, begun, bets>>

\* ... or the latest proposal, whatever the challenge's own version is ...
ShowBet(a) ==
    /\ asker[a] = "viewing" /\ adopted = 0 /\ ~ArcRuns /\ Proposals # {}
    /\ bets' = bets \cup {[own |-> draftOf[a].own, shown |-> Max(Proposals)]}
    /\ asker' = [asker EXCEPT ![a] = "idle"]
    /\ draftOf' = [draftOf EXCEPT ![a] = NoDraftYet]
    /\ UNCHANGED <<inputs, versions, adopted, begun>>

\* ... or a new generation ...
ViewAnew(a) == asker[a] = "viewing" /\ ViewGenerates(a)

\* ... or no bet: the stored failure, or a moment after the adoption.
ShowNoBet(a) ==
    /\ asker[a] = "viewing"
    /\ adopted > 0 \/ (~ArcRuns /\ Proposals = {} /\ AlreadyTried)
    /\ asker' = [asker EXCEPT ![a] = "idle"]
    /\ draftOf' = [draftOf EXCEPT ![a] = NoDraftYet]
    /\ UNCHANGED <<inputs, versions, adopted, begun, bets>>

\* adopt: a proposal, the newest or not, becomes the current strategy.
AdoptStrategy(v) ==
    /\ v \in Proposals /\ adopted' = v
    /\ UNCHANGED <<inputs, versions, asker, draftOf, begun, bets>>

VersionsNext ==
    \/ \E a \in Askers : \/ ViewArc(a) \/ Retry(a) \/ AskAgain(a) \/ ReportResult(a)
                         \/ \E cause \in {"words", "challenge"} : Respond(a, cause)
                         \/ TakeNumber(a) \/ Store(a)
                         \/ JoinView(a) \/ ShowBet(a) \/ ViewAnew(a) \/ ShowNoBet(a)
    \/ StateMore
    \/ \E v \in 1..MaxVersions : AdoptStrategy(v)

VersionsSpec == VersionsInit /\ [][VersionsNext]_strategyVersionsVars

-----------------------------------------------------------------------------
\* The version in force is one that passed the gates, and no later step changes what it says.
AdoptedIsKept ==
    [][/\ \A i \in 1..Len(versions) : versions'[i] = versions[i]
       /\ \A v \in {adopted'} \cap (1..Len(versions)) : versions[v].status = "proposal"]_strategyVersionsVars

\* A version that knows less of what is recorded than an earlier one was already being generated
\* when that one was stored.
NewerKnowsMore ==
    \A j \in 1..Len(versions) : \A i \in 1..(j - 1) :
        versions[j].inputs < versions[i].inputs => versions[j].since < i

\* What the founder says in response to a strategy is in the version that recordFounderInput returns.
WordsAreAnswered ==
    \A j \in 1..Len(versions) :
        versions[j].cause \in {"words", "challenge"} =>
            \A i \in 1..versions[j].since : versions[i].inputs < versions[j].inputs

\* Looking at the arc makes a second result of the same context only when generations overlapped, or
\* when the newest result was of the same inputs, but of another entry point that passes other options.
SameInputsOneResult ==
    \A j \in 1..Len(versions) : \A i \in 1..(j - 1) :
        versions[j].cause = "view" /\ Context(versions[i]) = Context(versions[j]) =>
            \/ \E k \in 1..j : versions[k].since < k - 1
            \/ /\ versions[j - 1].inputs = versions[j].inputs
               /\ Context(versions[j - 1]) # Context(versions[j])

\* A challenge is answered with a bet that does not know it only when its own version is insufficient,
\* or when a generation that was under way before it was stored behind it.
UnmetIsExplained ==
    \A n \in bets : versions[n.shown].inputs < versions[n.own].inputs =>
        IF n.shown < n.own THEN versions[n.own].status = "insufficient"
                           ELSE versions[n.shown].since < n.own

\* What the versions say of the inputs they were generated from.
VersionsInv ==
    /\ VersionsTypeOK
    /\ NewerKnowsMore
    /\ WordsAreAnswered
    /\ SameInputsOneResult
    /\ UnmetIsExplained

-----------------------------------------------------------------------------
\* arc.routes.ts, of a challenge: the proposal is regenerated, "so the bet the founder sees next already
\* reflects it".
ChallengeIsReflected ==
    \A n \in bets : versions[n.shown].inputs >= versions[n.own].inputs
=============================================================================
