---------------------------- MODULE CarouselStudio ----------------------------
(***************************************************************************)
(* Carousels of one handoff: generated through drafts, a strip in code and *)
(* a constrained realization with repairs, each gated; then revised or     *)
(* made from another angle.  An order is one request; it writes at most    *)
(* one version, which bears its name.  A candidate is what its gates say:  *)
(* clean; only too generic; with clauses that can be located; or beyond    *)
(* local repair.                                                           *)
(***************************************************************************)
EXTENDS Naturals

CONSTANTS Orders, MAX_CAROUSEL_ATTEMPTS, MAX_STRIP_ROUNDS, MAX_CONSTRAINED_REPAIR_ROUNDS

ASSUME CarouselAssumption ==
    /\ MAX_CAROUSEL_ATTEMPTS \in Nat \ {0} /\ MAX_STRIP_ROUNDS \in Nat \ {0}
    /\ MAX_CONSTRAINED_REPAIR_ROUNDS \in Nat \ {0}
    /\ "first" \notin Orders /\ "none" \notin Orders

VARIABLES ordered,   \* what each order asks for
          orderAt,   \* where it is
          turns,     \* of the loop it is in
          candidate, \* what the gates say of the candidate in hand
          retained,  \* of the best draft so far
          madeBy,    \* how the candidate was made
          madeFrom,  \* the version a change was read from
          madeFor,   \* the asset it is a version of
          number,    \* version_number
          saved,     \* carousel_asset_version
          revised,   \* carousel_revision_event
          currentOf,     \* carousel_asset: current_version_id
          drawn,     \* carousel_render, by version
          reply,     \* what the route has answered
          broken     \* history: orders whose writes were cut short

carouselVars ==
    <<ordered, orderAt, turns, candidate, retained, madeBy, madeFrom, madeFor, number,
      saved, revised, currentOf, drawn, reply, broken>>

Assets == Orders \cup {"first"}
Flawed == {"template", "clauses", "beyond"}
Gates  == Flawed \cup {"clean"}
Writing == {"version", "asset", "pointer", "record", "render"}

CarouselTypeOK ==
    /\ ordered \in [Orders -> {"nothing", "generate", "revise", "angle"}]
    /\ orderAt \in [Orders -> {"new", "concept", "draft", "strip", "constrain", "repair", "gate",
                               "done"} \cup Writing]
    /\ turns \in [Orders -> Nat]
    /\ candidate \in [Orders -> Gates \cup {"none"}]
    /\ retained \in [Orders -> Flawed \cup {"none"}]
    /\ madeBy \in [Orders -> {"normal", "strip", "constrained"}]
    /\ madeFrom \in [Orders -> Assets \cup {"none"}]
    /\ madeFor \in [Orders -> Assets \cup {"none"}]
    /\ number \in [Assets -> Nat]
    /\ saved \subseteq Assets /\ drawn \subseteq Assets
    /\ revised \subseteq Orders /\ broken \subseteq Orders
    /\ currentOf \in [Assets -> Assets \cup {"none"}]
    /\ reply \in [Orders -> {"nothing", "existing", "ready", "insufficient", "rejected", "error", "lost"}]

\* The handoff has no carousel yet, or one that an earlier request made.
CarouselInit ==
    /\ saved \in {{}, {"first"}}
    /\ drawn = saved
    /\ currentOf = [a \in Assets |-> IF a \in saved THEN a ELSE "none"]
    /\ number = [a \in Assets |-> IF a \in saved THEN 1 ELSE 0]
    /\ ordered = [o \in Orders |-> "nothing"] /\ orderAt = [o \in Orders |-> "new"]
    /\ turns = [o \in Orders |-> 0]
    /\ candidate = [o \in Orders |-> "none"] /\ retained = [o \in Orders |-> "none"]
    /\ madeBy = [o \in Orders |-> "normal"]
    /\ madeFrom = [o \in Orders |-> "none"] /\ madeFor = [o \in Orders |-> "none"]
    /\ revised = {} /\ broken = {}
    /\ reply = [o \in Orders |-> "nothing"]

-----------------------------------------------------------------------------
StudioRows == <<saved, revised, currentOf, drawn>>
Request    == <<ordered, madeFrom, madeFor, number>>
Making     == <<candidate, retained, madeBy>>

\* Mutant: the turns of a loop are not counted.
ToUncounted(o, place) ==
    /\ orderAt' = [orderAt EXCEPT ![o] = place]
    /\ UNCHANGED <<turns, reply>>

\* A loop that comes round has made a turn.
To(o, place) ==
    /\ orderAt' = [orderAt EXCEPT ![o] = place]
    /\ turns' = [turns EXCEPT ![o] = IF place = orderAt[o] THEN @ + 1 ELSE 0]
    /\ UNCHANGED reply

Answer(o, a) ==
    /\ orderAt' = [orderAt EXCEPT ![o] = "done"]
    /\ turns' = [turns EXCEPT ![o] = 0]
    /\ reply' = [reply EXCEPT ![o] = a]

Holds(o, g, how) ==
    /\ candidate' = [candidate EXCEPT ![o] = g]
    /\ madeBy' = [madeBy EXCEPT ![o] = how]
    /\ retained' = [retained EXCEPT ![o] = "none"]

\* The candidate goes with the request.
Refuse(o, a) == Answer(o, a) /\ Holds(o, "none", "normal")

HasAsset == {a \in Assets : currentOf[a] # "none"}

\* The route looks for an asset of the handoff and answers with it; otherwise one is generated.
\* Orders that look before any of them has stored its asset all generate.
OrderGenerate(o) ==
    /\ orderAt[o] = "new"
    /\ ordered' = [ordered EXCEPT ![o] = "generate"]
    /\ IF HasAsset # {}
       THEN Answer(o, "existing") /\ UNCHANGED <<madeFor, number>>
       ELSE /\ To(o, "concept")
            /\ madeFor' = [madeFor EXCEPT ![o] = o] /\ number' = [number EXCEPT ![o] = 1]
    /\ UNCHANGED <<StudioRows, Making, madeFrom, broken>>

\* A revision or another angle is made from the current version, under the next number.
OrderChange(o, kind) ==
    /\ orderAt[o] = "new"
    /\ \E a \in HasAsset :
          /\ madeFor' = [madeFor EXCEPT ![o] = a]
          /\ madeFrom' = [madeFrom EXCEPT ![o] = currentOf[a]]
          /\ number' = [number EXCEPT ![o] = number[currentOf[a]] + 1]
    /\ ordered' = [ordered EXCEPT ![o] = kind]
    /\ To(o, IF kind = "angle" THEN "concept" ELSE "gate")
    /\ UNCHANGED <<StudioRows, Making, broken>>

\* The concept may be refused before a word is written: no licensable angle, no material, a call
\* to action nothing earns, or the same concept again.
Conceive(o) ==
    /\ orderAt[o] = "concept"
    /\ (To(o, "draft") /\ UNCHANGED Making) \/ Refuse(o, "insufficient")
    /\ UNCHANGED <<Request, StudioRows, broken>>

\* The draft with fewer findings is retained, the earlier of equals; one that is only too generic
\* has none.  Another angle retains no draft.
Retained(o, g) ==
    LET best == retained[o] IN
    CASE ordered[o] = "angle"                              -> {"none"}
      [] ordered[o] # "angle" /\ "template" \in {best, g} -> {"template"}
      [] OTHER                                             -> {best, g} \ {"none"}

\* Another draft; after the last, a generation with a retained draft is stripped of what its gates
\* found, one without is realized from the bound meaning, and another angle is given up.
DraftAgain(o, best) ==
    IF turns[o] + 1 < MAX_CAROUSEL_ATTEMPTS
    THEN To(o, "draft") /\ retained' = [retained EXCEPT ![o] = best] /\ UNCHANGED <<candidate, madeBy>>
    ELSE IF ordered[o] = "angle" THEN Refuse(o, "insufficient")
    ELSE To(o, IF best = "none" THEN "constrain" ELSE "strip") /\ Holds(o, best, "normal")

\* A draft is written and gated, or the model throws; a clean one is stored.
DraftCopy(o) ==
    /\ orderAt[o] = "draft"
    /\ \/ To(o, "version") /\ Holds(o, "clean", "normal")
       \/ \E g \in Flawed : \E best \in Retained(o, g) : DraftAgain(o, best)
       \/ DraftAgain(o, retained[o])
    /\ UNCHANGED <<Request, StudioRows, broken>>

\* The gate for what is generic locates no clause.
Strippable(g) == g # "template"

\* What was located is deleted in code and the rest gated again, unless nothing can be deleted or
\* too little would be left.
Strip(o) ==
    /\ orderAt[o] = "strip"
    /\ \/ To(o, "constrain") /\ Holds(o, "none", "normal")
       \/ /\ Strippable(candidate[o])
          /\ \/ To(o, "version") /\ Holds(o, "clean", "strip")
             \/ /\ turns[o] + 1 < MAX_STRIP_ROUNDS
                /\ To(o, "strip")
                /\ \E g \in Flawed : Holds(o, g, "strip")
    /\ UNCHANGED <<Request, StudioRows, broken>>

\* The bound meaning is realized faithfully and gated; what the gates find is repaired next.
RealizeConstrained(o) ==
    /\ orderAt[o] = "constrain"
    /\ \/ Refuse(o, "insufficient")
       \/ \E g \in Gates : /\ Holds(o, g, "constrained")
                          /\ To(o, IF g = "clean" THEN "version" ELSE "repair")
    /\ UNCHANGED <<Request, StudioRows, broken>>

\* A candidate that is only too generic may be classified as simple, and is then no defect.
AcceptSimple(o) ==
    /\ orderAt[o] = "repair" /\ candidate[o] = "template"
    /\ To(o, "version")
    /\ UNCHANGED <<Request, StudioRows, Making, broken>>

\* Every finding lies in a block that may be rewritten, or the block that makes it generic is known.
Repairable(g) == g \in {"template", "clauses"}

\* Mutant: the last round of repairs is stored as it is.
StoreUnrepaired(o) ==
    /\ orderAt[o] = "repair" /\ Repairable(candidate[o])
    /\ \/ To(o, "version") /\ \E g \in Gates : Holds(o, g, "constrained")
       \/ /\ turns[o] + 1 < MAX_CONSTRAINED_REPAIR_ROUNDS
          /\ To(o, "repair")
          /\ \E g \in Flawed : Holds(o, g, "constrained")
    /\ UNCHANGED <<Request, StudioRows, broken>>

\* The blocks in which the findings lie are rewritten and everything is gated again.
RepairTargets(o) ==
    /\ orderAt[o] = "repair" /\ Repairable(candidate[o])
    /\ \/ To(o, "version") /\ Holds(o, "clean", "constrained")
       \/ /\ turns[o] + 1 < MAX_CONSTRAINED_REPAIR_ROUNDS
          /\ To(o, "repair")
          /\ \E g \in Flawed : Holds(o, g, "constrained")
    /\ UNCHANGED <<Request, StudioRows, broken>>

\* A finding is not local, or in a locked block, or still there after the last round; or something
\* throws.
FailClosed(o) ==
    /\ orderAt[o] = "repair"
    /\ Refuse(o, "insufficient")
    /\ UNCHANGED <<Request, StudioRows, broken>>

\* A revision is gated once, by all but the gate for what is generic.
GateRevision(o) ==
    /\ orderAt[o] = "gate"
    /\ \/ To(o, "version") /\ \E g \in {"clean", "template"} : Holds(o, g, "normal")
       \/ Refuse(o, "rejected")
    /\ UNCHANGED <<Request, StudioRows, broken>>

-----------------------------------------------------------------------------
\* One insert or update after another, without a transaction.
StoreVersion(o) ==
    /\ orderAt[o] = "version"
    /\ saved' = saved \cup {o}
    /\ To(o, IF ordered[o] = "generate" THEN "asset" ELSE "pointer")
    /\ UNCHANGED <<revised, currentOf, drawn>>

StoreAsset(o) ==
    /\ orderAt[o] = "asset"
    /\ currentOf' = [currentOf EXCEPT ![o] = o]
    /\ To(o, "render")
    /\ UNCHANGED <<saved, revised, drawn>>

SetCurrentVersion(o) ==
    /\ orderAt[o] = "pointer"
    /\ currentOf' = [currentOf EXCEPT ![madeFor[o]] = o]
    /\ To(o, "record")
    /\ UNCHANGED <<saved, revised, drawn>>

RecordRevision(o) ==
    /\ orderAt[o] = "record"
    /\ revised' = revised \cup {o}
    /\ To(o, "render")
    /\ UNCHANGED <<saved, currentOf, drawn>>

PersistRender(o) ==
    /\ orderAt[o] = "render"
    /\ drawn' = drawn \cup {o}
    /\ Answer(o, "ready")
    /\ UNCHANGED <<saved, revised, currentOf>>

StoreStep(o) ==
    /\ StoreVersion(o) \/ StoreAsset(o) \/ SetCurrentVersion(o) \/ RecordRevision(o) \/ PersistRender(o)
    /\ UNCHANGED <<Request, Making, broken>>

\* A read, the renderer or a write throws: what is written stays.  The constrained fallback has a
\* catch of its own, around its writes too, and answers that the material is insufficient.
OrderThrows(o) ==
    /\ orderAt[o] \notin {"new", "constrain", "done"}
    /\ LET a == IF ordered[o] = "generate" /\ madeBy[o] = "constrained" THEN "insufficient" ELSE "error"
       IN IF o \in saved THEN Answer(o, a) /\ UNCHANGED Making ELSE Refuse(o, a)
    /\ broken' = IF orderAt[o] \in Writing THEN broken \cup {o} ELSE broken
    /\ UNCHANGED <<Request, StudioRows>>

\* The API process dies with every order in it.
StudioCrash ==
    LET dying == {o \in Orders : orderAt[o] \notin {"new", "done"}} IN
    /\ dying # {}
    /\ orderAt' = [o \in Orders |-> IF o \in dying THEN "done" ELSE orderAt[o]]
    /\ reply' = [o \in Orders |-> IF o \in dying THEN "lost" ELSE reply[o]]
    /\ broken' = broken \cup {o \in dying : orderAt[o] \in Writing}
    /\ turns' = [o \in Orders |-> 0]
    /\ candidate' = [o \in Orders |-> IF o \in saved THEN candidate[o] ELSE "none"]
    /\ madeBy' = [o \in Orders |-> IF o \in saved THEN madeBy[o] ELSE "normal"]
    /\ retained' = [o \in Orders |-> "none"]
    /\ UNCHANGED <<Request, StudioRows>>

OrderStep(o) ==
    \/ Conceive(o) \/ DraftCopy(o) \/ Strip(o) \/ RealizeConstrained(o)
    \/ AcceptSimple(o) \/ RepairTargets(o) \/ FailClosed(o) \/ GateRevision(o)
    \/ StoreStep(o) \/ OrderThrows(o)

CarouselNext ==
    \/ \E o \in Orders : OrderStep(o) \/ OrderGenerate(o)
    \/ \E o \in Orders, kind \in {"revise", "angle"} : OrderChange(o, kind)
    \/ StudioCrash

CarouselSpec == CarouselInit /\ [][CarouselNext]_carouselVars

-----------------------------------------------------------------------------
\* No carousel is stored with a finding of its gates, whichever of the four ways it was made; one
\* that is only too generic comes from the constrained realization or from the founder's own words.
CarouselIsGated ==
    \A o \in saved \ {"first"} :
       candidate[o] = "clean" \/ (candidate[o] = "template" /\ (ordered[o] = "revise" \/ madeBy[o] = "constrained"))

\* An order that is answered with "insufficient" or "rejected" leaves nothing behind, unless its
\* own writes were cut short.
RefusalLeavesNothing ==
    \A o \in Orders : reply[o] \in {"insufficient", "rejected"} /\ o \in saved => o \in broken

\* The current version exists, and has its render unless the order that made it is still writing
\* or was cut short.
CurrentIsRendered ==
    \A a \in HasAsset :
       /\ currentOf[a] \in saved
       /\ currentOf[a] \in drawn \cup broken \/ orderAt[currentOf[a]] \in {"record", "render"}

\* Two changes of an asset were made from one version of it: the requests raced.
Forked(a) ==
    \E x, y \in saved \ {"first"} :
       x # y /\ madeFor[x] = a /\ madeFor[y] = a /\ madeFrom[x] = madeFrom[y]

\* A change that is recorded is current, or another change was made from it, unless the asset is
\* forked.
ChangeIsKept ==
    \A o \in revised :
       \/ currentOf[madeFor[o]] = o
       \/ \E q \in saved \ {"first"} : madeFor[q] = madeFor[o] /\ madeFrom[q] = o
       \/ Forked(madeFor[o])

\* Versions of one asset have one number only if it is forked.
CarouselNumbers ==
    \A o, q \in saved \ {"first"} :
       o # q /\ madeFor[o] = madeFor[q] /\ number[o] = number[q] => Forked(madeFor[o])

\* The rows of carousels: what is stored, what is shown, what is answered.
CarouselInv ==
    /\ CarouselTypeOK
    /\ CarouselIsGated
    /\ RefusalLeavesNothing
    /\ CurrentIsRendered
    /\ ChangeIsKept
    /\ CarouselNumbers

\* Every order is answered, or dies with its process, through its attempts, rounds and repairs.
OrdersAreAnswered == \A o \in Orders : orderAt[o] # "new" ~> orderAt[o] = "done"
==============================================================================
