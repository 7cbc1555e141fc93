---------------------------- MODULE StudioProofs ----------------------------
(***************************************************************************)
(* The safety of the two studios that write, gate and store a document of  *)
(* a founder: the carousel and the landing page.                           *)
(***************************************************************************)
EXTENDS CarouselStudio, LandingDraft, FiniteSetTheorems, SequenceTheorems, TLAPS

(***************************************************************************)
(* For any number of orders and any bounds of the loops: no carousel with  *)
(* a finding is stored, a refusal leaves nothing behind unless its writes  *)
(* were cut short, and changes are lost, or share a number, only when two  *)
(* of them were made from one version.                                     *)
(***************************************************************************)

USE CarouselAssumption DEF CarouselAssumption

Changes  == {"revise", "angle"}
Composing == {"concept", "draft", "strip", "constrain", "repair", "gate"}
Storing  == {"asset", "pointer", "record", "render"}

GateOK(o) ==
    \/ candidate[o] = "clean"
    \/ candidate[o] = "template" /\ (ordered[o] = "revise" \/ madeBy[o] = "constrained")

\* Where an order is says what it is, what it has stored and what its candidate has passed.
Placed(o) ==
    /\ orderAt[o] = "new" <=> ordered[o] = "nothing"
    /\ orderAt[o] = "gate" => ordered[o] = "revise"
    /\ orderAt[o] = "repair" => madeBy[o] = "constrained"
    /\ orderAt[o] = "asset" => ordered[o] = "generate"
    /\ orderAt[o] \in {"pointer", "record"} => ordered[o] \in Changes
    /\ orderAt[o] \in Composing \cup {"new", "version"} => o \notin saved
    /\ orderAt[o] \in Storing => o \in saved
    /\ orderAt[o] # "done" => reply[o] = "nothing"
    /\ orderAt[o] \in Writing \/ o \in saved => GateOK(o)

\* A version is of an asset that there is, or is its first one; a change comes after the version it
\* was made from.
Linked(o) ==
    /\ ordered[o] = "generate" /\ (orderAt[o] # "done" \/ o \in saved) => madeFor[o] = o
    /\ ordered[o] \in Changes =>
          /\ madeFor[o] \in HasAsset /\ madeFrom[o] \in saved
          /\ number[o] = number[madeFrom[o]] + 1
    /\ o \in revised => ordered[o] \in Changes /\ o \in saved
    /\ currentOf[o] # "none" => ordered[o] = "generate" /\ orderAt[o] \in {"render", "done"}

Sibling(o) ==
    \E y \in saved \ {"first"} : y # o /\ madeFor[y] = madeFor[o] /\ madeFrom[y] = madeFrom[o]

\* The version a pending change was made from is still the current one, or another change was made
\* from it too.
UpToDate(o) ==
    ordered[o] \in Changes /\ orderAt[o] \in Composing \cup {"version", "pointer"} =>
        currentOf[madeFor[o]] = madeFrom[o] \/ Sibling(o) \/ Forked(madeFor[o])

\* A change that was made current is current, or another one was made from it.
KeptNow(o) ==
    o \in revised \/ orderAt[o] = "record" =>
        \/ currentOf[madeFor[o]] = o
        \/ \E q \in saved \ {"first"} : madeFor[q] = madeFor[o] /\ madeFrom[q] = o
        \/ Forked(madeFor[o])

\* The current version has the highest number but for the change that is about to replace it.
NumberedTo(a) ==
    a \in HasAsset /\ ~Forked(a) =>
        \A y \in saved \ {"first"} : madeFor[y] = a =>
            \/ number[y] <= number[currentOf[a]]
            \/ madeFrom[y] = currentOf[a] /\ number[y] = number[currentOf[a]] + 1

CarouselIInv ==
    /\ CarouselTypeOK
    /\ \A o \in Orders : Placed(o) /\ Linked(o) /\ UpToDate(o) /\ KeptNow(o)
    /\ \A a \in Assets : NumberedTo(a)
    /\ "first" \in saved => "first" \in drawn
    /\ RefusalLeavesNothing
    /\ CurrentIsRendered
    /\ CarouselNumbers

-----------------------------------------------------------------------------
LEMMA Names == /\ "first" \notin Orders /\ "none" \notin Assets
               /\ \A S \in SUBSET Assets : S \ {"first"} \subseteq Orders
BY DEF Assets

LEMMA CarouselInitOK == CarouselInit => CarouselIInv
<1> SUFFICES ASSUME CarouselInit PROVE CarouselIInv
  OBVIOUS
<1> USE Names DEF CarouselInit
<1>1. CarouselTypeOK
  BY DEF CarouselTypeOK, Assets, Writing, Gates, Flawed
<1>2. /\ saved \subseteq {"first"} /\ saved \subseteq Assets
      /\ \A o \in Orders : o \notin saved /\ currentOf[o] = "none"
  BY DEF Assets
<1>3. \A o \in Orders : Placed(o) /\ Linked(o) /\ UpToDate(o) /\ KeptNow(o)
  BY <1>2 DEF Placed, Linked, UpToDate, KeptNow, Composing, Storing, Writing, Changes
<1>4. \A a \in Assets : NumberedTo(a)
  BY <1>2 DEF NumberedTo
<1>5. RefusalLeavesNothing /\ CarouselNumbers /\ ("first" \in saved => "first" \in drawn)
  BY <1>2 DEF RefusalLeavesNothing, CarouselNumbers
<1>6. CurrentIsRendered
  BY <1>2 DEF CurrentIsRendered, HasAsset
<1> QED BY <1>1, <1>3, <1>4, <1>5, <1>6 DEF CarouselIInv

-----------------------------------------------------------------------------
\* A step that stores nothing: the order o composes, is answered or begins.
LEMMA QuietKeeps ==
    ASSUME CarouselIInv, NEW o \in Orders, CarouselTypeOK',
           UNCHANGED StudioRows, UNCHANGED broken,
           o \notin saved,
           \A q \in Orders \ {o} :
               /\ ordered'[q] = ordered[q] /\ orderAt'[q] = orderAt[q]
               /\ candidate'[q] = candidate[q] /\ madeBy'[q] = madeBy[q]
               /\ madeFrom'[q] = madeFrom[q] /\ madeFor'[q] = madeFor[q]
               /\ reply'[q] = reply[q],
           \A a \in Assets \ {o} : number'[a] = number[a],
           currentOf[o] = "none",
           Placed(o)', Linked(o)', UpToDate(o)', orderAt'[o] # "record"
    PROVE  CarouselIInv'
<1> USE Names DEF StudioRows
<1>1. /\ saved \subseteq Assets
      /\ \A y \in saved \ {"first"} : y \in Orders /\ y # o
      /\ \A a \in HasAsset : currentOf[a] \in saved
      /\ HasAsset' = HasAsset
  BY DEF CarouselIInv, CarouselTypeOK, CurrentIsRendered, HasAsset
<1>2. \A a : Forked(a) <=> Forked(a)'
  BY <1>1 DEF Forked
<1>3. \A q \in Orders \ {o} : Placed(q)'
  BY DEF CarouselIInv, Placed, GateOK
<1>4. \A q \in Orders \ {o} : Linked(q)'
  <2> TAKE q \in Orders \ {o}
  <2>1. Linked(q) /\ q \in Assets
    BY DEF CarouselIInv, Assets
  <2>2. ordered[q] \in Changes => madeFrom[q] \in Assets \ {o}
    BY <1>1, <2>1 DEF Linked
  <2> QED BY <1>1, <2>1, <2>2 DEF Linked
<1>5. \A q \in Orders \ {o} : Sibling(q) => Sibling(q)'
  BY <1>1 DEF Sibling
<1>6. \A q \in Orders \ {o} : UpToDate(q)'
  BY <1>2, <1>5 DEF CarouselIInv, UpToDate
<1>7. \A q \in Orders \ {o} : KeptNow(q)'
  BY <1>1, <1>2 DEF CarouselIInv, KeptNow
<1>8. KeptNow(o)'
  BY DEF CarouselIInv, KeptNow, Linked
<1>9. \A a \in Assets : NumberedTo(a)'
  <2> TAKE a \in Assets
  <2>1. NumberedTo(a)
    BY DEF CarouselIInv
  <2>2. a \in HasAsset => currentOf[a] \in Assets \ {o}
    BY <1>1
  <2>3. \A y \in saved \ {"first"} : y \in Assets \ {o} /\ y \in Orders \ {o}
    BY <1>1
  <2> QED BY <1>1, <1>2, <2>1, <2>2, <2>3 DEF NumberedTo
<1>10. RefusalLeavesNothing'
  BY DEF CarouselIInv, RefusalLeavesNothing
<1>11. CurrentIsRendered'
  <2> SUFFICES ASSUME NEW a \in HasAsset
               PROVE  currentOf[a] \in drawn \cup broken \/ orderAt'[currentOf[a]] \in {"record", "render"}
    BY <1>1 DEF CurrentIsRendered
  <2>1. currentOf[a] \in drawn \cup broken \/ orderAt[currentOf[a]] \in {"record", "render"}
    BY DEF CarouselIInv, CurrentIsRendered
  <2>2. CASE currentOf[a] \in Orders
    BY <1>1, <2>1, <2>2
  <2>3. CASE currentOf[a] = "first"
    BY <1>1, <2>3 DEF CarouselIInv
  <2> QED BY <1>1, <2>2, <2>3 DEF Assets
<1>12. CarouselNumbers'
  <2>1. \A y \in saved \ {"first"} : y \in Assets \ {o} /\ y \in Orders \ {o}
    BY <1>1
  <2> QED BY <1>2, <2>1 DEF CarouselIInv, CarouselNumbers
<1>13. ("first" \in saved => "first" \in drawn)'
  BY DEF CarouselIInv
<1> QED BY <1>3, <1>4, <1>6, <1>7, <1>8, <1>9, <1>10, <1>11, <1>12, <1>13 DEF CarouselIInv

-----------------------------------------------------------------------------
\* What a step that stores nothing may do to one order: nothing, the next stage of its candidate,
\* or the end.
Moved(q) ==
    \/ /\ orderAt'[q] = orderAt[q] /\ reply'[q] = reply[q]
       /\ \/ candidate'[q] = candidate[q] /\ madeBy'[q] = madeBy[q]
          \/ orderAt[q] \in {"new", "done"} /\ q \notin saved
    \/ /\ orderAt[q] \in Composing /\ orderAt'[q] \in (Composing \ {"gate"}) \cup {"version"}
       /\ reply'[q] = reply[q]
       /\ orderAt'[q] = "repair" => madeBy'[q] = "constrained"
       /\ orderAt'[q] = "version" => GateOK(q)'
    \/ /\ orderAt[q] \notin {"new", "done"} /\ orderAt'[q] = "done"
       /\ q \in saved => candidate'[q] = candidate[q] /\ madeBy'[q] = madeBy[q]
       /\ orderAt[q] \in Writing => q \in broken'

\* Requests and rows as they were: what is left to show is about the orders alone.
LEMMA MovesKeep ==
    ASSUME CarouselIInv, CarouselTypeOK', UNCHANGED Request, UNCHANGED StudioRows,
           broken \subseteq broken', \A q \in Orders : Moved(q)
    PROVE  CarouselIInv'
<1> USE Names DEF Request, StudioRows
<1>1. HasAsset' = HasAsset /\ \A a : Forked(a) <=> Forked(a)'
  BY DEF HasAsset, Forked
<1>2. \A q : Sibling(q) <=> Sibling(q)'
  BY DEF Sibling
<1>3. ASSUME NEW q \in Orders
      PROVE  Placed(q)' /\ Linked(q)' /\ UpToDate(q)' /\ KeptNow(q)'
  <2>1. Placed(q) /\ Linked(q) /\ UpToDate(q) /\ KeptNow(q) /\ Moved(q)
    BY DEF CarouselIInv
  <2>2. Placed(q)'
    BY <2>1 DEF Placed, Moved, GateOK, Composing, Storing, Writing, Changes
  <2>3. Linked(q)'
    BY <1>1, <2>1 DEF Linked, Moved, Composing
  <2>4. UpToDate(q)'
    BY <1>1, <1>2, <2>1 DEF UpToDate, Moved, Composing
  <2>5. KeptNow(q)'
    BY <1>1, <2>1 DEF KeptNow, Moved, Composing
  <2> QED BY <2>2, <2>3, <2>4, <2>5
<1>4. ASSUME NEW a \in Assets PROVE NumberedTo(a)'
  BY <1>1 DEF CarouselIInv, NumberedTo
<1>5. RefusalLeavesNothing'
  <2> SUFFICES ASSUME NEW q \in Orders, reply'[q] \in {"insufficient", "rejected"}, q \in saved
               PROVE  q \in broken'
    BY DEF RefusalLeavesNothing
  <2>1. Placed(q) /\ Moved(q) /\ orderAt[q] \notin Composing
    BY DEF CarouselIInv, Placed
  <2>2. orderAt[q] \in Storing \cup {"done"}
    BY <2>1 DEF CarouselIInv, CarouselTypeOK, Placed, Composing, Storing, Writing
  <2>3. orderAt[q] \in Storing => reply[q] = "nothing"
    BY <2>1 DEF Placed, Storing
  <2>4. reply'[q] = reply[q] => q \in broken
    BY DEF CarouselIInv, RefusalLeavesNothing
  <2> QED BY <2>1, <2>2, <2>3, <2>4 DEF Moved, Storing, Writing
<1>6. CurrentIsRendered'
  <2> SUFFICES ASSUME NEW a \in HasAsset
               PROVE  /\ currentOf[a] \in saved
                      /\ currentOf[a] \in drawn \cup broken' \/ orderAt'[currentOf[a]] \in {"record", "render"}
    BY <1>1 DEF CurrentIsRendered
  <2>1. /\ currentOf[a] \in saved /\ currentOf[a] \in Assets
        /\ currentOf[a] \in drawn \cup broken \/ orderAt[currentOf[a]] \in {"record", "render"}
    BY DEF CarouselIInv, CurrentIsRendered, CarouselTypeOK
  <2>2. CASE currentOf[a] = "first"
    BY <2>1, <2>2 DEF CarouselIInv
  <2>3. CASE currentOf[a] \in Orders
    BY <2>1, <2>3 DEF Moved, Composing, Writing
  <2> QED BY <2>1, <2>2, <2>3 DEF Assets
<1>7. CarouselNumbers'
  BY <1>1 DEF CarouselIInv, CarouselNumbers
<1>8. ("first" \in saved => "first" \in drawn)'
  BY DEF CarouselIInv
<1> QED BY <1>3, <1>4, <1>5, <1>6, <1>7, <1>8 DEF CarouselIInv

-----------------------------------------------------------------------------
Stages == {"new", "concept", "draft", "strip", "constrain", "repair", "gate", "done"} \cup Writing
Replies == {"nothing", "existing", "ready", "insufficient", "rejected", "error", "lost"}

\* The three ways a step of an order ends, and what each leaves alone.
LEMMA Ways ==
    ASSUME CarouselTypeOK, NEW o \in Orders
    PROVE  /\ \A place \in Stages : To(o, place) =>
                 /\ orderAt' \in [Orders -> Stages] /\ turns' \in [Orders -> Nat]
                 /\ reply' = reply /\ orderAt'[o] = place
                 /\ \A q \in Orders \ {o} : orderAt'[q] = orderAt[q]
           /\ \A a \in Replies : Answer(o, a) =>
                 /\ orderAt' \in [Orders -> Stages] /\ turns' \in [Orders -> Nat]
                 /\ reply' \in [Orders -> Replies] /\ orderAt'[o] = "done" /\ reply'[o] = a
                 /\ \A q \in Orders \ {o} : orderAt'[q] = orderAt[q] /\ reply'[q] = reply[q]
           /\ \A g \in Gates \cup {"none"}, how \in {"normal", "strip", "constrained"} :
                 Holds(o, g, how) =>
                 /\ candidate' \in [Orders -> Gates \cup {"none"}]
                 /\ retained' \in [Orders -> Flawed \cup {"none"}]
                 /\ madeBy' \in [Orders -> {"normal", "strip", "constrained"}]
                 /\ candidate'[o] = g /\ madeBy'[o] = how
                 /\ \A q \in Orders \ {o} : candidate'[q] = candidate[q] /\ madeBy'[q] = madeBy[q]
<1> USE DEF CarouselTypeOK, Stages, Replies
<1>1. ASSUME NEW place \in Stages, To(o, place)
      PROVE  /\ orderAt' \in [Orders -> Stages] /\ turns' \in [Orders -> Nat]
             /\ reply' = reply /\ orderAt'[o] = place
             /\ \A q \in Orders \ {o} : orderAt'[q] = orderAt[q]
  BY <1>1 DEF To
<1>2. ASSUME NEW a \in Replies, Answer(o, a)
      PROVE  /\ orderAt' \in [Orders -> Stages] /\ turns' \in [Orders -> Nat]
             /\ reply' \in [Orders -> Replies] /\ orderAt'[o] = "done" /\ reply'[o] = a
             /\ \A q \in Orders \ {o} : orderAt'[q] = orderAt[q] /\ reply'[q] = reply[q]
  BY <1>2 DEF Answer
<1>3. ASSUME NEW g \in Gates \cup {"none"}, NEW how \in {"normal", "strip", "constrained"},
             Holds(o, g, how)
      PROVE  /\ candidate' \in [Orders -> Gates \cup {"none"}]
             /\ retained' \in [Orders -> Flawed \cup {"none"}]
             /\ madeBy' \in [Orders -> {"normal", "strip", "constrained"}]
             /\ candidate'[o] = g /\ madeBy'[o] = how
             /\ \A q \in Orders \ {o} : candidate'[q] = candidate[q] /\ madeBy'[q] = madeBy[q]
  BY <1>3 DEF Holds
<1> HIDE DEF CarouselTypeOK, Stages, Replies
<1> QED BY <1>1, <1>2, <1>3

\* The next stage of an order that composes.
LEMMA NextStage ==
    ASSUME CarouselIInv, NEW o \in Orders, orderAt[o] \in Composing,
           UNCHANGED Request, UNCHANGED StudioRows, UNCHANGED broken,
           NEW place \in (Composing \ {"gate"}) \cup {"version"}, To(o, place),
           candidate' \in [Orders -> Gates \cup {"none"}],
           retained' \in [Orders -> Flawed \cup {"none"}],
           madeBy' \in [Orders -> {"normal", "strip", "constrained"}],
           \A q \in Orders \ {o} : candidate'[q] = candidate[q] /\ madeBy'[q] = madeBy[q],
           place = "repair" => madeBy'[o] = "constrained",
           place = "version" => GateOK(o)'
    PROVE  CarouselIInv'
<1>1. CarouselTypeOK /\ place \in Stages
  BY DEF CarouselIInv, Stages, Composing, Writing
<1>2. /\ orderAt' \in [Orders -> Stages] /\ turns' \in [Orders -> Nat]
      /\ reply' = reply /\ orderAt'[o] = place
      /\ \A q \in Orders \ {o} : orderAt'[q] = orderAt[q]
  BY <1>1, Ways
<1>3. CarouselTypeOK'
  BY <1>1, <1>2 DEF CarouselTypeOK, Stages, Request, StudioRows
<1>4. \A q \in Orders : Moved(q)
  BY <1>2 DEF Moved
<1> QED BY <1>3, <1>4, MovesKeep

\* A request that is refused takes its candidate with it.
LEMMA Refused ==
    ASSUME CarouselIInv, NEW o \in Orders, orderAt[o] \in Composing \cup {"version"},
           UNCHANGED Request, UNCHANGED StudioRows,
           broken \subseteq broken', broken' \subseteq Orders,
           orderAt[o] = "version" => o \in broken',
           NEW a \in Replies, Refuse(o, a)
    PROVE  CarouselIInv'
<1>1. CarouselTypeOK /\ o \notin saved
  BY DEF CarouselIInv, Placed
<1>2. /\ orderAt' \in [Orders -> Stages] /\ turns' \in [Orders -> Nat]
      /\ reply' \in [Orders -> Replies] /\ orderAt'[o] = "done"
      /\ \A q \in Orders \ {o} : orderAt'[q] = orderAt[q] /\ reply'[q] = reply[q]
  BY <1>1, Ways DEF Refuse
<1>3. /\ candidate' \in [Orders -> Gates \cup {"none"}]
      /\ retained' \in [Orders -> Flawed \cup {"none"}]
      /\ madeBy' \in [Orders -> {"normal", "strip", "constrained"}]
      /\ \A q \in Orders \ {o} : candidate'[q] = candidate[q] /\ madeBy'[q] = madeBy[q]
  BY <1>1, Ways DEF Refuse
<1>4. CarouselTypeOK'
  BY <1>1, <1>2, <1>3 DEF CarouselTypeOK, Stages, Replies, Request, StudioRows
<1>5. \A q \in Orders : Moved(q)
  BY <1>1, <1>2, <1>3 DEF Moved, Composing, Writing
<1> QED BY <1>4, <1>5, MovesKeep

LEMMA ConceiveKeeps == ASSUME CarouselIInv, NEW o \in Orders, Conceive(o) PROVE CarouselIInv'
<1>1. CASE To(o, "draft") /\ UNCHANGED Making
  <2>1. CarouselTypeOK
    BY DEF CarouselIInv
  <2>2. "draft" \in (Composing \ {"gate"}) \cup {"version"} /\ orderAt[o] \in Composing
    BY DEF Conceive, Composing
  <2> QED BY <1>1, <2>1, <2>2, NextStage DEF Conceive, Making, CarouselTypeOK
<1>2. CASE Refuse(o, "insufficient")
  <2>1. /\ orderAt[o] \in Composing \cup {"version"} /\ orderAt[o] # "version"
        /\ "insufficient" \in Replies /\ broken \subseteq broken' /\ broken' \subseteq Orders
    BY DEF Conceive, Composing, Replies, CarouselIInv, CarouselTypeOK
  <2> QED BY <1>2, <2>1, Refused DEF Conceive
<1> QED BY <1>1, <1>2 DEF Conceive

\* Whatever is retained, another draft or what comes after the last.
LEMMA DraftAgainKeeps ==
    ASSUME CarouselIInv, NEW o \in Orders, NEW best \in Flawed \cup {"none"}, DraftAgain(o, best),
           orderAt[o] = "draft", UNCHANGED Request, UNCHANGED StudioRows, UNCHANGED broken
    PROVE  CarouselIInv'
<1>1. CarouselTypeOK /\ orderAt[o] \in Composing
  BY DEF CarouselIInv, Composing
<1>2. CASE To(o, "draft") /\ retained' = [retained EXCEPT ![o] = best] /\ UNCHANGED <<candidate, madeBy>>
  <2>1. "draft" \in (Composing \ {"gate"}) \cup {"version"}
    BY DEF Composing
  <2>2. retained' \in [Orders -> Flawed \cup {"none"}]
    BY <1>1, <1>2 DEF CarouselTypeOK
  <2> QED BY <1>1, <1>2, <2>1, <2>2, NextStage DEF CarouselTypeOK
<1>3. CASE Refuse(o, "insufficient")
  <2>1. /\ orderAt[o] # "version" /\ "insufficient" \in Replies
        /\ broken \subseteq broken' /\ broken' \subseteq Orders
    BY <1>1 DEF Replies, CarouselTypeOK
  <2> QED BY <1>1, <1>3, <2>1, Refused
<1>4. ASSUME NEW place \in {"constrain", "strip"}, To(o, place), Holds(o, best, "normal")
      PROVE  CarouselIInv'
  <2>1. place \in (Composing \ {"gate"}) \cup {"version"} /\ place # "repair" /\ place # "version"
    BY DEF Composing
  <2>2. best \in Gates \cup {"none"}
    BY DEF Gates
  <2>3. /\ candidate' \in [Orders -> Gates \cup {"none"}]
        /\ retained' \in [Orders -> Flawed \cup {"none"}]
        /\ madeBy' \in [Orders -> {"normal", "strip", "constrained"}]
        /\ \A q \in Orders \ {o} : candidate'[q] = candidate[q] /\ madeBy'[q] = madeBy[q]
    BY <1>1, <1>4, <2>2, Ways
  <2> QED BY <1>1, <1>4, <2>1, <2>3, NextStage
<1> QED BY <1>2, <1>3, <1>4 DEF DraftAgain

\* A candidate in hand, and where it goes.
LEMMA HeldStage ==
    ASSUME CarouselIInv, NEW o \in Orders, orderAt[o] \in Composing,
           UNCHANGED Request, UNCHANGED StudioRows, UNCHANGED broken,
           NEW place \in (Composing \ {"gate"}) \cup {"version"}, To(o, place),
           NEW g \in Gates \cup {"none"}, NEW how \in {"normal", "strip", "constrained"},
           Holds(o, g, how),
           place = "repair" => how = "constrained",
           place = "version" =>
              g = "clean" \/ (g = "template" /\ (ordered[o] = "revise" \/ how = "constrained"))
    PROVE  CarouselIInv'
<1>1. CarouselTypeOK
  BY DEF CarouselIInv
<1>2. /\ candidate' \in [Orders -> Gates \cup {"none"}]
      /\ retained' \in [Orders -> Flawed \cup {"none"}]
      /\ madeBy' \in [Orders -> {"normal", "strip", "constrained"}]
      /\ candidate'[o] = g /\ madeBy'[o] = how
      /\ \A q \in Orders \ {o} : candidate'[q] = candidate[q] /\ madeBy'[q] = madeBy[q]
  BY <1>1, Ways
<1>3. place = "version" => GateOK(o)'
  BY <1>2 DEF GateOK, Request
<1> QED BY <1>2, <1>3, NextStage

LEMMA DraftCopyKeeps == ASSUME CarouselIInv, NEW o \in Orders, DraftCopy(o) PROVE CarouselIInv'
<1> USE DEF DraftCopy
<1>1. CASE To(o, "version") /\ Holds(o, "clean", "normal")
  <2>1. /\ "version" \in (Composing \ {"gate"}) \cup {"version"} /\ orderAt[o] \in Composing
        /\ "clean" \in Gates \cup {"none"}
    BY DEF Composing, Gates
  <2> QED BY <1>1, <2>1, HeldStage
<1>2. ASSUME NEW g \in Flawed, NEW best \in Retained(o, g), DraftAgain(o, best)
      PROVE  CarouselIInv'
  <2>1. retained[o] \in Flawed \cup {"none"}
    BY DEF CarouselIInv, CarouselTypeOK
  <2>2. best \in Flawed \cup {"none"}
    BY <1>2, <2>1 DEF Retained, Flawed
  <2> QED BY <1>2, <2>2, DraftAgainKeeps
<1>3. CASE DraftAgain(o, retained[o])
  <2>1. retained[o] \in Flawed \cup {"none"}
    BY DEF CarouselIInv, CarouselTypeOK
  <2> QED BY <1>3, <2>1, DraftAgainKeeps
<1> QED BY <1>1, <1>2, <1>3

LEMMA StripKeeps == ASSUME CarouselIInv, NEW o \in Orders, Strip(o) PROVE CarouselIInv'
<1> USE DEF Strip
<1>1. /\ orderAt[o] \in Composing
      /\ {"constrain", "version", "strip"} \subseteq (Composing \ {"gate"}) \cup {"version"}
      /\ Flawed \cup {"clean", "none"} \subseteq Gates \cup {"none"}
  BY DEF Composing, Gates
<1>2. CASE To(o, "constrain") /\ Holds(o, "none", "normal")
  BY <1>1, <1>2, HeldStage
<1>3. CASE To(o, "version") /\ Holds(o, "clean", "strip")
  BY <1>1, <1>3, HeldStage
<1>4. ASSUME NEW g \in Flawed, To(o, "strip"), Holds(o, g, "strip")
      PROVE  CarouselIInv'
  BY <1>1, <1>4, HeldStage
<1> QED BY <1>2, <1>3, <1>4

LEMMA RealizeKeeps == ASSUME CarouselIInv, NEW o \in Orders, RealizeConstrained(o) PROVE CarouselIInv'
<1> USE DEF RealizeConstrained
<1>1. orderAt[o] \in Composing /\ {"version", "repair"} \subseteq (Composing \ {"gate"}) \cup {"version"}
  BY DEF Composing
<1>2. CASE Refuse(o, "insufficient")
  <2>1. /\ orderAt[o] # "version" /\ "insufficient" \in Replies
        /\ broken \subseteq broken' /\ broken' \subseteq Orders
    BY DEF Replies, CarouselIInv, CarouselTypeOK
  <2> QED BY <1>1, <1>2, <2>1, Refused
<1>3. ASSUME NEW g \in Gates, Holds(o, g, "constrained"), To(o, IF g = "clean" THEN "version" ELSE "repair")
      PROVE  CarouselIInv'
  <2>1. CASE g = "clean"
    BY <1>1, <1>3, <2>1, HeldStage
  <2>2. CASE g # "clean"
    BY <1>1, <1>3, <2>2, HeldStage
  <2> QED BY <2>1, <2>2
<1> QED BY <1>2, <1>3

LEMMA RepairKeeps ==
    ASSUME CarouselIInv, NEW o \in Orders, AcceptSimple(o) \/ RepairTargets(o) \/ FailClosed(o)
    PROVE  CarouselIInv'
<1>1. /\ orderAt[o] = "repair" /\ orderAt[o] \in Composing
      /\ {"version", "repair"} \subseteq (Composing \ {"gate"}) \cup {"version"}
      /\ Flawed \cup {"clean"} \subseteq Gates \cup {"none"}
  BY DEF Composing, Gates, AcceptSimple, RepairTargets, FailClosed
<1>2. CASE AcceptSimple(o)
  <2>1. CarouselTypeOK /\ madeBy[o] = "constrained"
    BY <1>1 DEF CarouselIInv, Placed
  <2>2. UNCHANGED <<candidate, retained, madeBy, ordered>> /\ candidate[o] = "template"
    BY <1>2 DEF AcceptSimple, Making, Request
  <2>3. GateOK(o)'
    BY <2>1, <2>2 DEF GateOK
  <2>4. UNCHANGED Request /\ UNCHANGED StudioRows /\ UNCHANGED broken /\ To(o, "version")
    BY <1>2 DEF AcceptSimple
  <2> QED BY <1>1, <2>1, <2>2, <2>3, <2>4, NextStage DEF CarouselTypeOK
<1>3. CASE RepairTargets(o)
  <2>1. UNCHANGED Request /\ UNCHANGED StudioRows /\ UNCHANGED broken
    BY <1>3 DEF RepairTargets
  <2>2. CASE To(o, "version") /\ Holds(o, "clean", "constrained")
    BY <1>1, <2>1, <2>2, HeldStage
  <2>3. ASSUME NEW g \in Flawed, To(o, "repair"), Holds(o, g, "constrained")
        PROVE  CarouselIInv'
    BY <1>1, <2>1, <2>3, HeldStage
  <2> QED BY <1>3, <2>2, <2>3 DEF RepairTargets
<1>4. CASE FailClosed(o)
  <2>1. /\ orderAt[o] # "version" /\ "insufficient" \in Replies
        /\ broken \subseteq broken' /\ broken' \subseteq Orders
    BY <1>1, <1>4 DEF FailClosed, Replies, CarouselIInv, CarouselTypeOK
  <2> QED BY <1>1, <1>4, <2>1, Refused DEF FailClosed
<1> QED BY <1>2, <1>3, <1>4

LEMMA GateRevisionKeeps == ASSUME CarouselIInv, NEW o \in Orders, GateRevision(o) PROVE CarouselIInv'
<1> USE DEF GateRevision
<1>1. /\ orderAt[o] \in Composing /\ orderAt[o] # "version"
      /\ "version" \in (Composing \ {"gate"}) \cup {"version"}
      /\ ordered[o] = "revise"
  BY DEF Composing, CarouselIInv, Placed
<1>2. CASE Refuse(o, "rejected")
  <2>1. "rejected" \in Replies /\ broken \subseteq broken' /\ broken' \subseteq Orders
    BY DEF Replies, CarouselIInv, CarouselTypeOK
  <2> QED BY <1>1, <1>2, <2>1, Refused
<1>3. ASSUME NEW g \in {"clean", "template"}, To(o, "version"), Holds(o, g, "normal")
      PROVE  CarouselIInv'
  <2>1. g \in Gates \cup {"none"}
    BY DEF Gates, Flawed
  <2> QED BY <1>1, <1>3, <2>1, HeldStage
<1> QED BY <1>2, <1>3

LEMMA ThrowsKeeps == ASSUME CarouselIInv, NEW o \in Orders, OrderThrows(o) PROVE CarouselIInv'
<1> USE DEF OrderThrows
<1>1. CarouselTypeOK /\ Placed(o)
  BY DEF CarouselIInv
<1>2. /\ broken \subseteq broken' /\ broken' \subseteq Orders
      /\ orderAt[o] \in Writing => o \in broken'
  BY <1>1 DEF CarouselTypeOK
<1>3. ASSUME NEW a \in {"insufficient", "error"},
             IF o \in saved THEN Answer(o, a) /\ UNCHANGED Making ELSE Refuse(o, a)
      PROVE  CarouselIInv'
  <2>1. a \in Replies
    BY DEF Replies
  <2>2. CASE o \in saved
    <3>1. /\ orderAt' \in [Orders -> Stages] /\ turns' \in [Orders -> Nat]
          /\ reply' \in [Orders -> Replies] /\ orderAt'[o] = "done"
          /\ \A q \in Orders \ {o} : orderAt'[q] = orderAt[q] /\ reply'[q] = reply[q]
      BY <1>1, <1>3, <2>1, <2>2, Ways
    <3>2. UNCHANGED <<candidate, retained, madeBy>>
      BY <1>3, <2>2 DEF Making
    <3>3. CarouselTypeOK'
      BY <1>1, <1>2, <3>1, <3>2 DEF CarouselTypeOK, Stages, Replies, Request, StudioRows
    <3>4. \A q \in Orders : Moved(q)
      BY <1>2, <3>1, <3>2 DEF Moved
    <3> QED BY <1>2, <3>3, <3>4, MovesKeep
  <2>3. CASE o \notin saved
    <3>1. orderAt[o] \in Composing \cup {"version"}
      BY <1>1, <2>3 DEF CarouselTypeOK, Placed, Composing, Storing, Writing
    <3>2. orderAt[o] = "version" => o \in broken'
      BY <1>2 DEF Writing
    <3> QED BY <1>2, <1>3, <2>1, <2>3, <3>1, <3>2, Refused
  <2> QED BY <2>2, <2>3
<1> QED BY <1>3

LEMMA CrashKeeps == ASSUME CarouselIInv, StudioCrash PROVE CarouselIInv'
<1> USE DEF StudioCrash
<1>1. CarouselTypeOK
  BY DEF CarouselIInv
<1>2. CarouselTypeOK'
  BY <1>1 DEF CarouselTypeOK, Request, StudioRows
<1>3. ASSUME NEW q \in Orders PROVE Moved(q)
  <2>1. /\ candidate'[q] = IF q \in saved THEN candidate[q] ELSE "none"
        /\ madeBy'[q] = IF q \in saved THEN madeBy[q] ELSE "normal"
    OBVIOUS
  <2>2. CASE orderAt[q] \in {"new", "done"}
    BY <2>1, <2>2 DEF Moved
  <2>3. CASE orderAt[q] \notin {"new", "done"}
    BY <2>1, <2>3 DEF Moved
  <2> QED BY <2>2, <2>3
<1> QED BY <1>1, <1>2, <1>3, MovesKeep DEF CarouselTypeOK

-----------------------------------------------------------------------------
LEMMA GenerateKeeps == ASSUME CarouselIInv, NEW o \in Orders, OrderGenerate(o) PROVE CarouselIInv'
<1> USE Names DEF OrderGenerate
<1>1. /\ CarouselTypeOK /\ Placed(o) /\ Linked(o) /\ o \notin saved /\ currentOf[o] = "none"
      /\ o \in Assets
  BY DEF CarouselIInv, Placed, Linked, Assets
<1>2. /\ ordered' \in [Orders -> {"nothing", "generate", "revise", "angle"}]
      /\ ordered'[o] = "generate" /\ \A q \in Orders \ {o} : ordered'[q] = ordered[q]
  BY <1>1 DEF CarouselTypeOK
<1>3. UNCHANGED <<StudioRows, candidate, retained, madeBy, madeFrom, broken>>
  BY DEF Making
<1>4. CASE HasAsset # {}
  <2>1. /\ orderAt' \in [Orders -> Stages] /\ turns' \in [Orders -> Nat]
        /\ reply' \in [Orders -> Replies] /\ orderAt'[o] = "done" /\ reply'[o] = "existing"
        /\ \A q \in Orders \ {o} : orderAt'[q] = orderAt[q] /\ reply'[q] = reply[q]
    BY <1>1, <1>4, Ways DEF Replies
  <2>2. UNCHANGED <<madeFor, number>>
    BY <1>4
  <2>3. CarouselTypeOK'
    BY <1>1, <1>2, <1>3, <2>1, <2>2 DEF CarouselTypeOK, Stages, Replies, StudioRows
  <2>4. Placed(o)' /\ Linked(o)' /\ UpToDate(o)' /\ orderAt'[o] # "record"
    BY <1>1, <1>2, <1>3, <2>1, <2>2 DEF Placed, Linked, UpToDate, Composing, Storing, Writing, Changes, StudioRows
  <2> QED BY <1>1, <1>2, <1>3, <2>1, <2>2, <2>3, <2>4, QuietKeeps
<1>5. CASE HasAsset = {}
  <2>1. /\ orderAt' \in [Orders -> Stages] /\ turns' \in [Orders -> Nat]
        /\ reply' = reply /\ orderAt'[o] = "concept"
        /\ \A q \in Orders \ {o} : orderAt'[q] = orderAt[q]
    BY <1>1, <1>5, Ways DEF Stages
  <2>2. /\ madeFor' \in [Orders -> Assets \cup {"none"}] /\ madeFor'[o] = o
        /\ \A q \in Orders \ {o} : madeFor'[q] = madeFor[q]
        /\ number' \in [Assets -> Nat] /\ \A a \in Assets \ {o} : number'[a] = number[a]
    BY <1>1, <1>5 DEF CarouselTypeOK
  <2>3. CarouselTypeOK'
    BY <1>1, <1>2, <1>3, <2>1, <2>2 DEF CarouselTypeOK, Stages, StudioRows
  <2>4. Placed(o)' /\ Linked(o)' /\ UpToDate(o)' /\ orderAt'[o] # "record"
    BY <1>1, <1>2, <1>3, <2>1, <2>2 DEF Placed, Linked, UpToDate, Composing, Storing, Writing, Changes, StudioRows
  <2> QED BY <1>1, <1>2, <1>3, <2>1, <2>2, <2>3, <2>4, QuietKeeps
<1> QED BY <1>4, <1>5

LEMMA ChangeKeeps ==
    ASSUME CarouselIInv, NEW o \in Orders, NEW kind \in Changes, OrderChange(o, kind)
    PROVE  CarouselIInv'
<1> USE Names DEF OrderChange
<1>1. /\ CarouselTypeOK /\ Placed(o) /\ Linked(o) /\ o \notin saved /\ currentOf[o] = "none"
      /\ o \in Assets
  BY DEF CarouselIInv, Placed, Linked, Assets
<1>2. PICK a \in HasAsset :
        /\ madeFor' = [madeFor EXCEPT ![o] = a]
        /\ madeFrom' = [madeFrom EXCEPT ![o] = currentOf[a]]
        /\ number' = [number EXCEPT ![o] = number[currentOf[a]] + 1]
  OBVIOUS
<1>3. /\ a \in Assets /\ currentOf[a] \in Assets /\ currentOf[a] \in saved /\ currentOf[a] # o
      /\ number[currentOf[a]] \in Nat
  BY <1>1 DEF HasAsset, CarouselIInv, CarouselTypeOK, CurrentIsRendered
<1>4. /\ ordered' \in [Orders -> {"nothing", "generate", "revise", "angle"}]
      /\ ordered'[o] = kind /\ \A q \in Orders \ {o} : ordered'[q] = ordered[q]
  BY <1>1 DEF CarouselTypeOK, Changes
<1>5. UNCHANGED <<StudioRows, candidate, retained, madeBy, broken>>
  BY DEF Making
<1>6. /\ orderAt' \in [Orders -> Stages] /\ turns' \in [Orders -> Nat]
      /\ reply' = reply /\ orderAt'[o] = IF kind = "angle" THEN "concept" ELSE "gate"
      /\ \A q \in Orders \ {o} : orderAt'[q] = orderAt[q]
  BY <1>1, Ways DEF Stages
<1>7. /\ madeFor' \in [Orders -> Assets \cup {"none"}] /\ madeFor'[o] = a
      /\ madeFrom' \in [Orders -> Assets \cup {"none"}] /\ madeFrom'[o] = currentOf[a]
      /\ \A q \in Orders \ {o} : madeFor'[q] = madeFor[q] /\ madeFrom'[q] = madeFrom[q]
      /\ number' \in [Assets -> Nat] /\ number'[o] = number'[currentOf[a]] + 1
      /\ \A b \in Assets \ {o} : number'[b] = number[b]
  BY <1>1, <1>2, <1>3 DEF CarouselTypeOK
<1>8. CarouselTypeOK'
  BY <1>1, <1>4, <1>5, <1>6, <1>7 DEF CarouselTypeOK, Stages, StudioRows
<1>9. Placed(o)' /\ orderAt'[o] # "record"
  BY <1>1, <1>4, <1>5, <1>6 DEF Placed, Composing, Storing, Writing, Changes, StudioRows
<1>10. HasAsset' = HasAsset
  BY <1>5 DEF HasAsset, StudioRows
<1>11. Linked(o)'
  BY <1>1, <1>3, <1>4, <1>5, <1>6, <1>7, <1>10 DEF Linked, Changes, StudioRows
<1>12. UpToDate(o)'
  BY <1>5, <1>7 DEF UpToDate, StudioRows
<1> QED BY <1>1, <1>4, <1>5, <1>6, <1>7, <1>8, <1>9, <1>11, <1>12, QuietKeeps

-----------------------------------------------------------------------------
\* What every write leaves as it was.
LEMMA WriteFrame ==
    ASSUME CarouselIInv, NEW o \in Orders, orderAt[o] \in Writing,
           UNCHANGED Request, UNCHANGED Making, UNCHANGED broken,
           NEW place \in Writing, To(o, place),
           saved' \subseteq Assets, drawn' \subseteq Assets, revised' \subseteq Orders,
           currentOf' \in [Assets -> Assets \cup {"none"}]
    PROVE  /\ CarouselTypeOK /\ CarouselTypeOK'
           /\ Placed(o) /\ Linked(o) /\ UpToDate(o) /\ KeptNow(o) /\ GateOK(o)
           /\ GateOK(o)' /\ reply[o] = "nothing" /\ reply' = reply
           /\ orderAt'[o] = place /\ \A q \in Orders \ {o} : orderAt'[q] = orderAt[q]
           /\ o \in Assets /\ o # "first" /\ number[o] \in Nat
<1> USE Names
<1>1. CarouselTypeOK /\ Placed(o) /\ Linked(o) /\ UpToDate(o) /\ KeptNow(o) /\ o \in Assets /\ o # "first"
  BY DEF CarouselIInv, Assets
<1>2. place \in Stages
  BY DEF Stages
<1>3. /\ orderAt' \in [Orders -> Stages] /\ turns' \in [Orders -> Nat]
      /\ reply' = reply /\ orderAt'[o] = place
      /\ \A q \in Orders \ {o} : orderAt'[q] = orderAt[q]
  BY <1>1, <1>2, Ways
<1>4. CarouselTypeOK'
  BY <1>1, <1>3 DEF CarouselTypeOK, Stages, Request, Making
<1>5. GateOK(o) /\ reply[o] = "nothing"
  BY <1>1 DEF Placed, Writing
<1>6. GateOK(o)'
  BY <1>5 DEF GateOK, Request, Making
<1>7. number[o] \in Nat
  BY <1>1 DEF CarouselTypeOK
<1> QED BY <1>1, <1>3, <1>4, <1>5, <1>6, <1>7

\* The version is a row of its own: nothing points to it yet.
LEMMA StoreVersionKeeps ==
    ASSUME CarouselIInv, NEW o \in Orders, StoreVersion(o),
           UNCHANGED Request, UNCHANGED Making, UNCHANGED broken
    PROVE  CarouselIInv'
<1> USE Names DEF StoreVersion
<1> DEFINE place == IF ordered[o] = "generate" THEN "asset" ELSE "pointer"
<1>1. /\ CarouselTypeOK /\ CarouselTypeOK'
      /\ Placed(o) /\ Linked(o) /\ UpToDate(o) /\ GateOK(o)'
      /\ reply[o] = "nothing" /\ reply' = reply
      /\ orderAt'[o] = place /\ \A q \in Orders \ {o} : orderAt'[q] = orderAt[q]
      /\ o \in Assets /\ o # "first" /\ number[o] \in Nat
  <2>1. CarouselTypeOK /\ orderAt[o] \in Writing /\ place \in Writing /\ To(o, place) /\ o \in Assets
    BY DEF CarouselIInv, Writing, Assets
  <2>2. /\ saved' \subseteq Assets /\ drawn' \subseteq Assets /\ revised' \subseteq Orders
        /\ currentOf' \in [Assets -> Assets \cup {"none"}]
    BY <2>1 DEF CarouselTypeOK
  <2> HIDE DEF place, StoreVersion
  <2> QED BY <2>1, <2>2, WriteFrame
<1>2. /\ o \notin saved /\ o \notin revised /\ saved' = saved \cup {o}
      /\ ordered[o] \in {"generate"} \cup Changes
  BY <1>1 DEF Placed, Linked, Composing, CarouselTypeOK, Changes
<1>3. /\ UNCHANGED <<ordered, madeFrom, madeFor, number, revised, currentOf, drawn, broken>>
      /\ HasAsset' = HasAsset
  BY DEF Request, HasAsset
<1> DEFINE ForkedThen(a) ==
             \E x, y \in saved' \ {"first"} :
                x # y /\ madeFor[x] = a /\ madeFor[y] = a /\ madeFrom[x] = madeFrom[y]
<1>4. \A a : (Forked(a) => Forked(a)') /\ (Forked(a)' <=> ForkedThen(a))
  BY <1>2, <1>3 DEF Forked
<1>5. \A q : Sibling(q) => Sibling(q)'
  BY <1>2, <1>3 DEF Sibling
<1>6. ASSUME NEW q \in Orders \ {o}
      PROVE  Placed(q)' /\ Linked(q)' /\ UpToDate(q)' /\ KeptNow(q)'
  <2>1. Placed(q) /\ Linked(q) /\ UpToDate(q) /\ KeptNow(q)
    BY DEF CarouselIInv
  <2>2. Placed(q)'
    BY <1>1, <1>2, <1>3, <2>1 DEF Placed, GateOK, Making
  <2>3. Linked(q)'
    BY <1>1, <1>2, <1>3, <2>1 DEF Linked
  <2>4. UpToDate(q)'
    BY <1>1, <1>3, <1>4, <1>5, <2>1 DEF UpToDate
  <2>5. KeptNow(q)'
    BY <1>1, <1>2, <1>3, <1>4, <2>1 DEF KeptNow
  <2> QED BY <2>2, <2>3, <2>4, <2>5
<1>7. Placed(o)'
  BY <1>1, <1>2, <1>3 DEF Placed, Composing, Storing, Writing, Changes
<1>8. Linked(o)'
  BY <1>1, <1>2, <1>3 DEF Linked, Changes
<1>9. UpToDate(o)'
  BY <1>1, <1>3, <1>4, <1>5 DEF UpToDate
<1>10. KeptNow(o)'
  BY <1>1, <1>2, <1>3 DEF KeptNow
<1>11. \* The asset of a first version has no other version.
       ordered[o] = "generate" =>
          /\ madeFor[o] = o /\ o \notin HasAsset
          /\ \A q \in saved \ {"first"} : madeFor[q] # o
  <2> SUFFICES ASSUME ordered[o] = "generate"
               PROVE  /\ madeFor[o] = o /\ o \notin HasAsset
                      /\ \A q \in saved \ {"first"} : madeFor[q] # o
    OBVIOUS
  <2>1. madeFor[o] = o /\ o \notin HasAsset
    BY <1>1 DEF Linked, HasAsset
  <2>2. ASSUME NEW q \in saved \ {"first"} PROVE madeFor[q] # o
    <3>1. q \in Orders /\ q # o
      BY <1>1, <1>2 DEF CarouselTypeOK
    <3>2. Linked(q) /\ Placed(q) /\ ordered[q] \in {"nothing", "generate"} \cup Changes
      BY <3>1, <1>1 DEF CarouselIInv, CarouselTypeOK, Changes
    <3>3. orderAt[q] # "new"
      BY <3>2 DEF Placed
    <3> QED BY <2>1, <3>1, <3>2, <3>3 DEF Linked, Placed
  <2> QED BY <2>1, <2>2
<1>12. \* A change of an asset that is not forked is made from its current version.
       ordered[o] \in Changes =>
          \/ ForkedThen(madeFor[o])
          \/ /\ madeFor[o] \in HasAsset /\ madeFrom[o] = currentOf[madeFor[o]]
             /\ number[o] = number[currentOf[madeFor[o]]] + 1
  BY <1>1, <1>2, <1>3, <1>4 DEF UpToDate, Linked, Sibling, Forked
<1>13. ASSUME NEW a \in Assets PROVE NumberedTo(a)'
  <2> SUFFICES ASSUME a \in HasAsset, ~ForkedThen(a), NEW y \in saved' \ {"first"}, madeFor[y] = a
               PROVE  \/ number[y] <= number[currentOf[a]]
                      \/ madeFrom[y] = currentOf[a] /\ number[y] = number[currentOf[a]] + 1
    BY <1>3, <1>4 DEF NumberedTo
  <2> HIDE DEF ForkedThen
  <2>1. CASE y = o
    BY <2>1, <1>2, <1>11, <1>12
  <2>2. CASE y # o
    <3>1. y \in saved \ {"first"} /\ ~Forked(a) /\ NumberedTo(a)
      BY <1>2, <1>4, <2>2 DEF CarouselIInv
    <3> QED BY <3>1 DEF NumberedTo
  <2> QED BY <2>1, <2>2
<1>14. CarouselNumbers'
  <2>1. \* The new version has a number of its own.
        ASSUME NEW q \in saved \ {"first"}, madeFor[q] = madeFor[o], number[q] = number[o]
        PROVE  ForkedThen(madeFor[o])
    <3>1. q \in Orders /\ q # o /\ q \in Assets
      BY <1>1, <1>2 DEF CarouselTypeOK, Assets
    <3>2. CASE ordered[o] = "generate"
      BY <2>1, <3>2, <1>11
    <3>3. CASE ordered[o] \in Changes /\ ~ForkedThen(madeFor[o])
      <4>1. /\ madeFor[o] \in HasAsset /\ madeFrom[o] = currentOf[madeFor[o]]
            /\ number[o] = number[currentOf[madeFor[o]]] + 1
        BY <1>12, <3>3
      <4>2. NumberedTo(madeFor[o]) /\ madeFor[o] \in Assets
        BY <4>1 DEF CarouselIInv, HasAsset
      <4>3. ~Forked(madeFor[o])
        BY <1>2, <3>3 DEF Forked
      <4>4. currentOf[madeFor[o]] \in Assets /\ number[currentOf[madeFor[o]]] \in Nat
        BY <1>1, <4>1, <4>2 DEF CarouselTypeOK, HasAsset
      <4>5. \/ number[q] <= number[currentOf[madeFor[o]]]
            \/ madeFrom[q] = currentOf[madeFor[o]]
        BY <2>1, <4>1, <4>2, <4>3 DEF NumberedTo
      <4>6. madeFrom[q] = madeFrom[o]
        BY <2>1, <4>1, <4>4, <4>5
      <4> QED BY <1>1, <1>2, <2>1, <3>1, <4>6
    <3> QED BY <1>2, <3>2, <3>3
  <2> SUFFICES ASSUME NEW x \in saved' \ {"first"}, NEW y \in saved' \ {"first"},
                      x # y, madeFor[x] = madeFor[y], number[x] = number[y]
               PROVE  ForkedThen(madeFor[x])
    BY <1>3 DEF CarouselNumbers, Forked
  <2> HIDE DEF ForkedThen
  <2>2. CASE x = o
    BY <1>2, <2>1, <2>2
  <2>3. CASE y = o
    BY <1>2, <2>1, <2>3
  <2>4. CASE x # o /\ y # o
    <3>1. Forked(madeFor[x])
      BY <1>2, <2>4 DEF CarouselIInv, CarouselNumbers
    <3> QED BY <1>2, <3>1 DEF Forked, ForkedThen
  <2> QED BY <2>2, <2>3, <2>4
<1>15. RefusalLeavesNothing'
  BY <1>1, <1>2, <1>3 DEF CarouselIInv, RefusalLeavesNothing
<1>16. CurrentIsRendered'
  <2> SUFFICES ASSUME NEW a \in HasAsset
               PROVE  /\ currentOf[a] \in saved'
                      /\ currentOf[a] \in drawn \cup broken \/ orderAt'[currentOf[a]] \in {"record", "render"}
    BY <1>3 DEF CurrentIsRendered
  <2>1. /\ currentOf[a] \in saved /\ currentOf[a] \in Assets
        /\ currentOf[a] \in drawn \cup broken \/ orderAt[currentOf[a]] \in {"record", "render"}
    BY <1>1 DEF CarouselIInv, CurrentIsRendered, CarouselTypeOK
  <2>2. CASE currentOf[a] = "first"
    BY <1>2, <2>1, <2>2 DEF CarouselIInv
  <2> QED BY <1>1, <1>2, <2>1, <2>2 DEF Assets
<1>17. ("first" \in saved => "first" \in drawn)'
  BY <1>1, <1>2, <1>3 DEF CarouselIInv
<1> QED BY <1>1, <1>6, <1>7, <1>8, <1>9, <1>10, <1>13, <1>14, <1>15, <1>16, <1>17 DEF CarouselIInv

\* A first version and its asset.
LEMMA StoreAssetKeeps ==
    ASSUME CarouselIInv, NEW o \in Orders, StoreAsset(o),
           UNCHANGED Request, UNCHANGED Making, UNCHANGED broken
    PROVE  CarouselIInv'
<1> USE Names DEF StoreAsset
<1>1. /\ CarouselTypeOK /\ CarouselTypeOK'
      /\ Placed(o) /\ Linked(o) /\ GateOK(o)' /\ reply[o] = "nothing" /\ reply' = reply
      /\ orderAt'[o] = "render" /\ \A q \in Orders \ {o} : orderAt'[q] = orderAt[q]
      /\ o \in Assets /\ o # "first" /\ number[o] \in Nat
  <2>1. CarouselTypeOK /\ orderAt[o] \in Writing /\ "render" \in Writing /\ To(o, "render") /\ o \in Assets
    BY DEF CarouselIInv, Writing, Assets
  <2>2. /\ saved' \subseteq Assets /\ drawn' \subseteq Assets /\ revised' \subseteq Orders
        /\ currentOf' \in [Assets -> Assets \cup {"none"}]
    BY <2>1 DEF CarouselTypeOK
  <2> HIDE DEF StoreAsset
  <2> QED BY <2>1, <2>2, WriteFrame
<1>2. o \in saved /\ ordered[o] = "generate" /\ madeFor[o] = o /\ currentOf[o] = "none"
  BY <1>1 DEF Placed, Linked, Storing
<1>3. /\ UNCHANGED <<ordered, madeFrom, madeFor, number, saved, revised, drawn, broken>>
      /\ currentOf'[o] = o /\ \A a \in Assets \ {o} : currentOf'[a] = currentOf[a]
  BY <1>1 DEF Request, CarouselTypeOK
<1>4. HasAsset' = HasAsset \cup {o} /\ o \notin HasAsset
  BY <1>1, <1>2, <1>3 DEF HasAsset
<1>5. (\A a : Forked(a) <=> Forked(a)') /\ (\A q : Sibling(q) <=> Sibling(q)')
  BY <1>3 DEF Forked, Sibling
<1>6. ASSUME NEW q \in Orders \ {o}
      PROVE  Placed(q)' /\ Linked(q)' /\ UpToDate(q)' /\ KeptNow(q)'
  <2>1. Placed(q) /\ Linked(q) /\ UpToDate(q) /\ KeptNow(q) /\ q \in Assets
    BY DEF CarouselIInv, Assets
  <2>2. Placed(q)'
    BY <1>1, <1>3, <2>1 DEF Placed, GateOK, Making
  <2>3. Linked(q)'
    BY <1>1, <1>3, <1>4, <2>1 DEF Linked
  <2>4. ordered[q] \in Changes => madeFor[q] \in Assets \ {o}
    BY <1>4, <2>1 DEF Linked, HasAsset
  <2>5. UpToDate(q)'
    BY <1>1, <1>3, <1>5, <2>1, <2>4 DEF UpToDate
  <2>6. q \in revised \/ orderAt[q] = "record" => ordered[q] \in Changes
    BY <2>1 DEF Linked, Placed
  <2>7. KeptNow(q)'
    BY <1>1, <1>3, <1>5, <2>1, <2>4, <2>6 DEF KeptNow
  <2> QED BY <2>2, <2>3, <2>5, <2>7
<1>7. Placed(o)'
  BY <1>1, <1>2, <1>3 DEF Placed, Composing, Storing, Writing, Changes
<1>8. Linked(o)'
  BY <1>1, <1>2, <1>3 DEF Linked, Changes
<1>9. UpToDate(o)' /\ KeptNow(o)'
  BY <1>1, <1>2, <1>3 DEF UpToDate, KeptNow, Changes, Linked
<1>10. ASSUME NEW a \in Assets PROVE NumberedTo(a)'
  <2>1. CASE a # o
    BY <1>3, <1>4, <1>5, <2>1 DEF CarouselIInv, NumberedTo
  <2>2. CASE a = o
    <3>1. ASSUME NEW y \in saved \ {"first"}, madeFor[y] = o PROVE y = o
      <4>1. y \in Orders
        BY <1>1 DEF CarouselTypeOK
      <4>2. Linked(y) /\ Placed(y) /\ ordered[y] \in {"nothing", "generate"} \cup Changes
        BY <4>1, <1>1 DEF CarouselIInv, CarouselTypeOK, Changes
      <4>3. orderAt[y] # "new"
        BY <4>2 DEF Placed
      <4> QED BY <1>4, <3>1, <4>2, <4>3 DEF Linked, Placed
    <3> QED BY <1>1, <1>3, <2>2, <3>1 DEF NumberedTo
  <2> QED BY <2>1, <2>2
<1>11. CarouselNumbers'
  BY <1>3, <1>5 DEF CarouselIInv, CarouselNumbers
<1>12. RefusalLeavesNothing'
  BY <1>1, <1>3 DEF CarouselIInv, RefusalLeavesNothing
<1>13. CurrentIsRendered'
  <2> SUFFICES ASSUME NEW a \in HasAsset \cup {o}
               PROVE  /\ currentOf'[a] \in saved
                      /\ currentOf'[a] \in drawn \cup broken \/ orderAt'[currentOf'[a]] \in {"record", "render"}
    BY <1>3, <1>4 DEF CurrentIsRendered
  <2>1. CASE a = o
    BY <1>1, <1>2, <1>3, <2>1
  <2>2. CASE a # o
    <3>1. /\ currentOf[a] \in saved /\ currentOf[a] \in Assets /\ currentOf'[a] = currentOf[a]
          /\ currentOf[a] \in drawn \cup broken \/ orderAt[currentOf[a]] \in {"record", "render"}
      BY <1>1, <1>3, <2>2 DEF CarouselIInv, CurrentIsRendered, CarouselTypeOK, HasAsset
    <3>2. CASE currentOf[a] = "first"
      BY <3>1, <3>2 DEF CarouselIInv
    <3> QED BY <1>1, <3>1, <3>2 DEF Assets
  <2> QED BY <2>1, <2>2
<1>14. ("first" \in saved => "first" \in drawn)'
  BY <1>3 DEF CarouselIInv
<1> QED BY <1>1, <1>6, <1>7, <1>8, <1>9, <1>10, <1>11, <1>12, <1>13, <1>14 DEF CarouselIInv

\* A change becomes current: what it replaces is the version it was made from, or the asset is forked.
LEMMA PointerKeeps ==
    ASSUME CarouselIInv, NEW o \in Orders, SetCurrentVersion(o),
           UNCHANGED Request, UNCHANGED Making, UNCHANGED broken
    PROVE  CarouselIInv'
<1> USE Names DEF SetCurrentVersion
<1>1. /\ CarouselTypeOK /\ CarouselTypeOK'
      /\ Placed(o) /\ Linked(o) /\ UpToDate(o) /\ GateOK(o)' /\ reply[o] = "nothing" /\ reply' = reply
      /\ orderAt'[o] = "record" /\ \A q \in Orders \ {o} : orderAt'[q] = orderAt[q]
      /\ o \in Assets /\ o # "first" /\ number[o] \in Nat
  <2>1. CarouselTypeOK /\ orderAt[o] \in Writing /\ "record" \in Writing /\ To(o, "record") /\ o \in Assets
    BY DEF CarouselIInv, Writing, Assets
  <2>2. /\ saved' \subseteq Assets /\ drawn' \subseteq Assets /\ revised' \subseteq Orders
        /\ currentOf' \in [Assets -> Assets \cup {"none"}]
    BY <2>1 DEF CarouselTypeOK
  <2> HIDE DEF SetCurrentVersion
  <2> QED BY <2>1, <2>2, WriteFrame
<1> DEFINE a == madeFor[o]
<1>2. /\ o \in saved /\ ordered[o] \in Changes /\ a \in HasAsset /\ a \in Assets
      /\ number[o] = number[madeFrom[o]] + 1 /\ madeFrom[o] \in Assets /\ number[madeFrom[o]] \in Nat
      /\ currentOf[o] = "none"
  BY <1>1 DEF Placed, Linked, Storing, Changes, HasAsset, CarouselTypeOK
<1>3. /\ UNCHANGED <<ordered, madeFrom, madeFor, number, saved, revised, drawn, broken>>
      /\ currentOf'[a] = o /\ \A b \in Assets \ {a} : currentOf'[b] = currentOf[b]
      /\ HasAsset' = HasAsset
  <2>1. /\ UNCHANGED <<ordered, madeFrom, madeFor, number, saved, revised, drawn, broken>>
        /\ currentOf'[a] = o /\ \A b \in Assets \ {a} : currentOf'[b] = currentOf[b]
    BY <1>1, <1>2 DEF Request, CarouselTypeOK
  <2> QED BY <1>1, <1>2, <2>1 DEF HasAsset
<1>4. (\A b : Forked(b) <=> Forked(b)') /\ (\A q : Sibling(q) <=> Sibling(q)')
  BY <1>3 DEF Forked, Sibling
<1>5. currentOf[a] = madeFrom[o] \/ Forked(a)
  <2>1. currentOf[a] = madeFrom[o] \/ Sibling(o) \/ Forked(a)
    BY <1>1, <1>2 DEF UpToDate
  <2>2. Sibling(o) => Forked(a)
    BY <1>1, <1>2 DEF Sibling, Forked
  <2> QED BY <2>1, <2>2
<1> HIDE DEF a
<1>6. a = madeFor[o]
  BY DEF a
<1>7. ASSUME NEW q \in Orders \ {o}
      PROVE  Placed(q)' /\ Linked(q)' /\ UpToDate(q)' /\ KeptNow(q)'
  <2>1. Placed(q) /\ Linked(q) /\ UpToDate(q) /\ KeptNow(q) /\ q \in Assets
    BY DEF CarouselIInv, Assets
  <2>2. Placed(q)'
    BY <1>1, <1>3, <2>1 DEF Placed, GateOK, Making
  <2>3. currentOf'[q] # "none" => currentOf[q] # "none"
    BY <1>3, <1>2, <2>1 DEF HasAsset
  <2>4. Linked(q)'
    BY <1>1, <1>3, <2>1, <2>3 DEF Linked
  <2>5. ordered[q] \in Changes => madeFor[q] \in Assets
    BY <2>1 DEF Linked, HasAsset
  <2>6. UpToDate(q)'
    <3> SUFFICES ASSUME ordered[q] \in Changes, orderAt[q] \in Composing \cup {"version", "pointer"}
                 PROVE  currentOf'[madeFor[q]] = madeFrom[q] \/ Sibling(q)' \/ Forked(madeFor[q])
      BY <1>1, <1>3, <1>4 DEF UpToDate
    <3>1. currentOf[madeFor[q]] = madeFrom[q] \/ Sibling(q) \/ Forked(madeFor[q])
      BY <2>1 DEF UpToDate
    <3>2. CASE madeFor[q] = a /\ currentOf[madeFor[q]] = madeFrom[q]
      <4>1. madeFrom[q] = madeFrom[o] => Sibling(q)
        BY <1>1, <1>2, <1>6, <3>2 DEF Sibling
      <4> QED BY <1>4, <1>5, <3>2, <4>1
    <3> QED BY <1>3, <1>4, <2>5, <3>1, <3>2
  <2>7. KeptNow(q)'
    <3> SUFFICES ASSUME q \in revised \/ orderAt[q] = "record"
                 PROVE  \/ currentOf'[madeFor[q]] = q
                        \/ \E x \in saved \ {"first"} : madeFor[x] = madeFor[q] /\ madeFrom[x] = q
                        \/ Forked(madeFor[q])
      BY <1>1, <1>3, <1>4 DEF KeptNow, Forked
    <3>1. ordered[q] \in Changes
      BY <2>1 DEF Linked, Placed
    <3>2. \/ currentOf[madeFor[q]] = q
          \/ \E x \in saved \ {"first"} : madeFor[x] = madeFor[q] /\ madeFrom[x] = q
          \/ Forked(madeFor[q])
      BY <2>1 DEF KeptNow
    <3>3. CASE madeFor[q] = a /\ currentOf[madeFor[q]] = q
      BY <1>1, <1>2, <1>5, <1>6, <3>3
    <3> QED BY <1>3, <2>5, <3>1, <3>2, <3>3
  <2> QED BY <2>2, <2>4, <2>6, <2>7
<1>8. Placed(o)'
  BY <1>1, <1>2, <1>3 DEF Placed, Composing, Storing, Writing, Changes
<1>9. Linked(o)'
  <2>1. currentOf'[o] = "none"
    <3>1. o # a
      BY <1>1, <1>2 DEF HasAsset
    <3> QED BY <1>1, <1>2, <1>3, <3>1
  <2> QED BY <1>1, <1>2, <1>3, <2>1 DEF Linked, Changes
<1>10. UpToDate(o)' /\ KeptNow(o)'
  BY <1>1, <1>3, <1>6 DEF UpToDate, KeptNow, Composing
<1>11. ASSUME NEW b \in Assets PROVE NumberedTo(b)'
  <2>1. NumberedTo(b)
    BY DEF CarouselIInv
  <2>2. CASE b # a
    BY <1>3, <1>4, <2>1, <2>2 DEF NumberedTo
  <2>3. CASE b = a
    <3> SUFFICES ASSUME ~Forked(a), NEW y \in saved \ {"first"}, madeFor[y] = a
                 PROVE  number[y] <= number[o]
      BY <1>3, <1>4, <2>3 DEF NumberedTo
    <3>1. currentOf[a] = madeFrom[o] /\ number[y] \in Nat
      BY <1>1, <1>5 DEF CarouselTypeOK
    <3>2. number[y] <= number[madeFrom[o]] \/ number[y] = number[madeFrom[o]] + 1
      BY <1>2, <2>1, <2>3, <3>1 DEF NumberedTo
    <3> QED BY <1>1, <1>2, <3>1, <3>2
  <2> QED BY <2>2, <2>3
<1>12. CarouselNumbers'
  BY <1>3, <1>4 DEF CarouselIInv, CarouselNumbers
<1>13. RefusalLeavesNothing'
  BY <1>1, <1>3 DEF CarouselIInv, RefusalLeavesNothing
<1>14. CurrentIsRendered'
  <2> SUFFICES ASSUME NEW b \in HasAsset
               PROVE  /\ currentOf'[b] \in saved
                      /\ currentOf'[b] \in drawn \cup broken \/ orderAt'[currentOf'[b]] \in {"record", "render"}
    BY <1>3 DEF CurrentIsRendered
  <2>1. CASE b = a
    BY <1>1, <1>2, <1>3, <2>1
  <2>2. CASE b # a
    <3>1. /\ currentOf[b] \in saved /\ currentOf[b] \in Assets /\ currentOf'[b] = currentOf[b]
          /\ currentOf[b] \in drawn \cup broken \/ orderAt[currentOf[b]] \in {"record", "render"}
      BY <1>1, <1>3, <2>2 DEF CarouselIInv, CurrentIsRendered, CarouselTypeOK, HasAsset
    <3>2. CASE currentOf[b] = "first"
      BY <3>1, <3>2 DEF CarouselIInv
    <3> QED BY <1>1, <3>1, <3>2 DEF Assets
  <2> QED BY <2>1, <2>2
<1>15. ("first" \in saved => "first" \in drawn)'
  BY <1>3 DEF CarouselIInv
<1> QED BY <1>1, <1>7, <1>8, <1>9, <1>10, <1>11, <1>12, <1>13, <1>14, <1>15 DEF CarouselIInv

\* The record of a change, and the render of any version: nothing points elsewhere.
LEMMA RecordKeeps ==
    ASSUME CarouselIInv, NEW o \in Orders, RecordRevision(o),
           UNCHANGED Request, UNCHANGED Making, UNCHANGED broken
    PROVE  CarouselIInv'
<1> USE Names DEF RecordRevision
<1>1. /\ CarouselTypeOK /\ CarouselTypeOK'
      /\ Placed(o) /\ Linked(o) /\ KeptNow(o) /\ GateOK(o)' /\ reply[o] = "nothing" /\ reply' = reply
      /\ orderAt'[o] = "render" /\ \A q \in Orders \ {o} : orderAt'[q] = orderAt[q]
      /\ o \in Assets /\ o # "first"
  <2>1. CarouselTypeOK /\ orderAt[o] \in Writing /\ "render" \in Writing /\ To(o, "render")
    BY DEF CarouselIInv, Writing
  <2>2. /\ saved' \subseteq Assets /\ drawn' \subseteq Assets /\ revised' \subseteq Orders
        /\ currentOf' \in [Assets -> Assets \cup {"none"}]
    BY <2>1 DEF CarouselTypeOK
  <2> HIDE DEF RecordRevision
  <2> QED BY <2>1, <2>2, WriteFrame
<1>2. /\ UNCHANGED <<ordered, madeFrom, madeFor, number, saved, currentOf, drawn, broken>>
      /\ HasAsset' = HasAsset /\ revised' = revised \cup {o}
  BY DEF Request, HasAsset
<1>3. (\A a : Forked(a) <=> Forked(a)') /\ (\A q : Sibling(q) <=> Sibling(q)')
  BY <1>2 DEF Forked, Sibling
<1>4. ASSUME NEW q \in Orders PROVE Placed(q)' /\ Linked(q)' /\ UpToDate(q)' /\ KeptNow(q)'
  <2>1. Placed(q) /\ Linked(q) /\ UpToDate(q) /\ KeptNow(q)
    BY DEF CarouselIInv
  <2>2. CASE q # o
    <3>1. orderAt'[q] = orderAt[q] /\ (q \in revised' => q \in revised)
      BY <1>1, <1>2, <2>2
    <3>2. Placed(q)'
      BY <1>1, <1>2, <2>1, <3>1 DEF Placed, GateOK, Making
    <3>3. Linked(q)' /\ UpToDate(q)' /\ KeptNow(q)'
      BY <1>2, <1>3, <2>1, <3>1 DEF Linked, UpToDate, KeptNow
    <3> QED BY <3>2, <3>3
  <2>3. CASE q = o
    <3>1. Placed(o)'
      BY <1>1, <1>2 DEF Placed, Composing, Storing, Writing, Changes
    <3>2. Linked(o)'
      BY <1>1, <1>2 DEF Linked, Placed, Storing
    <3>3. UpToDate(o)' /\ KeptNow(o)'
      BY <1>1, <1>2, <1>3 DEF UpToDate, KeptNow, Composing
    <3> QED BY <2>3, <3>1, <3>2, <3>3
  <2> QED BY <2>2, <2>3
<1>5. \A a \in Assets : NumberedTo(a)'
  BY <1>2, <1>3 DEF CarouselIInv, NumberedTo
<1>6. CarouselNumbers' /\ RefusalLeavesNothing'
  BY <1>1, <1>2, <1>3 DEF CarouselIInv, CarouselNumbers, RefusalLeavesNothing
<1>7. CurrentIsRendered'
  <2> SUFFICES ASSUME NEW a \in HasAsset
               PROVE  /\ currentOf[a] \in saved
                      /\ currentOf[a] \in drawn \cup broken \/ orderAt'[currentOf[a]] \in {"record", "render"}
    BY <1>2 DEF CurrentIsRendered
  <2>1. /\ currentOf[a] \in saved /\ currentOf[a] \in Assets
        /\ currentOf[a] \in drawn \cup broken \/ orderAt[currentOf[a]] \in {"record", "render"}
    BY <1>1 DEF CarouselIInv, CurrentIsRendered, CarouselTypeOK
  <2>2. CASE currentOf[a] = "first"
    BY <2>1, <2>2 DEF CarouselIInv
  <2> QED BY <1>1, <2>1, <2>2 DEF Assets
<1>8. ("first" \in saved => "first" \in drawn)'
  BY <1>2 DEF CarouselIInv
<1> QED BY <1>1, <1>4, <1>5, <1>6, <1>7, <1>8 DEF CarouselIInv

LEMMA RenderKeeps ==
    ASSUME CarouselIInv, NEW o \in Orders, PersistRender(o),
           UNCHANGED Request, UNCHANGED Making, UNCHANGED broken
    PROVE  CarouselIInv'
<1> USE Names DEF PersistRender
<1>1. /\ CarouselTypeOK /\ Placed(o) /\ Linked(o) /\ KeptNow(o) /\ GateOK(o) /\ o \in saved /\ o \in Assets
  BY DEF CarouselIInv, Placed, Storing, Writing, Assets
<1>2. /\ orderAt' \in [Orders -> Stages] /\ turns' \in [Orders -> Nat]
      /\ reply' \in [Orders -> Replies] /\ orderAt'[o] = "done" /\ reply'[o] = "ready"
      /\ \A q \in Orders \ {o} : orderAt'[q] = orderAt[q] /\ reply'[q] = reply[q]
  BY <1>1, Ways DEF Replies
<1>3. /\ UNCHANGED <<ordered, madeFrom, madeFor, number, candidate, retained, madeBy, saved, revised,
                     currentOf, broken>>
      /\ HasAsset' = HasAsset /\ drawn' = drawn \cup {o}
  BY DEF Request, Making, HasAsset
<1>4. CarouselTypeOK'
  BY <1>1, <1>2, <1>3 DEF CarouselTypeOK, Stages, Replies
<1>5. (\A a : Forked(a) <=> Forked(a)') /\ (\A q : Sibling(q) <=> Sibling(q)')
  BY <1>3 DEF Forked, Sibling
<1>6. ASSUME NEW q \in Orders PROVE Placed(q)' /\ Linked(q)' /\ UpToDate(q)' /\ KeptNow(q)'
  <2>1. Placed(q) /\ Linked(q) /\ UpToDate(q) /\ KeptNow(q)
    BY DEF CarouselIInv
  <2>2. CASE q # o
    <3>1. orderAt'[q] = orderAt[q] /\ reply'[q] = reply[q]
      BY <1>2, <2>2
    <3> QED BY <1>3, <1>5, <2>1, <3>1 DEF Placed, GateOK, Linked, UpToDate, KeptNow
  <2>3. CASE q = o
    <3>1. Placed(o)'
      BY <1>1, <1>2, <1>3 DEF Placed, GateOK, Composing, Storing, Writing, Changes
    <3>2. Linked(o)'
      BY <1>1, <1>2, <1>3 DEF Linked, Changes
    <3>3. UpToDate(o)' /\ KeptNow(o)'
      BY <1>1, <1>2, <1>3, <1>5 DEF UpToDate, KeptNow, Composing
    <3> QED BY <2>3, <3>1, <3>2, <3>3
  <2> QED BY <2>2, <2>3
<1>7. \A a \in Assets : NumberedTo(a)'
  BY <1>3, <1>5 DEF CarouselIInv, NumberedTo
<1>8. CarouselNumbers' /\ RefusalLeavesNothing'
  BY <1>2, <1>3, <1>5 DEF CarouselIInv, CarouselNumbers, RefusalLeavesNothing
<1>9. CurrentIsRendered'
  <2> SUFFICES ASSUME NEW a \in HasAsset
               PROVE  /\ currentOf[a] \in saved
                      /\ currentOf[a] \in drawn' \cup broken \/ orderAt'[currentOf[a]] \in {"record", "render"}
    BY <1>3 DEF CurrentIsRendered
  <2>1. /\ currentOf[a] \in saved /\ currentOf[a] \in Assets
        /\ currentOf[a] \in drawn \cup broken \/ orderAt[currentOf[a]] \in {"record", "render"}
    BY <1>1 DEF CarouselIInv, CurrentIsRendered, CarouselTypeOK
  <2>2. CASE currentOf[a] = "first"
    BY <1>3, <2>1, <2>2 DEF CarouselIInv
  <2> QED BY <1>2, <1>3, <2>1, <2>2 DEF Assets
<1>10. ("first" \in saved => "first" \in drawn)'
  BY <1>3 DEF CarouselIInv
<1> QED BY <1>4, <1>6, <1>7, <1>8, <1>9, <1>10 DEF CarouselIInv

-----------------------------------------------------------------------------
LEMMA CarouselNextOK == CarouselIInv /\ [CarouselNext]_carouselVars => CarouselIInv'
<1> SUFFICES ASSUME CarouselIInv, [CarouselNext]_carouselVars PROVE CarouselIInv'
  OBVIOUS
<1>1. ASSUME NEW o \in Orders, StoreStep(o) PROVE CarouselIInv'
  BY <1>1, StoreVersionKeeps, StoreAssetKeeps, PointerKeeps, RecordKeeps, RenderKeeps DEF StoreStep
<1>2. ASSUME NEW o \in Orders, OrderStep(o) PROVE CarouselIInv'
  BY <1>1, <1>2, ConceiveKeeps, DraftCopyKeeps, StripKeeps, RealizeKeeps, RepairKeeps,
     GateRevisionKeeps, ThrowsKeeps DEF OrderStep
<1>3. ASSUME NEW o \in Orders, OrderGenerate(o) PROVE CarouselIInv'
  BY <1>3, GenerateKeeps
<1>4. ASSUME NEW o \in Orders, NEW kind \in {"revise", "angle"}, OrderChange(o, kind) PROVE CarouselIInv'
  BY <1>4, ChangeKeeps DEF Changes
<1>5. CASE StudioCrash
  BY <1>5, CrashKeeps
<1>6. CASE UNCHANGED carouselVars
  <2>1. /\ UNCHANGED Request /\ UNCHANGED StudioRows /\ UNCHANGED broken
        /\ UNCHANGED <<orderAt, turns, candidate, retained, madeBy, reply>>
    BY <1>6 DEF carouselVars, Request, StudioRows
  <2>2. CarouselTypeOK'
    BY <2>1 DEF CarouselIInv, CarouselTypeOK, Request, StudioRows
  <2>3. \A q \in Orders : Moved(q)
    BY <2>1 DEF Moved
  <2> QED BY <2>1, <2>2, <2>3, MovesKeep
<1> QED BY <1>2, <1>3, <1>4, <1>5, <1>6 DEF CarouselNext

LEMMA CarouselIInvOK == CarouselIInv => CarouselInv
<1> SUFFICES ASSUME CarouselIInv PROVE CarouselInv
  OBVIOUS
<1>1. CarouselIsGated
  <2> SUFFICES ASSUME NEW o \in saved \ {"first"} PROVE GateOK(o)
    BY DEF CarouselIsGated, GateOK
  <2>1. o \in Orders
    BY DEF CarouselIInv, CarouselTypeOK, Assets
  <2> QED BY <2>1 DEF CarouselIInv, Placed
<1>2. ChangeIsKept
  BY DEF CarouselIInv, CarouselTypeOK, KeptNow, ChangeIsKept
<1> QED BY <1>1, <1>2 DEF CarouselIInv, CarouselInv

\* In every behaviour, for any number of orders and any bounds of the loops: what is stored has
\* passed its gates, refusals leave nothing behind, the current version has its render or its
\* writes were cut short, and a change is lost, or shares its number, only where two changes were
\* made from one version.
THEOREM CarouselIsSound == CarouselSpec => []CarouselInv
<1>1. CarouselInit => CarouselIInv
  BY CarouselInitOK
<1>2. CarouselIInv /\ [CarouselNext]_carouselVars => CarouselIInv'
  BY CarouselNextOK
<1>3. CarouselIInv => CarouselInv
  BY CarouselIInvOK
<1> QED BY <1>1, <1>2, <1>3, PTL DEF CarouselSpec

(***************************************************************************)
(* For any number of visits and rows: a landing page that is stored passed *)
(* its gate, and productions lose nothing of each other unless they        *)
(* crossed. LandingIInv is inductive; RowsAreProductions says what the     *)
(* rows come to, first versions only.                                      *)
(***************************************************************************)

HIDE CarouselAssumption DEF CarouselAssumption
USE LandingAssumption DEF LandingAssumption

\* A row is the draft of one production, which is its id: what follows up on a row has its id and is refused.
RowsAreProductions ==
    /\ produced <= MaxRows
    /\ \A i \in 1..Len(pages) : pages[i].version = 1 /\ pages[i].id = pages[i].at /\ pages[i].at \in 1..produced
    /\ \A i, j \in 1..Len(pages) : pages[i].id = pages[j].id => i = j

\* A draft being written is a production nobody has stored; a founder's step starts from a row.
DraftInHand(r) ==
    /\ visit[r] = "gate" => /\ draft[r].base = 0 /\ draft[r].at \in 1..produced
                            /\ \A i \in 1..Len(pages) : pages[i].id # draft[r].at
    /\ visit[r] \in {"reopen", "regate"} => draft[r].base \in 1..Len(pages)

DraftsApart == \A q, r \in Visits : visit[q] = "gate" /\ visit[r] = "gate" /\ draft[q].at = draft[r].at => q = r

\* One row was produced last.
Top(i) == \A j \in 1..Len(pages) : j # i => pages[i].at > pages[j].at
OneIsLatest == pages # <<>> => \E i \in 1..Len(pages) : Top(i)

\* A view shows a row; there is one row until two first views have crossed.
OneRowUnlessCrossed ==
    /\ shownRow <= Len(pages)
    /\ ~crossed => Len(pages) <= 1

LandingIInv ==
    /\ LandingInv
    /\ RowsAreProductions
    /\ \A r \in Visits : DraftInHand(r)
    /\ DraftsApart
    /\ OneIsLatest
    /\ OneRowUnlessCrossed

-----------------------------------------------------------------------------
LEMMA LandingInitOK == LandingInit => LandingIInv
<1> SUFFICES ASSUME LandingInit PROVE LandingIInv
  OBVIOUS
<1>1. pages = <<>> /\ Len(pages) = 0 /\ pages \in Seq(LandingPage)
  BY DEF LandingInit
<1>2. LandingTypeOK
  <2>1. draft \in [Visits -> [base : 0..MaxRows, clean : BOOLEAN, repairs : 0..MaxRepairs, at : Nat]]
    BY DEF LandingInit, NoDraft, MaxRepairs
  <2>2. pages \in Seq(LandingPage) /\ Len(pages) <= MaxRows /\ produced \in Nat /\ shownRow \in 0..MaxRows
    BY <1>1 DEF LandingInit
  <2> QED BY <2>1, <2>2 DEF LandingInit, LandingTypeOK
<1>3. StoredIsGated /\ DraftStaysUnlessRaced /\ RowsAreProductions /\ OneIsLatest /\ OneRowUnlessCrossed
  BY <1>1 DEF LandingInit, StoredIsGated, DraftStaysUnlessRaced, RowsAreProductions, OneIsLatest,
              OneRowUnlessCrossed
<1>4. (\A r \in Visits : DraftInHand(r)) /\ DraftsApart
  BY DEF LandingInit, DraftInHand, DraftsApart
<1> QED BY <1>2, <1>3, <1>4 DEF LandingIInv, LandingInv

LEMMA LandingFields ==
    ASSUME LandingTypeOK
    PROVE  /\ Len(pages) \in Nat /\ Len(pages) <= MaxRows
           /\ \A i \in 1..Len(pages) : pages[i] \in LandingPage
           /\ \A r \in Visits : /\ draft[r].base \in 0..MaxRows /\ draft[r].clean \in BOOLEAN
                                /\ draft[r].repairs \in 0..MaxRepairs /\ draft[r].at \in Nat
           /\ pages = <<>> <=> Len(pages) = 0
<1>1. pages \in Seq(LandingPage) /\ Len(pages) <= MaxRows
  BY DEF LandingTypeOK
<1>2. Len(pages) \in Nat /\ \A i \in 1..Len(pages) : pages[i] \in LandingPage
  BY <1>1, ElementOfSeq
<1>3. pages = <<>> <=> Len(pages) = 0
  <2> HIDE DEF LandingPage
  <2> QED BY <1>1, EmptySeq
<1> QED BY <1>1, <1>2, <1>3 DEF LandingTypeOK

\* The latest row is the one produced last: all rows have version 1.
LEMMA LatestRow ==
    ASSUME LandingIInv
    PROVE  /\ Latest \in 0..Len(pages)
           /\ Latest = 0 <=> pages = <<>>
           /\ ~crossed => Latest \in {0, 1}
<1>1. LandingTypeOK /\ RowsAreProductions /\ OneIsLatest /\ OneRowUnlessCrossed
  BY DEF LandingIInv, LandingInv
<1>2. Len(pages) \in Nat /\ (pages = <<>> <=> Len(pages) = 0)
  BY <1>1, LandingFields
<1>3. CASE pages = <<>>
  BY <1>2, <1>3 DEF Latest
<1>4. CASE pages # <<>>
  <2> DEFINE later(i, j) == \/ pages[i].version > pages[j].version
                            \/ pages[i].version = pages[j].version /\ pages[i].at > pages[j].at
             isTop(i) == \A j \in 1..Len(pages) \ {i} : later(i, j)
  <2>1. PICK i \in 1..Len(pages) : Top(i)
    BY <1>1, <1>4 DEF OneIsLatest
  <2>2. isTop(i)
    BY <1>1, <2>1 DEF Top, RowsAreProductions
  <2>3. Latest = CHOOSE k \in 1..Len(pages) : isTop(k)
    BY <1>2, <1>4 DEF Latest
  <2>4. Latest \in 1..Len(pages)
    <3> HIDE DEF isTop
    <3> QED BY <2>2, <2>3
  <2> QED BY <1>1, <1>2, <1>4, <2>4 DEF OneRowUnlessCrossed
<1> QED BY <1>3, <1>4

-----------------------------------------------------------------------------
\* A step that leaves the rows alone and ends the request.
LEMMA EndKeeps ==
    ASSUME LandingIInv, NEW r \in Visits, VisitEnds(r),
           UNCHANGED <<pages, produced, shownRow, swapped, crossed>>, refused' \in BOOLEAN
    PROVE  LandingIInv'
<1> USE DEF VisitEnds
<1>1. LandingTypeOK'
  BY DEF LandingIInv, LandingInv, LandingTypeOK, NoDraft, MaxRepairs
<1>2. StoredIsGated' /\ DraftStaysUnlessRaced' /\ RowsAreProductions' /\ OneIsLatest' /\ OneRowUnlessCrossed'
  BY DEF LandingIInv, LandingInv, StoredIsGated, DraftStaysUnlessRaced, RowsAreProductions, OneIsLatest, Top,
         OneRowUnlessCrossed
<1>3. \A s \in Visits : visit'[s] # "idle" => s # r /\ visit'[s] = visit[s] /\ draft'[s] = draft[s]
  BY DEF LandingIInv, LandingInv, LandingTypeOK
<1>4. (\A s \in Visits : DraftInHand(s))' /\ DraftsApart'
  <2> HIDE DEF VisitEnds
  <2> QED BY <1>3 DEF LandingIInv, DraftInHand, DraftsApart
<1> QED BY <1>1, <1>2, <1>4 DEF LandingIInv, LandingInv

\* A step that leaves the rows and the productions alone and keeps the base and the time of every draft, and
\* no request starts to write.
LEMMA StepKeepsDrafts ==
    ASSUME LandingIInv, LandingTypeOK', UNCHANGED <<pages, produced, shownRow, swapped, crossed>>,
           \A s \in Visits : visit'[s] = "gate" => visit[s] = "gate" /\ draft'[s].base = draft[s].base
                                                                     /\ draft'[s].at = draft[s].at,
           \A s \in Visits : visit'[s] \in {"reopen", "regate"} => draft'[s].base \in 1..Len(pages)
    PROVE  LandingIInv'
<1>2. StoredIsGated' /\ DraftStaysUnlessRaced' /\ RowsAreProductions' /\ OneIsLatest' /\ OneRowUnlessCrossed'
  BY DEF LandingIInv, LandingInv, StoredIsGated, DraftStaysUnlessRaced, RowsAreProductions, OneIsLatest, Top,
         OneRowUnlessCrossed
<1>4. (\A s \in Visits : DraftInHand(s))' /\ DraftsApart'
  BY DEF LandingIInv, DraftInHand, DraftsApart
<1> QED BY <1>2, <1>4 DEF LandingIInv, LandingInv

\* The founder's steps: the row they would insert has the id of the row it follows.
LEMMA FollowUpIsRefused ==
    ASSUME LandingIInv, NEW r \in Visits, visit[r] \in {"reopen", "regate"},
           NEW status, NEW clean, Insert(NextPage(draft[r].base, status, clean))
    PROVE  UNCHANGED pages /\ refused' \in BOOLEAN
<1>1. draft[r].base \in 1..Len(pages) /\ pages[draft[r].base] \in LandingPage
  BY LandingFields DEF LandingIInv, LandingInv, DraftInHand
<1>2. NextPage(draft[r].base, status, clean).id = pages[draft[r].base].id
  BY <1>1 DEF NextPage, LandingPage
<1> QED BY <1>1, <1>2 DEF Insert

LEMMA ViewKeeps ==
    ASSUME LandingIInv, NEW r \in Visits, View(r)
    PROVE  LandingIInv'
<1>1. /\ LandingTypeOK /\ RowsAreProductions /\ \A s \in Visits : DraftInHand(s)
      /\ DraftsApart /\ OneRowUnlessCrossed
  BY DEF LandingIInv, LandingInv
<1>2. /\ Len(pages) \in Nat /\ Len(pages) <= MaxRows /\ Latest \in 0..Len(pages)
      /\ ~crossed => Latest \in {0, 1}
  BY <1>1, LandingFields, LatestRow
<1>3. CASE Latest # 0 /\ Shows(Latest) /\ UNCHANGED <<produced, visit, draft, pages, crossed, refused>>
  <2>1. shownRow' = Latest /\ swapped' = (swapped \/ shownRow \notin {0, Latest})
    BY <1>3 DEF Shows
  <2>2. LandingTypeOK'
    BY <1>1, <1>2, <1>3, <2>1 DEF LandingTypeOK
  <2>3. shownRow \in 0..MaxRows /\ (~crossed => shownRow \in {0, 1} /\ Len(pages) <= 1)
    BY <1>1, <1>2 DEF LandingTypeOK, OneRowUnlessCrossed
  <2>4. DraftStaysUnlessRaced'
    <3>1. swapped => crossed
      BY DEF LandingIInv, LandingInv, DraftStaysUnlessRaced
    <3>2. ~crossed => Latest = 1 /\ shownRow \in {0, 1}
      BY <1>2, <1>3, <2>3
    <3>3. swapped' => crossed
      BY <2>1, <3>1, <3>2
    <3> QED BY <1>3, <3>3 DEF DraftStaysUnlessRaced
  <2>6. OneRowUnlessCrossed'
    BY <1>1, <1>2, <1>3, <2>1 DEF OneRowUnlessCrossed
  <2>5. StoredIsGated' /\ RowsAreProductions' /\ OneIsLatest' /\ (\A s \in Visits : DraftInHand(s))' /\ DraftsApart'
    BY <1>3 DEF LandingIInv, LandingInv, StoredIsGated, RowsAreProductions, OneIsLatest, Top, DraftInHand,
                DraftsApart
  <2> QED BY <2>2, <2>4, <2>5, <2>6 DEF LandingIInv, LandingInv
<1>4. CASE /\ visit[r] = "idle" /\ produced < MaxRows /\ produced' = produced + 1
           /\ visit' = [visit EXCEPT ![r] = "gate"]
           /\ \E c \in BOOLEAN :
                draft' = [draft EXCEPT ![r] = [base |-> 0, clean |-> c, repairs |-> 0, at |-> produced + 1]]
           /\ UNCHANGED <<shownRow, swapped, pages, crossed, refused>>
  <2>1. PICK c \in BOOLEAN :
          draft' = [draft EXCEPT ![r] = [base |-> 0, clean |-> c, repairs |-> 0, at |-> produced + 1]]
    BY <1>4
  <2>2. produced \in Nat /\ visit[r] = "idle"
    BY <1>1, <1>4 DEF LandingTypeOK
  <2>3. LandingTypeOK'
    BY <1>1, <1>4, <2>1, <2>2 DEF LandingTypeOK, MaxRepairs
  <2>4. /\ draft'[r].base = 0 /\ draft'[r].at = produced + 1 /\ visit'[r] = "gate"
        /\ \A s \in Visits \ {r} : visit'[s] = visit[s] /\ draft'[s] = draft[s]
    BY <1>1, <1>4, <2>1 DEF LandingTypeOK
  <2>5. RowsAreProductions'
    BY <1>1, <1>4, <2>2 DEF RowsAreProductions
  <2>6. \A i \in 1..Len(pages) : pages[i].id # produced + 1
    BY <1>1, <2>2 DEF RowsAreProductions
  <2>7. \A s \in Visits : visit[s] = "gate" => draft[s].at \in 1..produced
    BY <1>1 DEF DraftInHand
  <2>8. ASSUME NEW s \in Visits PROVE DraftInHand(s)'
    <3>1. CASE s = r
      BY <1>4, <2>2, <2>4, <2>6, <3>1 DEF DraftInHand
    <3>2. CASE s # r
      BY <1>1, <1>4, <2>2, <2>4, <3>2 DEF DraftInHand
    <3> QED BY <3>1, <3>2
  <2>9. DraftsApart'
    <3> SUFFICES ASSUME NEW p \in Visits, NEW q \in Visits, visit'[p] = "gate", visit'[q] = "gate",
                        draft'[p].at = draft'[q].at
                 PROVE  p = q
      BY DEF DraftsApart
    <3> QED BY <1>1, <2>2, <2>4, <2>7 DEF DraftsApart
  <2>10. StoredIsGated' /\ DraftStaysUnlessRaced' /\ OneIsLatest' /\ OneRowUnlessCrossed'
    BY <1>4 DEF LandingIInv, LandingInv, StoredIsGated, DraftStaysUnlessRaced, OneIsLatest, Top,
                OneRowUnlessCrossed
  <2> QED BY <2>3, <2>5, <2>8, <2>9, <2>10 DEF LandingIInv, LandingInv
<1> QED BY <1>3, <1>4 DEF View

LEMMA RepairPageKeeps ==
    ASSUME LandingIInv, NEW r \in Visits, Repair(r)
    PROVE  LandingIInv'
<1>1. LandingTypeOK /\ \A s \in Visits : DraftInHand(s)
  BY DEF LandingIInv, LandingInv
<1>2. PICK c \in BOOLEAN : draft' = [draft EXCEPT ![r].clean = c, ![r].repairs = draft[r].repairs + 1]
  BY DEF Repair
<1>3. /\ UNCHANGED <<pages, produced, visit, shownRow, swapped, crossed, refused>>
      /\ draft[r].repairs < MaxRepairs /\ draft[r].repairs \in 0..MaxRepairs
  BY <1>1, LandingFields DEF Repair
<1>4. draft' = [draft EXCEPT ![r] = [base |-> draft[r].base, clean |-> c, repairs |-> draft[r].repairs + 1,
                                     at |-> draft[r].at]]
  <2>1. draft[r] \in [base : 0..MaxRows, clean : BOOLEAN, repairs : 0..MaxRepairs, at : Nat]
    BY <1>1 DEF LandingTypeOK
  <2>2. draft[r] = [base |-> draft[r].base, clean |-> draft[r].clean, repairs |-> draft[r].repairs,
                    at |-> draft[r].at]
    BY <2>1
  <2> DEFINE d == [draft[r] EXCEPT !.clean = c]
  <2>3. d = [base |-> draft[r].base, clean |-> c, repairs |-> draft[r].repairs, at |-> draft[r].at]
    BY <2>1, <2>2
  <2>4. draft' = [draft EXCEPT ![r] = [d EXCEPT !.repairs = draft[r].repairs + 1]]
    BY <1>1, <1>2 DEF LandingTypeOK
  <2> HIDE DEF d
  <2>5. [d EXCEPT !.repairs = draft[r].repairs + 1]
           = [base |-> draft[r].base, clean |-> c, repairs |-> draft[r].repairs + 1, at |-> draft[r].at]
    BY <2>3
  <2> QED BY <2>4, <2>5
<1>5. LandingTypeOK'
  BY <1>1, <1>3, <1>4 DEF LandingTypeOK, MaxRepairs
<1>6. \A s \in Visits : draft'[s].base = draft[s].base /\ draft'[s].at = draft[s].at
  BY <1>1, <1>4 DEF LandingTypeOK
<1> QED BY <1>1, <1>3, <1>5, <1>6, StepKeepsDrafts DEF DraftInHand

LEMMA SaveKeeps ==
    ASSUME LandingIInv, NEW r \in Visits, SaveProduced(r)
    PROVE  LandingIInv'
<1> DEFINE p == [id |-> draft[r].at, version |-> 1, status |-> Outcome(r), clean |-> draft[r].clean,
                 at |-> draft[r].at]
           n == Len(pages)
<1>1. /\ LandingTypeOK /\ RowsAreProductions /\ \A s \in Visits : DraftInHand(s)
      /\ DraftsApart /\ OneIsLatest /\ OneRowUnlessCrossed /\ StoredIsGated /\ DraftStaysUnlessRaced
  BY DEF LandingIInv, LandingInv
<1>2. /\ visit[r] = "gate" /\ Insert(p) /\ VisitEnds(r) /\ produced' = produced
      /\ crossed' = (crossed \/ (pages # <<>> /\ draft[r].base = 0))
      /\ shownRow' = n + 1 /\ swapped' = (swapped \/ shownRow \notin {0, n + 1})
  BY DEF SaveProduced, Shows
<1>3. /\ n \in Nat /\ n <= MaxRows /\ (\A i \in 1..n : pages[i] \in LandingPage) /\ (pages = <<>> <=> n = 0)
      /\ draft[r].clean \in BOOLEAN /\ produced \in Nat /\ shownRow \in 0..MaxRows
  BY <1>1, LandingFields DEF LandingTypeOK
<1>4. /\ draft[r].base = 0 /\ draft[r].at \in 1..produced
      /\ \A i \in 1..n : pages[i].id # draft[r].at
  BY <1>1, <1>2 DEF DraftInHand
<1>5. p \in LandingPage
  BY <1>3, <1>4 DEF LandingPage, Outcome, Statuses
<1>6. /\ p.id = draft[r].at /\ p.at = draft[r].at /\ p.version = 1
      /\ p.status = "drafted" => p.clean
  BY <1>3 DEF Outcome
<1> HIDE DEF p
<1>7. pages' = Append(pages, p) /\ UNCHANGED refused
  BY <1>2, <1>4, <1>6 DEF Insert
<1>8. pages \in Seq(LandingPage)
  BY <1>1 DEF LandingTypeOK
<1>9. /\ pages' \in Seq(LandingPage) /\ Len(pages') = n + 1
      /\ \A i \in 1..n : pages'[i] = pages[i]
      /\ pages'[n + 1] = p
  <2> HIDE DEF n
  <2> QED BY <1>5, <1>7, <1>8, AppendProperties DEF n
\* The rows and this draft are of different productions.
<1>10. n + 1 <= MaxRows
  <2> DEFINE S == 1..n
             T == (1..produced) \ {draft[r].at}
             f == [i \in S |-> pages[i].id]
  <2>1. f \in Injection(S, T)
    <3>1. \A i \in S : pages[i].id \in T
      BY <1>1, <1>4 DEF RowsAreProductions
    <3>2. f \in [S -> T] /\ \A i, j \in S : f[i] = f[j] => i = j
      BY <1>1, <3>1 DEF RowsAreProductions
    <3> QED BY <3>2 DEF Injection, IsInjective
  <2>5. ASSUME NEW k \in Nat PROVE IsFiniteSet(1..k) /\ Cardinality(1..k) = k
    <3>1. IsFiniteSet(1..k) /\ Cardinality(1..k) = IF 1 > k THEN 0 ELSE k - 1 + 1
      BY FS_Interval
    <3> QED BY <3>1
  <2>2. IsFiniteSet(1..produced) /\ Cardinality(1..produced) = produced
    BY <1>3, <2>5
  <2>3. IsFiniteSet(T) /\ Cardinality(T) = produced - 1
    BY <1>4, <2>2, FS_RemoveElement
  <2>4. IsFiniteSet(S) /\ Cardinality(S) = n
    BY <1>3, <2>5
  <2>6. Cardinality(S) <= Cardinality(T)
    <3> HIDE DEF S, T, f
    <3> QED BY <2>1, <2>3, <2>4, FS_Injection
  <2> QED BY <1>1, <1>3, <2>3, <2>4, <2>6 DEF RowsAreProductions
<1>11. /\ visit'[r] = "idle"
       /\ \A s \in Visits \ {r} : visit'[s] = visit[s] /\ draft'[s] = draft[s]
  BY <1>1, <1>2 DEF VisitEnds, LandingTypeOK
<1>12. LandingTypeOK'
  <2>1. /\ visit' \in [Visits -> {"idle", "view", "gate", "reopen", "regate"}]
        /\ draft' \in [Visits -> [base : 0..MaxRows, clean : BOOLEAN, repairs : 0..MaxRepairs, at : Nat]]
    BY <1>1, <1>2 DEF LandingTypeOK, VisitEnds, NoDraft, MaxRepairs
  <2>2. produced' \in Nat /\ swapped' \in BOOLEAN /\ crossed' \in BOOLEAN /\ refused' \in BOOLEAN
    BY <1>1, <1>2, <1>7 DEF LandingTypeOK
  <2>3. shownRow' \in 0..MaxRows /\ Len(pages') <= MaxRows
    BY <1>2, <1>3, <1>9, <1>10
  <2> QED BY <1>9, <2>1, <2>2, <2>3 DEF LandingTypeOK
<1> DEFINE m == Len(pages')
<1>13. m = n + 1
  BY <1>9
<1> HIDE DEF n, m
<1>14. \A i \in 1..m : (i \in 1..n /\ pages'[i] = pages[i]) \/ (i = n + 1 /\ pages'[i] = p)
  <2>1. n \in Nat /\ (\A i \in 1..n : pages'[i] = pages[i]) /\ pages'[n + 1] = p
    BY <1>3, <1>9 DEF n
  <2>2. \A i \in 1..m : i \in 1..n \/ i = n + 1
    BY <1>13, <2>1
  <2> QED BY <2>1, <2>2
<1>15. StoredIsGated'
  BY <1>1, <1>6, <1>14 DEF StoredIsGated, n, m
<1>16. RowsAreProductions'
  <2>1. \A i \in 1..m : pages'[i].version = 1 /\ pages'[i].id = pages'[i].at /\ pages'[i].at \in 1..produced
    BY <1>1, <1>4, <1>6, <1>14 DEF RowsAreProductions, n
  <2>2. \A i, j \in 1..m : pages'[i].id = pages'[j].id => i = j
    BY <1>1, <1>4, <1>6, <1>14 DEF RowsAreProductions, n
  <2> QED BY <1>1, <1>2, <2>1, <2>2 DEF RowsAreProductions, m
<1>17. ASSUME NEW s \in Visits PROVE DraftInHand(s)'
  <2>1. CASE s = r
    BY <1>11, <2>1 DEF DraftInHand
  <2>2. CASE s # r
    <3>1. DraftInHand(s) /\ visit'[s] = visit[s] /\ draft'[s] = draft[s]
      BY <1>1, <1>11, <2>2
    <3>2. visit[s] = "gate" => draft[s].at # draft[r].at
      BY <1>1, <1>2, <2>2 DEF DraftsApart
    <3>3. visit[s] = "gate" => \A i \in 1..m : pages'[i].id # draft[s].at
      BY <1>6, <1>14, <3>1, <3>2 DEF DraftInHand, n
    <3>4. visit[s] \in {"reopen", "regate"} => draft[s].base \in 1..m
      BY <1>3, <1>13, <3>1 DEF DraftInHand, n
    <3> QED BY <1>2, <3>1, <3>3, <3>4 DEF DraftInHand, m
  <2> QED BY <2>1, <2>2
<1>18. DraftsApart'
  BY <1>1, <1>11 DEF DraftsApart
<1>19. OneIsLatest'
  <2>1. CASE pages = <<>>
    <3>1. n = 0
      BY <1>3, <2>1 DEF n
    <3>2. 1 \in 1..m /\ \A j \in 1..m : j = 1
      BY <1>13, <3>1
    <3> QED BY <3>2 DEF OneIsLatest, Top, m
  <2>2. CASE pages # <<>>
    <3>1. PICK i \in 1..n : Top(i)
      BY <1>1, <2>2 DEF OneIsLatest, n
    <3>2. /\ pages[i].at \in Nat /\ p.at \in Nat /\ \A j \in 1..n : pages[j].at \in Nat /\ pages[j].at # p.at
      BY <1>1, <1>4, <1>6, <1>3 DEF RowsAreProductions, n
    <3>3. i \in 1..m /\ n + 1 \in 1..m
      BY <1>3, <1>13 DEF n
    <3>4. CASE pages[i].at > p.at
      <4>1. \A j \in 1..m : j # i => pages'[i].at > pages'[j].at
        BY <1>3, <1>9, <1>14, <3>1, <3>4 DEF Top, n
      <4> QED BY <3>3, <4>1 DEF OneIsLatest, Top, m
    <3>5. CASE p.at > pages[i].at
      <4>1. \A j \in 1..n : pages[i].at >= pages[j].at
        BY <3>1, <3>2 DEF Top, n
      <4>2. \A j \in 1..m : j # n + 1 => pages'[n + 1].at > pages'[j].at
        BY <1>9, <1>14, <3>2, <3>5, <4>1 DEF n
      <4> QED BY <3>3, <4>2 DEF OneIsLatest, Top, m
    <3> QED BY <3>2, <3>4, <3>5
  <2> QED BY <2>1, <2>2
<1>20. OneRowUnlessCrossed' /\ DraftStaysUnlessRaced'
  <2>1. CASE pages = <<>>
    <3>1. n = 0 /\ shownRow = 0
      BY <1>1, <1>3, <2>1 DEF OneRowUnlessCrossed, n
    <3>2. m = 1 /\ shownRow' = 1 /\ swapped' = swapped /\ crossed' = crossed
      BY <1>1, <1>2, <1>13, <2>1, <3>1 DEF LandingTypeOK, n
    <3> QED BY <1>1, <3>2 DEF OneRowUnlessCrossed, DraftStaysUnlessRaced, m
  <2>2. CASE pages # <<>>
    <3>1. crossed' = TRUE
      BY <1>2, <1>4, <2>2
    <3> QED BY <1>2, <1>3, <1>13, <3>1 DEF OneRowUnlessCrossed, DraftStaysUnlessRaced, m, n
  <2> QED BY <2>1, <2>2
<1> QED BY <1>12, <1>15, <1>16, <1>17, <1>18, <1>19, <1>20 DEF LandingIInv, LandingInv

LEMMA ReadLatestKeeps ==
    ASSUME LandingIInv, NEW r \in Visits, ReadLatest(r)
    PROVE  LandingIInv'
<1>1. LandingTypeOK /\ \A s \in Visits : DraftInHand(s)
  BY DEF LandingIInv, LandingInv
<1>2. /\ visit[r] = "idle" /\ Latest # 0 /\ visit' = [visit EXCEPT ![r] = "reopen"]
      /\ draft' = [draft EXCEPT ![r].base = Latest]
      /\ UNCHANGED <<pages, produced, shownRow, swapped, crossed, refused>>
  BY DEF ReadLatest, HasText
<1>3. Len(pages) \in Nat /\ Len(pages) <= MaxRows /\ Latest \in 1..Len(pages)
  BY <1>1, <1>2, LandingFields, LatestRow
<1>4. LandingTypeOK'
  <2>1. [draft[r] EXCEPT !.base = Latest] \in [base : 0..MaxRows, clean : BOOLEAN, repairs : 0..MaxRepairs, at : Nat]
    <3>1. Latest \in 0..MaxRows
      BY <1>3
    <3> QED BY <1>1, <3>1 DEF LandingTypeOK
  <2>2. draft' = [draft EXCEPT ![r] = [draft[r] EXCEPT !.base = Latest]]
    BY <1>1, <1>2 DEF LandingTypeOK
  <2> QED BY <1>1, <1>2, <2>1, <2>2 DEF LandingTypeOK
<1>5. /\ visit'[r] = "reopen" /\ draft'[r].base = Latest
      /\ \A s \in Visits \ {r} : visit'[s] = visit[s] /\ draft'[s] = draft[s]
  BY <1>1, <1>2 DEF LandingTypeOK
<1>6. \A s \in Visits : visit'[s] = "gate" => visit[s] = "gate" /\ draft'[s] = draft[s]
  BY <1>5
<1>7. \A s \in Visits : visit'[s] \in {"reopen", "regate"} => draft'[s].base \in 1..Len(pages)
  BY <1>1, <1>3, <1>5 DEF DraftInHand
<1> QED BY <1>2, <1>4, <1>6, <1>7, StepKeepsDrafts

LEMMA StartRewriteKeeps ==
    ASSUME LandingIInv, NEW r \in Visits, StartRewrite(r)
    PROVE  LandingIInv'
<1>1. LandingTypeOK /\ \A s \in Visits : DraftInHand(s)
  BY DEF LandingIInv, LandingInv
<1>2. PICK c \in BOOLEAN : draft' = [draft EXCEPT ![r].clean = c]
  BY DEF StartRewrite
<1>3. /\ visit[r] = "reopen" /\ visit' = [visit EXCEPT ![r] = "regate"]
      /\ UNCHANGED <<pages, produced, shownRow, swapped, crossed, refused>>
  BY DEF StartRewrite
<1>4. LandingTypeOK'
  <2>1. [draft[r] EXCEPT !.clean = c] \in [base : 0..MaxRows, clean : BOOLEAN, repairs : 0..MaxRepairs, at : Nat]
    BY <1>1 DEF LandingTypeOK
  <2>2. draft' = [draft EXCEPT ![r] = [draft[r] EXCEPT !.clean = c]]
    BY <1>1, <1>2 DEF LandingTypeOK
  <2> QED BY <1>1, <1>3, <2>1, <2>2 DEF LandingTypeOK
<1>5. /\ visit'[r] = "regate" /\ draft'[r].base = draft[r].base
      /\ \A s \in Visits \ {r} : visit'[s] = visit[s] /\ draft'[s] = draft[s]
  BY <1>1, <1>2, <1>3 DEF LandingTypeOK
<1>6. \A s \in Visits : visit'[s] = "gate" => visit[s] = "gate" /\ draft'[s] = draft[s]
  BY <1>5
<1>7. \A s \in Visits : visit'[s] \in {"reopen", "regate"} => draft'[s].base \in 1..Len(pages)
  BY <1>1, <1>3, <1>5 DEF DraftInHand
<1> QED BY <1>3, <1>4, <1>6, <1>7, StepKeepsDrafts

\* The model's error, and what a founder does to a row, end the request and leave the rows alone.
LEMMA EndingKeeps ==
    ASSUME LandingIInv, NEW r \in Visits,
           ModelThrows(r) \/ AcceptDraft(r) \/ EditSection(r) \/ EndRewrite(r)
    PROVE  LandingIInv'
<1>1. refused \in BOOLEAN
  BY DEF LandingIInv, LandingInv, LandingTypeOK
<1>2. CASE ModelThrows(r)
  BY <1>1, <1>2, EndKeeps DEF ModelThrows
<1>3. CASE AcceptDraft(r)
  <2>1. UNCHANGED pages /\ refused' \in BOOLEAN
    BY <1>1, <1>3, FollowUpIsRefused DEF AcceptDraft
  <2> QED BY <1>3, <2>1, EndKeeps DEF AcceptDraft
<1>4. CASE EditSection(r)
  <2>1. UNCHANGED pages /\ refused' \in BOOLEAN
    BY <1>4, FollowUpIsRefused DEF EditSection
  <2> QED BY <1>4, <2>1, EndKeeps DEF EditSection
<1>5. CASE EndRewrite(r)
  <2>1. UNCHANGED pages /\ refused' \in BOOLEAN
    BY <1>1, <1>5, FollowUpIsRefused DEF EndRewrite
  <2> QED BY <1>5, <2>1, EndKeeps DEF EndRewrite
<1> QED BY <1>2, <1>3, <1>4, <1>5

LEMMA LandingNextOK ==
    ASSUME LandingIInv, [LandingNext]_landingVars
    PROVE  LandingIInv'
<1>1. CASE UNCHANGED landingVars
  BY <1>1 DEF landingVars, LandingIInv, LandingInv, LandingTypeOK, StoredIsGated, DraftStaysUnlessRaced,
              RowsAreProductions, DraftInHand, DraftsApart, OneIsLatest, Top, OneRowUnlessCrossed
<1>2. ASSUME NEW r \in Visits,
             \/ View(r) \/ Repair(r) \/ SaveProduced(r) \/ ModelThrows(r)
             \/ ReadLatest(r) \/ AcceptDraft(r) \/ EditSection(r) \/ StartRewrite(r) \/ EndRewrite(r)
      PROVE  LandingIInv'
  BY <1>2, ViewKeeps, RepairPageKeeps, SaveKeeps, ReadLatestKeeps, StartRewriteKeeps, EndingKeeps
<1> QED BY <1>1, <1>2 DEF LandingNext

\* The landing page a founder reads passed its gate as a whole before it was stored, and no view is answered
\* with another page than the view before it unless two first views overlapped and each wrote one
\* (the insert-only move_draft table, landing-draft.service.ts).
THEOREM LandingPageStays == LandingSpec => []LandingInv
<1>1. LandingInit => LandingIInv
  BY LandingInitOK
<1>2. LandingIInv /\ [LandingNext]_landingVars => LandingIInv'
  BY LandingNextOK
<1>3. LandingIInv => LandingInv
  BY DEF LandingIInv
<1> QED BY <1>1, <1>2, <1>3, PTL DEF LandingSpec

\* An accepted, edited or rewritten draft is never stored: what the routes insert has the id of the row it
\* follows, so every row is the first version of its production (landing-draft.service.ts).
THEOREM LandingStoresFirstVersionsOnly ==
    LandingSpec => [](\A i \in 1..Len(pages) : pages[i].version = 1)
<1>1. LandingInit => LandingIInv
  BY LandingInitOK
<1>2. LandingIInv /\ [LandingNext]_landingVars => LandingIInv'
  BY LandingNextOK
<1>3. LandingIInv => \A i \in 1..Len(pages) : pages[i].version = 1
  BY DEF LandingIInv, RowsAreProductions
<1> QED BY <1>1, <1>2, <1>3, PTL DEF LandingSpec

=============================================================================
