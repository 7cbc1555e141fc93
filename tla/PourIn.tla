------------------------------- MODULE PourIn -------------------------------
(***************************************************************************)
(* The sources of one business and the reading of them: Moments 1 to 3 of  *)
(* the arc.  A source is fetched, its fragments are bound to the business, *)
(* and an event written without waiting puts it on the founder's list.     *)
(* "Done adding" reads every bound fragment into one understanding; done   *)
(* again it fetches the listed websites first and reopens the review.      *)
(*                                                                         *)
(* Several requests of one founder run interleaved in one process; each    *)
(* await is a step boundary.  A crash ends every request and forgets what  *)
(* only the process knew.  The text of a source is abstracted to the page  *)
(* that carries it: a host for websites, a file, a link or a description.  *)
(***************************************************************************)
EXTENDS Naturals, Sequences, FiniteSets

CONSTANTS Pours,   \* concurrent requests; a request id is used again when it has ended
          Sources,    \* what the founder adds, as listed
          Type,       \* type of each source
          Page,       \* where its fragments are kept; websites of one host share it
          Languages,
          None,
          MaxEvents,  \* bound: arc events written
          MaxReads    \* bound: understandings saved

Types == {"website", "link", "file", "instagram", "description"}

ASSUME PourInAssumption ==
    /\ Type \in [Sources -> Types]
    /\ DOMAIN Page = Sources
    /\ None \notin Pours \cup Languages
    /\ MaxEvents \in Nat /\ MaxReads \in Nat

VARIABLES bound,    \* pages bound to the business (business_evidence_links)
          events,   \* app.founder_event: the arc events in the order they were written
          snap,     \* the latest understanding: its number, what it read, when it was saved
          language, \* the stored content language
          reading,  \* the request that runs the tracked pour_in operation
          doing,     \* next step of each request
          what,     \* the source it is about
          ids,      \* the pages it has read, or still has to fetch
          late,     \* an "added" event it has sent without waiting for it
          answered, \* history: sources whose addition was answered and that nobody has removed since
          gone,     \* history: sources removed while nothing was binding their page
          must,     \* history: the pages a reading promises to contain
          unmarked  \* history: the last understanding's event was lost, or written as another one

pourVars == <<bound, events, snap, language, reading, doing, what, ids, late,
              answered, gone, must, unmarked>>

Pages == {Page[s] : s \in Sources}
Steps == {"idle", "fetch", "bind", "mark", "list", "unbind", "dropped", "joined", "flags",
          "refetch", "language", "synthesize", "save", "flag"}
Event == [kind : {"added", "removed"}, source : Sources]
         \cup [kind : {"done", "reopened", "confirmed"}]

PourTypeOK ==
    /\ bound \subseteq Pages
    /\ events \in Seq(Event)
    /\ snap \in [number : Nat, read : SUBSET Pages, at : Nat]
    /\ language \in Languages \cup {None}
    /\ reading \in Pours \cup {None}
    /\ doing \in [Pours -> Steps]
    /\ what \in [Pours -> Sources \cup {None}]
    /\ ids \in [Pours -> SUBSET (Pages \cup Sources)]
    /\ late \in [Pours -> Sources \cup {None}]
    /\ answered \subseteq Sources /\ gone \subseteq Sources
    /\ must \in [Pours -> SUBSET Pages]
    /\ unmarked \in BOOLEAN

PourInit ==
    /\ bound = {} /\ events = <<>>
    /\ snap = [number |-> 0, read |-> {}, at |-> 0]
    /\ language = None /\ reading = None
    /\ doing = [r \in Pours |-> "idle"]
    /\ what = [r \in Pours |-> None]
    /\ ids = [r \in Pours |-> {}]
    /\ late = [r \in Pours |-> None]
    /\ answered = {} /\ gone = {} /\ unmarked = FALSE
    /\ must = [r \in Pours |-> {}]

-----------------------------------------------------------------------------
\* foldArcSourceEvents: an added source is listed until it is removed.
Listed ==
    {s \in Sources : \E i \in 1..Len(events) :
        /\ events[i].kind = "added" /\ events[i].source = s
        /\ \A j \in i+1..Len(events) : ~(events[j].kind = "removed" /\ events[j].source = s)}

\* The type it is listed with: the list knows no descriptions and takes them for websites.
ListedType(s) == IF Type[s] = "description" THEN "website" ELSE Type[s]

\* fragmentMatchesSource: which bound pages belong to a listed source.
Matches(s, p) == p = Page[s] /\ Type[s] = ListedType(s)

LastOf(kind) ==
    LET at == {i \in 1..Len(events) : events[i].kind = kind}
    IN  IF at = {} THEN 0 ELSE CHOOSE i \in at : \A j \in at : j <= i

PourInDone == LastOf("done") > 0

\* readArcFlags, as a request sees it: a read that fails is taken for "not done".
DoneSeen == {PourInDone, FALSE}

\* confirmedSinceReopen.
Confirmed == LastOf("confirmed") > LastOf("reopened")

\* An event that is awaited: written, unless the database refuses it, which is swallowed.
RecordEvent(e) == events' = Append(events, e) \/ events' = events

Room == Len(events) + Cardinality({r \in Pours : doing[r] # "idle" \/ late[r] # None}) < MaxEvents

Goto(r, s) == doing' = [doing EXCEPT ![r] = s]

\* The request is answered.
Leave(r) ==
    /\ Goto(r, "idle")
    /\ what' = [what EXCEPT ![r] = None]
    /\ ids' = [ids EXCEPT ![r] = {}]
    /\ must' = [must EXCEPT ![r] = {}]

\* A removal of the page of source s is under way.
Removing(s) ==
    \E r \in Pours : doing[r] \in {"list", "unbind", "dropped"} /\ Page[what[r]] = Page[s]

\* Requests that bind the page of source s, now or in a moment.
Binding(s) ==
    {r \in Pours :
        \/ doing[r] \in {"fetch", "bind"} /\ Page[what[r]] = Page[s]
        \/ doing[r] = "flags"
        \/ doing[r] = "refetch" /\ \E t \in ids[r] : Page[t] = Page[s]}

-----------------------------------------------------------------------------
\* POST /arc/source, /link, /text, /file, /instagram: fetch or extract it first.
StartAdd(r, s) ==
    /\ doing[r] = "idle" /\ late[r] = None /\ Room
    /\ Goto(r, "fetch")
    /\ what' = [what EXCEPT ![r] = s]
    /\ gone' = {t \in gone : Page[t] # Page[s]}
    /\ must' = [must EXCEPT ![r] = IF Removing(s) THEN {} ELSE {Page[s]}]
    /\ UNCHANGED <<bound, events, snap, language, reading, ids, late, answered, unmarked>>

\* It has text, or the founder is told that it cannot be read.
Fetched(r) ==
    /\ doing[r] = "fetch"
    /\ \/ Goto(r, "bind") /\ UNCHANGED <<what, ids, must>>
       \/ Leave(r)
    /\ UNCHANGED <<bound, events, snap, language, reading, late, answered, gone, unmarked>>

\* Mutant: the founder is answered before the fragments are bound.
AnswerFirst(r) ==
    /\ doing[r] = "bind"
    /\ late' = [late EXCEPT ![r] = what[r]]
    /\ answered' = answered \cup {s \in {what[r]} : Page[s] \in must[r]}
    /\ Goto(r, "mark")
    /\ UNCHANGED <<bound, events, snap, language, reading, what, ids, gone, must, unmarked>>

\* Bind the fragments to the business.
Bind(r) ==
    /\ doing[r] = "bind"
    /\ bound' = bound \cup {Page[what[r]]}
    /\ Goto(r, "mark")
    /\ UNCHANGED <<events, snap, language, reading, what, ids, late, answered, gone, must, unmarked>>

\* Send the "added" event, do not wait for it, and answer the founder.
MarkAdded(r) ==
    /\ doing[r] = "mark"
    /\ late' = [late EXCEPT ![r] = what[r]]
    /\ answered' = answered \cup {s \in {what[r]} : Page[s] \in must[r]}
    /\ Leave(r)
    /\ UNCHANGED <<bound, events, snap, language, reading, gone, unmarked>>

\* The event arrives, or is lost without a word.
AddedEvent(r) ==
    /\ late[r] # None
    /\ RecordEvent([kind |-> "added", source |-> late[r]])
    /\ late' = [late EXCEPT ![r] = None]
    /\ UNCHANGED <<bound, snap, language, reading, doing, what, ids, answered, gone, must, unmarked>>

-----------------------------------------------------------------------------
\* POST /arc/source/remove: only a listed source.
StartRemove(r, s) ==
    /\ doing[r] = "idle" /\ late[r] = None /\ Room
    /\ s \in Listed
    /\ Goto(r, "list")
    /\ what' = [what EXCEPT ![r] = s]
    /\ answered' = {t \in answered : Page[t] # Page[s]}
    /\ must' = [q \in Pours |-> must[q] \ {Page[s]}]
    /\ UNCHANGED <<bound, events, snap, language, reading, ids, late, gone, unmarked>>

\* unlinkPourInSource reads the bound fragments that belong to it ...
ListBound(r) ==
    /\ doing[r] = "list"
    /\ ids' = [ids EXCEPT ![r] = {p \in bound : Matches(what[r], p)}]
    /\ Goto(r, "unbind")
    /\ gone' = IF Binding(what[r]) = {} THEN gone \cup {what[r]} ELSE gone
    /\ UNCHANGED <<bound, events, snap, language, reading, what, late, answered, must, unmarked>>

\* ... and unlinks them, or fails at it.
Unbind(r) ==
    /\ doing[r] = "unbind"
    /\ \/ /\ bound' = bound \ ids[r]
          /\ Goto(r, "dropped")
          /\ UNCHANGED <<what, ids, gone, must>>
       \/ /\ UNCHANGED bound
          /\ Leave(r)
          /\ gone' = gone \ {what[r]}
    /\ UNCHANGED <<events, snap, language, reading, late, answered, unmarked>>

\* Then the source leaves the list.
MarkRemoved(r) ==
    /\ doing[r] = "dropped"
    /\ RecordEvent([kind |-> "removed", source |-> what[r]])
    /\ Leave(r)
    /\ UNCHANGED <<bound, snap, language, reading, late, answered, gone, unmarked>>

-----------------------------------------------------------------------------
\* POST /arc/pour-in/done: the first request runs the operation, a second one joins it.
StartDone(r) ==
    /\ doing[r] = "idle" /\ late[r] = None /\ Room
    /\ reading = None
    /\ snap.number < MaxReads
    /\ reading' = r
    /\ Goto(r, "flags")
    /\ must' = [must EXCEPT ![r] = {Page[s] : s \in answered}]
    /\ UNCHANGED <<bound, events, snap, language, what, ids, late, answered, gone, unmarked>>

JoinDone(r) ==
    /\ doing[r] = "idle" /\ late[r] = None
    /\ reading # None
    /\ Goto(r, "joined")
    /\ UNCHANGED <<bound, events, snap, language, reading, what, ids, late, answered, gone, must, unmarked>>

\* Mutant: a reading that fails stays registered.
KeepReading(r) ==
    /\ reading' = reading
    /\ doing' = [q \in Pours |-> IF q = r \/ doing[q] = "joined" THEN "idle" ELSE doing[q]]
    /\ ids' = [ids EXCEPT ![r] = {}]
    /\ must' = [must EXCEPT ![r] = {}]

\* The operation ends, however it ends, and with it every request that joined.
EndReading(r) ==
    /\ reading' = None
    /\ doing' = [q \in Pours |-> IF q = r \/ doing[q] = "joined" THEN "idle" ELSE doing[q]]
    /\ ids' = [ids EXCEPT ![r] = {}]
    /\ must' = [must EXCEPT ![r] = {}]

\* A re-read fetches every listed website live first.
ReadFlags(r) ==
    /\ doing[r] = "flags"
    /\ \E again \in DoneSeen :
          /\ ids' = [ids EXCEPT ![r] = IF again THEN {s \in Listed : ListedType(s) = "website"} ELSE {}]
          /\ gone' = IF again THEN {t \in gone : \A s \in Listed : Page[s] # Page[t]} ELSE gone
    /\ Goto(r, "refetch")
    /\ UNCHANGED <<bound, events, snap, language, reading, what, late, answered, must, unmarked>>

\* One of them arrives and binds its pages, or cannot be read: a description never can.
Refetch(r, s) ==
    /\ doing[r] = "refetch"
    /\ s \in ids[r]
    /\ ids' = [ids EXCEPT ![r] = @ \ {s}]
    /\ bound' \in {bound} \cup {bound \cup {Page[t]} : t \in {s} \cap {u \in Sources : Type[u] = "website"}}
    /\ UNCHANGED <<events, snap, language, reading, doing, what, late, answered, gone, must, unmarked>>

\* bridgePourIn reads everything that is bound; with nothing to read it ends.
ReadBound(r) ==
    /\ doing[r] = "refetch" /\ ids[r] = {}
    /\ \/ bound = {} /\ EndReading(r)
       \/ /\ bound # {}
          /\ ids' = [ids EXCEPT ![r] = bound]
          /\ Goto(r, "language") /\ UNCHANGED <<reading, must>>
    /\ UNCHANGED <<bound, events, snap, language, what, late, answered, gone, unmarked>>

\* setIfUnset: the material's language, unless one is stored or the statement fails.
SetIfUnset(l) == language' \in {language, IF language = None THEN l ELSE language}

\* decideContentLanguage: the stored language, else the material's, if it shows one.
DecideLanguage(r) ==
    /\ doing[r] = "language"
    /\ IF language = None THEN \E l \in Languages \cup {None} : SetIfUnset(l) ELSE UNCHANGED language
    /\ Goto(r, "synthesize")
    /\ UNCHANGED <<bound, events, snap, reading, what, ids, late, answered, gone, must, unmarked>>

\* The model answers, and the language it detects decides if none is stored yet; or it throws.
Synthesize(r) ==
    /\ doing[r] = "synthesize"
    /\ \/ /\ Goto(r, "save") /\ UNCHANGED <<reading, ids, must>>
          /\ \E l \in Languages \cup {None} : SetIfUnset(l)
       \/ EndReading(r) /\ UNCHANGED language
    /\ UNCHANGED <<bound, events, snap, what, late, answered, gone, unmarked>>

\* Save the understanding and its Aha, or fail at it.
SaveUnderstanding(r) ==
    /\ doing[r] = "save"
    /\ \/ /\ snap' = [number |-> snap.number + 1, read |-> ids[r], at |-> Len(events)]
          /\ Goto(r, "flag") /\ UNCHANGED <<reading, ids, must>>
       \/ UNCHANGED snap /\ EndReading(r)
    /\ UNCHANGED <<bound, events, language, what, late, answered, gone, unmarked>>

\* The first reading is marked done, a later one reopens the founder's review: but it is marked done
\* once more when the flags could not be read.
MarkRead(r) ==
    /\ doing[r] = "flag"
    /\ \E again \in DoneSeen :
          /\ RecordEvent([kind |-> IF again THEN "reopened" ELSE "done"])
          /\ unmarked' = (events' = events \/ again # PourInDone)
    /\ EndReading(r)
    /\ UNCHANGED <<bound, snap, language, what, late, answered, gone>>

-----------------------------------------------------------------------------
\* POST /arc/understanding/confirm, offered once the pour-in is done: nothing in it says which
\* understanding was shown.
Confirm ==
    /\ Room
    /\ PourInDone
    /\ events' = Append(events, [kind |-> "confirmed"])
    /\ UNCHANGED <<bound, snap, language, reading, doing, what, ids, late, answered, gone, must, unmarked>>

\* The process dies: requests, joined requests and unwritten events are gone.
Crash ==
    /\ \E r \in Pours : doing[r] # "idle" \/ late[r] # None
    /\ reading' = None
    /\ doing' = [r \in Pours |-> "idle"]
    /\ late' = [r \in Pours |-> None]
    /\ what' = [r \in Pours |-> None]
    /\ ids' = [r \in Pours |-> {}]
    /\ must' = [r \in Pours |-> {}]
    /\ unmarked' = (unmarked \/ \E r \in Pours : doing[r] = "flag")
    /\ gone' = gone \ {what[r] : r \in {q \in Pours : doing[q] = "unbind"}}
    /\ UNCHANGED <<bound, events, snap, language, answered>>

ReadingStep(r) ==
    \/ ReadFlags(r) \/ \E s \in Sources : Refetch(r, s)
    \/ ReadBound(r) \/ DecideLanguage(r) \/ Synthesize(r) \/ SaveUnderstanding(r) \/ MarkRead(r)

PourNext ==
    \/ \E r \in Pours :
          \/ \E s \in Sources : StartAdd(r, s) \/ StartRemove(r, s)
          \/ Fetched(r) \/ Bind(r) \/ MarkAdded(r) \/ AddedEvent(r)
          \/ ListBound(r) \/ Unbind(r) \/ MarkRemoved(r)
          \/ StartDone(r) \/ JoinDone(r)
          \/ ReadingStep(r)
    \/ Confirm
    \/ Crash

PourSpec == PourInit /\ [][PourNext]_pourVars

\* The process keeps running the operation it has started; fetches and model calls time out.
PourFairness == \A r \in Pours : WF_pourVars(ReadingStep(r))

PourFairSpec == PourSpec /\ PourFairness

-----------------------------------------------------------------------------
\* Past the review the founder has confirmed the latest understanding or a later screen, never
\* an older one: except where the event that reopens the review was itself lost or not written as one.
ConfirmCoversLatest ==
    Confirmed /\ ~unmarked /\ (\A r \in Pours : doing[r] # "flag") => LastOf("confirmed") > snap.at

\* The arc leaves the pour-in only when there is an understanding to show.
DoneMeansUnderstood == PourInDone => snap.number > 0 /\ snap.read # {}

\* A reading finds, and then contains, every source whose addition was answered before it
\* started and that nobody has started to remove.
AnsweredSourceIsRead ==
    \A r \in Pours :
        /\ doing[r] \in {"flags", "refetch"} => must[r] \subseteq bound
        /\ doing[r] \in {"language", "synthesize", "save"} => must[r] \subseteq ids[r]

\* Once a removal has unlinked a source, and until something fetches its page again, the page
\* stays out of the business.
RemovedIsUnbound ==
    \A s \in gone : Type[s] # "description" =>
        Page[s] \notin bound \/ \E r \in Pours : doing[r] = "unbind" /\ Page[s] \in ids[r]

\* One reading of a business at a time, and it is the registered one.
OneReading ==
    \A r \in Pours :
        doing[r] \in {"flags", "refetch", "language", "synthesize", "save", "flag"} => reading = r

\* The state of a pour-in between any two steps of its requests.
PourInv ==
    /\ PourTypeOK
    /\ ConfirmCoversLatest
    /\ DoneMeansUnderstood
    /\ AnsweredSourceIsRead
    /\ RemovedIsUnbound
    /\ OneReading

\* A started reading ends, so that the arc does not answer "pending" for ever.
ReadingEnds == reading # None ~> reading = None

\* What unlinkPourInSource promises, of every type of source: refuted.
RemovedSourceIsUnbound ==
    \A s \in gone : Page[s] \notin bound \/ \E r \in Pours : doing[r] = "unbind"
=============================================================================
