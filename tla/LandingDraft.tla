----------------------------- MODULE LandingDraft -----------------------------
(***************************************************************************)
(* The landing page of one move of the plan.  The first view writes it, in *)
(* the request; the founder then accepts it, edits a section or has one    *)
(* rewritten.  Every write is an insert into workspace.move_draft, whose   *)
(* primary key is the draft's id; the latest row is the draft.  The move    *)
(* has a plan version, which the row refers to.                            *)
(***************************************************************************)
EXTENDS Naturals, Sequences

CONSTANTS Visits,   \* concurrent requests
          MaxRows   \* bound: drafts written

MaxRepairs == 2

ASSUME LandingAssumption == MaxRows \in Nat

VARIABLES pages,    \* rows of move_draft in the order of their insertion
          produced,    \* productions started: the order of produced_at
          visit,    \* next step of each request
          draft,    \* the draft in its hands
          shownRow, \* history: the row views last answered with; 0: none
          swapped,  \* history: a later view was answered with another row
          crossed,  \* history: a row was inserted by a view that had found none, after another
          refused   \* history: a request was answered with an error the code does not name

landingVars == <<pages, produced, visit, draft, shownRow, swapped, crossed, refused>>

Statuses == {"drafted", "edited", "accepted", "blocked"}
LandingPage == [id : Nat, version : Nat, status : Statuses, clean : BOOLEAN, at : Nat]
NoDraft == [base |-> 0, clean |-> FALSE, repairs |-> 0, at |-> 0]

LandingTypeOK ==
    /\ pages \in Seq(LandingPage) /\ Len(pages) <= MaxRows
    /\ produced \in Nat
    /\ visit \in [Visits -> {"idle", "view", "gate", "reopen", "regate"}]
    /\ draft \in [Visits -> [base : 0..MaxRows, clean : BOOLEAN, repairs : 0..MaxRepairs, at : Nat]]
    /\ shownRow \in 0..MaxRows
    /\ swapped \in BOOLEAN /\ crossed \in BOOLEAN /\ refused \in BOOLEAN

LandingInit ==
    /\ pages = <<>> /\ produced = 0
    /\ visit = [r \in Visits |-> "idle"]
    /\ draft = [r \in Visits |-> NoDraft]
    /\ shownRow = 0 /\ swapped = FALSE /\ crossed = FALSE /\ refused = FALSE

-----------------------------------------------------------------------------
\* latestForAction: ORDER BY version DESC, produced_at DESC; 0 when there is none.
Latest ==
    LET rows == 1..Len(pages)
        later(i, j) == \/ pages[i].version > pages[j].version
                       \/ pages[i].version = pages[j].version /\ pages[i].at > pages[j].at
    IN  IF rows = {} THEN 0 ELSE CHOOSE i \in rows : \A j \in rows \ {i} : later(i, j)

VisitEnds(r) ==
    /\ visit' = [visit EXCEPT ![r] = "idle"]
    /\ draft' = [draft EXCEPT ![r] = NoDraft]

\* A view is answered with row i.
Shows(i) ==
    /\ shownRow' = i
    /\ swapped' = (swapped \/ shownRow \notin {0, i})

\* The insert: the database refuses a row whose id it has.
Insert(p) ==
    IF \E i \in 1..Len(pages) : pages[i].id = p.id
    THEN refused' = TRUE /\ UNCHANGED pages
    ELSE pages' = Append(pages, p) /\ UNCHANGED refused

-----------------------------------------------------------------------------
\* Mutant: every view writes the page anew.
WriteAlways(r) ==
    /\ visit[r] = "idle" /\ Len(pages) < MaxRows /\ produced < MaxRows
    /\ produced' = produced + 1
    /\ visit' = [visit EXCEPT ![r] = "gate"]
    /\ \E c \in BOOLEAN : draft' = [draft EXCEPT ![r] = [base |-> Latest, clean |-> c, repairs |-> 0, at |-> produced + 1]]
    /\ UNCHANGED <<pages, shownRow, swapped, crossed, refused>>

\* GET: the row there is, or the page is written now if a strategy is adopted.  The draft carries
\* the time its production began.
View(r) ==
    /\ visit[r] = "idle"
    /\ \/ /\ Latest # 0
          /\ Shows(Latest)
          /\ UNCHANGED <<produced, visit, draft>>
       \/ /\ Latest = 0 /\ produced < MaxRows
          /\ produced' = produced + 1
          /\ visit' = [visit EXCEPT ![r] = "gate"]
          /\ \E c \in BOOLEAN :
                draft' = [draft EXCEPT ![r] = [base |-> 0, clean |-> c, repairs |-> 0, at |-> produced + 1]]
          /\ UNCHANGED <<shownRow, swapped>>
    /\ UNCHANGED <<pages, crossed, refused>>

\* A draft that fails its gate is repaired, MAX_REPAIRS times at most, and gated as a whole again.
Repair(r) ==
    /\ visit[r] \in {"gate", "regate"}
    /\ ~draft[r].clean /\ draft[r].repairs < MaxRepairs
    /\ \E c \in BOOLEAN :
          draft' = [draft EXCEPT ![r].clean = c, ![r].repairs = draft[r].repairs + 1]
    /\ UNCHANGED <<pages, produced, visit, shownRow, swapped, crossed, refused>>

\* What is stored of a draft that is not repaired any more.
Outcome(r) == IF draft[r].clean THEN "drafted" ELSE "blocked"

\* The draft is stored, or the blocked outcome without it, and the view is answered with it.
SaveProduced(r) ==
    /\ visit[r] = "gate"
    /\ draft[r].clean \/ draft[r].repairs = MaxRepairs
    /\ Insert([id |-> draft[r].at, version |-> 1, status |-> Outcome(r),
               clean |-> draft[r].clean, at |-> draft[r].at])
    /\ crossed' = (crossed \/ (pages # <<>> /\ draft[r].base = 0))
    /\ Shows(Len(pages) + 1)
    /\ VisitEnds(r)
    /\ UNCHANGED produced

\* The model throws: the view is answered with an error and nothing is stored.
ModelThrows(r) ==
    /\ visit[r] \in {"gate", "regate"}
    /\ VisitEnds(r)
    /\ UNCHANGED <<pages, produced, shownRow, swapped, crossed, refused>>

-----------------------------------------------------------------------------
HasText(i) == i # 0 /\ pages[i].status # "blocked"

\* accept, editSection and rewriteSection read the latest row first.
ReadLatest(r) ==
    /\ visit[r] = "idle" /\ HasText(Latest)
    /\ visit' = [visit EXCEPT ![r] = "reopen"]
    /\ draft' = [draft EXCEPT ![r].base = Latest]
    /\ UNCHANGED <<pages, produced, shownRow, swapped, crossed, refused>>

\* { ...latest, status, version + 1 }: all else is the row's, its id included.
NextPage(i, status, clean) ==
    [pages[i] EXCEPT !.status = status, !.clean = clean, !.version = @ + 1]

AcceptDraft(r) ==
    /\ visit[r] = "reopen" /\ Len(pages) < MaxRows
    /\ IF pages[draft[r].base].status = "accepted"
       THEN UNCHANGED <<pages, refused>>
       ELSE Insert(NextPage(draft[r].base, "accepted", pages[draft[r].base].clean))
    /\ VisitEnds(r)
    /\ UNCHANGED <<produced, shownRow, swapped, crossed>>

\* The founder's own words are not gated.
EditSection(r) ==
    /\ visit[r] = "reopen" /\ Len(pages) < MaxRows
    /\ Insert(NextPage(draft[r].base, "edited", FALSE))
    /\ VisitEnds(r)
    /\ UNCHANGED <<produced, shownRow, swapped, crossed>>

StartRewrite(r) ==
    /\ visit[r] = "reopen"
    /\ visit' = [visit EXCEPT ![r] = "regate"]
    /\ \E c \in BOOLEAN : draft' = [draft EXCEPT ![r].clean = c]
    /\ UNCHANGED <<pages, produced, shownRow, swapped, crossed, refused>>

\* A rewrite that cannot pass the gate is refused and stores nothing.
EndRewrite(r) ==
    /\ visit[r] = "regate" /\ Len(pages) < MaxRows
    /\ draft[r].clean \/ draft[r].repairs = MaxRepairs
    /\ IF draft[r].clean
       THEN Insert(NextPage(draft[r].base, "drafted", TRUE))
       ELSE UNCHANGED <<pages, refused>>
    /\ VisitEnds(r)
    /\ UNCHANGED <<produced, shownRow, swapped, crossed>>

LandingNext ==
    \E r \in Visits :
        \/ View(r) \/ Repair(r) \/ SaveProduced(r) \/ ModelThrows(r)
        \/ ReadLatest(r) \/ AcceptDraft(r) \/ EditSection(r) \/ StartRewrite(r) \/ EndRewrite(r)

LandingSpec == LandingInit /\ [][LandingNext]_landingVars

-----------------------------------------------------------------------------
\* Fail closed: text the model wrote is stored only when the whole page has passed the gate.
StoredIsGated ==
    \A i \in 1..Len(pages) : pages[i].status = "drafted" => pages[i].clean

\* The page a founder has been shown is the page later views show, unless two first views
\* overlapped and each wrote one.
DraftStaysUnlessRaced == swapped => crossed

\* The page a founder reads has passed its gate and stays.
LandingInv ==
    /\ LandingTypeOK
    /\ StoredIsGated
    /\ DraftStaysUnlessRaced

\* Stated by the routes and refuted: a request on a draft is stored, or refused for a reason that
\* is named (no draft, a blocked draft, a rewrite that fails its gate).
RefusalsAreNamed == ~refused
=============================================================================
