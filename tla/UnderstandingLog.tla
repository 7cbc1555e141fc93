-------------------------- MODULE UnderstandingLog --------------------------
(***************************************************************************)
(* The append-only logs of one business: claims, recognition events,       *)
(* presentations, snapshot reviews and founder declarations.  Their five   *)
(* services and repositories run one protocol; the variable log says which *)
(* of them a behaviour is about.                                           *)
(*                                                                         *)
(* A request runs one transaction (READ COMMITTED): look the client event  *)
(* up, check what the record refers to, mint an id, lock the counter row   *)
(* of the business (SELECT ... FOR UPDATE), look again, insert the record  *)
(* with the next number, commit.  An insert is visible to others when it   *)
(* commits, and the counter row stays locked until then.                   *)
(***************************************************************************)
EXTENDS Naturals, FiniteSets

CONSTANTS Requests,        \* transactions of clients; a retry is a request of its own
          Clients,         \* client event ids
          NoClient,        \* a claim appended as an entity has none
          Intents,         \* immutable content of a record, with what it refers to
          Ids,             \* ids the server mints, or an entity brings
          NoId,
          Nobody,          \* the counter row is not locked
          ClaimIdAttempts  \* MAX_ID_ATTEMPTS of the claim log

ASSUME LogAssumption ==
    /\ Intents # {}
    /\ NoClient \notin Clients
    /\ NoId \notin Ids
    /\ Nobody \notin Requests
    /\ ClaimIdAttempts \in Nat \ {0}

VARIABLES log,      \* which of the five logs
          rows,     \* committed records
          counter,  \* <log>_seq.seq
          holder,   \* the transaction that locks the counter row
          targets,  \* the intents whose snapshot and statement exist
          phase,    \* progress of each request
          cmd,      \* its client event and intent
          id,       \* the id it has minted
          seen,     \* the counter it has read under the lock
          tries,    \* ids it has tried
          answer    \* what it told its client

logVars == <<log, rows, counter, holder, targets, phase, cmd, id, seen, tries, answer>>

Logs == {"claim", "recognition", "presentation", "review", "declaration"}

\* The logs whose records refer to a snapshot, and a statement of it.
Referring == {"recognition", "presentation", "review"}

Command == [client : Clients \cup {NoClient}, intent : Intents]
Row     == [seq : Nat \ {0}, id : Ids, client : Clients \cup {NoClient}, intent : Intents]
Phases  == {"idle", "begun", "fresh", "locked", "checked", "written", "done"}
Open    == Phases \ {"idle", "done"}
Answers == {"none", "created", "replayed", "client_conflict", "id_conflict",
            "not_found", "failed", "lost"}

LogTypeOK ==
    /\ log \in Logs
    /\ rows \subseteq Row
    /\ counter \in Nat
    /\ holder \in Requests \cup {Nobody}
    /\ targets \subseteq Intents
    /\ phase \in [Requests -> Phases]
    /\ cmd \in [Requests -> Command]
    /\ id \in [Requests -> Ids \cup {NoId}]
    /\ seen \in [Requests -> Nat]
    /\ tries \in [Requests -> Nat]
    /\ answer \in [Requests -> Answers]

LogInit ==
    /\ log \in Logs
    /\ rows = {} /\ counter = 0 /\ holder = Nobody /\ targets = {}
    /\ phase = [r \in Requests |-> "idle"]
    /\ cmd = [r \in Requests |-> [client |-> NoClient, intent |-> CHOOSE i \in Intents : TRUE]]
    /\ id = [r \in Requests |-> NoId]
    /\ seen = [r \in Requests |-> 0]
    /\ tries = [r \in Requests |-> 0]
    /\ answer = [r \in Requests |-> "none"]

-----------------------------------------------------------------------------
\* The committed record of request r's client event.
OfClient(r) == {e \in rows : cmd[r].client # NoClient /\ e.client = cmd[r].client}

\* The committed record under the id that r has minted.
OfId(r) == {e \in rows : e.id = id[r]}

SameIntent(e, r) == e.intent = cmd[r].intent

\* Same content under the same id: the client event is part of it, except on the entity path.
SameRecord(e, r) == SameIntent(e, r) /\ (cmd[r].client # NoClient => e.client = cmd[r].client)

MaxIdAttempts == IF log = "claim" THEN ClaimIdAttempts ELSE 1

Finish(r, a) ==
    /\ phase' = [phase EXCEPT ![r] = "done"]
    /\ answer' = [answer EXCEPT ![r] = a]
    /\ holder' = IF holder = r THEN Nobody ELSE holder
    /\ UNCHANGED <<log, targets, cmd, id, seen, tries>>

-----------------------------------------------------------------------------
\* A client sends an event: the command path.
Begin(r, c, i) ==
    /\ phase[r] = "idle"
    /\ phase' = [phase EXCEPT ![r] = "begun"]
    /\ cmd' = [cmd EXCEPT ![r] = [client |-> c, intent |-> i]]
    /\ UNCHANGED <<log, rows, counter, holder, targets, id, seen, tries, answer>>

\* Another part of the system appends an entity that brings its id.  A claim has no client
\* event then, a review and a declaration use their id, a recognition carries its own.
AppendEntity(r, c, d, i) ==
    /\ phase[r] = "idle"
    /\ log # "presentation"
    /\ c = CASE log = "claim" -> NoClient
             [] log = "recognition" -> c
             [] OTHER -> d
    /\ c \in Clients \/ log = "claim"
    /\ phase' = [phase EXCEPT ![r] = "fresh"]
    /\ cmd' = [cmd EXCEPT ![r] = [client |-> c, intent |-> i]]
    /\ id' = [id EXCEPT ![r] = d]
    /\ tries' = [tries EXCEPT ![r] = MaxIdAttempts]
    /\ UNCHANGED <<log, rows, counter, holder, targets, seen, answer>>

\* The first look, before anything is minted: the event is there already.
FindPrior(r) ==
    /\ phase[r] = "begun"
    /\ \E e \in OfClient(r) :
          Finish(r, IF SameIntent(e, r) THEN "replayed" ELSE "client_conflict")
    /\ UNCHANGED <<rows, counter>>

\* The event is new, but what it refers to does not exist.
FindNoTarget(r) ==
    /\ phase[r] = "begun"
    /\ OfClient(r) = {}
    /\ log \in Referring /\ cmd[r].intent \notin targets
    /\ Finish(r, "not_found")
    /\ UNCHANGED <<rows, counter>>

\* The event is new: mint an id.
Mint(r, d) ==
    /\ phase[r] = "begun"
    /\ OfClient(r) = {}
    /\ log \in Referring => cmd[r].intent \in targets
    /\ phase' = [phase EXCEPT ![r] = "fresh"]
    /\ id' = [id EXCEPT ![r] = d]
    /\ tries' = [tries EXCEPT ![r] = 1]
    /\ UNCHANGED <<log, rows, counter, holder, targets, cmd, seen, answer>>

\* Lock the counter row of the business and read it.  The claim log's next attempt locks the
\* row its own transaction holds already, and reads the same number.
LockSeq(r) ==
    /\ phase[r] = "fresh"
    /\ holder \in {Nobody, r}
    /\ holder' = r
    /\ seen' = [seen EXCEPT ![r] = counter]
    /\ phase' = [phase EXCEPT ![r] = "locked"]
    /\ UNCHANGED <<log, rows, counter, targets, cmd, id, tries, answer>>

\* The second look, under the lock, finds the event of a concurrent winner.
RecheckFindsClient(r) ==
    /\ phase[r] = "locked"
    /\ \E e \in OfClient(r) :
          Finish(r, IF SameIntent(e, r) THEN "replayed" ELSE "client_conflict")
    /\ UNCHANGED <<rows, counter>>

\* Mutant: no second look.
NoSecondLook(r) ==
    /\ phase[r] = "locked"
    /\ phase' = [phase EXCEPT ![r] = "checked"]
    /\ UNCHANGED <<log, rows, counter, holder, targets, cmd, id, seen, tries, answer>>

RecheckFindsNone(r) ==
    /\ phase[r] = "locked"
    /\ OfClient(r) = {}
    /\ phase' = [phase EXCEPT ![r] = "checked"]
    /\ UNCHANGED <<log, rows, counter, holder, targets, cmd, id, seen, tries, answer>>

\* Mutant: a taken id is tried again without a limit.
RetryForEver(r) ==
    /\ phase[r] = "checked"
    /\ \E e \in OfId(r) : ~SameRecord(e, r)
    /\ \E d \in Ids : id' = [id EXCEPT ![r] = d]
    /\ phase' = [phase EXCEPT ![r] = "fresh"]
    /\ UNCHANGED <<log, rows, counter, holder, targets, cmd, seen, tries, answer>>

\* The id is taken: the same entity, a new id to try, or an internal error.
IdTaken(r) ==
    /\ phase[r] = "checked"
    /\ \E e \in OfId(r) :
          \/ SameRecord(e, r) /\ Finish(r, "replayed")
          \/ ~SameRecord(e, r) /\ tries[r] >= MaxIdAttempts /\ Finish(r, "id_conflict")
          \/ /\ ~SameRecord(e, r) /\ tries[r] < MaxIdAttempts
             /\ \E d \in Ids : id' = [id EXCEPT ![r] = d]
             /\ tries' = [tries EXCEPT ![r] = @ + 1]
             /\ phase' = [phase EXCEPT ![r] = "fresh"]
             /\ UNCHANGED <<log, holder, targets, cmd, seen, answer>>
    /\ UNCHANGED <<rows, counter>>

\* Mutant: the counter row is unlocked before the transaction commits.
UnlockedBeforeCommit(r) ==
    /\ phase[r] = "checked"
    /\ OfId(r) = {}
    /\ phase' = [phase EXCEPT ![r] = "written"]
    /\ holder' = Nobody
    /\ UNCHANGED <<log, rows, counter, targets, cmd, id, seen, tries, answer>>

\* Insert the record with the next number; nobody else sees it yet.
InsertRow(r) ==
    /\ phase[r] = "checked"
    /\ OfId(r) = {}
    /\ phase' = [phase EXCEPT ![r] = "written"]
    /\ UNCHANGED <<log, rows, counter, holder, targets, cmd, id, seen, tries, answer>>

\* The transaction commits: record and counter become visible at once, the row is unlocked.
\* The client may still hear of a failure: the connection breaks, or an event sink throws.
CommitAppend(r) ==
    /\ phase[r] = "written"
    /\ rows' = rows \cup {[seq |-> seen[r] + 1, id |-> id[r],
                           client |-> cmd[r].client, intent |-> cmd[r].intent]}
    /\ counter' = seen[r] + 1
    /\ \E a \in {"created", "lost"} : Finish(r, a)

\* A statement fails, or the process or the connection dies: the transaction rolls back.
RollBack(r) ==
    /\ phase[r] \in Open
    /\ Finish(r, "failed")
    /\ UNCHANGED <<rows, counter>>

\* Another transaction commits the snapshot an intent refers to.
TargetAppears(i) ==
    /\ log \in Referring
    /\ i \notin targets
    /\ targets' = targets \cup {i}
    /\ UNCHANGED <<log, rows, counter, holder, phase, cmd, id, seen, tries, answer>>

Progress(r) ==
    \/ FindPrior(r) \/ FindNoTarget(r) \/ \E d \in Ids : Mint(r, d)
    \/ RecheckFindsClient(r) \/ RecheckFindsNone(r) \/ IdTaken(r)
    \/ InsertRow(r) \/ CommitAppend(r)

LogNext ==
    \/ \E r \in Requests :
          \/ \E c \in Clients, i \in Intents : Begin(r, c, i)
          \/ \E c \in Clients \cup {NoClient}, d \in Ids, i \in Intents : AppendEntity(r, c, d, i)
          \/ LockSeq(r)
          \/ Progress(r)
          \/ RollBack(r)
    \/ \E i \in Intents : TargetAppears(i)

LogSpec == LogInit /\ [][LogNext]_logVars

\* A running transaction takes its next step, and a lock that stays free is granted: each request
\* is one transaction, so the lock is not given away for ever.
LogFairness ==
    \A r \in Requests : WF_logVars(Progress(r)) /\ WF_logVars(LockSeq(r))

LogFairSpec == LogSpec /\ LogFairness

-----------------------------------------------------------------------------
\* A client's event is recorded once, whatever retries race each other: no two records
\* carry one client event id, nor one record id.
RecordedOnce ==
    \A e, f \in rows : e # f => e.id # f.id /\ (e.client = f.client => e.client = NoClient)

\* The committed records are numbered 1..counter without a gap, so a reader that has seen
\* number n has seen everything that was appended before it and later readers add only above.
NumberedWithoutGap ==
    /\ {e.seq : e \in rows} = 1..counter
    /\ \A e, f \in rows : e.seq = f.seq => e = f

\* What a client is told is so: a created or replayed event is on record with the content it
\* sent, and a conflict is told only when its event id stands for other content.
AnswerIsTrue ==
    \A r \in Requests :
        /\ answer[r] \in {"created", "replayed"} =>
              \E e \in rows : /\ e.intent = cmd[r].intent
                              /\ cmd[r].client # NoClient => e.client = cmd[r].client
        /\ answer[r] = "client_conflict" =>
              \E e \in rows : e.client = cmd[r].client /\ e.intent # cmd[r].intent

\* Two clients are never both told that they created the record of one event.
OneCreator ==
    \A r, s \in Requests :
        r # s /\ answer[r] = "created" /\ answer[s] = "created" =>
            cmd[r].client # cmd[s].client \/ cmd[r].client = NoClient

\* What holds of a log after every step, whatever requests race.
LogInv ==
    /\ LogTypeOK
    /\ RecordedOnce
    /\ NumberedWithoutGap
    /\ AnswerIsTrue
    /\ OneCreator

\* The log only grows, by one record a step, and the log promises what RecordLedger states.
Ledger == INSTANCE RecordLedger WITH ledger <- rows, size <- counter
LogIsLedger == Ledger!LedgerSpec

\* Every request is answered: waiting transactions get the lock, and no sequence of taken
\* ids keeps one busy for ever.
EveryRequestIsAnswered ==
    \A r \in Requests : phase[r] \in Open ~> phase[r] = "done"
=============================================================================
