---------------------------- MODULE FounderIntake ----------------------------
(***************************************************************************)
(* One founder's row (founder.founders), intake session and seeded memory, *)
(* the commands the API dispatches for them, and the connection pool of    *)
(* the API process they run on.                                            *)
(*                                                                         *)
(* A command runs in one transaction on a connection of its own, and locks *)
(* the founder's row first (SELECT ... FOR UPDATE).  Completing the intake *)
(* also talks to the session and to the memory, by repositories that take  *)
(* a second connection from the same pool and commit at once.  Decisions   *)
(* about content (approve, edit, reject) read their cycle that way too.    *)
(* The pool hands out PoolSize connections and lets everybody else wait,   *)
(* without a time limit.                                                   *)
(***************************************************************************)
EXTENDS Naturals, Sequences, FiniteSets, SequencesExt

CONSTANTS Commands,    \* requests that are sent
          Unlocked,    \* nobody has locked the founder's row
          Questions,   \* questions of the intake; an answer to each seeds its layer of the memory
          PoolSize     \* connections of the API's pool

ASSUME FounderAssumption ==
    /\ Unlocked \notin Commands
    /\ PoolSize \in Nat \ {0}

VARIABLES founderStatus,  \* founders.status
          session,        \* the intake session
          answers,        \* the questions with an answer strong enough to seed from
          memory,         \* the layers seeded from the intake
          announced,      \* the founder's events, in the order of their commits
          rowLock,        \* the command whose transaction has locked the founder's row
          asks,           \* what each command asks for
          reached,        \* how far it has come
          own             \* the status, the answers and the layers its transaction holds

founderVars == <<founderStatus, session, answers, memory, announced, rowLock, asks, reached, own>>

\* What a change of the founder's row requires of its status, and what it becomes.
Requires == [pause       |-> {"CREATED", "INTAKE_PENDING", "ACTIVE", "RECALIBRATING"},
             resume      |-> {"PAUSED"},
             recalibrate |-> {"ACTIVE", "RECALIBRATING"},
             complete    |-> {"INTAKE_PENDING"}]
Becomes  == [pause |-> "PAUSED", resume |-> "ACTIVE", recalibrate |-> "RECALIBRATING",
             complete |-> "ACTIVE"]
Changes  == DOMAIN Becomes

Ask == [kind : Changes \cup {"decide"}, question : {"none"}, strong : {FALSE}]
       \cup [kind : {"answer"}, question : Questions, strong : BOOLEAN]
NoAsk == [kind |-> "decide", question |-> "none", strong |-> FALSE]

InTransaction == {"begun", "locked", "found", "closed", "written"}
Ended         == {"done", "refused", "failed"}

FounderTypeOK ==
    /\ founderStatus \in {"CREATED", "INTAKE_PENDING", "ACTIVE", "RECALIBRATING", "PAUSED"}
    /\ session \in {"none", "active", "expired", "completed"}
    /\ answers \subseteq Questions /\ memory \subseteq Questions
    /\ announced \in Seq(Changes)
    /\ rowLock \in Commands \cup {Unlocked}
    /\ asks \in [Commands -> Ask]
    /\ reached \in [Commands -> {"idle", "sent", "pending", "asked"} \cup InTransaction \cup Ended]
    /\ \A r \in Commands : /\ own[r].status \in {"none"} \cup UNION {Requires[k] : k \in Changes}
                           /\ own[r].answers \subseteq Questions
                           /\ own[r].layers \subseteq Questions

\* An account that has signed up, or a founder whose intake was prepared.
FounderInit ==
    /\ \/ founderStatus = "CREATED" /\ session = "none"
       \/ founderStatus = "INTAKE_PENDING" /\ session = "active"
    /\ answers = {} /\ memory = {} /\ announced = <<>>
    /\ rowLock = Unlocked
    /\ asks = [r \in Commands |-> NoAsk]
    /\ reached = [r \in Commands |-> "idle"]
    /\ own = [r \in Commands |-> [status |-> "none", answers |-> {}, layers |-> {}]]

-----------------------------------------------------------------------------
Transactions == {r \in Commands : reached[r] \in InTransaction}

\* A connection is left: a transaction can begin, or one statement can run beside those that have.
FreeConnection == Cardinality(Transactions) < PoolSize

Moves(r, p) == reached' = [reached EXCEPT ![r] = p]

\* The transaction ends, by COMMIT or by ROLLBACK: its connection and its lock are free.
EndTx(r, p) ==
    /\ Moves(r, p)
    /\ rowLock' = IF rowLock = r THEN Unlocked ELSE rowLock
    /\ UNCHANGED <<asks, own>>

Send(r, a) ==
    /\ reached[r] = "idle"
    /\ asks' = [asks EXCEPT ![r] = a]
    /\ Moves(r, "sent")
    /\ UNCHANGED <<founderStatus, session, answers, memory, announced, rowLock, own>>

BeginTx(r) ==
    /\ reached[r] = "sent" /\ asks[r].kind # "answer"
    /\ FreeConnection
    /\ Moves(r, "begun")
    /\ UNCHANGED <<founderStatus, session, answers, memory, announced, rowLock, asks, own>>

\* Mutant: the founder is read without FOR UPDATE.
ReadFounder(r) ==
    /\ reached[r] = "begun" /\ asks[r].kind \in Changes
    /\ own' = [own EXCEPT ![r].status = founderStatus]
    /\ Moves(r, "locked")
    /\ UNCHANGED <<founderStatus, session, answers, memory, announced, rowLock, asks>>

LockFounderRow(r) ==
    /\ reached[r] = "begun" /\ asks[r].kind \in Changes
    /\ rowLock = Unlocked
    /\ rowLock' = r
    /\ own' = [own EXCEPT ![r].status = founderStatus]
    /\ Moves(r, "locked")
    /\ UNCHANGED <<founderStatus, session, answers, memory, announced, asks>>

\* Mutant: the answer is given and the transaction left open.
RefuseInTx(r) ==
    /\ reached[r] = (IF asks[r].kind = "complete" THEN "found" ELSE "locked")
    /\ own[r].status \notin Requires[asks[r].kind]
    /\ Moves(r, "refused")
    /\ UNCHANGED <<founderStatus, session, answers, memory, announced, rowLock, asks, own>>

\* The founder is not in a state for it.  (Completing looks for a session before.)
RefuseCommand(r) ==
    /\ reached[r] = (IF asks[r].kind = "complete" THEN "found" ELSE "locked")
    /\ own[r].status \notin Requires[asks[r].kind]
    /\ EndTx(r, "refused")
    /\ UNCHANGED <<founderStatus, session, answers, memory, announced>>

\* pause, resume, triggerRecalibration, and the save of the row.
ChangeStatus(r) ==
    /\ reached[r] = "locked" /\ asks[r].kind \in Changes \ {"complete"}
    /\ own[r].status \in Requires[asks[r].kind]
    /\ own' = [own EXCEPT ![r].status = Becomes[asks[r].kind]]
    /\ Moves(r, "written")
    /\ UNCHANGED <<founderStatus, session, answers, memory, announced, rowLock, asks>>

\* Completing reads the session and its answers on a second connection.
FindSession(r) ==
    /\ reached[r] = "locked" /\ asks[r].kind = "complete"
    /\ FreeConnection
    /\ IF session = "active"
       THEN /\ own' = [own EXCEPT ![r].answers = answers]
            /\ Moves(r, "found")
            /\ UNCHANGED <<rowLock, asks>>
       ELSE EndTx(r, "refused")
    /\ UNCHANGED <<founderStatus, session, answers, memory, announced>>

\* The session is marked on a second connection, which commits at once.
MarkCompleted(r) ==
    /\ reached[r] = "found"
    /\ own[r].status \in Requires[asks[r].kind]
    /\ FreeConnection
    /\ session' = "completed"
    /\ Moves(r, "closed")
    /\ UNCHANGED <<founderStatus, answers, memory, announced, rowLock, asks, own>>

\* Mutant: the layers are written on the second connection, too.
SeedBeside(r) ==
    /\ reached[r] = "closed"
    /\ own[r].answers # {} => FreeConnection
    /\ own' = [own EXCEPT ![r].status = Becomes["complete"]]
    /\ memory' = memory \cup own[r].answers
    /\ Moves(r, "written")
    /\ UNCHANGED <<founderStatus, session, answers, announced, rowLock, asks>>

\* The founder is saved and every layer with a strong answer is looked up, on a second
\* connection, and written unless the intake has seeded it before.
SeedMemory(r) ==
    /\ reached[r] = "closed"
    /\ own[r].answers # {} => FreeConnection
    /\ own' = [own EXCEPT ![r].status = Becomes["complete"],
                          ![r].layers = own[r].answers \ memory]
    /\ Moves(r, "written")
    /\ UNCHANGED <<founderStatus, session, answers, memory, announced, rowLock, asks>>

\* The row, the layers and the event become visible at once.
CommitChange(r) ==
    /\ reached[r] = "written" /\ asks[r].kind \in Changes
    /\ founderStatus' = own[r].status
    /\ memory' = memory \cup own[r].layers
    /\ announced' = Append(announced, asks[r].kind)
    /\ EndTx(r, "done")
    /\ UNCHANGED <<session, answers>>

\* Approve, edit or reject content: the cycle is read on a second connection.
ReadCycleApart(r) ==
    /\ reached[r] = "begun" /\ asks[r].kind = "decide"
    /\ FreeConnection
    /\ EndTx(r, "done")
    /\ UNCHANGED <<founderStatus, session, answers, memory, announced>>

\* A statement fails or the connection breaks: what the transaction holds is rolled back, what
\* was committed beside it stays.
CommandFails(r) ==
    /\ reached[r] \in InTransaction
    /\ EndTx(r, "failed")
    /\ UNCHANGED <<founderStatus, session, answers, memory, announced>>

-----------------------------------------------------------------------------
\* An answer of the intake: three statements, each on a connection of its own, without a
\* transaction and without the lock.
CheckPending(r) ==
    /\ reached[r] = "sent" /\ asks[r].kind = "answer"
    /\ FreeConnection
    /\ Moves(r, IF founderStatus = "INTAKE_PENDING" THEN "pending" ELSE "refused")
    /\ UNCHANGED <<founderStatus, session, answers, memory, announced, rowLock, asks, own>>

FindOpenSession(r) ==
    /\ reached[r] = "pending"
    /\ FreeConnection
    /\ Moves(r, IF session = "active" THEN "asked" ELSE "refused")
    /\ UNCHANGED <<founderStatus, session, answers, memory, announced, rowLock, asks, own>>

UpsertSignal(r) ==
    /\ reached[r] = "asked"
    /\ FreeConnection
    /\ answers' = IF asks[r].strong THEN answers \cup {asks[r].question}
                                    ELSE answers \ {asks[r].question}
    /\ Moves(r, "done")
    /\ UNCHANGED <<founderStatus, session, memory, announced, rowLock, asks, own>>

\* The time of the session runs out.
SessionExpires ==
    /\ session = "active"
    /\ session' = "expired"
    /\ UNCHANGED <<founderStatus, answers, memory, announced, rowLock, asks, reached, own>>

CommandStep(r) ==
    \/ BeginTx(r) \/ LockFounderRow(r) \/ RefuseCommand(r) \/ ChangeStatus(r)
    \/ FindSession(r) \/ MarkCompleted(r) \/ SeedMemory(r) \/ CommitChange(r)
    \/ ReadCycleApart(r)
    \/ CheckPending(r) \/ FindOpenSession(r) \/ UpsertSignal(r)

FounderNext ==
    \/ \E r \in Commands :
          \/ \E a \in Ask : Send(r, a)
          \/ CommandStep(r)
          \/ CommandFails(r)
    \/ SessionExpires

FounderSpec == FounderInit /\ [][FounderNext]_founderVars

\* A command that can go on does, once a connection and the row are free for it.
FounderFairSpec == FounderSpec /\ \A r \in Commands : WF_founderVars(CommandStep(r))

-----------------------------------------------------------------------------
\* The founder's row is what the events say that projections and subscribers are told, each of
\* them follows lawfully on the one before: no command saves over what another has changed, so
\* a pause ends by a resume only, and an intake is completed once.
StatusIsAnnounced ==
    LET After(i) == IF i = 0 THEN {"CREATED", "INTAKE_PENDING"} ELSE {Becomes[announced[i]]}
    IN  /\ founderStatus \in After(Len(announced))
        /\ \A i \in 1..Len(announced) : After(i - 1) \cap Requires[announced[i]] # {}
        /\ Cardinality({i \in 1..Len(announced) : announced[i] = "complete"}) <= 1

\* What the memory was seeded with comes from an announced intake, whose session is closed: it is
\* not answered, and not seeded, a second time.
SeededByClosedIntake ==
    /\ memory # {} => "complete" \in ToSet(announced)
    /\ "complete" \in ToSet(announced) => session = "completed"

\* Between all these steps the founder is one on whom commands act one at a time.
Lawful == INSTANCE LawfulFounder
          WITH Kinds <- Changes, Admits <- Requires, LeadsTo <- Becomes, Layers <- Questions,
               status <- founderStatus, told <- announced, seeded <- memory
CommandsActOneAtATime == Lawful!LawfulSpec

\* What holds of the founder's rows after every step, whatever commands meet.
FounderInv ==
    /\ FounderTypeOK
    /\ StatusIsAnnounced
    /\ SeededByClosedIntake
    /\ rowLock # Unlocked => rowLock \in Transactions

\* Commands stay without an answer in one way only: the pool stays drained for ever, each
\* connection held by a transaction that waits for a second one, or for the row of one that does.
CommandsAreAnswered ==
    []<>(Cardinality(Transactions) < PoolSize) =>
        \A r \in Commands : reached[r] = "sent" ~> reached[r] \in Ended
==============================================================================
