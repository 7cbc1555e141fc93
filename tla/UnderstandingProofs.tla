------------------------- MODULE UnderstandingProofs -------------------------
(***************************************************************************)
(* The safety of what the product understands of a business: the append-   *)
(* only logs, and the sources a founder pours in and their reading.        *)
(***************************************************************************)
EXTENDS UnderstandingLog, PourIn, SequenceTheorems, TLAPS

(***************************************************************************)
(* For every set of requests, clients and ids: the append-only logs record *)
(* each client event once, number the records without a gap, and tell      *)
(* clients the truth; the log implements RecordLedger.                     *)
(***************************************************************************)

USE LogAssumption DEF LogAssumption

\* Whoever is past the lock holds the counter row, and has read the counter as it is.
LockOwner ==
    \A r \in Requests :
        phase[r] \in {"locked", "checked", "written"} => holder = r /\ seen[r] = counter

\* What a request has looked up under the lock stays so until it commits.
LookupHolds ==
    \A r \in Requests :
        /\ phase[r] \in {"fresh", "locked", "checked", "written"} => id[r] \in Ids
        /\ phase[r] \in {"checked", "written"} => OfClient(r) = {}
        /\ phase[r] = "written" => OfId(r) = {}

\* Nobody is answered before the transaction has ended.
SilentUntilDone == \A r \in Requests : phase[r] # "done" => answer[r] = "none"

LogIInv ==
    /\ LogTypeOK
    /\ LockOwner
    /\ LookupHolds
    /\ SilentUntilDone
    /\ RecordedOnce
    /\ NumberedWithoutGap
    /\ AnswerIsTrue
    /\ OneCreator

-----------------------------------------------------------------------------
LEMMA LogInitOK == LogInit => LogIInv
<1> SUFFICES ASSUME LogInit PROVE LogIInv
  OBVIOUS
<1>1. (CHOOSE i \in Intents : TRUE) \in Intents
  OBVIOUS
<1>2. [client |-> NoClient, intent |-> CHOOSE i \in Intents : TRUE] \in Command
  BY <1>1 DEF Command
<1>3. LogTypeOK
  BY <1>2 DEF LogInit, LogTypeOK, Phases, Answers
<1>4. LockOwner /\ LookupHolds /\ SilentUntilDone
  BY DEF LogInit, LockOwner, LookupHolds, SilentUntilDone
<1>5. RecordedOnce /\ AnswerIsTrue /\ OneCreator
  BY DEF LogInit, RecordedOnce, AnswerIsTrue, OneCreator
<1>6. NumberedWithoutGap
  BY DEF LogInit, NumberedWithoutGap
<1> QED BY <1>3, <1>4, <1>5, <1>6 DEF LogIInv

-----------------------------------------------------------------------------
\* A request moves on within its transaction: nothing is recorded and nobody is answered.
LEMMA MovesKeep ==
    ASSUME LogIInv, LogTypeOK', NEW r \in Requests,
           UNCHANGED <<rows, counter, answer>>,
           phase[r] # "done",
           \A s \in Requests \ {r} : /\ phase'[s] = phase[s] /\ cmd'[s] = cmd[s]
                                     /\ id'[s] = id[s] /\ seen'[s] = seen[s]
                                     /\ holder = s => holder' = s,
           phase'[r] \in {"locked", "checked", "written"} => holder' = r /\ seen'[r] = counter,
           phase'[r] \in {"fresh", "locked", "checked", "written"} => id'[r] \in Ids,
           phase'[r] \in {"checked", "written"} => OfClient(r)' = {},
           phase'[r] = "written" => OfId(r)' = {}
    PROVE  LogIInv'
<1>0. \A s \in Requests : s # r => OfClient(s)' = OfClient(s) /\ OfId(s)' = OfId(s)
  BY DEF OfClient, OfId
<1>1. LockOwner'
  BY DEF LogIInv, LockOwner
<1>2. LookupHolds'
  BY <1>0 DEF LogIInv, LookupHolds
<1>3. SilentUntilDone'
  BY DEF LogIInv, SilentUntilDone
<1>4. RecordedOnce' /\ NumberedWithoutGap'
  BY DEF LogIInv, RecordedOnce, NumberedWithoutGap
<1>5. answer[r] = "none"
  BY DEF LogIInv, SilentUntilDone
<1>6. AnswerIsTrue'
  BY <1>5 DEF LogIInv, AnswerIsTrue
<1>7. OneCreator'
  BY <1>5 DEF LogIInv, OneCreator
<1> QED BY <1>1, <1>2, <1>3, <1>4, <1>6, <1>7 DEF LogIInv

\* A request ends without a record of its own, and what it tells is so.
LEMMA FinishKeeps ==
    ASSUME LogIInv, NEW r \in Requests, NEW a \in Answers \ {"created"},
           Finish(r, a), UNCHANGED <<rows, counter>>, phase[r] # "done",
           a = "replayed" => \E e \in rows : SameRecord(e, r),
           a = "client_conflict" => \E e \in rows : e.client = cmd[r].client /\ ~SameIntent(e, r)
    PROVE  LogIInv'
<1>1. LogTypeOK'
  BY DEF LogIInv, LogTypeOK, Finish, Phases
<1>2. \A s \in Requests : /\ phase'[s] = IF s = r THEN "done" ELSE phase[s]
                          /\ answer'[s] = IF s = r THEN a ELSE answer[s]
  BY DEF Finish, LogIInv, LogTypeOK
<1>3. \A s \in Requests : OfClient(s)' = OfClient(s) /\ OfId(s)' = OfId(s)
  BY DEF OfClient, OfId, Finish
<1>4. LockOwner'
  BY <1>2 DEF LogIInv, LockOwner, Finish
<1>5. LookupHolds'
  BY <1>2, <1>3 DEF LogIInv, LookupHolds, Finish
<1>6. SilentUntilDone'
  BY <1>2 DEF LogIInv, SilentUntilDone
<1>7. RecordedOnce' /\ NumberedWithoutGap'
  BY DEF LogIInv, RecordedOnce, NumberedWithoutGap
<1>8. AnswerIsTrue'
  BY <1>2 DEF LogIInv, AnswerIsTrue, SameRecord, SameIntent, Finish
<1>9. OneCreator'
  BY <1>2 DEF LogIInv, OneCreator, Finish
<1> QED BY <1>1, <1>4, <1>5, <1>6, <1>7, <1>8, <1>9 DEF LogIInv

\* The records after a commit: the old ones and the next one.
LEMMA NextNumber ==
    ASSUME NEW R, NEW n \in Nat, NEW row, row.seq = n + 1,
           {e.seq : e \in R} = 1..n,
           \A e, f \in R : e.seq = f.seq => e = f
    PROVE  /\ {e.seq : e \in R \cup {row}} = 1..(n + 1)
           /\ \A e, f \in R \cup {row} : e.seq = f.seq => e = f
<1>1. {e.seq : e \in R \cup {row}} = {e.seq : e \in R} \cup {n + 1}
  OBVIOUS
<1>2. 1..(n + 1) = (1..n) \cup {n + 1}
  OBVIOUS
<1>3. \A e \in R : e.seq # n + 1
  <2> TAKE e \in R
  <2>1. e.seq \in 1..n
    OBVIOUS
  <2> QED BY <2>1
<1> QED BY <1>1, <1>2, <1>3

LEMMA CommitKeeps == ASSUME LogIInv, NEW r \in Requests, CommitAppend(r) PROVE LogIInv'
<1> DEFINE row == [seq |-> seen[r] + 1, id |-> id[r], client |-> cmd[r].client, intent |-> cmd[r].intent]
<1>1. PICK a \in {"created", "lost"} : Finish(r, a)
  BY DEF CommitAppend
<1>2. /\ holder = r /\ seen[r] = counter /\ id[r] \in Ids
      /\ OfClient(r) = {} /\ OfId(r) = {}
      /\ phase[r] = "written" /\ answer[r] = "none"
  BY DEF CommitAppend, LogIInv, LockOwner, LookupHolds, SilentUntilDone
<1>3. rows' = rows \cup {row} /\ counter' = counter + 1
  BY <1>2 DEF CommitAppend
<1>4. /\ cmd[r].client \in Clients \cup {NoClient} /\ cmd[r].intent \in Intents
      /\ counter \in Nat
  BY DEF LogIInv, LogTypeOK, Command
<1>5. /\ row.seq = counter + 1 /\ row.id = id[r] /\ row.client = cmd[r].client
      /\ row.intent = cmd[r].intent
  BY <1>2
<1>6. row \in Row
  BY <1>2, <1>4 DEF Row
<1> HIDE DEF row
<1>7. LogTypeOK'
  BY <1>1, <1>3, <1>4, <1>6 DEF LogIInv, LogTypeOK, Finish, Phases, Answers
<1>8. \A s \in Requests : /\ phase'[s] = IF s = r THEN "done" ELSE phase[s]
                          /\ answer'[s] = IF s = r THEN a ELSE answer[s]
  BY <1>1 DEF Finish, LogIInv, LogTypeOK
<1>9. \A s \in Requests : s # r => phase[s] \notin {"locked", "checked", "written"}
  BY <1>2 DEF LogIInv, LockOwner
<1>10. LockOwner'
  BY <1>8, <1>9 DEF LockOwner
<1>11. LookupHolds'
  BY <1>1, <1>8, <1>9 DEF LogIInv, LookupHolds, Finish
<1>12. SilentUntilDone'
  BY <1>8 DEF LogIInv, SilentUntilDone
<1>13. \A e \in rows : e.id # id[r] /\ (e.client = cmd[r].client => cmd[r].client = NoClient)
  BY <1>2 DEF OfClient, OfId
<1>14. RecordedOnce'
  BY <1>3, <1>5, <1>13 DEF LogIInv, RecordedOnce
<1>15. NumberedWithoutGap'
  <2>1. {e.seq : e \in rows} = 1..counter /\ \A e, f \in rows : e.seq = f.seq => e = f
    BY DEF LogIInv, NumberedWithoutGap
  <2>2. /\ {e.seq : e \in rows \cup {row}} = 1..(counter + 1)
        /\ \A e, f \in rows \cup {row} : e.seq = f.seq => e = f
    BY <1>4, <1>5, <2>1, NextNumber
  <2> QED BY <1>3, <2>2 DEF NumberedWithoutGap
<1>16. AnswerIsTrue'
  <2> SUFFICES ASSUME NEW s \in Requests
               PROVE  /\ answer'[s] \in {"created", "replayed"} =>
                            \E e \in rows' : /\ e.intent = cmd'[s].intent
                                             /\ cmd'[s].client # NoClient => e.client = cmd'[s].client
                      /\ answer'[s] = "client_conflict" =>
                            \E e \in rows' : e.client = cmd'[s].client /\ e.intent # cmd'[s].intent
    BY DEF AnswerIsTrue
  <2>1. CASE s = r
    BY <1>1, <1>3, <1>5, <1>8, <2>1 DEF Finish
  <2>2. CASE s # r
    BY <1>1, <1>3, <1>8, <2>2 DEF LogIInv, AnswerIsTrue, Finish
  <2> QED BY <2>1, <2>2
<1>17. \A s \in Requests \ {r} :
          answer[s] = "created" => cmd[s].client # cmd[r].client \/ cmd[r].client = NoClient
  BY <1>13 DEF LogIInv, AnswerIsTrue
<1>18. OneCreator'
  BY <1>1, <1>8, <1>17 DEF LogIInv, OneCreator, Finish
<1> QED BY <1>7, <1>10, <1>11, <1>12, <1>14, <1>15, <1>16, <1>18 DEF LogIInv

-----------------------------------------------------------------------------
LEMMA BeginKeeps ==
    ASSUME LogIInv, NEW r \in Requests, NEW c \in Clients, NEW i \in Intents, Begin(r, c, i)
    PROVE  LogIInv'
<1>1. [client |-> c, intent |-> i] \in Command
  BY DEF Command
<1>2. LogTypeOK'
  BY <1>1 DEF LogIInv, LogTypeOK, Begin, Phases
<1>3. phase'[r] = "begun" /\ \A s \in Requests \ {r} : phase'[s] = phase[s] /\ cmd'[s] = cmd[s]
  BY DEF LogIInv, LogTypeOK, Begin
<1> QED BY <1>2, <1>3, MovesKeep DEF Begin

LEMMA AppendEntityKeeps ==
    ASSUME LogIInv, NEW r \in Requests, NEW c \in Clients \cup {NoClient}, NEW d \in Ids,
           NEW i \in Intents, AppendEntity(r, c, d, i)
    PROVE  LogIInv'
<1> USE DEF AppendEntity
<1>1. [client |-> c, intent |-> i] \in Command
  BY DEF Command
<1>2. MaxIdAttempts \in Nat
  BY DEF MaxIdAttempts
<1>3. LogTypeOK'
  BY <1>1, <1>2 DEF LogIInv, LogTypeOK, Phases
<1>4. /\ phase'[r] = "fresh" /\ id'[r] = d
      /\ \A s \in Requests \ {r} : phase'[s] = phase[s] /\ cmd'[s] = cmd[s] /\ id'[s] = id[s]
  BY DEF LogIInv, LogTypeOK
<1> QED BY <1>3, <1>4, MovesKeep

LEMMA MintKeeps ==
    ASSUME LogIInv, NEW r \in Requests, NEW d \in Ids, Mint(r, d) PROVE LogIInv'
<1> USE DEF Mint
<1>1. LogTypeOK'
  BY DEF LogIInv, LogTypeOK, Phases
<1>2. /\ phase'[r] = "fresh" /\ id'[r] = d
      /\ \A s \in Requests \ {r} : phase'[s] = phase[s] /\ id'[s] = id[s]
  BY DEF LogIInv, LogTypeOK
<1> QED BY <1>1, <1>2, MovesKeep

LEMMA LockSeqKeeps == ASSUME LogIInv, NEW r \in Requests, LockSeq(r) PROVE LogIInv'
<1> USE DEF LockSeq
<1>1. LogTypeOK'
  BY DEF LogIInv, LogTypeOK, Phases
<1>2. /\ phase'[r] = "locked" /\ seen'[r] = counter /\ id'[r] \in Ids
      /\ \A s \in Requests \ {r} : phase'[s] = phase[s] /\ seen'[s] = seen[s] /\ holder # s
  BY DEF LogIInv, LogTypeOK, LookupHolds
<1> QED BY <1>1, <1>2, MovesKeep

LEMMA RecheckKeeps == ASSUME LogIInv, NEW r \in Requests, RecheckFindsNone(r) PROVE LogIInv'
<1> USE DEF RecheckFindsNone
<1>1. LogTypeOK'
  BY DEF LogIInv, LogTypeOK, Phases
<1>2. /\ phase'[r] = "checked" /\ OfClient(r)' = {}
      /\ \A s \in Requests \ {r} : phase'[s] = phase[s]
  BY DEF LogIInv, LogTypeOK, OfClient
<1>3. holder = r /\ seen[r] = counter /\ id[r] \in Ids
  BY DEF LogIInv, LockOwner, LookupHolds
<1> QED BY <1>1, <1>2, <1>3, MovesKeep

LEMMA InsertRowKeeps == ASSUME LogIInv, NEW r \in Requests, InsertRow(r) PROVE LogIInv'
<1> USE DEF InsertRow
<1>1. LogTypeOK'
  BY DEF LogIInv, LogTypeOK, Phases
<1>2. /\ phase'[r] = "written" /\ OfClient(r)' = {} /\ OfId(r)' = {}
      /\ \A s \in Requests \ {r} : phase'[s] = phase[s]
  BY DEF LogIInv, LogTypeOK, LookupHolds, OfClient, OfId
<1>3. holder = r /\ seen[r] = counter /\ id[r] \in Ids
  BY DEF LogIInv, LockOwner, LookupHolds
<1> QED BY <1>1, <1>2, <1>3, MovesKeep

LEMMA IdTakenKeeps == ASSUME LogIInv, NEW r \in Requests, IdTaken(r) PROVE LogIInv'
<1>1. PICK e \in OfId(r) :
          \/ SameRecord(e, r) /\ Finish(r, "replayed")
          \/ ~SameRecord(e, r) /\ tries[r] >= MaxIdAttempts /\ Finish(r, "id_conflict")
          \/ /\ ~SameRecord(e, r) /\ tries[r] < MaxIdAttempts
             /\ \E d \in Ids : id' = [id EXCEPT ![r] = d]
             /\ tries' = [tries EXCEPT ![r] = @ + 1]
             /\ phase' = [phase EXCEPT ![r] = "fresh"]
             /\ UNCHANGED <<log, holder, targets, cmd, seen, answer>>
  BY DEF IdTaken
<1>2. UNCHANGED <<rows, counter>> /\ phase[r] = "checked" /\ e \in rows
  BY <1>1 DEF IdTaken, OfId
<1>3. CASE SameRecord(e, r) /\ Finish(r, "replayed")
  BY <1>2, <1>3, FinishKeeps DEF Answers
<1>4. CASE Finish(r, "id_conflict")
  BY <1>2, <1>4, FinishKeeps DEF Answers
<1>5. CASE /\ \E d \in Ids : id' = [id EXCEPT ![r] = d]
           /\ tries' = [tries EXCEPT ![r] = @ + 1]
           /\ phase' = [phase EXCEPT ![r] = "fresh"]
           /\ UNCHANGED <<log, holder, targets, cmd, seen, answer>>
  <2>1. PICK d \in Ids : id' = [id EXCEPT ![r] = d]
    BY <1>5
  <2>2. LogTypeOK'
    BY <1>2, <1>5, <2>1 DEF LogIInv, LogTypeOK, Phases
  <2>3. /\ phase'[r] = "fresh" /\ id'[r] = d
        /\ \A s \in Requests \ {r} : phase'[s] = phase[s] /\ id'[s] = id[s]
    BY <1>5, <2>1 DEF LogIInv, LogTypeOK
  <2> QED BY <1>2, <1>5, <2>2, <2>3, MovesKeep
<1> QED BY <1>1, <1>3, <1>4, <1>5

\* A prior record of the client event answers the request.
LEMMA PriorKeeps ==
    ASSUME LogIInv, NEW r \in Requests, NEW e \in OfClient(r), phase[r] # "done",
           Finish(r, IF SameIntent(e, r) THEN "replayed" ELSE "client_conflict"),
           UNCHANGED <<rows, counter>>
    PROVE  LogIInv'
<1>1. e \in rows /\ e.client = cmd[r].client
  BY DEF OfClient
<1>2. CASE SameIntent(e, r)
  BY <1>1, <1>2, FinishKeeps DEF Answers, SameRecord
<1>3. CASE ~SameIntent(e, r)
  BY <1>1, <1>3, FinishKeeps DEF Answers
<1> QED BY <1>2, <1>3

LEMMA TargetKeeps == ASSUME LogIInv, NEW i \in Intents, TargetAppears(i) PROVE LogIInv'
<1> USE DEF TargetAppears
<1>1. LogTypeOK'
  BY DEF LogIInv, LogTypeOK
<1>2. \A s \in Requests : OfClient(s)' = OfClient(s) /\ OfId(s)' = OfId(s)
  BY DEF OfClient, OfId
<1>3. LockOwner' /\ LookupHolds' /\ SilentUntilDone'
  BY <1>2 DEF LogIInv, LockOwner, LookupHolds, SilentUntilDone
<1>4. RecordedOnce' /\ NumberedWithoutGap'
  BY DEF LogIInv, RecordedOnce, NumberedWithoutGap
<1>5. AnswerIsTrue' /\ OneCreator'
  BY DEF LogIInv, AnswerIsTrue, OneCreator
<1> QED BY <1>1, <1>3, <1>4, <1>5 DEF LogIInv

LEMMA LogStillOK == ASSUME LogIInv, UNCHANGED logVars PROVE LogIInv'
<1> USE DEF logVars
<1>1. LogTypeOK'
  BY DEF LogIInv, LogTypeOK
<1>2. \A s \in Requests : OfClient(s)' = OfClient(s) /\ OfId(s)' = OfId(s)
  BY DEF OfClient, OfId
<1>3. LockOwner' /\ LookupHolds' /\ SilentUntilDone'
  BY <1>2 DEF LogIInv, LockOwner, LookupHolds, SilentUntilDone
<1>4. RecordedOnce' /\ NumberedWithoutGap'
  BY DEF LogIInv, RecordedOnce, NumberedWithoutGap
<1>5. AnswerIsTrue' /\ OneCreator'
  BY DEF LogIInv, AnswerIsTrue, OneCreator
<1> QED BY <1>1, <1>3, <1>4, <1>5 DEF LogIInv

LEMMA ProgressKeeps == ASSUME LogIInv, NEW r \in Requests, Progress(r) PROVE LogIInv'
<1>1. CASE FindPrior(r)
  BY <1>1, PriorKeeps DEF FindPrior
<1>2. CASE FindNoTarget(r)
  BY <1>2, FinishKeeps DEF FindNoTarget, Answers
<1>3. CASE \E d \in Ids : Mint(r, d)
  BY <1>3, MintKeeps
<1>4. CASE RecheckFindsClient(r)
  BY <1>4, PriorKeeps DEF RecheckFindsClient
<1>5. CASE RecheckFindsNone(r)
  BY <1>5, RecheckKeeps
<1>6. CASE IdTaken(r)
  BY <1>6, IdTakenKeeps
<1>7. CASE InsertRow(r)
  BY <1>7, InsertRowKeeps
<1>8. CASE CommitAppend(r)
  BY <1>8, CommitKeeps
<1> QED BY <1>1, <1>2, <1>3, <1>4, <1>5, <1>6, <1>7, <1>8 DEF Progress

LEMMA LogStepOK == ASSUME LogIInv, [LogNext]_logVars PROVE LogIInv'
<1>1. CASE UNCHANGED logVars
  BY <1>1, LogStillOK
<1>2. CASE \E r \in Requests, c \in Clients, i \in Intents : Begin(r, c, i)
  BY <1>2, BeginKeeps
<1>3. CASE \E r \in Requests, c \in Clients \cup {NoClient}, d \in Ids, i \in Intents :
              AppendEntity(r, c, d, i)
  BY <1>3, AppendEntityKeeps
<1>4. CASE \E r \in Requests : LockSeq(r)
  BY <1>4, LockSeqKeeps
<1>5. CASE \E r \in Requests : Progress(r)
  BY <1>5, ProgressKeeps
<1>6. CASE \E r \in Requests : RollBack(r)
  <2>1. PICK r \in Requests : RollBack(r)
    BY <1>6
  <2>2. phase[r] # "done"
    BY <2>1 DEF RollBack, Open
  <2> QED BY <2>1, <2>2, FinishKeeps DEF RollBack, Answers
<1>7. CASE \E i \in Intents : TargetAppears(i)
  BY <1>7, TargetKeeps
<1> QED BY <1>1, <1>2, <1>3, <1>4, <1>5, <1>6, <1>7 DEF LogNext

-----------------------------------------------------------------------------
\* The inductive invariant holds of every behaviour.
THEOREM LogIInvariant == LogSpec => []LogIInv
<1>1. LogInit => LogIInv
  BY LogInitOK
<1>2. LogIInv /\ [LogNext]_logVars => LogIInv'
  BY LogStepOK
<1> QED BY <1>1, <1>2, PTL DEF LogSpec

\* Client events are recorded once, under numbers without a gap, and clients are told the truth,
\* for any number of racing requests, clients and ids.
THEOREM LogIsSound == LogSpec => []LogInv
<1>1. LogIInv => LogInv
  BY DEF LogIInv, LogInv
<1> QED BY <1>1, LogIInvariant, PTL

\* Only a commit changes the records, and it adds one.
LEMMA CommitOrStutter ==
    ASSUME LogIInv, [LogNext]_logVars
    PROVE  UNCHANGED <<rows, counter>> \/ \E r \in Requests : CommitAppend(r)
BY DEF LogNext, logVars, Begin, AppendEntity, LockSeq, Progress, FindPrior, FindNoTarget, Mint,
       RecheckFindsClient, RecheckFindsNone, IdTaken, InsertRow, RollBack, TargetAppears

LEMMA CommitAdds ==
    ASSUME LogIInv, NEW r \in Requests, CommitAppend(r)
    PROVE  Ledger!Add(cmd[r].client, cmd[r].intent, id[r])
<1>1. seen[r] = counter /\ OfClient(r) = {} /\ OfId(r) = {}
  BY DEF CommitAppend, LogIInv, LockOwner, LookupHolds
<1>2. \A e \in rows : e.id # id[r] /\ (cmd[r].client # NoClient => e.client # cmd[r].client)
  BY <1>1 DEF OfClient, OfId
<1> QED BY <1>1, <1>2 DEF CommitAppend, Ledger!Add

\* The protocol of the five logs, with its locks, second looks, retries and failures, implements a
\* ledger to which one new record at a time is added.
THEOREM LogImplementsLedger == LogSpec => LogIsLedger
<1>1. LogInit => Ledger!LedgerInit
  BY DEF LogInit, Ledger!LedgerInit
<1>2. LogIInv /\ [LogNext]_logVars => [Ledger!LedgerNext]_<<rows, counter>>
  <2> SUFFICES ASSUME LogIInv, [LogNext]_logVars PROVE [Ledger!LedgerNext]_<<rows, counter>>
    OBVIOUS
  <2>1. CASE UNCHANGED <<rows, counter>>
    BY <2>1
  <2>2. CASE \E r \in Requests : CommitAppend(r)
    <3>1. PICK r \in Requests : CommitAppend(r)
      BY <2>2
    <3>2. /\ cmd[r].client \in Clients \cup {NoClient} /\ cmd[r].intent \in Intents
          /\ id[r] \in Ids
      BY <3>1 DEF CommitAppend, LogIInv, LogTypeOK, Command, LookupHolds
    <3> QED BY <3>1, <3>2, CommitAdds DEF Ledger!LedgerNext
  <2> QED BY <2>1, <2>2, CommitOrStutter
<1> QED BY <1>1, <1>2, LogIInvariant, PTL DEF LogSpec, LogIsLedger, Ledger!LedgerSpec

(***************************************************************************)
(* The sources and their reading, for any founder, number of requests,     *)
(* sources and crashes: PourIInv is inductive, and a page that was         *)
(* answered for stays bound follows from it.                               *)
(***************************************************************************)

HIDE LogAssumption DEF LogAssumption
USE PourInAssumption DEF PourInAssumption

\* What request r has in its hands.  A source being added is of no removed page; a page under removal is
\* promised to nobody; a reading has the pages it promises, and re-fetches no removed one.
PourHolds(r) ==
    /\ doing[r] \in {"fetch", "bind", "mark", "list", "unbind", "dropped"} => what[r] \in Sources
    /\ doing[r] \in {"fetch", "bind"} =>
          must[r] \subseteq {Page[what[r]]} /\ \A t \in gone : Page[t] # Page[what[r]]
    /\ doing[r] \in {"mark", "flags", "refetch"} => must[r] \subseteq bound
    /\ doing[r] = "refetch" =>
          ids[r] \subseteq Sources /\ \A s \in ids[r], t \in gone : Page[s] # Page[t]
    /\ doing[r] \in {"language", "synthesize", "save"} =>
          ids[r] \subseteq Pages /\ ids[r] # {} /\ must[r] \subseteq ids[r]
    /\ doing[r] = "unbind" => ids[r] \subseteq {Page[what[r]]}
    /\ doing[r] \in {"list", "unbind"} =>
          /\ \A q \in Pours : Page[what[r]] \notin must[q]
          /\ \A s \in answered : Page[s] # Page[what[r]]
    /\ doing[r] = "flag" => snap.number > 0 /\ snap.read # {}

AnsweredIsBound == \A s \in answered : Page[s] \in bound

\* A removed source whose page is still bound is one whose removal goes on.
GoneIsGoing ==
    \A s \in gone : Type[s] # "description" /\ Page[s] \in bound =>
        \E r \in Pours : doing[r] = "unbind" /\ what[r] = s /\ Page[s] \in ids[r]

\* The last event of each kind.
Kinds == {"added", "removed", "done", "reopened", "confirmed"}
IsLast(es, k, i) == /\ i \in 1..Len(es) /\ es[i].kind = k
                    /\ \A j \in 1..Len(es) : es[j].kind = k => j <= i
HasLast(es) == \A k \in Kinds : \/ \E i \in 1..Len(es) : IsLast(es, k, i)
                                \/ \A j \in 1..Len(es) : es[j].kind # k

\* A review is confirmed only after a reading, and an understanding is older than the events after it.
ReviewHolds ==
    /\ HasLast(events)
    /\ snap.at <= Len(events)
    /\ LastOf("confirmed") > 0 => PourInDone
    /\ ConfirmCoversLatest
    /\ DoneMeansUnderstood

PourIInv ==
    /\ PourInv
    /\ \A r \in Pours : PourHolds(r)
    /\ AnsweredIsBound
    /\ GoneIsGoing
    /\ ReviewHolds

-----------------------------------------------------------------------------
(* The order of the events                                                    *)

LastIn(es, k) ==
    LET at == {i \in 1..Len(es) : es[i].kind = k}
    IN  IF at = {} THEN 0 ELSE CHOOSE i \in at : \A j \in at : j <= i

\* LastOf finds the last event of a kind.
LEMMA LastIsLast ==
    ASSUME NEW es, Len(es) \in Nat, NEW k
    PROVE  /\ \A i \in 1..Len(es) : IsLast(es, k, i) => LastIn(es, k) = i
           /\ (\A j \in 1..Len(es) : es[j].kind # k) => LastIn(es, k) = 0
<1> DEFINE at == {i \in 1..Len(es) : es[i].kind = k}
<1>1. ASSUME NEW i \in 1..Len(es), IsLast(es, k, i) PROVE LastIn(es, k) = i
  <2>1. i \in at /\ \A j \in at : j <= i
    BY <1>1 DEF IsLast
  <2>2. \A x \in at : (\A j \in at : j <= x) => x = i
    <3> SUFFICES ASSUME NEW x \in at, \A j \in at : j <= x PROVE x = i
      OBVIOUS
    <3>1. i <= x /\ x <= i /\ i \in Nat /\ x \in Nat
      BY <2>1
    <3> QED BY <3>1
  <2>3. LastIn(es, k) = CHOOSE x \in at : \A j \in at : j <= x
    BY <2>1 DEF LastIn
  <2> HIDE DEF at
  <2> QED BY <2>1, <2>2, <2>3
<1>2. ASSUME \A j \in 1..Len(es) : es[j].kind # k PROVE LastIn(es, k) = 0
  BY <1>2 DEF LastIn
<1> QED BY <1>1, <1>2

\* It is a place in the list of events, or 0.
LEMMA LastRange ==
    ASSUME NEW es, Len(es) \in Nat, HasLast(es), NEW k \in Kinds
    PROVE  LastIn(es, k) \in 0..Len(es)
<1>1. CASE \E i \in 1..Len(es) : IsLast(es, k, i)
  BY <1>1, LastIsLast
<1>2. CASE \A j \in 1..Len(es) : es[j].kind # k
  BY <1>2, LastIsLast
<1> QED BY <1>1, <1>2 DEF HasLast

\* A new event is the last of its kind and changes no other.
LEMMA LastAfterAppend ==
    ASSUME NEW es \in Seq(Event), NEW e \in Event, HasLast(es)
    PROVE  /\ HasLast(Append(es, e))
           /\ \A k \in Kinds : LastIn(Append(es, e), k) = IF e.kind = k THEN Len(es) + 1 ELSE LastIn(es, k)
<1> DEFINE fs == Append(es, e)
           n == Len(es)
<1>1. n \in Nat /\ Len(fs) = n + 1 /\ (\A i \in 1..n : fs[i] = es[i]) /\ fs[n + 1] = e
  <2> HIDE DEF Event
  <2> QED BY AppendProperties
<1> HIDE DEF fs, n
<1>2. \A i \in 1..Len(fs) : i \in 1..n \/ i = n + 1
  BY <1>1
<1>3. n + 1 \in 1..Len(fs) /\ \A i \in 1..n : i \in 1..Len(fs) /\ i <= n + 1
  BY <1>1
<1>4. ASSUME NEW k \in Kinds
      PROVE  /\ \/ \E i \in 1..Len(fs) : IsLast(fs, k, i)
                \/ \A j \in 1..Len(fs) : fs[j].kind # k
             /\ LastIn(fs, k) = IF e.kind = k THEN n + 1 ELSE LastIn(es, k)
  <2>0. Len(fs) \in Nat
    BY <1>1
  <2>1. CASE e.kind = k
    <3>1. IsLast(fs, k, n + 1)
      <4>1. n + 1 <= n + 1
        BY <1>1
      <4> QED BY <1>1, <1>2, <1>3, <2>1, <4>1 DEF IsLast
    <3> QED BY <1>3, <2>0, <2>1, <3>1, LastIsLast
  <2>2. CASE e.kind # k /\ \E i \in 1..n : IsLast(es, k, i)
    <3>1. PICK i \in 1..n : IsLast(es, k, i)
      BY <2>2
    <3>2. IsLast(fs, k, i)
      BY <1>1, <1>2, <1>3, <2>2, <3>1 DEF IsLast, n
    <3>3. LastIn(fs, k) = i
      BY <1>3, <2>0, <3>2, LastIsLast
    <3>4. LastIn(es, k) = i
      BY <1>1, <3>1, LastIsLast DEF n
    <3> QED BY <1>3, <2>2, <3>2, <3>3, <3>4
  <2>3. CASE e.kind # k /\ \A j \in 1..n : es[j].kind # k
    <3>1. \A j \in 1..Len(fs) : fs[j].kind # k
      BY <1>1, <1>2, <2>3
    <3>2. LastIn(fs, k) = 0
      BY <2>0, <3>1, LastIsLast
    <3>3. LastIn(es, k) = 0
      BY <1>1, <2>3, LastIsLast DEF n
    <3> QED BY <2>3, <3>1, <3>2, <3>3
  <2> QED BY <2>1, <2>2, <2>3 DEF HasLast, n
<1> QED BY <1>4 DEF HasLast, fs, n

LEMMA EventFields ==
    ASSUME PourTypeOK
    PROVE  /\ events \in Seq(Event) /\ Len(events) \in Nat
           /\ snap.number \in Nat /\ snap.read \subseteq Pages /\ snap.at \in Nat
           /\ snap = [number |-> snap.number, read |-> snap.read, at |-> snap.at]
           /\ \A s \in Sources, k \in {"added", "removed"} : [kind |-> k, source |-> s] \in Event
           /\ \A k \in {"done", "reopened", "confirmed"} : [kind |-> k] \in Event
<1>1. events \in Seq(Event)
  BY DEF PourTypeOK
<1>2. Len(events) \in Nat
  <2> HIDE DEF Event
  <2> QED BY <1>1, LenProperties
<1>3. snap \in [number : Nat, read : SUBSET Pages, at : Nat]
  BY DEF PourTypeOK
<1> QED BY <1>1, <1>2, <1>3 DEF Event

-----------------------------------------------------------------------------
(* The review                                                                 *)

\* What happens to the events of the review when an event is recorded, or is not.
LEMMA ReviewEvents ==
    ASSUME PourIInv, NEW e \in Event, e.kind \in Kinds, events' = Append(events, e)
    PROVE  /\ HasLast(events') /\ Len(events') = Len(events) + 1 /\ events' \in Seq(Event)
           /\ \A k \in Kinds : LastOf(k)' = IF e.kind = k THEN Len(events) + 1 ELSE LastOf(k)
           /\ events' # events
<1>1. events \in Seq(Event) /\ HasLast(events) /\ Len(events) \in Nat
  BY EventFields DEF PourIInv, PourInv, ReviewHolds
<1>2. Len(events') = Len(events) + 1 /\ events' \in Seq(Event)
  <2> HIDE DEF Event
  <2> QED BY <1>1, AppendProperties
<1>3. \A k \in Kinds : LastIn(events', k) = IF e.kind = k THEN Len(events) + 1 ELSE LastIn(events, k)
  BY <1>1, LastAfterAppend
<1>4. \A k : LastOf(k) = LastIn(events, k) /\ LastOf(k)' = LastIn(events', k)
  BY DEF LastOf, LastIn
<1>5. HasLast(events')
  BY <1>1, LastAfterAppend
<1>6. events' # events
  BY <1>1, <1>2
<1> QED BY <1>2, <1>3, <1>4, <1>5, <1>6

\* Without an event nothing changes.
LEMMA NoEvent ==
    ASSUME events' = events
    PROVE  /\ LastOf("confirmed")' = LastOf("confirmed") /\ LastOf("reopened")' = LastOf("reopened")
           /\ LastOf("done")' = LastOf("done")
           /\ PourInDone' = PourInDone /\ Confirmed' = Confirmed
<1>1. \A k : LastOf(k)' = LastOf(k)
  BY DEF LastOf
<1> QED BY <1>1 DEF PourInDone, Confirmed

LEMMA ReviewRange ==
    ASSUME PourIInv
    PROVE  \A k \in Kinds : LastOf(k) \in 0..Len(events)
<1>1. \A k : LastOf(k) = LastIn(events, k)
  BY DEF LastOf, LastIn
<1> QED BY <1>1, LastRange, EventFields DEF PourIInv, PourInv, ReviewHolds

\* A step that neither saves an understanding nor marks one, and records at most an added or a removed source.
LEMMA ReviewKeeps ==
    ASSUME PourIInv, UNCHANGED <<snap, unmarked>>,
           \A q \in Pours : doing[q] = "flag" => doing'[q] = "flag",
           \/ events' = events
           \/ \E e \in Event : e.kind \in {"added", "removed"} /\ events' = Append(events, e)
    PROVE  ReviewHolds'
<1>1. ReviewHolds /\ PourTypeOK
  BY DEF PourIInv, PourInv
<1>2. CASE events' = events
  <2>1. HasLast(events') /\ snap'.at <= Len(events')
    BY <1>1, <1>2 DEF ReviewHolds
  <2> QED BY <1>1, <1>2, <2>1, NoEvent DEF ReviewHolds, ConfirmCoversLatest, DoneMeansUnderstood
<1>3. ASSUME NEW e \in Event, e.kind \in {"added", "removed"}, events' = Append(events, e)
      PROVE  ReviewHolds'
  <2>1. /\ HasLast(events') /\ Len(events') = Len(events) + 1
        /\ \A k \in {"done", "reopened", "confirmed"} : LastOf(k)' = LastOf(k)
    BY <1>3, ReviewEvents DEF Kinds
  <2>2. snap'.at <= Len(events')
    BY <1>1, <2>1, EventFields DEF ReviewHolds
  <2> QED BY <1>1, <2>1, <2>2 DEF ReviewHolds, ConfirmCoversLatest, DoneMeansUnderstood, Confirmed, PourInDone
<1> QED BY <1>2, <1>3

LEMMA ConfirmReview ==
    ASSUME PourIInv, Confirm
    PROVE  ReviewHolds'
<1>1. ReviewHolds /\ PourTypeOK
  BY DEF PourIInv, PourInv
<1> DEFINE e == [kind |-> "confirmed"]
<1>2. events' = Append(events, e) /\ snap' = snap /\ PourInDone
  BY DEF Confirm
<1>3. e \in Event /\ e.kind = "confirmed"
  BY <1>1, EventFields
<1> HIDE DEF e
<1>4. /\ HasLast(events') /\ Len(events') = Len(events) + 1
      /\ LastOf("done")' = LastOf("done") /\ LastOf("confirmed")' = Len(events) + 1
  BY <1>2, <1>3, ReviewEvents DEF Kinds
<1>5. snap.at <= Len(events) /\ snap.at \in Nat /\ Len(events) \in Nat
  BY <1>1, EventFields DEF ReviewHolds
<1>6. snap'.at <= Len(events') /\ Len(events) + 1 > snap'.at
  BY <1>2, <1>4, <1>5
<1> QED BY <1>1, <1>2, <1>4, <1>6 DEF ReviewHolds, ConfirmCoversLatest, DoneMeansUnderstood, PourInDone

\* The latest understanding is saved: until it is marked, nothing is promised of the review.
LEMMA SaveReview ==
    ASSUME PourIInv, NEW r \in Pours, events' = events, unmarked' = unmarked, doing'[r] = "flag",
           snap' = [number |-> snap.number + 1, read |-> ids[r], at |-> Len(events)], ids[r] # {}
    PROVE  ReviewHolds'
<1>1. ReviewHolds /\ PourTypeOK
  BY DEF PourIInv, PourInv
<1>2. snap'.at = Len(events) /\ snap'.number > 0 /\ snap'.read # {} /\ Len(events) \in Nat
  BY <1>1, EventFields
<1>3. HasLast(events') /\ snap'.at <= Len(events')
  BY <1>1, <1>2 DEF ReviewHolds
<1>4. (LastOf("confirmed") > 0 => PourInDone)'
  BY <1>1 DEF ReviewHolds, LastOf, PourInDone
<1> QED BY <1>2, <1>3, <1>4 DEF ReviewHolds, ConfirmCoversLatest, DoneMeansUnderstood

\* The event after a reading is done, or reopens the review; or it is lost, or the wrong one of the two.
LEMMA MarkReview ==
    ASSUME PourIInv, NEW r \in Pours, MarkRead(r)
    PROVE  ReviewHolds'
<1>1. ReviewHolds /\ PourTypeOK /\ PourHolds(r) /\ doing[r] = "flag" /\ snap' = snap
  BY DEF PourIInv, PourInv, MarkRead
<1>2. PICK again \in {PourInDone, FALSE} :
          /\ RecordEvent([kind |-> IF again THEN "reopened" ELSE "done"])
          /\ unmarked' = (events' = events \/ again # PourInDone)
  BY DEF MarkRead, DoneSeen
<1> DEFINE k == IF again THEN "reopened" ELSE "done"
           e == [kind |-> k]
<1>3. events' = Append(events, e) \/ events' = events
  BY <1>2 DEF RecordEvent
<1>4. e \in Event /\ e.kind = k /\ k \in Kinds
  BY <1>1, EventFields DEF Kinds
<1>5. snap'.number > 0 /\ snap'.read # {} /\ snap'.at <= Len(events) /\ snap'.at \in Nat /\ Len(events) \in Nat
  BY <1>1, EventFields DEF PourHolds, ReviewHolds
<1>6. CASE events' = events
  <2>1. HasLast(events') /\ snap'.at <= Len(events') /\ unmarked'
    BY <1>1, <1>2, <1>5, <1>6 DEF ReviewHolds
  <2> QED BY <1>1, <1>5, <1>6, <2>1, NoEvent DEF ReviewHolds, ConfirmCoversLatest, DoneMeansUnderstood
<1>7. CASE events' = Append(events, e)
  <2> HIDE DEF e
  <2>1. /\ HasLast(events') /\ Len(events') = Len(events) + 1
        /\ \A j \in Kinds : LastOf(j)' = IF k = j THEN Len(events) + 1 ELSE LastOf(j)
    BY <1>4, <1>7, ReviewEvents
  <2>2. LastOf("done") \in 0..Len(events) /\ LastOf("reopened") \in 0..Len(events)
        /\ LastOf("confirmed") \in 0..Len(events)
    BY ReviewRange DEF Kinds
  <2>3. CASE PourInDone /\ again
    <3>1. /\ LastOf("done")' = LastOf("done") /\ LastOf("reopened")' = Len(events) + 1
          /\ LastOf("confirmed")' = LastOf("confirmed")
      BY <2>1, <2>3 DEF Kinds
    <3>2. PourInDone' /\ ~Confirmed'
      BY <1>5, <2>2, <2>3, <3>1 DEF PourInDone, Confirmed
    <3> QED BY <1>5, <2>1, <3>2 DEF ReviewHolds, ConfirmCoversLatest, DoneMeansUnderstood
  <2>4. CASE ~PourInDone
    <3>1. /\ LastOf("done")' = Len(events) + 1 /\ LastOf("reopened")' = LastOf("reopened")
          /\ LastOf("confirmed")' = LastOf("confirmed")
      <4>1. ~again
        BY <2>4, Zenon
      <4> QED BY <2>1, <4>1 DEF Kinds
    <3>2. LastOf("confirmed") = 0
      BY <1>1, <2>2, <2>4 DEF ReviewHolds
    <3>3. PourInDone' /\ ~Confirmed'
      BY <1>5, <2>2, <3>1, <3>2 DEF PourInDone, Confirmed
    <3> QED BY <1>5, <2>1, <3>3 DEF ReviewHolds, ConfirmCoversLatest, DoneMeansUnderstood
  <2>5. CASE PourInDone /\ ~again
    <3>1. LastOf("done")' = Len(events) + 1
      BY <2>1, <2>5 DEF Kinds
    <3>2. unmarked'
      <4>1. again # PourInDone
        BY <2>5
      <4> QED BY <1>2, <4>1, Zenon
    <3>3. PourInDone'
      BY <1>5, <3>1 DEF PourInDone
    <3> QED BY <1>5, <2>1, <3>2, <3>3 DEF ReviewHolds, ConfirmCoversLatest, DoneMeansUnderstood
  <2> QED BY <2>3, <2>4, <2>5
<1> QED BY <1>3, <1>6, <1>7

LEMMA CrashReview ==
    ASSUME PourIInv, Crash
    PROVE  ReviewHolds'
<1>1. /\ ReviewHolds /\ events' = events /\ snap' = snap
      /\ unmarked' = (unmarked \/ \E r \in Pours : doing[r] = "flag")
  BY DEF PourIInv, Crash
<1>2. HasLast(events') /\ snap'.at <= Len(events')
  BY <1>1 DEF ReviewHolds
<1>3. ConfirmCoversLatest /\ DoneMeansUnderstood /\ (LastOf("confirmed") > 0 => PourInDone)
  BY <1>1 DEF ReviewHolds
<1>4. /\ LastOf("confirmed")' = LastOf("confirmed") /\ PourInDone' = PourInDone /\ Confirmed' = Confirmed
  BY <1>1, NoEvent
<1>5. ConfirmCoversLatest'
  BY <1>1, <1>3, <1>4 DEF ConfirmCoversLatest
<1>6. DoneMeansUnderstood'
  BY <1>1, <1>3, <1>4 DEF DoneMeansUnderstood
<1> QED BY <1>2, <1>3, <1>4, <1>5, <1>6 DEF ReviewHolds

-----------------------------------------------------------------------------
(* Requests                                                                   *)

LEMMA PourTogether ==
    ASSUME PourTypeOK', OneReading', ReviewHolds', \A q \in Pours : PourHolds(q)', AnsweredIsBound', GoneIsGoing'
    PROVE  PourIInv'
<1>1. AnsweredSourceIsRead'
  BY DEF AnsweredSourceIsRead, PourHolds
<1>2. RemovedIsUnbound'
  BY DEF RemovedIsUnbound, GoneIsGoing
<1> QED BY <1>1, <1>2 DEF PourIInv, PourInv, ReviewHolds

LEMMA PourParts ==
    ASSUME PourIInv
    PROVE  /\ PourTypeOK /\ OneReading /\ ReviewHolds /\ (\A q \in Pours : PourHolds(q))
           /\ AnsweredIsBound /\ GoneIsGoing
BY DEF PourIInv, PourInv

\* The others keep what they hold through a step of r: the pages they were promised stay bound, no removal is
\* noted of a page they are about to bind, and nothing under their removal is promised.
LEMMA OthersKeepHolding ==
    ASSUME PourIInv, NEW r \in Pours,
           \A q \in Pours \ {r} : /\ what'[q] = what[q] /\ ids'[q] = ids[q] /\ must'[q] \subseteq must[q]
                                  /\ doing'[q] = doing[q] \/ doing'[q] = "idle",
           \A q \in Pours \ {r} : doing[q] \in {"mark", "flags", "refetch"} => must[q] \cap bound \subseteq bound',
           \A q \in Pours \ {r}, t \in gone' \ gone :
              /\ doing[q] \in {"fetch", "bind"} => Page[t] # Page[what[q]]
              /\ doing[q] = "refetch" => \A s \in ids[q] : Page[s] # Page[t],
           \A q \in Pours \ {r} : doing[q] \in {"list", "unbind"} =>
              /\ Page[what[q]] \notin must'[r]
              /\ \A s \in answered' \ answered : Page[s] # Page[what[q]],
           snap' = snap \/ (snap'.number > 0 /\ snap'.read # {})
    PROVE  \A q \in Pours \ {r} : PourHolds(q)'
<1> SUFFICES ASSUME NEW q \in Pours \ {r} PROVE PourHolds(q)'
  OBVIOUS
<1>1. PourHolds(q)
  BY PourParts
<1>2. CASE doing'[q] = "idle"
  BY <1>2 DEF PourHolds
<1>3. CASE doing'[q] = doing[q]
  <2>1. what'[q] = what[q] /\ ids'[q] = ids[q] /\ must'[q] \subseteq must[q]
    OBVIOUS
  <2>2. doing[q] \in {"fetch", "bind", "mark", "list", "unbind", "dropped"} => what'[q] \in Sources
    BY <1>1, <2>1 DEF PourHolds
  <2>3. doing[q] \in {"fetch", "bind"} =>
          must'[q] \subseteq {Page[what'[q]]} /\ \A t \in gone' : Page[t] # Page[what'[q]]
    BY <1>1, <2>1 DEF PourHolds
  <2>4. doing[q] \in {"mark", "flags", "refetch"} => must'[q] \subseteq bound'
    BY <1>1, <2>1 DEF PourHolds
  <2>5. doing[q] = "refetch" => ids'[q] \subseteq Sources /\ \A s \in ids'[q], t \in gone' : Page[s] # Page[t]
    BY <1>1, <2>1 DEF PourHolds
  <2>6. doing[q] \in {"language", "synthesize", "save"} =>
          ids'[q] \subseteq Pages /\ ids'[q] # {} /\ must'[q] \subseteq ids'[q]
    BY <1>1, <2>1 DEF PourHolds
  <2>7. doing[q] = "unbind" => ids'[q] \subseteq {Page[what'[q]]}
    BY <1>1, <2>1 DEF PourHolds
  <2>8. doing[q] \in {"list", "unbind"} =>
          /\ \A p \in Pours : Page[what'[q]] \notin must'[p]
          /\ \A s \in answered' : Page[s] # Page[what'[q]]
    <3> SUFFICES ASSUME doing[q] \in {"list", "unbind"}
                 PROVE  /\ \A p \in Pours : Page[what'[q]] \notin must'[p]
                        /\ \A s \in answered' : Page[s] # Page[what'[q]]
      OBVIOUS
    <3>1. /\ \A p \in Pours : Page[what[q]] \notin must[p]
          /\ \A s \in answered : Page[s] # Page[what[q]]
      BY <1>1 DEF PourHolds
    <3>2. \A p \in Pours : Page[what[q]] \notin must'[p]
      BY <3>1
    <3> QED BY <2>1, <3>1, <3>2
  <2>9. doing[q] = "flag" => snap'.number > 0 /\ snap'.read # {}
    BY <1>1 DEF PourHolds
  <2> QED BY <1>3, <2>2, <2>3, <2>4, <2>5, <2>6, <2>7, <2>8, <2>9 DEF PourHolds
<1> QED BY <1>2, <1>3

\* A step that removes no page, and binds none of a removed source.
LEMMA GoneKeeps ==
    ASSUME PourIInv, gone' \subseteq gone,
           \A s \in gone' : Page[s] \in bound' => Page[s] \in bound,
           \A q \in Pours : doing[q] = "unbind" => doing'[q] = "unbind" /\ what'[q] = what[q] /\ ids'[q] = ids[q]
    PROVE  GoneIsGoing'
BY DEF PourIInv, GoneIsGoing

LEMMA ReadingKeeps ==
    ASSUME PourIInv, reading' = reading, NEW r \in Pours,
           \A q \in Pours \ {r} : doing'[q] = doing[q],
           doing'[r] \in {"flags", "refetch", "language", "synthesize", "save", "flag"} =>
              doing[r] \in {"flags", "refetch", "language", "synthesize", "save", "flag"}
    PROVE  OneReading'
BY DEF PourIInv, PourInv, OneReading

\* A step of r that leaves the others alone.
LEMMA StepOfOne ==
    ASSUME PourIInv, NEW r \in Pours,
           \A q \in Pours \ {r} : what'[q] = what[q] /\ ids'[q] = ids[q] /\ must'[q] = must[q] /\ doing'[q] = doing[q],
           bound \subseteq bound', gone' \subseteq gone, answered' \subseteq answered, must'[r] \subseteq must[r],
           snap' = snap \/ (snap'.number > 0 /\ snap'.read # {}),
           PourTypeOK', OneReading', ReviewHolds', PourHolds(r)', GoneIsGoing'
    PROVE  PourIInv'
<1>1. AnsweredIsBound'
  BY PourParts DEF AnsweredIsBound
<1>2. \A q \in Pours \ {r} : doing[q] \in {"list", "unbind"} => Page[what[q]] \notin must'[r]
  BY PourParts DEF PourHolds
<1>3. \A q \in Pours \ {r} : PourHolds(q)'
  BY <1>2, OthersKeepHolding
<1> QED BY <1>1, <1>3, PourTogether

LEMMA GotoDoes ==
    ASSUME PourTypeOK, NEW r \in Pours, NEW s \in Steps, Goto(r, s)
    PROVE  /\ doing'[r] = s /\ doing' \in [Pours -> Steps]
           /\ \A q \in Pours \ {r} : doing'[q] = doing[q]
BY DEF PourTypeOK, Goto

LEMMA LeaveDoes ==
    ASSUME PourTypeOK, NEW r \in Pours, Leave(r)
    PROVE  /\ doing'[r] = "idle" /\ what'[r] = None /\ ids'[r] = {} /\ must'[r] = {}
           /\ doing' \in [Pours -> Steps] /\ what' \in [Pours -> Sources \cup {None}]
           /\ ids' \in [Pours -> SUBSET (Pages \cup Sources)] /\ must' \in [Pours -> SUBSET Pages]
           /\ \A q \in Pours \ {r} : what'[q] = what[q] /\ ids'[q] = ids[q] /\ must'[q] = must[q] /\ doing'[q] = doing[q]
BY DEF PourTypeOK, Leave, Goto, Steps

\* An ended reading is nobody's, and those who joined it are answered.
LEMMA EndReadingKeeps ==
    ASSUME PourIInv, NEW r \in Pours, EndReading(r),
           doing[r] \in {"flags", "refetch", "language", "synthesize", "save", "flag"},
           UNCHANGED <<bound, snap, what, late, answered, gone>>,
           language' \in Languages \cup {None}, events' \in Seq(Event), unmarked' \in BOOLEAN, ReviewHolds'
    PROVE  PourIInv'
<1>1. /\ doing'[r] = "idle" /\ ids'[r] = {} /\ must'[r] = {} /\ reading' = None
      /\ doing' \in [Pours -> Steps]
      /\ ids' \in [Pours -> SUBSET (Pages \cup Sources)] /\ must' \in [Pours -> SUBSET Pages]
      /\ \A q \in Pours \ {r} : /\ ids'[q] = ids[q] /\ must'[q] = must[q] /\ what'[q] = what[q]
                                /\ doing'[q] = IF doing[q] = "joined" THEN "idle" ELSE doing[q]
  BY PourParts DEF PourTypeOK, EndReading, Steps
<1>2. PourTypeOK'
  BY <1>1, PourParts DEF PourTypeOK
<1>3. OneReading'
  BY <1>1, PourParts DEF OneReading
<1>4. GoneIsGoing'
  BY <1>1, GoneKeeps
<1>5. PourHolds(r)'
  BY <1>1 DEF PourHolds
<1>6. AnsweredIsBound'
  BY PourParts DEF AnsweredIsBound
<1>7. \A q \in Pours \ {r} : PourHolds(q)'
  BY <1>1, OthersKeepHolding
<1> QED BY <1>2, <1>3, <1>4, <1>5, <1>6, <1>7, PourTogether

-----------------------------------------------------------------------------
(* Adding a source                                                            *)

LEMMA StartAddKeeps ==
    ASSUME PourIInv, NEW r \in Pours, NEW s \in Sources, StartAdd(r, s)
    PROVE  PourIInv'
<1>1. /\ doing[r] = "idle" /\ Goto(r, "fetch") /\ what' = [what EXCEPT ![r] = s]
      /\ gone' = {t \in gone : Page[t] # Page[s]}
      /\ must' = [must EXCEPT ![r] = IF Removing(s) THEN {} ELSE {Page[s]}]
      /\ UNCHANGED <<bound, events, snap, language, reading, ids, late, answered, unmarked>>
  BY DEF StartAdd
<1>2. Page[s] \in Pages
  BY DEF Pages
<1>3. /\ doing'[r] = "fetch" /\ what'[r] = s /\ must'[r] = IF Removing(s) THEN {} ELSE {Page[s]}
      /\ doing' \in [Pours -> Steps]
      /\ \A q \in Pours \ {r} : what'[q] = what[q] /\ ids'[q] = ids[q] /\ must'[q] = must[q] /\ doing'[q] = doing[q]
  BY <1>1, PourParts, GotoDoes DEF PourTypeOK, Steps
<1>4. PourTypeOK'
  <2>1. what' \in [Pours -> Sources \cup {None}] /\ must' \in [Pours -> SUBSET Pages] /\ gone' \subseteq Sources
    BY <1>1, <1>2, PourParts DEF PourTypeOK
  <2> QED BY <1>1, <1>3, <2>1, PourParts DEF PourTypeOK
<1>5. OneReading'
  BY <1>1, <1>3, ReadingKeeps
<1>6. GoneIsGoing'
  BY <1>1, <1>3, GoneKeeps
<1>7. ReviewHolds'
  BY <1>1, <1>3, ReviewKeeps
<1>8. PourHolds(r)'
  BY <1>1, <1>3 DEF PourHolds
<1>9. AnsweredIsBound'
  BY <1>1, PourParts DEF AnsweredIsBound
<1>10. \A q \in Pours \ {r} : doing[q] \in {"list", "unbind"} => Page[what[q]] \notin must'[r]
  BY <1>3 DEF Removing
<1>11. \A q \in Pours \ {r} : PourHolds(q)'
  BY <1>1, <1>3, <1>10, OthersKeepHolding
<1> QED BY <1>4, <1>5, <1>6, <1>7, <1>8, <1>9, <1>11, PourTogether

LEMMA FetchedKeeps ==
    ASSUME PourIInv, NEW r \in Pours, Fetched(r)
    PROVE  PourIInv'
<1>1. /\ doing[r] = "fetch"
      /\ UNCHANGED <<bound, events, snap, language, reading, late, answered, gone, unmarked>>
  BY DEF Fetched
<1>2. CASE Goto(r, "bind") /\ UNCHANGED <<what, ids, must>>
  <2>1. /\ doing'[r] = "bind" /\ doing' \in [Pours -> Steps]
        /\ \A q \in Pours \ {r} : doing'[q] = doing[q]
    BY <1>2, PourParts, GotoDoes DEF Steps
  <2>2. PourTypeOK'
    BY <1>1, <1>2, <2>1, PourParts DEF PourTypeOK
  <2>3. OneReading' /\ GoneIsGoing' /\ ReviewHolds'
    BY <1>1, <1>2, <2>1, ReadingKeeps, GoneKeeps, ReviewKeeps
  <2>4. PourHolds(r)'
    BY <1>1, <1>2, <2>1, PourParts DEF PourHolds
  <2> QED BY <1>1, <1>2, <2>1, <2>2, <2>3, <2>4, StepOfOne
<1>3. CASE Leave(r)
  <2>1. PourTypeOK' /\ PourHolds(r)'
    BY <1>1, <1>3, PourParts, LeaveDoes DEF PourTypeOK, PourHolds
  <2>2. OneReading' /\ GoneIsGoing' /\ ReviewHolds'
    BY <1>1, <1>3, PourParts, LeaveDoes, ReadingKeeps, GoneKeeps, ReviewKeeps
  <2> QED BY <1>1, <1>3, <2>1, <2>2, PourParts, LeaveDoes, StepOfOne
<1> QED BY <1>2, <1>3 DEF Fetched

LEMMA BindKeeps ==
    ASSUME PourIInv, NEW r \in Pours, Bind(r)
    PROVE  PourIInv'
<1>1. /\ doing[r] = "bind" /\ bound' = bound \cup {Page[what[r]]} /\ Goto(r, "mark")
      /\ UNCHANGED <<events, snap, language, reading, what, ids, late, answered, gone, must, unmarked>>
  BY DEF Bind
<1>2. /\ what[r] \in Sources /\ must[r] \subseteq {Page[what[r]]} /\ Page[what[r]] \in Pages
      /\ \A t \in gone : Page[t] # Page[what[r]]
  BY <1>1, PourParts DEF PourHolds, Pages
<1>3. /\ doing'[r] = "mark" /\ doing' \in [Pours -> Steps]
      /\ \A q \in Pours \ {r} : doing'[q] = doing[q]
  BY <1>1, PourParts, GotoDoes DEF Steps
<1>4. PourTypeOK'
  BY <1>1, <1>2, <1>3, PourParts DEF PourTypeOK
<1>5. OneReading' /\ ReviewHolds'
  BY <1>1, <1>3, ReadingKeeps, ReviewKeeps
<1>6. GoneIsGoing'
  BY <1>1, <1>2, <1>3, GoneKeeps
<1>7. PourHolds(r)'
  BY <1>1, <1>2, <1>3 DEF PourHolds
<1> QED BY <1>1, <1>3, <1>4, <1>5, <1>6, <1>7, StepOfOne

LEMMA MarkAddedKeeps ==
    ASSUME PourIInv, NEW r \in Pours, MarkAdded(r)
    PROVE  PourIInv'
<1>1. /\ doing[r] = "mark" /\ late' = [late EXCEPT ![r] = what[r]] /\ Leave(r)
      /\ answered' = answered \cup {s \in {what[r]} : Page[s] \in must[r]}
      /\ UNCHANGED <<bound, events, snap, language, reading, gone, unmarked>>
  BY DEF MarkAdded
<1>2. what[r] \in Sources /\ must[r] \subseteq bound
  BY <1>1, PourParts DEF PourHolds
<1>3. PourTypeOK' /\ PourHolds(r)'
  BY <1>1, <1>2, PourParts, LeaveDoes DEF PourTypeOK, PourHolds
<1>4. OneReading' /\ GoneIsGoing' /\ ReviewHolds'
  BY <1>1, PourParts, LeaveDoes, ReadingKeeps, GoneKeeps, ReviewKeeps
<1>5. AnsweredIsBound'
  BY <1>1, <1>2, PourParts DEF AnsweredIsBound
<1>6. \A q \in Pours \ {r} : doing[q] \in {"list", "unbind"} =>
        Page[what[q]] \notin must'[r] /\ \A s \in answered' \ answered : Page[s] # Page[what[q]]
  BY <1>1, PourParts, LeaveDoes DEF PourHolds
<1>7. \A q \in Pours \ {r} : PourHolds(q)'
  BY <1>1, <1>6, PourParts, LeaveDoes, OthersKeepHolding
<1> QED BY <1>3, <1>4, <1>5, <1>7, PourTogether

LEMMA AddedEventKeeps ==
    ASSUME PourIInv, NEW r \in Pours, AddedEvent(r)
    PROVE  PourIInv'
<1> DEFINE e == [kind |-> "added", source |-> late[r]]
<1>1. /\ late[r] # None /\ late' = [late EXCEPT ![r] = None]
      /\ events' = Append(events, e) \/ events' = events
      /\ UNCHANGED <<bound, snap, language, reading, doing, what, ids, answered, gone, must, unmarked>>
  BY DEF AddedEvent, RecordEvent
<1>2. late[r] \in Sources
  BY <1>1, PourParts DEF PourTypeOK
<1>3. e \in Event /\ e.kind = "added"
  BY <1>2, PourParts, EventFields
<1> HIDE DEF e
<1>4. ReviewHolds'
  BY <1>1, <1>3, ReviewKeeps
<1>5. events' \in Seq(Event)
  BY <1>1, <1>3, PourParts, ReviewEvents, EventFields DEF Kinds
<1>6. PourTypeOK'
  BY <1>1, <1>5, PourParts DEF PourTypeOK
<1>7. OneReading' /\ GoneIsGoing'
  BY <1>1, ReadingKeeps, GoneKeeps
<1>8. PourHolds(r)'
  BY <1>1, PourParts DEF PourHolds
<1> QED BY <1>1, <1>4, <1>6, <1>7, <1>8, StepOfOne

-----------------------------------------------------------------------------
(* Removing a source                                                          *)

LEMMA StartRemoveKeeps ==
    ASSUME PourIInv, NEW r \in Pours, NEW s \in Sources, StartRemove(r, s)
    PROVE  PourIInv'
<1>1. /\ doing[r] = "idle" /\ Goto(r, "list") /\ what' = [what EXCEPT ![r] = s]
      /\ answered' = {t \in answered : Page[t] # Page[s]}
      /\ must' = [q \in Pours |-> must[q] \ {Page[s]}]
      /\ UNCHANGED <<bound, events, snap, language, reading, ids, late, gone, unmarked>>
  BY DEF StartRemove
<1>2. /\ doing'[r] = "list" /\ what'[r] = s /\ doing' \in [Pours -> Steps]
      /\ \A q \in Pours \ {r} : what'[q] = what[q] /\ ids'[q] = ids[q] /\ must'[q] \subseteq must[q] /\ doing'[q] = doing[q]
  BY <1>1, PourParts, GotoDoes DEF PourTypeOK, Steps
<1>3. PourTypeOK'
  <2>1. what' \in [Pours -> Sources \cup {None}] /\ must' \in [Pours -> SUBSET Pages]
    BY <1>1, PourParts DEF PourTypeOK
  <2> QED BY <1>1, <1>2, <2>1, PourParts DEF PourTypeOK
<1>4. OneReading' /\ GoneIsGoing' /\ ReviewHolds'
  BY <1>1, <1>2, ReadingKeeps, GoneKeeps, ReviewKeeps
<1>5. PourHolds(r)'
  BY <1>1, <1>2 DEF PourHolds
<1>6. AnsweredIsBound'
  BY <1>1, PourParts DEF AnsweredIsBound
<1>7. \A q \in Pours \ {r} : doing[q] \in {"list", "unbind"} => Page[what[q]] \notin must'[r]
  BY <1>1, PourParts DEF PourHolds
<1>8. \A q \in Pours \ {r} : PourHolds(q)'
  BY <1>1, <1>2, <1>7, OthersKeepHolding
<1> QED BY <1>3, <1>4, <1>5, <1>6, <1>8, PourTogether

LEMMA ListBoundKeeps ==
    ASSUME PourIInv, NEW r \in Pours, ListBound(r)
    PROVE  PourIInv'
<1>1. /\ doing[r] = "list" /\ Goto(r, "unbind")
      /\ ids' = [ids EXCEPT ![r] = {p \in bound : Matches(what[r], p)}]
      /\ gone' = IF Binding(what[r]) = {} THEN gone \cup {what[r]} ELSE gone
      /\ UNCHANGED <<bound, events, snap, language, reading, what, late, answered, must, unmarked>>
  BY DEF ListBound
<1>2. what[r] \in Sources
  BY <1>1, PourParts DEF PourHolds
<1>3. /\ doing'[r] = "unbind" /\ doing' \in [Pours -> Steps] /\ ids'[r] = {p \in bound : Matches(what[r], p)}
      /\ \A q \in Pours \ {r} : doing'[q] = doing[q] /\ ids'[q] = ids[q]
  BY <1>1, PourParts, GotoDoes DEF PourTypeOK, Steps
<1>4. ids'[r] \subseteq {Page[what[r]]} /\ ids'[r] \subseteq bound
  BY <1>3 DEF Matches
<1>5. PourTypeOK'
  <2>1. ids' \in [Pours -> SUBSET (Pages \cup Sources)] /\ gone' \subseteq Sources
    BY <1>1, <1>2, <1>4, PourParts DEF PourTypeOK
  <2> QED BY <1>1, <1>3, <2>1, PourParts DEF PourTypeOK
<1>6. OneReading' /\ ReviewHolds'
  BY <1>1, <1>3, ReadingKeeps, ReviewKeeps
\* The page of a source that is noted as removed is in the list to unlink, if it is bound.
<1>7. GoneIsGoing'
  <2> SUFFICES ASSUME NEW s \in gone', Type[s] # "description", Page[s] \in bound
               PROVE  \E q \in Pours : doing'[q] = "unbind" /\ what'[q] = s /\ Page[s] \in ids'[q]
    BY <1>1 DEF GoneIsGoing
  <2>1. CASE s \in gone
    <3>1. PICK q \in Pours : doing[q] = "unbind" /\ what[q] = s /\ Page[s] \in ids[q]
      BY <2>1, PourParts DEF GoneIsGoing
    <3> QED BY <1>1, <1>3, <3>1
  <2>2. CASE s = what[r]
    <3>1. Type[s] = ListedType(s)
      BY DEF ListedType
    <3>2. Page[s] \in ids'[r]
      BY <1>3, <2>2, <3>1 DEF Matches
    <3> QED BY <1>1, <1>3, <2>2, <3>2
  <2> QED BY <1>1, <2>1, <2>2
<1>8. PourHolds(r)'
  BY <1>1, <1>2, <1>3, <1>4, PourParts DEF PourHolds
<1>9. AnsweredIsBound'
  BY <1>1, PourParts DEF AnsweredIsBound
\* It is noted only if nobody is binding its page.
<1>10. \A q \in Pours \ {r}, t \in gone' \ gone :
          /\ doing[q] \in {"fetch", "bind"} => Page[t] # Page[what[q]]
          /\ doing[q] = "refetch" => \A s \in ids[q] : Page[s] # Page[t]
  <2> SUFFICES ASSUME NEW q \in Pours \ {r}, NEW t \in gone' \ gone
               PROVE  /\ doing[q] \in {"fetch", "bind"} => Page[t] # Page[what[q]]
                      /\ doing[q] = "refetch" => \A s \in ids[q] : Page[s] # Page[t]
    OBVIOUS
  <2>1. t = what[r] /\ q \notin Binding(t)
    BY <1>1
  <2> QED BY <2>1 DEF Binding
<1>11. \A q \in Pours \ {r} : doing[q] \in {"list", "unbind"} => Page[what[q]] \notin must'[r]
  BY <1>1, PourParts DEF PourHolds
<1>12. \A q \in Pours \ {r} : PourHolds(q)'
  BY <1>1, <1>3, <1>10, <1>11, OthersKeepHolding
<1> QED BY <1>5, <1>6, <1>7, <1>8, <1>9, <1>12, PourTogether

LEMMA UnbindKeeps ==
    ASSUME PourIInv, NEW r \in Pours, Unbind(r)
    PROVE  PourIInv'
<1>1. /\ doing[r] = "unbind"
      /\ UNCHANGED <<events, snap, language, reading, late, answered, unmarked>>
  BY DEF Unbind
<1>2. /\ what[r] \in Sources /\ ids[r] \subseteq {Page[what[r]]}
      /\ \A q \in Pours : Page[what[r]] \notin must[q]
      /\ \A s \in answered : Page[s] # Page[what[r]]
  BY <1>1, PourParts DEF PourHolds
<1>3. CASE bound' = bound \ ids[r] /\ Goto(r, "dropped") /\ UNCHANGED <<what, ids, gone, must>>
  <2>1. /\ doing'[r] = "dropped" /\ doing' \in [Pours -> Steps]
        /\ \A q \in Pours \ {r} : doing'[q] = doing[q]
    BY <1>3, PourParts, GotoDoes DEF Steps
  <2>2. PourTypeOK'
    BY <1>1, <1>3, <2>1, PourParts DEF PourTypeOK
  <2>3. OneReading' /\ ReviewHolds'
    BY <1>1, <2>1, ReadingKeeps, ReviewKeeps
  <2>4. GoneIsGoing'
    <3> SUFFICES ASSUME NEW s \in gone, Type[s] # "description", Page[s] \in bound'
                 PROVE  \E q \in Pours : doing'[q] = "unbind" /\ what'[q] = s /\ Page[s] \in ids'[q]
      BY <1>3 DEF GoneIsGoing
    <3>1. Page[s] \in bound /\ Page[s] \notin ids[r]
      BY <1>3
    <3>2. PICK q \in Pours : doing[q] = "unbind" /\ what[q] = s /\ Page[s] \in ids[q]
      BY <3>1, PourParts DEF GoneIsGoing
    <3> QED BY <1>3, <2>1, <3>1, <3>2
  <2>5. PourHolds(r)'
    BY <1>2, <1>3, <2>1 DEF PourHolds
  <2>6. AnsweredIsBound'
    BY <1>1, <1>2, <1>3, PourParts DEF AnsweredIsBound
  <2>7. \A q \in Pours \ {r} : must[q] \cap bound \subseteq bound'
    BY <1>2, <1>3
  <2>8. \A q \in Pours \ {r} : doing[q] \in {"list", "unbind"} => Page[what[q]] \notin must'[r]
    BY <1>3, PourParts DEF PourHolds
  <2>9. \A q \in Pours \ {r} : PourHolds(q)'
    BY <1>1, <1>3, <2>1, <2>7, <2>8, OthersKeepHolding
  <2> QED BY <2>2, <2>3, <2>4, <2>5, <2>6, <2>9, PourTogether
<1>4. CASE bound' = bound /\ Leave(r) /\ gone' = gone \ {what[r]}
  <2>1. PourTypeOK' /\ PourHolds(r)'
    BY <1>1, <1>4, PourParts, LeaveDoes DEF PourTypeOK, PourHolds
  <2>2. OneReading' /\ ReviewHolds'
    BY <1>1, <1>4, PourParts, LeaveDoes, ReadingKeeps, ReviewKeeps
  <2>3. GoneIsGoing'
    <3> SUFFICES ASSUME NEW s \in gone', Type[s] # "description", Page[s] \in bound
                 PROVE  \E q \in Pours : doing'[q] = "unbind" /\ what'[q] = s /\ Page[s] \in ids'[q]
      BY <1>4 DEF GoneIsGoing
    <3>1. PICK q \in Pours : doing[q] = "unbind" /\ what[q] = s /\ Page[s] \in ids[q]
      BY <1>4, PourParts DEF GoneIsGoing
    <3>2. q # r
      BY <1>4, <3>1
    <3> QED BY <1>4, <3>1, <3>2, PourParts, LeaveDoes
  <2> QED BY <1>1, <1>4, <2>1, <2>2, <2>3, PourParts, LeaveDoes, StepOfOne
<1> QED BY <1>3, <1>4 DEF Unbind

LEMMA MarkRemovedKeeps ==
    ASSUME PourIInv, NEW r \in Pours, MarkRemoved(r)
    PROVE  PourIInv'
<1> DEFINE e == [kind |-> "removed", source |-> what[r]]
<1>1. /\ doing[r] = "dropped" /\ Leave(r)
      /\ events' = Append(events, e) \/ events' = events
      /\ UNCHANGED <<bound, snap, language, reading, late, answered, gone, unmarked>>
  BY DEF MarkRemoved, RecordEvent
<1>2. e \in Event /\ e.kind = "removed"
  BY <1>1, PourParts, EventFields DEF PourHolds
<1> HIDE DEF e
<1>3. ReviewHolds'
  BY <1>1, <1>2, PourParts, LeaveDoes, ReviewKeeps
<1>4. events' \in Seq(Event)
  BY <1>1, <1>2, PourParts, ReviewEvents, EventFields DEF Kinds
<1>5. PourTypeOK' /\ PourHolds(r)'
  BY <1>1, <1>4, PourParts, LeaveDoes DEF PourTypeOK, PourHolds
<1>6. OneReading' /\ GoneIsGoing'
  BY <1>1, PourParts, LeaveDoes, ReadingKeeps, GoneKeeps
<1> QED BY <1>1, <1>3, <1>5, <1>6, PourParts, LeaveDoes, StepOfOne

-----------------------------------------------------------------------------
(* The reading                                                                *)

LEMMA StartDoneKeeps ==
    ASSUME PourIInv, NEW r \in Pours, StartDone(r)
    PROVE  PourIInv'
<1>1. /\ doing[r] = "idle" /\ reading = None /\ reading' = r /\ Goto(r, "flags")
      /\ must' = [must EXCEPT ![r] = {Page[s] : s \in answered}]
      /\ UNCHANGED <<bound, events, snap, language, what, ids, late, answered, gone, unmarked>>
  BY DEF StartDone
<1>2. /\ doing'[r] = "flags" /\ doing' \in [Pours -> Steps] /\ must'[r] = {Page[s] : s \in answered}
      /\ \A q \in Pours \ {r} : doing'[q] = doing[q] /\ must'[q] = must[q]
  BY <1>1, PourParts, GotoDoes DEF PourTypeOK, Steps
<1>3. {Page[s] : s \in answered} \subseteq Pages
  BY PourParts DEF PourTypeOK, Pages
<1>4. PourTypeOK'
  <2>1. must' \in [Pours -> SUBSET Pages]
    BY <1>1, <1>3, PourParts DEF PourTypeOK
  <2> QED BY <1>1, <1>2, <2>1, PourParts DEF PourTypeOK
<1>5. OneReading'
  BY <1>1, <1>2, PourParts DEF OneReading
<1>6. GoneIsGoing' /\ ReviewHolds'
  BY <1>1, <1>2, GoneKeeps, ReviewKeeps
<1>7. PourHolds(r)'
  BY <1>1, <1>2, PourParts DEF PourHolds, AnsweredIsBound
<1>8. AnsweredIsBound'
  BY <1>1, PourParts DEF AnsweredIsBound
\* No answered source has a page under removal.
<1>9. \A q \in Pours \ {r} : doing[q] \in {"list", "unbind"} => Page[what[q]] \notin must'[r]
  BY <1>2, PourParts DEF PourHolds
<1>10. \A q \in Pours \ {r} : PourHolds(q)'
  BY <1>1, <1>2, <1>9, OthersKeepHolding
<1> QED BY <1>4, <1>5, <1>6, <1>7, <1>8, <1>10, PourTogether

LEMMA JoinDoneKeeps ==
    ASSUME PourIInv, NEW r \in Pours, JoinDone(r)
    PROVE  PourIInv'
<1>1. /\ doing[r] = "idle" /\ Goto(r, "joined")
      /\ UNCHANGED <<bound, events, snap, language, reading, what, ids, late, answered, gone, must, unmarked>>
  BY DEF JoinDone
<1>2. /\ doing'[r] = "joined" /\ doing' \in [Pours -> Steps]
      /\ \A q \in Pours \ {r} : doing'[q] = doing[q]
  BY <1>1, PourParts, GotoDoes DEF Steps
<1>3. PourTypeOK'
  BY <1>1, <1>2, PourParts DEF PourTypeOK
<1>4. OneReading' /\ GoneIsGoing' /\ ReviewHolds'
  BY <1>1, <1>2, ReadingKeeps, GoneKeeps, ReviewKeeps
<1>5. PourHolds(r)'
  BY <1>2 DEF PourHolds
<1> QED BY <1>1, <1>2, <1>3, <1>4, <1>5, StepOfOne

LEMMA ReadFlagsKeeps ==
    ASSUME PourIInv, NEW r \in Pours, ReadFlags(r)
    PROVE  PourIInv'
<1>0. PICK again \in DoneSeen :
          /\ ids' = [ids EXCEPT ![r] = IF again THEN {s \in Listed : ListedType(s) = "website"} ELSE {}]
          /\ gone' = IF again THEN {t \in gone : \A s \in Listed : Page[s] # Page[t]} ELSE gone
  BY DEF ReadFlags
<1> DEFINE new == IF again THEN {s \in Listed : ListedType(s) = "website"} ELSE {}
<1>1. /\ doing[r] = "flags" /\ Goto(r, "refetch") /\ ids' = [ids EXCEPT ![r] = new]
      /\ gone' = IF again THEN {t \in gone : \A s \in Listed : Page[s] # Page[t]} ELSE gone
      /\ UNCHANGED <<bound, events, snap, language, reading, what, late, answered, must, unmarked>>
  BY <1>0 DEF ReadFlags
<1>2. new \subseteq Sources /\ \A s \in new, t \in gone' : Page[s] # Page[t]
  BY <1>1 DEF Listed
<1> HIDE DEF new
<1>3. /\ doing'[r] = "refetch" /\ doing' \in [Pours -> Steps] /\ ids'[r] = new
      /\ \A q \in Pours \ {r} : doing'[q] = doing[q] /\ ids'[q] = ids[q]
  BY <1>1, PourParts, GotoDoes DEF PourTypeOK, Steps
<1>4. gone' \subseteq gone
  BY <1>1
<1>5. PourTypeOK'
  <2>1. ids' \in [Pours -> SUBSET (Pages \cup Sources)] /\ gone' \subseteq Sources
    BY <1>1, <1>2, <1>4, PourParts DEF PourTypeOK
  <2> QED BY <1>1, <1>3, <2>1, PourParts DEF PourTypeOK
<1>6. OneReading' /\ GoneIsGoing' /\ ReviewHolds'
  BY <1>1, <1>3, <1>4, ReadingKeeps, GoneKeeps, ReviewKeeps
<1>7. PourHolds(r)'
  BY <1>1, <1>2, <1>3, PourParts DEF PourHolds
<1> QED BY <1>1, <1>3, <1>4, <1>5, <1>6, <1>7, StepOfOne

LEMMA RefetchKeeps ==
    ASSUME PourIInv, NEW r \in Pours, NEW s \in Sources, Refetch(r, s)
    PROVE  PourIInv'
<1>1. /\ doing[r] = "refetch" /\ s \in ids[r] /\ ids' = [ids EXCEPT ![r] = @ \ {s}]
      /\ bound' \in {bound} \cup {bound \cup {Page[t]} : t \in {s} \cap {u \in Sources : Type[u] = "website"}}
      /\ UNCHANGED <<events, snap, language, reading, doing, what, late, answered, gone, must, unmarked>>
  BY DEF Refetch
<1>2. bound' = bound \/ bound' = bound \cup {Page[s]}
  BY <1>1
<1>3. /\ must[r] \subseteq bound /\ ids[r] \subseteq Sources /\ Page[s] \in Pages
      /\ \A u \in ids[r], t \in gone : Page[u] # Page[t]
  BY <1>1, PourParts DEF PourHolds, Pages
<1>4. ids'[r] = ids[r] \ {s} /\ \A q \in Pours \ {r} : ids'[q] = ids[q]
  BY <1>1, PourParts DEF PourTypeOK
<1>5. PourTypeOK'
  <2>1. ids' \in [Pours -> SUBSET (Pages \cup Sources)] /\ bound' \subseteq Pages
    BY <1>1, <1>2, <1>3, PourParts DEF PourTypeOK
  <2> QED BY <1>1, <2>1, PourParts DEF PourTypeOK
<1>6. OneReading' /\ ReviewHolds'
  BY <1>1, ReadingKeeps, ReviewKeeps
<1>7. GoneIsGoing'
  BY <1>1, <1>2, <1>3, <1>4, GoneKeeps
<1>8. PourHolds(r)'
  BY <1>1, <1>2, <1>3, <1>4 DEF PourHolds
<1> QED BY <1>1, <1>2, <1>4, <1>5, <1>6, <1>7, <1>8, StepOfOne

LEMMA ReadBoundKeeps ==
    ASSUME PourIInv, NEW r \in Pours, ReadBound(r)
    PROVE  PourIInv'
<1>1. /\ doing[r] = "refetch"
      /\ UNCHANGED <<bound, events, snap, language, what, late, answered, gone, unmarked>>
  BY DEF ReadBound
<1>2. CASE EndReading(r)
  <2>1. ReviewHolds'
    BY <1>1, <1>2, PourParts, ReviewKeeps DEF EndReading, PourTypeOK, OneReading
  <2> QED BY <1>1, <1>2, <2>1, PourParts, EndReadingKeeps DEF PourTypeOK
<1>3. CASE /\ bound # {} /\ ids' = [ids EXCEPT ![r] = bound] /\ Goto(r, "language") /\ UNCHANGED <<reading, must>>
  <2>1. /\ doing'[r] = "language" /\ doing' \in [Pours -> Steps] /\ ids'[r] = bound
        /\ \A q \in Pours \ {r} : doing'[q] = doing[q] /\ ids'[q] = ids[q]
    BY <1>3, PourParts, GotoDoes DEF PourTypeOK, Steps
  <2>2. PourTypeOK'
    <3>1. ids' \in [Pours -> SUBSET (Pages \cup Sources)]
      BY <1>3, PourParts DEF PourTypeOK
    <3> QED BY <1>1, <1>3, <2>1, <3>1, PourParts DEF PourTypeOK
  <2>3. OneReading' /\ GoneIsGoing' /\ ReviewHolds'
    BY <1>1, <1>3, <2>1, ReadingKeeps, GoneKeeps, ReviewKeeps
  <2>4. PourHolds(r)'
    BY <1>1, <1>3, <2>1, PourParts DEF PourHolds, PourTypeOK
  <2> QED BY <1>1, <1>3, <2>1, <2>2, <2>3, <2>4, StepOfOne
<1> QED BY <1>2, <1>3 DEF ReadBound

\* A language that is set is one of the languages, or none.
LEMMA LanguageType ==
    ASSUME PourTypeOK, NEW l \in Languages \cup {None}, SetIfUnset(l)
    PROVE  language' \in Languages \cup {None}
BY DEF PourTypeOK, SetIfUnset

LEMMA DecideLanguageKeeps ==
    ASSUME PourIInv, NEW r \in Pours, DecideLanguage(r)
    PROVE  PourIInv'
<1>1. /\ doing[r] = "language" /\ Goto(r, "synthesize")
      /\ UNCHANGED <<bound, events, snap, reading, what, ids, late, answered, gone, must, unmarked>>
  BY DEF DecideLanguage
<1>2. language' \in Languages \cup {None}
  BY PourParts, LanguageType DEF DecideLanguage, PourTypeOK
<1>3. /\ doing'[r] = "synthesize" /\ doing' \in [Pours -> Steps]
      /\ \A q \in Pours \ {r} : doing'[q] = doing[q]
  BY <1>1, PourParts, GotoDoes DEF Steps
<1>4. PourTypeOK'
  BY <1>1, <1>2, <1>3, PourParts DEF PourTypeOK
<1>5. OneReading' /\ GoneIsGoing' /\ ReviewHolds'
  BY <1>1, <1>3, ReadingKeeps, GoneKeeps, ReviewKeeps
<1>6. PourHolds(r)'
  BY <1>1, <1>3, PourParts DEF PourHolds
<1> QED BY <1>1, <1>3, <1>4, <1>5, <1>6, StepOfOne

LEMMA SynthesizeKeeps ==
    ASSUME PourIInv, NEW r \in Pours, Synthesize(r)
    PROVE  PourIInv'
<1>1. /\ doing[r] = "synthesize"
      /\ UNCHANGED <<bound, events, snap, what, late, answered, gone, unmarked>>
  BY DEF Synthesize
<1>2. language' \in Languages \cup {None}
  BY PourParts, LanguageType DEF Synthesize, PourTypeOK
<1>3. CASE EndReading(r)
  <2>1. ReviewHolds'
    BY <1>1, <1>3, PourParts, ReviewKeeps DEF EndReading, PourTypeOK, OneReading
  <2> QED BY <1>1, <1>2, <1>3, <2>1, PourParts, EndReadingKeeps DEF PourTypeOK
<1>4. CASE Goto(r, "save") /\ UNCHANGED <<reading, ids, must>>
  <2>1. /\ doing'[r] = "save" /\ doing' \in [Pours -> Steps]
        /\ \A q \in Pours \ {r} : doing'[q] = doing[q]
    BY <1>4, PourParts, GotoDoes DEF Steps
  <2>2. PourTypeOK'
    BY <1>1, <1>2, <1>4, <2>1, PourParts DEF PourTypeOK
  <2>3. OneReading' /\ GoneIsGoing' /\ ReviewHolds'
    BY <1>1, <1>4, <2>1, ReadingKeeps, GoneKeeps, ReviewKeeps
  <2>4. PourHolds(r)'
    BY <1>1, <1>4, <2>1, PourParts DEF PourHolds
  <2> QED BY <1>1, <1>4, <2>1, <2>2, <2>3, <2>4, StepOfOne
<1> QED BY <1>3, <1>4 DEF Synthesize

LEMMA SaveUnderstandingKeeps ==
    ASSUME PourIInv, NEW r \in Pours, SaveUnderstanding(r)
    PROVE  PourIInv'
<1>1. /\ doing[r] = "save"
      /\ UNCHANGED <<bound, events, language, what, late, answered, gone, unmarked>>
  BY DEF SaveUnderstanding
<1>2. CASE snap' = snap /\ EndReading(r)
  <2>1. ReviewHolds'
    BY <1>1, <1>2, PourParts, ReviewKeeps DEF EndReading, PourTypeOK, OneReading
  <2> QED BY <1>1, <1>2, <2>1, PourParts, EndReadingKeeps DEF PourTypeOK
<1>3. CASE /\ snap' = [number |-> snap.number + 1, read |-> ids[r], at |-> Len(events)]
           /\ Goto(r, "flag") /\ UNCHANGED <<reading, ids, must>>
  <2>1. /\ doing'[r] = "flag" /\ doing' \in [Pours -> Steps]
        /\ \A q \in Pours \ {r} : doing'[q] = doing[q]
    BY <1>3, PourParts, GotoDoes DEF Steps
  <2>2. ids[r] \subseteq Pages /\ ids[r] # {}
    BY <1>1, PourParts DEF PourHolds
  <2>3. snap' \in [number : Nat, read : SUBSET Pages, at : Nat] /\ snap'.number > 0 /\ snap'.read # {}
    BY <1>3, <2>2, PourParts, EventFields
  <2>4. PourTypeOK'
    BY <1>1, <1>3, <2>1, <2>3, PourParts DEF PourTypeOK
  <2>5. OneReading' /\ GoneIsGoing'
    BY <1>1, <1>3, <2>1, ReadingKeeps, GoneKeeps
  <2>6. ReviewHolds'
    BY <1>1, <1>3, <2>1, <2>2, SaveReview
  <2>7. PourHolds(r)'
    BY <2>1, <2>3 DEF PourHolds
  <2> QED BY <1>1, <1>3, <2>1, <2>3, <2>4, <2>5, <2>6, <2>7, StepOfOne
<1> QED BY <1>2, <1>3 DEF SaveUnderstanding

LEMMA MarkReadKeeps ==
    ASSUME PourIInv, NEW r \in Pours, MarkRead(r)
    PROVE  PourIInv'
<1>0. PICK again \in DoneSeen :
          /\ RecordEvent([kind |-> IF again THEN "reopened" ELSE "done"])
          /\ unmarked' = (events' = events \/ again # PourInDone)
  BY DEF MarkRead
<1> DEFINE e == [kind |-> IF again THEN "reopened" ELSE "done"]
<1>1. /\ doing[r] = "flag" /\ EndReading(r) /\ unmarked' \in BOOLEAN
      /\ events' = Append(events, e) \/ events' = events
      /\ UNCHANGED <<bound, snap, language, what, late, answered, gone>>
  BY <1>0 DEF MarkRead, RecordEvent
<1>2. e \in Event /\ e.kind \in Kinds
  BY PourParts, EventFields DEF Kinds
<1> HIDE DEF e
<1>3. events' \in Seq(Event)
  BY <1>1, <1>2, PourParts, ReviewEvents, EventFields
<1>4. ReviewHolds'
  BY MarkReview
<1> QED BY <1>1, <1>3, <1>4, PourParts, EndReadingKeeps DEF PourTypeOK

LEMMA ConfirmKeeps ==
    ASSUME PourIInv, Confirm
    PROVE  PourIInv'
<1> DEFINE e == [kind |-> "confirmed"]
<1>1. /\ events' = Append(events, e)
      /\ UNCHANGED <<bound, snap, language, reading, doing, what, ids, late, answered, gone, must, unmarked>>
  BY DEF Confirm
<1>2. e \in Event /\ e.kind \in Kinds
  BY PourParts, EventFields DEF Kinds
<1> HIDE DEF e
<1>3. PourTypeOK'
  BY <1>1, <1>2, PourParts, ReviewEvents DEF PourTypeOK
<1>4. OneReading' /\ AnsweredIsBound' /\ GoneIsGoing'
  BY <1>1, PourParts, GoneKeeps DEF OneReading, AnsweredIsBound
<1>5. \A q \in Pours : PourHolds(q)'
  BY <1>1, PourParts DEF PourHolds
<1> QED BY <1>3, <1>4, <1>5, ConfirmReview, PourTogether

\* A crash forgets every request, and with a removal that was on its way the note of it.
LEMMA CrashKeeps ==
    ASSUME PourIInv, Crash
    PROVE  PourIInv'
<1>1. /\ reading' = None /\ doing' = [r \in Pours |-> "idle"] /\ late' = [r \in Pours |-> None]
      /\ what' = [r \in Pours |-> None] /\ ids' = [r \in Pours |-> {}] /\ must' = [r \in Pours |-> {}]
      /\ unmarked' = (unmarked \/ \E r \in Pours : doing[r] = "flag")
      /\ gone' = gone \ {what[r] : r \in {q \in Pours : doing[q] = "unbind"}}
      /\ UNCHANGED <<bound, events, snap, language, answered>>
  BY DEF Crash
<1>2. PourTypeOK'
  BY <1>1, PourParts DEF PourTypeOK, Steps
<1>3. OneReading' /\ AnsweredIsBound' /\ \A q \in Pours : PourHolds(q)'
  BY <1>1, PourParts DEF OneReading, AnsweredIsBound, PourHolds
<1>4. GoneIsGoing'
  <2> SUFFICES ASSUME NEW s \in gone', Type[s] # "description", Page[s] \in bound
               PROVE  FALSE
    BY <1>1 DEF GoneIsGoing
  <2>1. PICK q \in Pours : doing[q] = "unbind" /\ what[q] = s
    BY <1>1, PourParts DEF GoneIsGoing
  <2> QED BY <1>1, <2>1
<1> QED BY <1>2, <1>3, <1>4, CrashReview, PourTogether

-----------------------------------------------------------------------------
LEMMA PourInitOK == PourInit => PourIInv
<1> SUFFICES ASSUME PourInit PROVE PourIInv
  OBVIOUS
<1> USE DEF PourInit
<1>1. Len(events) = 0 /\ events \in Seq(Event) /\ 1..0 = {}
  OBVIOUS
<1>2. \A k : LastOf(k) = 0
  BY <1>1 DEF LastOf
<1>3. PourTypeOK
  BY <1>1 DEF PourTypeOK, Steps
<1>4. HasLast(events) /\ snap.at <= Len(events)
  BY <1>1 DEF HasLast
<1>5. PourInDone = FALSE /\ Confirmed = FALSE
  BY <1>2 DEF PourInDone, Confirmed
<1>6. ReviewHolds
  BY <1>2, <1>4, <1>5 DEF ReviewHolds, ConfirmCoversLatest, DoneMeansUnderstood
<1>7. /\ AnsweredSourceIsRead /\ RemovedIsUnbound /\ OneReading /\ AnsweredIsBound /\ GoneIsGoing
      /\ \A r \in Pours : PourHolds(r)
  BY DEF AnsweredSourceIsRead, RemovedIsUnbound, OneReading, AnsweredIsBound, GoneIsGoing, PourHolds
<1> QED BY <1>3, <1>6, <1>7 DEF PourIInv, PourInv, ReviewHolds

LEMMA PourNextOK ==
    ASSUME PourIInv, [PourNext]_pourVars
    PROVE  PourIInv'
<1>1. CASE UNCHANGED pourVars
  <2> USE <1>1 DEF pourVars
  <2>1. ReviewHolds'
    BY ReviewKeeps
  <2>2. PourTypeOK' /\ OneReading' /\ AnsweredIsBound' /\ GoneIsGoing'
    BY PourParts DEF PourTypeOK, OneReading, AnsweredIsBound, GoneIsGoing
  <2>3. \A q \in Pours : PourHolds(q)'
    BY PourParts DEF PourHolds
  <2> QED BY <2>1, <2>2, <2>3, PourTogether
<1>2. ASSUME NEW r \in Pours,
             \/ \E s \in Sources : StartAdd(r, s) \/ StartRemove(r, s)
             \/ Fetched(r) \/ Bind(r) \/ MarkAdded(r) \/ AddedEvent(r)
             \/ ListBound(r) \/ Unbind(r) \/ MarkRemoved(r)
             \/ StartDone(r) \/ JoinDone(r)
      PROVE  PourIInv'
  BY <1>2, StartAddKeeps, StartRemoveKeeps, FetchedKeeps, BindKeeps, MarkAddedKeeps, AddedEventKeeps,
     ListBoundKeeps, UnbindKeeps, MarkRemovedKeeps, StartDoneKeeps, JoinDoneKeeps
<1>3. ASSUME NEW r \in Pours, ReadingStep(r)
      PROVE  PourIInv'
  BY <1>3, ReadFlagsKeeps, RefetchKeeps, ReadBoundKeeps, DecideLanguageKeeps, SynthesizeKeeps,
     SaveUnderstandingKeeps, MarkReadKeeps DEF ReadingStep
<1> QED BY <1>1, <1>2, <1>3, ConfirmKeeps, CrashKeeps DEF PourNext

\* Between any two steps of a pour-in: the review covers the latest understanding unless its event was lost,
\* the arc leaves the pour-in only with an understanding, a reading contains every answered source nobody has
\* started to remove, a removed source stays out, and one reading runs (arc.service.ts, the pour-in routes).
THEOREM PouringInIsKept == PourSpec => []PourInv
<1>1. PourInit => PourIInv
  BY PourInitOK
<1>2. PourIInv /\ [PourNext]_pourVars => PourIInv'
  BY PourNextOK
<1>3. PourIInv => PourInv
  BY DEF PourIInv
<1> QED BY <1>1, <1>2, <1>3, PTL DEF PourSpec

\* Every source whose addition was answered, and that nobody has removed since, has its page bound to the
\* business, whatever is removed, read again or lost in a crash.
THEOREM AnsweredStaysBound == PourSpec => []AnsweredIsBound
<1>1. PourInit => PourIInv
  BY PourInitOK
<1>2. PourIInv /\ [PourNext]_pourVars => PourIInv'
  BY PourNextOK
<1>3. PourIInv => AnsweredIsBound
  BY DEF PourIInv
<1> QED BY <1>1, <1>2, <1>3, PTL DEF PourSpec

=============================================================================
