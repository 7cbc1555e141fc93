------------------------- MODULE FounderIntakeProofs -------------------------
(***************************************************************************)
(* For every set of commands and questions and every size of the pool: the *)
(* founder's row is what its events say, an intake is completed once, and  *)
(* the memory is seeded from a closed intake.                              *)
(***************************************************************************)
EXTENDS FounderIntake, FiniteSetTheorems, TLAPS

USE FounderAssumption DEF FounderAssumption

PastTheLock == {"locked", "found", "closed", "written"}

\* What a transaction holds.
OwnIsTyped ==
    own \in [Commands -> [status : {"none", "CREATED", "INTAKE_PENDING", "ACTIVE", "RECALIBRATING", "PAUSED"},
                          answers : SUBSET Questions, layers : SUBSET Questions]]

\* Whoever is past the lock holds the row, and what it has read of it still stands; nobody else has
\* it, and it is let go of when the transaction ends.
RowOwner ==
    /\ rowLock # Unlocked => rowLock \in Transactions
    /\ \A r \in Commands : reached[r] \in PastTheLock =>
          /\ rowLock = r /\ asks[r].kind \in Changes
          /\ reached[r] # "written" => own[r].status = founderStatus
          /\ reached[r] \in {"found", "closed"} => asks[r].kind = "complete"

\* A change is saved from a status that admits it.
LawfulChange ==
    \A r \in Commands :
        /\ reached[r] \in {"closed", "written"} => founderStatus \in Requires[asks[r].kind]
        /\ reached[r] = "written" => own[r].status = Becomes[asks[r].kind]

\* Layers are held by a completion whose session is closed, and by nobody before it has saved.
LayersOfCompletion ==
    \A r \in Commands :
        /\ reached[r] \notin Ended \cup {"written"} => own[r].layers = {}
        /\ reached[r] = "written" /\ asks[r].kind # "complete" => own[r].layers = {}
        /\ reached[r] = "closed" => session = "completed"
        /\ reached[r] = "written" /\ asks[r].kind = "complete" => session = "completed"

FounderIInv ==
    /\ FounderInv
    /\ OwnIsTyped
    /\ RowOwner
    /\ LawfulChange
    /\ LayersOfCompletion

-----------------------------------------------------------------------------
LEMMA FounderInitOK == FounderInit => FounderIInv
<1> SUFFICES ASSUME FounderInit PROVE FounderIInv
  OBVIOUS
<1> USE DEF FounderInit
<1>1. NoAsk \in Ask
  BY DEF NoAsk, Ask
<1>2. FounderTypeOK
  BY <1>1 DEF FounderTypeOK, Changes, Becomes, Requires, InTransaction, Ended
<1>3. OwnIsTyped /\ RowOwner /\ LawfulChange /\ LayersOfCompletion
  BY DEF OwnIsTyped, RowOwner, LawfulChange, LayersOfCompletion, PastTheLock, Ended
<1>4. StatusIsAnnounced
  <2>1. {i \in 1..Len(announced) : announced[i] = "complete"} = {}
    OBVIOUS
  <2>2. Cardinality({i \in 1..Len(announced) : announced[i] = "complete"}) = 0
    BY <2>1, FS_EmptySet
  <2> QED BY <2>2 DEF StatusIsAnnounced
<1>5. SeededByClosedIntake
  BY DEF SeededByClosedIntake, ToSet
<1> QED BY <1>2, <1>3, <1>4, <1>5 DEF FounderIInv, FounderInv

-----------------------------------------------------------------------------
\* The fields of what a transaction holds, and what a change may require and become.
LEMMA OwnFields ==
    ASSUME OwnIsTyped
    PROVE  \A r \in Commands : /\ own[r].answers \subseteq Questions /\ own[r].layers \subseteq Questions
                               /\ own[r].status \in {"none", "CREATED", "INTAKE_PENDING", "ACTIVE",
                                                     "RECALIBRATING", "PAUSED"}
  BY DEF OwnIsTyped

LEMMA StatusesOfChanges ==
    /\ UNION {Requires[k] : k \in Changes}
          = {"CREATED", "INTAKE_PENDING", "ACTIVE", "RECALIBRATING", "PAUSED"}
    /\ \A k \in Changes : /\ Becomes[k] \in {"ACTIVE", "RECALIBRATING", "PAUSED"}
                          /\ Requires[k] \subseteq {"CREATED", "INTAKE_PENDING", "ACTIVE",
                                                    "RECALIBRATING", "PAUSED"}
                          /\ Requires[k] # {}
    /\ Changes = {"pause", "resume", "recalibrate", "complete"}
    /\ Requires["complete"] = {"INTAKE_PENDING"} /\ Becomes["complete"] = "ACTIVE"
<1>1. Changes = {"pause", "resume", "recalibrate", "complete"}
  BY DEF Changes, Becomes
<1>2. /\ Requires["pause"] = {"CREATED", "INTAKE_PENDING", "ACTIVE", "RECALIBRATING"}
      /\ Requires["resume"] = {"PAUSED"} /\ Requires["recalibrate"] = {"ACTIVE", "RECALIBRATING"}
      /\ Requires["complete"] = {"INTAKE_PENDING"}
  BY DEF Requires
<1>3. /\ Becomes["pause"] = "PAUSED" /\ Becomes["resume"] = "ACTIVE"
      /\ Becomes["recalibrate"] = "RECALIBRATING" /\ Becomes["complete"] = "ACTIVE"
  BY DEF Becomes
<1>4. UNION {Requires[k] : k \in Changes} = Requires["pause"] \cup Requires["resume"]
                                            \cup Requires["recalibrate"] \cup Requires["complete"]
  BY <1>1
<1> QED BY <1>1, <1>2, <1>3, <1>4

-----------------------------------------------------------------------------
\* A step that neither changes the founder's row nor announces anything keeps what the row says, if
\* a completed session stays so.
LEMMA QuietKeeps ==
    ASSUME StatusIsAnnounced, SeededByClosedIntake, UNCHANGED <<founderStatus, memory, announced>>,
           session = "completed" => session' = "completed"
    PROVE  StatusIsAnnounced' /\ SeededByClosedIntake'
  BY DEF StatusIsAnnounced, SeededByClosedIntake

\* A command moves on, or begins, without a change of its rows.
LEMMA StepKeeps ==
    ASSUME FounderIInv, FounderTypeOK', OwnIsTyped', NEW r \in Commands,
           UNCHANGED <<founderStatus, memory, announced>>,
           session = "completed" => session' = "completed",
           \A s \in Commands \ {r} : /\ reached'[s] = reached[s] /\ asks'[s] = asks[s]
                                     /\ own'[s] = own[s] /\ (rowLock = s => rowLock' = s),
           rowLock' # Unlocked => rowLock' \in {rowLock, r} /\ (rowLock' = r => reached'[r] \in InTransaction),
           reached'[r] \in PastTheLock =>
              /\ rowLock' = r /\ asks'[r].kind \in Changes
              /\ reached'[r] # "written" => own'[r].status = founderStatus
              /\ reached'[r] \in {"found", "closed"} => asks'[r].kind = "complete",
           /\ reached'[r] \in {"closed", "written"} => founderStatus \in Requires[asks'[r].kind]
           /\ reached'[r] = "written" => own'[r].status = Becomes[asks'[r].kind],
           /\ reached'[r] \notin Ended \cup {"written"} => own'[r].layers = {}
           /\ reached'[r] = "written" /\ asks'[r].kind # "complete" => own'[r].layers = {}
           /\ reached'[r] = "closed" => session' = "completed"
           /\ reached'[r] = "written" /\ asks'[r].kind = "complete" => session' = "completed"
    PROVE  FounderIInv'
<1>1. StatusIsAnnounced' /\ SeededByClosedIntake'
  BY QuietKeeps DEF FounderIInv, FounderInv
<1>2. RowOwner'
  <2>1. rowLock' # Unlocked => rowLock' \in Transactions'
    BY DEF FounderIInv, RowOwner, Transactions
  <2>2. \A s \in Commands : reached'[s] \in PastTheLock =>
          /\ rowLock' = s /\ asks'[s].kind \in Changes
          /\ reached'[s] # "written" => own'[s].status = founderStatus'
          /\ reached'[s] \in {"found", "closed"} => asks'[s].kind = "complete"
    BY DEF FounderIInv, RowOwner
  <2> QED BY <2>1, <2>2 DEF RowOwner
<1>3. LawfulChange'
  BY DEF FounderIInv, LawfulChange
<1>4. LayersOfCompletion'
  BY DEF FounderIInv, LayersOfCompletion
<1> QED BY <1>1, <1>2, <1>3, <1>4 DEF FounderIInv, FounderInv, RowOwner

\* A transaction ends without a change: the row is free again if it was its own.
LEMMA EndTxKeeps ==
    ASSUME FounderIInv, NEW r \in Commands, NEW p \in Ended, EndTx(r, p),
           UNCHANGED <<founderStatus, session, answers, memory, announced>>
    PROVE  FounderIInv'
<1> USE DEF EndTx, Moves
<1>1. FounderTypeOK' /\ OwnIsTyped'
  BY DEF FounderIInv, FounderInv, FounderTypeOK, OwnIsTyped, Ended
<1>2. reached'[r] = p /\ \A s \in Commands \ {r} : reached'[s] = reached[s]
  BY DEF FounderIInv, FounderInv, FounderTypeOK
<1>3. p \notin PastTheLock
  BY DEF Ended, PastTheLock
<1> QED BY <1>1, <1>2, <1>3, StepKeeps DEF PastTheLock

-----------------------------------------------------------------------------
LEMMA SendKeeps ==
    ASSUME FounderIInv, NEW r \in Commands, NEW a \in Ask, Send(r, a) PROVE FounderIInv'
<1> USE DEF Send, Moves
<1>1. FounderTypeOK' /\ OwnIsTyped'
  BY DEF FounderIInv, FounderInv, FounderTypeOK, OwnIsTyped
<1>2. reached'[r] = "sent" /\ \A s \in Commands \ {r} : reached'[s] = reached[s] /\ asks'[s] = asks[s]
  BY DEF FounderIInv, FounderInv, FounderTypeOK
<1>3. own[r].layers = {}
  BY DEF FounderIInv, LayersOfCompletion, Ended
<1>4. rowLock # r
  BY DEF FounderIInv, RowOwner, Transactions, InTransaction
<1> QED BY <1>1, <1>2, <1>3, <1>4, StepKeeps DEF PastTheLock

LEMMA BeginTxKeeps == ASSUME FounderIInv, NEW r \in Commands, BeginTx(r) PROVE FounderIInv'
<1> USE DEF BeginTx, Moves
<1>1. FounderTypeOK' /\ OwnIsTyped'
  BY DEF FounderIInv, FounderInv, FounderTypeOK, OwnIsTyped, InTransaction
<1>2. reached'[r] = "begun" /\ \A s \in Commands \ {r} : reached'[s] = reached[s]
  BY DEF FounderIInv, FounderInv, FounderTypeOK
<1>3. own[r].layers = {}
  BY DEF FounderIInv, LayersOfCompletion, Ended
<1> QED BY <1>1, <1>2, <1>3, StepKeeps DEF PastTheLock, InTransaction

LEMMA LockFounderRowKeeps == ASSUME FounderIInv, NEW r \in Commands, LockFounderRow(r) PROVE FounderIInv'
<1> USE DEF LockFounderRow, Moves
<1>1. own'[r].status = founderStatus /\ own'[r].layers = own[r].layers
      /\ \A s \in Commands \ {r} : own'[s] = own[s]
  BY DEF FounderIInv, OwnIsTyped
<1>2. OwnIsTyped'
  BY DEF FounderIInv, FounderInv, FounderTypeOK, OwnIsTyped
<1>3. FounderTypeOK'
  BY <1>2, OwnFields, StatusesOfChanges DEF FounderIInv, FounderInv, FounderTypeOK, InTransaction, OwnIsTyped
<1>4. reached'[r] = "locked" /\ \A s \in Commands \ {r} : reached'[s] = reached[s]
  BY DEF FounderIInv, FounderInv, FounderTypeOK
<1>5. own[r].layers = {}
  BY DEF FounderIInv, LayersOfCompletion, Ended
<1> QED BY <1>1, <1>2, <1>3, <1>4, <1>5, StepKeeps DEF PastTheLock, InTransaction

LEMMA RefuseCommandKeeps == ASSUME FounderIInv, NEW r \in Commands, RefuseCommand(r) PROVE FounderIInv'
  BY EndTxKeeps DEF RefuseCommand, Ended

LEMMA CommandFailsKeeps == ASSUME FounderIInv, NEW r \in Commands, CommandFails(r) PROVE FounderIInv'
  BY EndTxKeeps DEF CommandFails, Ended

LEMMA ReadCycleApartKeeps == ASSUME FounderIInv, NEW r \in Commands, ReadCycleApart(r) PROVE FounderIInv'
  BY EndTxKeeps DEF ReadCycleApart, Ended

LEMMA ChangeStatusKeeps == ASSUME FounderIInv, NEW r \in Commands, ChangeStatus(r) PROVE FounderIInv'
<1> USE DEF ChangeStatus, Moves
<1>1. rowLock = r /\ own[r].status = founderStatus /\ own[r].layers = {}
  BY DEF FounderIInv, RowOwner, LayersOfCompletion, PastTheLock, Ended
<1>2. /\ own'[r].status = Becomes[asks[r].kind] /\ own'[r].layers = {}
      /\ \A s \in Commands \ {r} : own'[s] = own[s]
  BY <1>1 DEF FounderIInv, OwnIsTyped
<1>3. Becomes[asks[r].kind] \in {"ACTIVE", "RECALIBRATING", "PAUSED"}
  BY StatusesOfChanges
<1>4. OwnIsTyped'
  BY <1>3 DEF FounderIInv, OwnIsTyped
<1>5. FounderTypeOK'
  BY <1>2, <1>3, <1>4, OwnFields, StatusesOfChanges
     DEF FounderIInv, FounderInv, FounderTypeOK, InTransaction, OwnIsTyped
<1>6. reached'[r] = "written" /\ \A s \in Commands \ {r} : reached'[s] = reached[s]
  BY DEF FounderIInv, FounderInv, FounderTypeOK
<1> QED BY <1>1, <1>2, <1>4, <1>5, <1>6, StepKeeps DEF PastTheLock, InTransaction

LEMMA FindSessionKeeps == ASSUME FounderIInv, NEW r \in Commands, FindSession(r) PROVE FounderIInv'
<1> USE DEF FindSession, Moves
<1>1. CASE session # "active"
  BY <1>1, EndTxKeeps DEF Ended
<1>2. CASE session = "active"
  <2>1. rowLock = r /\ own[r].status = founderStatus /\ own[r].layers = {}
    BY DEF FounderIInv, RowOwner, LayersOfCompletion, PastTheLock, Ended
  <2>2. /\ own'[r].status = own[r].status /\ own'[r].layers = {}
        /\ \A s \in Commands \ {r} : own'[s] = own[s]
    BY <1>2, <2>1 DEF FounderIInv, OwnIsTyped
  <2>3. OwnIsTyped'
    BY <1>2 DEF FounderIInv, FounderInv, FounderTypeOK, OwnIsTyped
  <2>4. FounderTypeOK'
    BY <1>2, <2>2, <2>3, OwnFields DEF FounderIInv, FounderInv, FounderTypeOK, InTransaction, OwnIsTyped
  <2>5. reached'[r] = "found" /\ \A s \in Commands \ {r} : reached'[s] = reached[s]
    BY <1>2 DEF FounderIInv, FounderInv, FounderTypeOK
  <2> QED BY <1>2, <2>1, <2>2, <2>3, <2>4, <2>5, StepKeeps, StatusesOfChanges DEF PastTheLock, InTransaction
<1> QED BY <1>1, <1>2

LEMMA MarkCompletedKeeps == ASSUME FounderIInv, NEW r \in Commands, MarkCompleted(r) PROVE FounderIInv'
<1> USE DEF MarkCompleted, Moves
<1>1. /\ rowLock = r /\ own[r].status = founderStatus /\ own[r].layers = {}
      /\ asks[r].kind = "complete"
  BY DEF FounderIInv, RowOwner, LayersOfCompletion, PastTheLock, Ended
<1>2. FounderTypeOK' /\ OwnIsTyped'
  BY DEF FounderIInv, FounderInv, FounderTypeOK, OwnIsTyped, InTransaction
<1>3. reached'[r] = "closed" /\ \A s \in Commands \ {r} : reached'[s] = reached[s]
  BY DEF FounderIInv, FounderInv, FounderTypeOK
<1> QED BY <1>1, <1>2, <1>3, StepKeeps, StatusesOfChanges DEF PastTheLock, InTransaction

LEMMA SeedMemoryKeeps == ASSUME FounderIInv, NEW r \in Commands, SeedMemory(r) PROVE FounderIInv'
<1> USE DEF SeedMemory, Moves
<1>1. /\ rowLock = r /\ asks[r].kind = "complete" /\ session = "completed"
      /\ founderStatus \in Requires["complete"]
  BY DEF FounderIInv, RowOwner, LawfulChange, LayersOfCompletion, PastTheLock, Ended
<1> DEFINE saved == [own EXCEPT ![r].status = "ACTIVE"]
<1>2. /\ own'[r] = [status |-> "ACTIVE", answers |-> own[r].answers, layers |-> own[r].answers \ memory]
      /\ \A s \in Commands \ {r} : own'[s] = own[s]
      /\ DOMAIN own' = Commands
  <2>1. own' = [saved EXCEPT ![r].layers = own[r].answers \ memory]
    BY StatusesOfChanges
  <2>2. /\ saved[r] = [status |-> "ACTIVE", answers |-> own[r].answers, layers |-> own[r].layers]
        /\ \A s \in Commands \ {r} : saved[s] = own[s]
        /\ DOMAIN saved = Commands
    BY DEF FounderIInv, OwnIsTyped
  <2> HIDE DEF saved
  <2>3. own' = [saved EXCEPT ![r] = [saved[r] EXCEPT !.layers = own[r].answers \ memory]]
    BY <2>1
  <2>4. /\ DOMAIN own' = Commands /\ own'[r] = [saved[r] EXCEPT !.layers = own[r].answers \ memory]
        /\ \A s \in Commands \ {r} : own'[s] = saved[s]
    BY <2>2, <2>3, Zenon
  <2> HIDE DEF SeedMemory, Moves
  <2>5. [saved[r] EXCEPT !.layers = own[r].answers \ memory]
           = [status |-> "ACTIVE", answers |-> own[r].answers, layers |-> own[r].answers \ memory]
    BY <2>2
  <2> QED BY <2>2, <2>4, <2>5
<1>3. OwnIsTyped'
  <2>1. own' = [s \in Commands |-> own'[s]]
    BY <1>2
  <2>2. ASSUME NEW s \in Commands
        PROVE  own'[s] \in [status : {"none", "CREATED", "INTAKE_PENDING", "ACTIVE", "RECALIBRATING", "PAUSED"},
                            answers : SUBSET Questions, layers : SUBSET Questions]
    BY <1>2, OwnFields DEF FounderIInv, OwnIsTyped
  <2> QED BY <2>1, <2>2 DEF OwnIsTyped
<1>4. FounderTypeOK'
  BY <1>3, OwnFields, StatusesOfChanges, <1>2
     DEF FounderIInv, FounderInv, FounderTypeOK, InTransaction, OwnIsTyped
<1>5. reached'[r] = "written" /\ \A s \in Commands \ {r} : reached'[s] = reached[s]
  BY DEF FounderIInv, FounderInv, FounderTypeOK
<1>6. UNCHANGED <<founderStatus, session, memory, announced, rowLock, asks>>
  OBVIOUS
<1>7. asks'[r].kind = "complete" /\ "complete" \in Changes /\ own'[r].status = Becomes["complete"]
  BY <1>1, <1>2, <1>6, StatusesOfChanges
<1> HIDE DEF SeedMemory, Moves
<1> QED BY <1>1, <1>2, <1>3, <1>4, <1>5, <1>6, <1>7, StepKeeps DEF PastTheLock, InTransaction

-----------------------------------------------------------------------------
\* An announced completion is the only one, and comes before everything else.
LEMMA CompletedOnce ==
    ASSUME NEW k \in Changes, NEW T \in Seq(Changes),
           k = "complete" => T = <<>>,
           Cardinality({i \in 1..Len(T) : T[i] = "complete"}) <= 1
    PROVE  Cardinality({i \in 1..Len(Append(T, k)) : Append(T, k)[i] = "complete"}) <= 1
<1> DEFINE C == {i \in 1..Len(T) : T[i] = "complete"}
           D == {i \in 1..Len(Append(T, k)) : Append(T, k)[i] = "complete"}
<1>1. /\ Len(Append(T, k)) = Len(T) + 1 /\ Append(T, k)[Len(T) + 1] = k
      /\ \A i \in 1..Len(T) : Append(T, k)[i] = T[i]
  OBVIOUS
<1>2. CASE k = "complete"
  <2>1. D = {1}
    <3>1. Len(T) = 0
      BY <1>2
    <3> QED BY <1>1, <1>2, <3>1
  <2>2. Cardinality({1}) = 1
    BY FS_Singleton
  <2> HIDE DEF D
  <2>3. Cardinality(D) <= 1
    BY <2>1, <2>2
  <2> QED BY <2>3 DEF D
<1>3. CASE k # "complete"
  <2>1. D = C
    BY <1>1, <1>3
  <2> QED BY <2>1
<1> QED BY <1>2, <1>3

\* One more announcement, lawful in the status the ones before have led to.
LEMMA AnnouncementKeeps ==
    ASSUME FounderTypeOK, StatusIsAnnounced, NEW k \in Changes, founderStatus \in Requires[k],
           founderStatus' = Becomes[k], announced' = Append(announced, k)
    PROVE  StatusIsAnnounced'
<1> DEFINE After(T, i) == IF i = 0 THEN {"CREATED", "INTAKE_PENDING"} ELSE {Becomes[T[i]]}
<1>1. /\ Len(announced') = Len(announced) + 1 /\ announced'[Len(announced')] = k
      /\ \A i \in 1..Len(announced) : announced'[i] = announced[i]
      /\ Len(announced) \in Nat
  BY DEF FounderTypeOK
<1>2. /\ founderStatus \in After(announced, Len(announced))
      /\ \A i \in 1..Len(announced) : After(announced, i - 1) \cap Requires[announced[i]] # {}
      /\ Cardinality({i \in 1..Len(announced) : announced[i] = "complete"}) <= 1
  BY DEF StatusIsAnnounced
<1>3. ASSUME NEW i \in 0..Len(announced) PROVE After(announced', i) = After(announced, i)
  <2>1. i # 0 => announced'[i] = announced[i]
    BY <1>1
  <2> QED BY <2>1
<1>4. founderStatus' \in After(announced', Len(announced'))
  BY <1>1
<1>5. ASSUME NEW i \in 1..Len(announced') PROVE After(announced', i - 1) \cap Requires[announced'[i]] # {}
  <2>1. CASE i = Len(announced')
    <3>1. i - 1 = Len(announced) /\ announced'[i] = k
      BY <1>1, <2>1
    <3>2. After(announced', i - 1) = After(announced, Len(announced))
      <4>1. Len(announced) \in 0..Len(announced)
        BY <1>1
      <4> QED BY <1>3, <3>1, <4>1
    <3> QED BY <1>2, <3>1, <3>2
  <2>2. CASE i # Len(announced')
    <3>1. i \in 1..Len(announced) /\ i - 1 \in 0..Len(announced)
      BY <1>1, <2>2
    <3>2. After(announced', i - 1) = After(announced, i - 1) /\ announced'[i] = announced[i]
      BY <1>1, <1>3, <3>1
    <3> QED BY <1>2, <3>1, <3>2
  <2> QED BY <2>1, <2>2
<1>6. k = "complete" => announced = <<>>
  <2> SUFFICES ASSUME k = "complete", announced # <<>> PROVE FALSE
    OBVIOUS
  <2>1. founderStatus = "INTAKE_PENDING"
    BY StatusesOfChanges
  <2>2. Len(announced) # 0 /\ announced[Len(announced)] \in Changes
    BY DEF FounderTypeOK
  <2>3. founderStatus = Becomes[announced[Len(announced)]]
    BY <1>2, <2>2
  <2> QED BY <2>1, <2>2, <2>3, StatusesOfChanges
<1>7. Cardinality({i \in 1..Len(announced') : announced'[i] = "complete"}) <= 1
  BY <1>2, <1>6, CompletedOnce DEF FounderTypeOK
<1> QED BY <1>4, <1>5, <1>7 DEF StatusIsAnnounced

LEMMA CommitChangeKeeps == ASSUME FounderIInv, NEW r \in Commands, CommitChange(r) PROVE FounderIInv'
<1> USE DEF CommitChange, EndTx, Moves
<1> DEFINE k == asks[r].kind
<1>1. /\ k \in Changes /\ rowLock = r /\ own[r].status = Becomes[k]
      /\ founderStatus \in Requires[k]
      /\ own[r].layers # {} => k = "complete"
      /\ k = "complete" => session = "completed"
  BY DEF FounderIInv, RowOwner, LawfulChange, LayersOfCompletion, PastTheLock
<1>2. /\ founderStatus' = Becomes[k] /\ announced' = Append(announced, k)
      /\ memory' = memory \cup own[r].layers /\ rowLock' = Unlocked
  BY <1>1
<1>3. reached'[r] = "done" /\ \A s \in Commands \ {r} : reached'[s] = reached[s]
  BY DEF FounderIInv, FounderInv, FounderTypeOK
<1>4. OwnIsTyped'
  BY DEF FounderIInv, OwnIsTyped
<1>5. FounderTypeOK'
  BY <1>1, <1>2, <1>4, OwnFields, StatusesOfChanges
     DEF FounderIInv, FounderInv, FounderTypeOK, OwnIsTyped, Ended
<1>6. StatusIsAnnounced'
  BY <1>1, <1>2, AnnouncementKeeps DEF FounderIInv, FounderInv
<1>7. SeededByClosedIntake'
  <2>1. announced \in Seq(Changes)
    BY DEF FounderIInv, FounderInv, FounderTypeOK
  <2>2. \A e : e \in ToSet(announced') <=> e \in ToSet(announced) \/ e = k
    BY <1>1, <1>2, <2>1 DEF ToSet
  <2> QED BY <1>1, <1>2, <2>2 DEF FounderIInv, FounderInv, SeededByClosedIntake
<1>8. \A s \in Commands : reached'[s] \notin PastTheLock
  BY <1>1, <1>3 DEF FounderIInv, RowOwner, PastTheLock
<1>9. RowOwner' /\ LawfulChange'
  BY <1>2, <1>8 DEF RowOwner, LawfulChange, PastTheLock
<1>10. LayersOfCompletion'
  BY <1>3, <1>8 DEF FounderIInv, LayersOfCompletion, PastTheLock, Ended
<1> QED BY <1>2, <1>4, <1>5, <1>6, <1>7, <1>9, <1>10 DEF FounderIInv, FounderInv

-----------------------------------------------------------------------------
\* A statement of an answer, outside every transaction.
LEMMA AnswerMoves ==
    ASSUME FounderIInv, NEW r \in Commands, NEW p \in {"pending", "asked", "refused", "done"},
           reached[r] \in {"sent", "pending", "asked"}, Moves(r, p), answers' \subseteq Questions,
           UNCHANGED <<founderStatus, session, memory, announced, rowLock, asks, own>>
    PROVE  FounderIInv'
<1> USE DEF Moves
<1>1. FounderTypeOK' /\ OwnIsTyped'
  BY DEF FounderIInv, FounderInv, FounderTypeOK, OwnIsTyped, Ended
<1>2. reached'[r] = p /\ \A s \in Commands \ {r} : reached'[s] = reached[s]
  BY DEF FounderIInv, FounderInv, FounderTypeOK
<1>3. own[r].layers = {}
  BY DEF FounderIInv, LayersOfCompletion, Ended
<1>4. rowLock # r
  BY DEF FounderIInv, RowOwner, Transactions, InTransaction
<1> QED BY <1>1, <1>2, <1>3, <1>4, StepKeeps DEF PastTheLock

LEMMA CheckPendingKeeps == ASSUME FounderIInv, NEW r \in Commands, CheckPending(r) PROVE FounderIInv'
<1>1. answers' \subseteq Questions
  BY DEF FounderIInv, FounderInv, FounderTypeOK, CheckPending
<1> QED BY <1>1, AnswerMoves DEF CheckPending

LEMMA FindOpenSessionKeeps == ASSUME FounderIInv, NEW r \in Commands, FindOpenSession(r) PROVE FounderIInv'
<1>1. answers' \subseteq Questions
  BY DEF FounderIInv, FounderInv, FounderTypeOK, FindOpenSession
<1> QED BY <1>1, AnswerMoves DEF FindOpenSession

LEMMA UpsertSignalKeeps == ASSUME FounderIInv, NEW r \in Commands, UpsertSignal(r) PROVE FounderIInv'
<1>1. asks[r] \in Ask /\ (asks[r].strong => asks[r].question \in Questions)
  BY DEF FounderIInv, FounderInv, FounderTypeOK, Ask
<1>2. answers' \subseteq Questions
  BY <1>1 DEF FounderIInv, FounderInv, FounderTypeOK, UpsertSignal
<1> QED BY <1>2, AnswerMoves DEF UpsertSignal

LEMMA SessionExpiresKeeps == ASSUME FounderIInv, SessionExpires PROVE FounderIInv'
<1> USE DEF SessionExpires
<1>1. FounderTypeOK' /\ OwnIsTyped'
  BY DEF FounderIInv, FounderInv, FounderTypeOK, OwnIsTyped
<1>2. StatusIsAnnounced' /\ SeededByClosedIntake'
  BY QuietKeeps DEF FounderIInv, FounderInv
<1>3. RowOwner' /\ LawfulChange'
  BY DEF FounderIInv, RowOwner, LawfulChange, Transactions
<1>4. LayersOfCompletion'
  BY DEF FounderIInv, LayersOfCompletion
<1> QED BY <1>1, <1>2, <1>3, <1>4 DEF FounderIInv, FounderInv, RowOwner

LEMMA FounderStepKeeps == FounderIInv /\ [FounderNext]_founderVars => FounderIInv'
<1> SUFFICES ASSUME FounderIInv, [FounderNext]_founderVars PROVE FounderIInv'
  OBVIOUS
<1>1. ASSUME NEW r \in Commands, CommandStep(r) PROVE FounderIInv'
  BY <1>1, BeginTxKeeps, LockFounderRowKeeps, RefuseCommandKeeps, ChangeStatusKeeps, FindSessionKeeps,
     MarkCompletedKeeps, SeedMemoryKeeps, CommitChangeKeeps, ReadCycleApartKeeps, CheckPendingKeeps,
     FindOpenSessionKeeps, UpsertSignalKeeps DEF CommandStep
<1>2. ASSUME NEW r \in Commands, CommandFails(r) PROVE FounderIInv'
  BY <1>2, CommandFailsKeeps
<1>3. ASSUME NEW r \in Commands, NEW a \in Ask, Send(r, a) PROVE FounderIInv'
  BY <1>3, SendKeeps
<1>4. CASE SessionExpires
  BY <1>4, SessionExpiresKeeps
<1>5. CASE UNCHANGED founderVars
  <2> USE <1>5 DEF founderVars
  <2>1. FounderInv'
    BY DEF FounderIInv, FounderInv, FounderTypeOK, StatusIsAnnounced, SeededByClosedIntake, Transactions
  <2>2. OwnIsTyped' /\ RowOwner' /\ LawfulChange' /\ LayersOfCompletion'
    BY DEF FounderIInv, OwnIsTyped, RowOwner, LawfulChange, LayersOfCompletion, Transactions
  <2> QED BY <2>1, <2>2 DEF FounderIInv
<1> QED BY <1>1, <1>2, <1>3, <1>4, <1>5 DEF FounderNext

\* Whatever commands meet, the founder's row is what its events say, an intake is completed once,
\* and the memory is seeded from a closed intake (founder.founders, the intake and its seeding).
THEOREM FounderIsWhatItAnnounced == FounderSpec => []FounderInv
<1>1. FounderIInv => FounderInv
  BY DEF FounderIInv
<1> QED BY FounderInitOK, FounderStepKeeps, <1>1, PTL DEF FounderSpec

\* Nobody saves the founder's row over what another transaction has changed since it was read: one
\* command at most is past the lock, it holds the row, and until it writes what it has read of the
\* row is what the row still is (findByIdForUpdate).
THEOREM FounderRowIsExclusive ==
    FounderSpec => [](\A r \in Commands : reached[r] \in PastTheLock =>
        /\ rowLock = r
        /\ reached[r] # "written" => own[r].status = founderStatus
        /\ \A q \in Commands : reached[q] \in PastTheLock => q = r)
<1>1. FounderIInv => \A r \in Commands : reached[r] \in PastTheLock =>
        /\ rowLock = r
        /\ reached[r] # "written" => own[r].status = founderStatus
        /\ \A q \in Commands : reached[q] \in PastTheLock => q = r
  BY DEF FounderIInv, RowOwner
<1> QED BY FounderInitOK, FounderStepKeeps, <1>1, PTL DEF FounderSpec

-----------------------------------------------------------------------------
\* Only a commit changes what is seen of the founder.
LEMMA CommitOrUnseen ==
    ASSUME [FounderNext]_founderVars
    PROVE  \/ UNCHANGED <<founderStatus, announced, memory>>
           \/ \E r \in Commands : CommitChange(r)
BY DEF FounderNext, founderVars, CommandStep, Send, BeginTx, LockFounderRow, RefuseCommand, ChangeStatus,
       FindSession, MarkCompleted, SeedMemory, ReadCycleApart, CheckPending, FindOpenSession, UpsertSignal,
       CommandFails, SessionExpires, EndTx, Moves

\* A completion finds nothing announced, and nothing seeded.
LEMMA CompletesFirst ==
    ASSUME FounderInv, founderStatus \in Requires["complete"]
    PROVE  memory = {}
<1>1. founderStatus = "INTAKE_PENDING"
  BY DEF Requires
<1>2. announced \in Seq(Changes) /\ Len(announced) \in Nat
  BY DEF FounderInv, FounderTypeOK
<1>3. CASE Len(announced) # 0
  <2>1. Len(announced) \in 1..Len(announced)
    BY <1>2, <1>3
  <2>2. announced[Len(announced)] \in Changes
    BY <1>2, <2>1
  <2>3. Becomes[announced[Len(announced)]] # "INTAKE_PENDING"
    BY <2>2 DEF Changes, Becomes
  <2> QED BY <1>1, <1>3, <2>3 DEF FounderInv, StatusIsAnnounced
<1>4. CASE Len(announced) = 0
  <2>1. "complete" \notin ToSet(announced)
    BY <1>2, <1>4 DEF ToSet
  <2> QED BY <2>1 DEF FounderInv, SeededByClosedIntake
<1> QED BY <1>3, <1>4

LEMMA CommitActs ==
    ASSUME FounderIInv, NEW r \in Commands, CommitChange(r)
    PROVE  Lawful!Act(asks[r].kind)
<1> DEFINE k == asks[r].kind
<1>1. /\ reached[r] = "written" /\ k \in Changes
      /\ founderStatus' = own[r].status
      /\ memory' = memory \cup own[r].layers
      /\ announced' = Append(announced, k)
  BY DEF CommitChange
<1>2. founderStatus \in Requires[k] /\ own[r].status = Becomes[k] /\ own[r].layers \subseteq Questions
  BY <1>1, OwnFields DEF FounderIInv, LawfulChange
<1>3. k # "complete" => own[r].layers = {}
  BY <1>1 DEF FounderIInv, LayersOfCompletion
<1>4. k = "complete" => memory = {}
  BY <1>2, CompletesFirst DEF FounderIInv
<1> QED BY <1>1, <1>2, <1>3, <1>4 DEF Lawful!Act

\* The transactions, locks, second connections, refusals and rollbacks of the founder's commands
\* implement a founder on whom they act one at a time.
THEOREM FounderActsOneAtATime == FounderSpec => CommandsActOneAtATime
<1>1. FounderInit => Lawful!LawfulInit
  BY DEF FounderInit, Lawful!LawfulInit
<1>2. FounderIInv /\ [FounderNext]_founderVars =>
         [\E k \in Changes : Lawful!Act(k)]_<<founderStatus, announced, memory>>
  <2> SUFFICES ASSUME FounderIInv, [FounderNext]_founderVars,
                      ~UNCHANGED <<founderStatus, announced, memory>>
               PROVE  \E k \in Changes : Lawful!Act(k)
    OBVIOUS
  <2>1. PICK r \in Commands : CommitChange(r)
    BY CommitOrUnseen
  <2>2. asks[r].kind \in Changes
    BY <2>1 DEF CommitChange
  <2> QED BY <2>1, <2>2, CommitActs
<1> QED BY FounderInitOK, FounderStepKeeps, <1>1, <1>2, PTL
        DEF FounderSpec, CommandsActOneAtATime, Lawful!LawfulSpec
==============================================================================
