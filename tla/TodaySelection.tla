---------------------------- MODULE TodaySelection ----------------------------
(***************************************************************************)
(* What the founder is told to do today: which actions of the active plan  *)
(* are ready is derived at every read from the plan, the append-only       *)
(* ledger of outcomes and what the founder holds; of those at most         *)
(* TODAY_MAX are shown, best first, or the one blocked action to unblock.   *)
(***************************************************************************)
EXTENDS Naturals, FiniteSets

CONSTANTS Actions,    \* 1..n: the actions of the plan in the order of their identifiers
          Priorities, \* 1..m: its priorities in the order of the strategy
          TODAY_MAX

ASSUME TodayAssumption ==
    /\ Actions \subseteq Nat /\ IsFiniteSet(Actions)
    /\ Priorities \subseteq Nat
    /\ TODAY_MAX \in Nat \ {0}

VARIABLES priorityOf, \* of each action
          needs,      \* its prerequisites
          focus,      \* the priority in focus
          ledger,    \* the last outcome in the ledger
          lack,       \* what holds each action back: its material, the founder's decision, a constraint
          stale       \* the strategy is not the one the plan was drafted from

todayVars == <<priorityOf, needs, focus, ledger, lack, stale>>

ActionOutcomes == {"none", "done", "deferred", "skipped"}
Lacks == {"material", "decision", "constraint"}

TodayTypeOK ==
    /\ priorityOf \in [Actions -> Priorities] /\ focus \in Priorities
    /\ needs \in [Actions -> SUBSET Actions]
    /\ ledger \in [Actions -> ActionOutcomes]
    /\ lack \in [Actions -> SUBSET Lacks] /\ stale \in BOOLEAN

\* validatePlan: a prerequisite is an action of the plan and not the action itself; two actions may
\* need each other.
Plans == {n \in [Actions -> SUBSET Actions] : \A a \in Actions : a \notin n[a]}

\* The identifier of an action begins with its priority's.
TodayInit ==
    /\ priorityOf \in {f \in [Actions -> Priorities] : \A a, b \in Actions : a < b => f[a] <= f[b]}
    /\ focus \in Priorities
    /\ needs \in Plans
    /\ ledger = [a \in Actions |-> "none"]
    /\ lack \in [Actions -> SUBSET {"material", "decision"}]
    /\ stale = FALSE

-----------------------------------------------------------------------------
Kept == {a \in Actions : lack[a] # {}}
OpenActions == {a \in Actions : ledger[a] = "none"}
Postponed == {a \in Actions : ledger[a] \in {"deferred", "skipped"}}

Unmet(a) == {p \in needs[a] : ledger[p] # "done"}

\* Mutant: what holds an action back holds back what comes after it.
BlockerSpreads(a) ==
    CASE stale                            -> "strategy_stale"
      [] Unmet(a) # {}                    -> "prerequisite_unfinished"
      [] Kept \cap ({a} \cup needs[a]) # {} -> "held_back"
      [] OTHER                            -> "none"

\* deriveReadiness, in the order of its checks.
Blocker(a) ==
    CASE stale          -> "strategy_stale"
      [] Unmet(a) # {}  -> "prerequisite_unfinished"
      [] a \in Kept     -> "held_back"
      [] OTHER          -> "none"

ReadyActions == {a \in OpenActions : Blocker(a) = "none"}
BlockedActions == {a \in OpenActions : Blocker(a) # "none"}

Unblocks(a) == Cardinality({b \in Actions : a \in needs[b]})
InFocus(a) == priorityOf[a] = focus

\* The focus, then what waits for the action, then the strategy's order, then the identifier.
Before(a, b) ==
    IF InFocus(a) # InFocus(b) THEN InFocus(a)
    ELSE IF Unblocks(a) # Unblocks(b) THEN Unblocks(a) > Unblocks(b)
    ELSE IF priorityOf[a] # priorityOf[b] THEN priorityOf[a] < priorityOf[b]
    ELSE a < b

\* The first TODAY_MAX of the ready actions: those with fewer before them.
Shown == {a \in ReadyActions : Cardinality({b \in ReadyActions : Before(b, a)}) < TODAY_MAX}

\* Mutant: the action to unblock is looked for in the focus only.
FocusOnly ==
    IF ReadyActions # {} THEN {} ELSE {a \in BlockedActions : InFocus(a) /\ \A b \in BlockedActions \ {a} : a < b}

\* With nothing ready, the blocked action of the focus, or of the first priority; {} if there is none.
Fallback ==
    LET rank(a) == <<IF InFocus(a) THEN 0 ELSE 1, priorityOf[a], a>>
        less(a, b) == \E i \in 1..3 : rank(a)[i] < rank(b)[i] /\ \A k \in 1..(i - 1) : rank(a)[k] = rank(b)[k]
    IN  IF ReadyActions # {} THEN {} ELSE {a \in BlockedActions : \A b \in BlockedActions \ {a} : less(a, b)}

-----------------------------------------------------------------------------
\* applyOutcome: of any action, at any time, one that has an outcome included.
Mark(a, o) ==
    /\ ledger' = [ledger EXCEPT ![a] = o]
    /\ UNCHANGED <<priorityOf, needs, focus, lack, stale>>

\* recordActionResolution, or a constraint the founder states about a move: a resource takes away that
\* an action lacks its material, a constraint holds it back beside what else does.  A decision is
\* recorded and frees nothing: the action it is about is then marked done.
Resolve(a) ==
    /\ \/ "material" \in lack[a] /\ lack' = [lack EXCEPT ![a] = @ \ {"material"}]
       \/ "constraint" \notin lack[a] /\ lack' = [lack EXCEPT ![a] = @ \cup {"constraint"}]
    /\ UNCHANGED <<priorityOf, needs, focus, ledger, stale>>

\* Another strategy is adopted.
StrategyChanges ==
    /\ ~stale /\ stale' = TRUE
    /\ UNCHANGED <<priorityOf, needs, focus, ledger, lack>>

TodayNext ==
    \/ \E a \in Actions : Resolve(a) \/ \E o \in ActionOutcomes \ {"none"} : Mark(a, o)
    \/ StrategyChanges

TodaySpec == TodayInit /\ [][TodayNext]_todayVars

-----------------------------------------------------------------------------
\* While an action is open the founder is given a move, a ready one or the one to unblock.
MoveWhileOpen == OpenActions # {} => Shown # {} \/ Cardinality(Fallback) = 1

\* The actions a must wait for, through any chain of prerequisites.
WaitsFor(a) ==
    LET closed(S) == Unmet(a) \subseteq S /\ \A p \in S \cap OpenActions : needs[p] \subseteq S
    IN  {p \in Actions : \A S \in SUBSET Actions : closed(S) => p \in S}

\* When nothing is ready although the plan is current, every open action is held back itself or
\* waits, directly or not, for one that is held back, for one the founder has put off, or for itself.
StandstillHasACause ==
    ReadyActions = {} /\ ~stale =>
        \A a \in OpenActions : \E p \in WaitsFor(a) \cup {a} :
            p \in Kept \cup Postponed \/ p \in WaitsFor(p)

\* A finished action never makes another one unready: a ready action stays so until it is marked,
\* held back, or the strategy changes, or the founder takes back an outcome "done".
ReadyStaysReady ==
    [][\A a \in ReadyActions :
          a \in ReadyActions' \/ a \notin OpenActions' \/ a \in Kept' \/ stale'
          \/ \E p \in Actions : ledger[p] = "done" /\ ledger'[p] # "done"]_todayVars

\* No action outside the focus is shown while one of the focus is ready and left out.
FocusIsNotCrowdedOut ==
    (\E a \in ReadyActions : InFocus(a) /\ a \notin Shown) => \A a \in Shown : InFocus(a)

\* What is shown, for every plan, ledger and lack.
TodayInv ==
    /\ TodayTypeOK
    /\ MoveWhileOpen
    /\ StandstillHasACause
    /\ FocusIsNotCrowdedOut
=============================================================================
