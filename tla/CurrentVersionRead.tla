-------------------------- MODULE CurrentVersionRead --------------------------
(***************************************************************************)
(* GET /current while refreshes go on.  getCurrentAggregate is a sequence  *)
(* of separate SELECTs with no transaction around them, so a promotion may *)
(* delete the version it is reading between any two of them.               *)
(***************************************************************************)
EXTENDS BusinessBrainLifecycle, Sequences, SequencesExt

CONSTANT Readers

VARIABLE read   \* per reader: the version found, the next SELECT, what it returned

readVars == <<vars, read>>

\* The SELECTs in program order.  The last four are not required by the route.
Sections == <<"header", "consequences", "rootCauses", "recommendations",
              "claims", "measures", "actions",
              "window", "rcEvidence", "recRootCause", "actionRec">>
Edges == {"rcEvidence", "recRootCause", "actionRec"}

\* Sections the route tests before it answers (businessReality is in the header).
Guarded == {"header", "consequences", "rootCauses", "recommendations", "claims", "actions"}

Read == [version : Versions \cup {NoVersion}, next : 1..Len(Sections) + 1,
         got : SUBSET ToSet(Sections),
         result : {"none", "reading", "served", "unavailable", "error"}]

NoRead == [version |-> NoVersion, next |-> 1, got |-> {}, result |-> "none"]

ReadTypeOK == read \in [Readers -> Read]

ReadInit == Init /\ read = [d \in Readers |-> NoRead]

\* First SELECT: the Current version, if there is one.
BeginRead(d) ==
  /\ read[d].result # "reading"
  /\ \E v \in Versions :
       /\ lifecycle[v] = "current"
       /\ read' = [read EXCEPT ![d] = [NoRead EXCEPT !.version = v, !.result = "reading"]]
  /\ UNCHANGED vars

\* executeTakeFirstOrThrow: the header row has gone.
HeaderGone(d) ==
  /\ read[d].result = "reading"
  /\ read[d].next = 1
  /\ read[d].version \notin diagnosis
  /\ read' = [read EXCEPT ![d].result = "error"]
  /\ UNCHANGED vars

\* Rows of a deleted version are simply not found; measures are only looked up
\* for the claims that were.
ReadSection(d) ==
  LET section == Sections[read[d].next]
      found == read[d].version \in diagnosis /\ (section = "measures" => "claims" \in read[d].got)
  IN /\ read[d].result = "reading"
     /\ read[d].next <= Len(Sections)
     /\ read[d].next = 1 => found
     /\ read' = [read EXCEPT ![d].next = @ + 1,
                             ![d].got = IF found THEN @ \cup {section} ELSE @]
     /\ UNCHANGED vars

\* The route's structural guard: 503, or the version is returned.
Answer(d) ==
  /\ read[d].result = "reading"
  /\ read[d].next = Len(Sections) + 1
  /\ read' = [read EXCEPT ![d].result =
                IF Guarded \subseteq read[d].got THEN "served" ELSE "unavailable"]
  /\ UNCHANGED vars

ReadStep(d) == BeginRead(d) \/ HeaderGone(d) \/ ReadSection(d) \/ Answer(d)

ReadNext == \/ Next /\ UNCHANGED read
            \/ \E d \in Readers : ReadStep(d)

ReadSpec == ReadInit /\ [][ReadNext]_readVars

-----------------------------------------------------------------------------
\* A version that is answered with is whole in every mandatory section: also in
\* its evidence measures, which the route does not test, because rows only
\* disappear and the execution plan, which it does test, is read after them.
ServedIsWhole ==
  \A d \in Readers :
    read[d].result = "served" => Guarded \cup {"measures"} \subseteq read[d].got

\* A read that overlaps no promotion is answered in full: an error, a 503 or a
\* traceability graph without its edges (which buildTraceability does not miss)
\* means that the version it found has been superseded since.
TornOnlyIfSuperseded ==
  \A d \in Readers :
    \/ read[d].result \in {"error", "unavailable"}
    \/ read[d].result = "served" /\ ~(Edges \subseteq read[d].got)
    => lifecycle[read[d].version] = "superseded"

\* Every reader, at every SELECT of its read.
ReadInv ==
  /\ ReadTypeOK
  /\ ServedIsWhole
  /\ TornOnlyIfSuperseded
=============================================================================
