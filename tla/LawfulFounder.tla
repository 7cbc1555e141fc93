---------------------------- MODULE LawfulFounder ----------------------------
(***************************************************************************)
(* What the founder's row promises to everyone who reads it or follows its *)
(* events: commands act on it one at a time.  What can be seen changes by  *)
(* one whole command that the status admits, together with its             *)
(* announcement, and the memory is seeded once, by the completed intake.   *)
(***************************************************************************)
EXTENDS Sequences

CONSTANTS Kinds,     \* commands that change the founder
          Admits,    \* the statuses in which each of them is lawful
          LeadsTo,   \* the status each of them leads to
          Layers     \* layers of the memory an intake can seed

VARIABLES status, told, seeded

LawfulInit == /\ status \in {"CREATED", "INTAKE_PENDING"}
              /\ told = <<>>
              /\ seeded = {}

Act(k) ==
    /\ status \in Admits[k]
    /\ status' = LeadsTo[k]
    /\ told' = Append(told, k)
    /\ \/ k = "complete" /\ seeded = {} /\ seeded' \in SUBSET Layers
       \/ k # "complete" /\ seeded' = seeded

LawfulSpec == LawfulInit /\ [][\E k \in Kinds : Act(k)]_<<status, told, seeded>>
==============================================================================
