------------------------------ MODULE BrainShelf ------------------------------
(***************************************************************************)
(* What the Business Brain promises the founder who reads it: nothing is   *)
(* shown until a first version is ready; from then on exactly one is       *)
(* shown, until another takes its place in one step.  A version that was   *)
(* replaced is gone and is never shown again.                              *)
(***************************************************************************)
CONSTANTS Books, Nothing

VARIABLES shown, retired

Init == shown = Nothing /\ retired = {}

Publish(b) ==
  /\ b # shown
  /\ b \notin retired
  /\ retired' = retired \cup ({shown} \ {Nothing})
  /\ shown' = b

Next == \E b \in Books : Publish(b)

Spec == Init /\ [][Next]_<<shown, retired>>
=============================================================================
