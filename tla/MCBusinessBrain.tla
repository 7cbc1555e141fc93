--------------------------- MODULE MCBusinessBrain ---------------------------
(* Instances of BusinessBrainLifecycle for TLC.  The liveness run cannot use  *)
(* symmetry, and a counterexample reads better without it.                    *)
EXTENDS BusinessBrainLifecycle

\* Liveness is claimed while the process lives and the database answers: a
\* pipeline that dies leaves its refresh running (run brain_liveness).
Undisturbed == Next /\ UNCHANGED faults
UndisturbedSpec == Init /\ [][Undisturbed]_vars /\ Fairness
=============================================================================
