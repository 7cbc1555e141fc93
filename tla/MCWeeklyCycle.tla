----------------------------- MODULE MCWeeklyCycle -----------------------------
(* Instances of WeeklyCycle for the counterexamples; its properties are checked *)
(* in MCProduct.                                                                *)
EXTENDS WeeklyCycle
================================================================================
