------------------------------- MODULE OnceOnly -------------------------------
(* What a consumer of events promises: an event has its effect at most once, however *)
(* often it is delivered and whoever handles it, and never before it is announced.   *)
EXTENDS Naturals

CONSTANT Events

VARIABLES announced, effects   \* effects: how often each event has had its effect

Init == announced = {} /\ effects = [e \in Events |-> 0]

Announce(e) == e \notin announced /\ announced' = announced \cup {e} /\ UNCHANGED effects

TakeEffect(e) == /\ e \in announced /\ effects[e] = 0
                 /\ effects' = [effects EXCEPT ![e] = 1]
                 /\ UNCHANGED announced

Next == \E e \in Events : Announce(e) \/ TakeEffect(e)

vars == <<announced, effects>>

Spec == Init /\ [][Next]_vars
================================================================================
