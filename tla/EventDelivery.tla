----------------------------- MODULE EventDelivery -----------------------------
(* What the transactional outbox promises: an announced event reaches every       *)
(* subscriber at least once before it counts as done; nothing else is delivered.  *)
CONSTANTS Events, Subscribers

VARIABLES announced, received, done

Init == announced = {} /\ received = {} /\ done = {}

Announce(e) == announced' = announced \cup {e} /\ UNCHANGED <<received, done>>

Receive(e, S) == /\ e \in announced
                 /\ received' = received \cup ({e} \X S)
                 /\ UNCHANGED <<announced, done>>

Finish(e) == /\ {e} \X Subscribers \subseteq received
             /\ done' = done \cup {e}
             /\ UNCHANGED <<announced, received>>

Next == \E e \in Events : \/ Announce(e)
                          \/ \E S \in SUBSET Subscribers : Receive(e, S)
                          \/ Finish(e)

Spec == Init /\ [][Next]_<<announced, received, done>>
================================================================================
