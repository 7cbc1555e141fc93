--------------------------- MODULE OutboxRelayProofs ---------------------------
(* The relay keeps its invariant and implements at-least-once delivery, for any    *)
(* set of events, any number of subscribers and of overlapping ticks, any batch.   *)
EXTENDS OutboxRelay, TLAPS

USE RelayAssumption DEF RelayAssumption

LEMMA BatchIsClaimable == FirstBatch \subseteq Claimable
  BY DEF FirstBatch

LEMMA TypeInit == Init => TypeOK
  BY DEF Init, TypeOK

LEMMA TypeNext == TypeOK /\ [Next]_vars => TypeOK'
<1> SUFFICES ASSUME TypeOK, [Next]_vars PROVE TypeOK'
  OBVIOUS
<1> USE DEF TypeOK
<1>1. ASSUME NEW e \in Events, AppendEvent(e) PROVE TypeOK'
  BY <1>1 DEF AppendEvent
<1>2. ASSUME NEW e \in Events, LockExpires(e) PROVE TypeOK'
  BY <1>2 DEF LockExpires
<1>3. ASSUME NEW t \in Ticks, Claim(t) PROVE TypeOK'
  <2>1. FirstBatch \subseteq appended
    BY BatchIsClaimable DEF Claimable
  <2> QED BY <1>3, <2>1 DEF Claim
<1>4. ASSUME NEW t \in Ticks, TickLost(t) PROVE TypeOK'
  BY <1>4 DEF TickLost
<1>5. ASSUME NEW t \in Ticks, NEW e \in Events, Publish(t, e) PROVE TypeOK'
  BY <1>5 DEF Publish, IsNext, Deliver
<1>6. ASSUME NEW t \in Ticks, NEW e \in Events, PublishFails(t, e) PROVE TypeOK'
  BY <1>6 DEF PublishFails, IsNext, Deliver
<1>7. ASSUME NEW t \in Ticks, NEW e \in Events, MarkPublished(t, e) PROVE TypeOK'
  BY <1>7 DEF MarkPublished
<1>8. CASE UNCHANGED vars
  BY <1>8 DEF vars
<1> QED BY <1>1, <1>2, <1>3, <1>4, <1>5, <1>6, <1>7, <1>8 DEF Next, TickStep
--------------------------------------------------------------------------------
LEMMA RelayInit == Init => RelayInv
<1> SUFFICES ASSUME Init PROVE RelayInv
  OBVIOUS
<1>1. TypeOK
  BY TypeInit
<1> QED BY <1>1 DEF Init, RelayInv, MarkedOnlyReceived, RepeatedOnlyOverrun, AtIsInHand, Exclusive, Claimable

(* Each step keeps the invariant; the rows of a batch are in no other hand.        *)
LEMMA RelayNext == RelayInv /\ [Next]_vars => RelayInv'
<1> SUFFICES ASSUME RelayInv, [Next]_vars PROVE RelayInv'
  OBVIOUS
<1>t. TypeOK /\ TypeOK'
  BY TypeNext DEF RelayInv
<1> USE <1>t DEF TypeOK
<1>i. MarkedOnlyReceived /\ RepeatedOnlyOverrun /\ AtIsInHand /\ Exclusive
  BY DEF RelayInv
<1> DEFINE Goal == MarkedOnlyReceived' /\ RepeatedOnlyOverrun' /\ AtIsInHand' /\ Exclusive'
<1>1. ASSUME NEW e \in Events, AppendEvent(e) PROVE Goal
  <2>1. MarkedOnlyReceived' /\ RepeatedOnlyOverrun' /\ AtIsInHand'
    BY <1>1, <1>i DEF AppendEvent, MarkedOnlyReceived, RepeatedOnlyOverrun, AtIsInHand
  <2>2. Exclusive'
    BY <1>1, <1>i DEF AppendEvent, Exclusive, Claimable
  <2> QED BY <2>1, <2>2
<1>2. ASSUME NEW e \in Events, LockExpires(e) PROVE Goal
  <2>1. MarkedOnlyReceived' /\ RepeatedOnlyOverrun' /\ AtIsInHand'
    BY <1>2, <1>i DEF LockExpires, MarkedOnlyReceived, RepeatedOnlyOverrun, AtIsInHand
  <2>2. Exclusive'
    BY <1>2, <1>i DEF LockExpires, Exclusive, Claimable
  <2> QED BY <2>1, <2>2
<1>3. ASSUME NEW t \in Ticks, Claim(t) PROVE Goal
  <2>1. FirstBatch \subseteq Claimable
    BY BatchIsClaimable
  <2>2. MarkedOnlyReceived' /\ RepeatedOnlyOverrun' /\ AtIsInHand'
    BY <1>3, <1>i DEF Claim, MarkedOnlyReceived, RepeatedOnlyOverrun, AtIsInHand
  <2>3. Exclusive'
    BY <1>3, <1>i, <2>1 DEF Claim, Exclusive, Claimable, AtIsInHand
  <2> QED BY <2>2, <2>3
<1>4. ASSUME NEW t \in Ticks, TickLost(t) PROVE Goal
  <2>1. MarkedOnlyReceived' /\ RepeatedOnlyOverrun' /\ AtIsInHand'
    BY <1>4, <1>i DEF TickLost, MarkedOnlyReceived, RepeatedOnlyOverrun, AtIsInHand
  <2>2. Exclusive'
    BY <1>4, <1>i DEF TickLost, Exclusive, Claimable
  <2> QED BY <2>1, <2>2
<1>5. ASSUME NEW t \in Ticks, NEW e \in Events, Publish(t, e) PROVE Goal
  <2>1. MarkedOnlyReceived'
    BY <1>5, <1>i DEF Publish, Deliver, MarkedOnlyReceived
  <2>2. RepeatedOnlyOverrun'
    BY <1>5, <1>i DEF Publish, IsNext, Deliver, RepeatedOnlyOverrun, Exclusive
  <2>3. AtIsInHand'
    BY <1>5, <1>i DEF Publish, IsNext, Deliver, AtIsInHand
  <2>4. Exclusive'
    BY <1>5, <1>i DEF Publish, IsNext, Deliver, Exclusive, Claimable
  <2> QED BY <2>1, <2>2, <2>3, <2>4
<1>6. ASSUME NEW t \in Ticks, NEW e \in Events, PublishFails(t, e) PROVE Goal
  <2>1. MarkedOnlyReceived'
    BY <1>6, <1>i DEF PublishFails, Deliver, MarkedOnlyReceived
  <2>2. RepeatedOnlyOverrun'
    BY <1>6, <1>i DEF PublishFails, IsNext, Deliver, RepeatedOnlyOverrun, Exclusive
  <2>3. AtIsInHand'
    BY <1>6, <1>i DEF PublishFails, IsNext, Deliver, AtIsInHand
  <2>4. Exclusive'
    BY <1>6, <1>i DEF PublishFails, IsNext, Deliver, Exclusive, Claimable
  <2> QED BY <2>1, <2>2, <2>3, <2>4
<1>7. ASSUME NEW t \in Ticks, NEW e \in Events, MarkPublished(t, e) PROVE Goal
  <2>1. MarkedOnlyReceived' /\ RepeatedOnlyOverrun' /\ AtIsInHand'
    BY <1>7, <1>i DEF MarkPublished, MarkedOnlyReceived, RepeatedOnlyOverrun, AtIsInHand
  <2>2. Exclusive'
    BY <1>7, <1>i DEF MarkPublished, Exclusive, Claimable
  <2> QED BY <2>1, <2>2
<1>8. ASSUME UNCHANGED vars PROVE Goal
  <2>1. MarkedOnlyReceived' /\ RepeatedOnlyOverrun' /\ AtIsInHand'
    BY <1>8, <1>i DEF vars, MarkedOnlyReceived, RepeatedOnlyOverrun, AtIsInHand
  <2>2. Exclusive'
    BY <1>8, <1>i DEF vars, Exclusive, Claimable
  <2> QED BY <2>1, <2>2
<1>9. Goal
  <2> HIDE DEF Goal
  <2> QED BY <1>1, <1>2, <1>3, <1>4, <1>5, <1>6, <1>7, <1>8 DEF Next, TickStep
<1> QED BY <1>9 DEF RelayInv

(* The relay's invariant holds in every reachable state.                           *)
THEOREM RelayInvariant == Spec => []RelayInv
<1>1. Init => RelayInv
  BY RelayInit
<1>2. RelayInv /\ [Next]_vars => RelayInv'
  BY RelayNext
<1> QED BY <1>1, <1>2, PTL DEF Spec

(* The relay's type invariant.                                                     *)
THEOREM RelayTypes == Spec => []TypeOK
<1>1. RelayInv => TypeOK
  BY DEF RelayInv
<1> QED BY <1>1, RelayInvariant, PTL

(* No event is marked as published before every subscriber has it.                 *)
THEOREM RelayLosesNothing == Spec => []MarkedOnlyReceived
<1>1. RelayInv => MarkedOnlyReceived
  BY DEF RelayInv
<1> QED BY <1>1, RelayInvariant, PTL

(* A subscriber gets an event twice only after its lock ran out.                   *)
THEOREM RelayRepeatsOnlyOverrun == Spec => []RepeatedOnlyOverrun
<1>1. RelayInv => RepeatedOnlyOverrun
  BY DEF RelayInv
<1> QED BY <1>1, RelayInvariant, PTL
--------------------------------------------------------------------------------
LEMMA StepsDeliver == RelayInv /\ [Next]_vars => [Delivery!Next]_<<appended, received, published>>
<1> SUFFICES ASSUME RelayInv, Next
             PROVE Delivery!Next \/ UNCHANGED <<appended, received, published>>
  BY DEF vars
<1> USE DEF Delivery!Next
<1>1. ASSUME NEW e \in Events, AppendEvent(e) PROVE Delivery!Next
  BY <1>1 DEF AppendEvent, Delivery!Announce
<1>2. ASSUME NEW t \in Ticks, NEW e \in Events, Publish(t, e) PROVE Delivery!Next
  <2>1. e \in appended
    BY <1>2 DEF RelayInv, TypeOK, Publish, IsNext
  <2>2. Delivery!Receive(e, Subscribers)
    BY <1>2, <2>1 DEF Publish, Deliver, Delivery!Receive
  <2> QED BY <2>2
<1>3. ASSUME NEW t \in Ticks, NEW e \in Events, PublishFails(t, e) PROVE Delivery!Next
  <2>1. e \in appended
    BY <1>3 DEF RelayInv, TypeOK, PublishFails, IsNext
  <2>2. \E S \in SUBSET Subscribers : Delivery!Receive(e, S)
    BY <1>3, <2>1 DEF PublishFails, Deliver, Delivery!Receive
  <2> QED BY <2>2
<1>4. ASSUME NEW t \in Ticks, NEW e \in Events, MarkPublished(t, e) PROVE Delivery!Next
  <2>1. {e} \X Subscribers \subseteq received
    BY <1>4 DEF RelayInv, AtIsInHand, MarkPublished
  <2>2. Delivery!Finish(e)
    BY <1>4, <2>1 DEF MarkPublished, Delivery!Finish
  <2> QED BY <2>2
<1>5. ASSUME NEW e \in Events, LockExpires(e) PROVE UNCHANGED <<appended, received, published>>
  BY <1>5 DEF LockExpires
<1>6. ASSUME NEW t \in Ticks, Claim(t) \/ TickLost(t) PROVE UNCHANGED <<appended, received, published>>
  BY <1>6 DEF Claim, TickLost
<1> QED BY <1>1, <1>2, <1>3, <1>4, <1>5, <1>6 DEF Next, TickStep

(* The relay implements EventDelivery: at-least-once delivery.                     *)
THEOREM RelayImplementsDelivery == Spec => ImplementsDelivery
<1>1. Init => Delivery!Init
  BY DEF Init, Delivery!Init
<1>2. RelayInv /\ [Next]_vars => [Delivery!Next]_<<appended, received, published>>
  BY StepsDeliver
<1> QED BY <1>1, <1>2, RelayInvariant, PTL DEF Spec, ImplementsDelivery, Delivery!Spec
================================================================================
