------------------------------ MODULE OutboxRelay ------------------------------
(* The transactional outbox (app.domain_events) and the relay that publishes it on *)
(* the in-process bus. An event is numbered by its emitted_at. A tick is one call  *)
(* of relayBatch; ticks overlap, in one worker process and between processes.      *)
EXTENDS Naturals, FiniteSets

CONSTANTS Events,        \* numbers: the order of emitted_at
          Subscribers,   \* the handlers the bus has for an event type
          Ticks,         \* relayBatch calls that can be open at a time
          BatchSize,     \* batchSize
          Poison,        \* events one of whose handlers fails every time
          NoEvent

ASSUME RelayAssumption == /\ Events \subseteq Nat
                          /\ NoEvent \notin Events
                          /\ BatchSize \in Nat \ {0}
                          /\ Poison \subseteq Events

VARIABLES appended,      \* rows of app.domain_events
          published,     \* rows with published_at
          locked,        \* rows whose relay_locked_until is in the future
          hand,          \* per tick: rows of its batch it has not marked yet
          at,            \* per tick: the row that is published and not marked yet
          received,      \* <<event, subscriber>>: handler calls that succeeded
          repeated,      \* history: pairs received more than once
          overran        \* history: rows whose lock ran out while unpublished

vars == <<appended, published, locked, hand, at, received, repeated, overran>>

Init == /\ appended = {} /\ published = {} /\ locked = {}
        /\ hand = [t \in Ticks |-> {}]
        /\ at = [t \in Ticks |-> NoEvent]
        /\ received = {} /\ repeated = {} /\ overran = {}

(* A transaction of some command commits with its event.                          *)
AppendEvent(e) == /\ e \notin appended
                  /\ appended' = appended \cup {e}
                  /\ UNCHANGED <<published, locked, hand, at, received, repeated, overran>>

(* Mutant: relay_locked_until is not asked.                                        *)
LockNotAsked == appended \ published

(* Mutant: a lock that was set once is never taken for expired.                    *)
LockForEver == appended \ (published \cup locked \cup overran)

(* Rows without published_at whose lock is not set or has passed.                  *)
Claimable == appended \ (published \cup locked)

FirstBatch == {e \in Claimable : Cardinality({f \in Claimable : f < e}) < BatchSize}

(* Mutant: the claiming transaction marks its batch as published.                  *)
ClaimMarks(t) == /\ hand[t] = {}
                 /\ Claimable # {}
                 /\ hand' = [hand EXCEPT ![t] = FirstBatch]
                 /\ published' = published \cup FirstBatch
                 /\ UNCHANGED <<appended, locked, at, received, repeated, overran>>

(* The claiming transaction: take the oldest rows, lock them for five minutes.    *)
Claim(t) == /\ hand[t] = {}
            /\ Claimable # {}
            /\ hand' = [hand EXCEPT ![t] = FirstBatch]
            /\ locked' = locked \cup FirstBatch
            /\ UNCHANGED <<appended, published, at, received, repeated, overran>>

IsNext(t, e) == e \in hand[t] /\ at[t] = NoEvent /\ \A f \in hand[t] : e <= f

Deliver(e, S) == /\ received' = received \cup ({e} \X S)
                 /\ repeated' = repeated \cup (({e} \X S) \cap received)

(* eventBus.publish resolves: every handler of the event has succeeded.           *)
Publish(t, e) == /\ IsNext(t, e)
                 /\ e \notin Poison
                 /\ Deliver(e, Subscribers)
                 /\ at' = [at EXCEPT ![t] = e]
                 /\ UNCHANGED <<appended, published, locked, hand, overran>>

(* Promise.all rejects: some handlers have succeeded, the loop and with it the    *)
(* rest of the batch is given up, the locks stay.                                 *)
PublishFails(t, e) == /\ IsNext(t, e)
                      /\ \E S \in SUBSET Subscribers : S # Subscribers /\ Deliver(e, S)
                      /\ hand' = [hand EXCEPT ![t] = {}]
                      /\ UNCHANGED <<appended, published, locked, at, overran>>

MarkPublished(t, e) == /\ at[t] = e /\ e \in hand[t]
                       /\ published' = published \cup {e}
                       /\ locked' = locked \ {e}
                       /\ hand' = [hand EXCEPT ![t] = @ \ {e}]
                       /\ at' = [at EXCEPT ![t] = NoEvent]
                       /\ UNCHANGED <<appended, received, repeated, overran>>

(* The process dies or a statement of the tick fails.                             *)
TickLost(t) == /\ hand[t] # {}
               /\ hand' = [hand EXCEPT ![t] = {}]
               /\ at' = [at EXCEPT ![t] = NoEvent]
               /\ UNCHANGED <<appended, published, locked, received, repeated, overran>>

(* relay_locked_until passes, whether or not the tick that set it still runs.     *)
LockExpires(e) == /\ e \in locked
                  /\ locked' = locked \ {e}
                  /\ overran' = overran \cup {e}
                  /\ UNCHANGED <<appended, published, hand, at, received, repeated>>

TickStep(t) == \/ Claim(t) \/ TickLost(t)
               \/ \E e \in Events : Publish(t, e) \/ PublishFails(t, e) \/ MarkPublished(t, e)

Next == \/ \E e \in Events : AppendEvent(e) \/ LockExpires(e)
        \/ \E t \in Ticks : TickStep(t)

Spec == Init /\ [][Next]_vars

(* The timer ticks for ever, a lock runs out, an awaited publish settles, and an   *)
(* attempt that is made again and again succeeds one day unless the event is       *)
(* poisoned.                                                                       *)
Fairness == /\ WF_vars(\E t \in Ticks : Claim(t))
            /\ \A e \in Events : /\ WF_vars(LockExpires(e))
                                 /\ SF_vars(\E t \in Ticks : Publish(t, e))
                                 /\ SF_vars(\E t \in Ticks : MarkPublished(t, e))
            /\ \A t \in Ticks : SF_vars(\E e \in Events : Publish(t, e) \/ PublishFails(t, e))

FairSpec == Spec /\ Fairness
--------------------------------------------------------------------------------
TypeOK == /\ appended \subseteq Events
          /\ published \subseteq appended
          /\ locked \subseteq appended
          /\ hand \in [Ticks -> SUBSET appended]
          /\ at \in [Ticks -> Events \cup {NoEvent}]
          /\ received \subseteq appended \X Subscribers
          /\ repeated \subseteq received
          /\ overran \subseteq appended

(* published_at is written only after every handler has the event: a tick that     *)
(* dies, or that goes on after its lock ran out, loses nothing.                    *)
MarkedOnlyReceived == \A e \in published : {e} \X Subscribers \subseteq received

(* A handler gets an event twice only after the lock of the row ran out: SKIP      *)
(* LOCKED and relay_locked_until keep overlapping ticks apart.                     *)
RepeatedOnlyOverrun == \A r \in repeated : r[1] \in overran

(* The inductive invariant of the relay.                                           *)
AtIsInHand == \A t \in Ticks : at[t] # NoEvent =>
                 at[t] \in hand[t] /\ {at[t]} \X Subscribers \subseteq received

Exclusive == \A e \in appended \ overran :
                /\ \A t \in Ticks : e \in hand[t] =>
                      /\ e \in locked /\ e \notin published
                      /\ \A u \in Ticks : u # t => e \notin hand[u]
                      /\ at[t] # e => \A s \in Subscribers : <<e, s>> \notin received
                /\ e \in Claimable => \A s \in Subscribers : <<e, s>> \notin received

RelayInv == /\ TypeOK
            /\ MarkedOnlyReceived
            /\ RepeatedOnlyOverrun
            /\ AtIsInHand
            /\ Exclusive

(* Whatever dies, every committed event is published in the end: by the same tick, *)
(* or by a later one when its lock has run out.                                    *)
EventuallyPublished == \A e \in Events : e \in appended ~> e \in published

(* The comment on IEventBus.publish: one failing handler does not block others.    *)
OneFailureBlocksNoOther == \A e \in Events \ Poison : e \in appended ~> e \in published

Delivery == INSTANCE EventDelivery WITH announced <- appended, done <- published

(* The relay implements at-least-once delivery.                                    *)
ImplementsDelivery == Delivery!Spec
================================================================================
