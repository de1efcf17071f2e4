--------------------------- MODULE EventDelivery ---------------------------
(***************************************************************************)
(* What the transactional outbox promises of each event (the package       *)
(* comment of pkg/outbox/outbox.go): an event whose business transaction   *)
(* commits is open until it is settled; it may reach the stream any number *)
(* of times (delivery is at least once, and a publish that was reported    *)
(* failed may still arrive); it is settled once, as published only if the  *)
(* stream has it, or else as dead-lettered; and a settled event stays so.  *)
(***************************************************************************)
EXTENDS Naturals

CONSTANTS Events          \* the outbox rows that may ever be written

VARIABLES fate,           \* what the table says of the event
          delivered       \* how many copies of it reached the stream

deliveryVars == <<fate, delivered>>

Settled == {"published", "dead_letter"}

DeliveryInit == /\ fate = [e \in Events |-> "absent"]
                /\ delivered = [e \in Events |-> 0]

Accept(e) == /\ fate[e] = "absent"
             /\ fate' = [fate EXCEPT ![e] = "open"]
             /\ UNCHANGED delivered

Arrive(e) == /\ fate[e] # "absent"
             /\ delivered' = [delivered EXCEPT ![e] = @ + 1]
             /\ UNCHANGED fate

\* One statement marks every event of a batch that was sent.
Publish(S) == /\ \A e \in S : fate[e] = "open" /\ delivered[e] > 0
              /\ fate' = [e \in Events |-> IF e \in S THEN "published" ELSE fate[e]]
              /\ UNCHANGED delivered

GiveUp(e) == /\ fate[e] = "open"
             /\ fate' = [fate EXCEPT ![e] = "dead_letter"]
             /\ UNCHANGED delivered

DeliveryNext == \/ \E e \in Events : Accept(e) \/ Arrive(e) \/ GiveUp(e)
                \/ \E S \in SUBSET Events : Publish(S)

DeliverySpec == DeliveryInit /\ [][DeliveryNext]_deliveryVars

\* An accepted event is settled in the end.
AcceptedIsSettled == \A e \in Events : fate[e] = "open" ~> fate[e] \in Settled
=============================================================================
