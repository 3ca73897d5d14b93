--------------------------- MODULE EventDelivery ---------------------------
(***************************************************************************)
(* What the payment outbox promises to the readers of its Kafka topics: an *)
(* event is delivered only after the transaction that recorded it, at      *)
(* least once, and every repeated delivery is paid for by a fault (a lost  *)
(* answer, a crash, an expired lease).                                     *)
(***************************************************************************)
EXTENDS Naturals

CONSTANT Events

VARIABLES recorded,   \* events committed to the outbox
          delivered,  \* number of times each event reached the broker
          faults      \* faults so far

dvars == <<recorded, delivered, faults>>

DeliveryInit == /\ recorded = {}
                /\ delivered = [e \in Events |-> 0]
                /\ faults = 0

(* The business transaction inserts its event *)
Record(e) == /\ e \notin recorded
             /\ recorded' = recorded \cup {e}
             /\ UNCHANGED <<delivered, faults>>

Fault == /\ faults' = faults + 1
         /\ UNCHANGED <<recorded, delivered>>

(* One more delivery, covered by the first-delivery right or by a fault    *)
Deliver(e) == /\ e \in recorded
              /\ faults' \in {faults, faults + 1}
              /\ delivered[e] <= faults'
              /\ delivered' = [delivered EXCEPT ![e] = @ + 1]
              /\ UNCHANGED recorded

DeliveryNext == \/ \E e \in Events : Record(e) \/ Deliver(e)
                \/ Fault

DeliverySpec == DeliveryInit /\ [][DeliveryNext]_dvars
=============================================================================
