--------------------------- MODULE PaymentOutbox ---------------------------
(***************************************************************************)
(* The transactional outbox of the payment service: rows of                *)
(* payment_service.outbox_events and the publishers (one per instance of   *)
(* the service, isPublishing lets an instance run one batch at a time).    *)
(* A publisher claims rows under a lease, sends them to Kafka one by one   *)
(* and marks each published or failed; each of these is a statement of its *)
(* own, so leases may expire, processes may crash and answers may get lost *)
(* in between.  Time is abstracted to `due': next_retry_at is NULL or has  *)
(* passed.                                                                 *)
(***************************************************************************)
EXTENDS Naturals, FiniteSets

CONSTANTS
    NumEvents,   \* bound: outbox rows, numbered in order of created_at
    Publishers,  \* instances of the payment service
    MaxRetry,    \* PAYMENT_OUTBOX_MAX_RETRY
    BatchSize,   \* PAYMENT_OUTBOX_BATCH_SIZE
    MaxFaults    \* bound: faults in a behaviour

ASSUME OutboxAssumption == /\ NumEvents \in Nat
                           /\ IsFiniteSet(Publishers)
                           /\ MaxRetry \in Nat \ {0}
                           /\ BatchSize \in Nat \ {0}
                           /\ MaxFaults \in Nat

Events == 1..NumEvents

VARIABLES
    state,       \* status of each row, "absent" before its INSERT
    retry,       \* retry_count
    due,         \* next_retry_at is NULL or in the past
    batch,       \* claimed events a publisher has not finished
    seen,        \* retryCount of the events as a publisher claimed them
    doing,       \* <<phase, event>> of the loop body, <<"loop", 0>> between events
    deliveries,  \* times the event reached the broker
    faults       \* failures so far

vars == <<state, retry, due, batch, seen, doing, deliveries, faults>>
rows == <<state, retry, due>>
workers == <<batch, seen, doing>>

RowStatus == {"absent", "PENDING", "PROCESSING", "PUBLISHED", "FAILED"}
Phase == {"loop", "sent", "error"}
Idle == <<"loop", 0>>

Holders(e) == {p \in Publishers : e \in batch[p]}

-----------------------------------------------------------------------------
(* A business transaction (persistPaymentResultTransaction and the others) *)
(* inserts its event                                                       *)
InsertEvent(e) ==
    /\ state[e] = "absent"
    /\ \A f \in Events : f < e => state[f] # "absent"
    /\ state' = [state EXCEPT ![e] = "PENDING"]
    /\ UNCHANGED <<retry, due, workers, deliveries, faults>>

(* Mutant: rows of a stopped publisher are never claimed again *)
EligibleWithoutRecovery(e) ==
    /\ state[e] \in {"PENDING", "FAILED"}
    /\ due[e]
    /\ retry[e] < MaxRetry

(* Mutant: the lease of a PROCESSING row is not looked at *)
EligibleIgnoringLease(e) ==
    /\ state[e] \in {"PENDING", "FAILED", "PROCESSING"}
    /\ state[e] = "PROCESSING" \/ due[e]
    /\ retry[e] < MaxRetry

(* The WHERE clause of claimPendingEvents *)
Eligible(e) ==
    /\ state[e] \in {"PENDING", "FAILED", "PROCESSING"}
    /\ due[e]
    /\ retry[e] < MaxRetry

(* ORDER BY created_at LIMIT BatchSize.  UPDATE ... RETURNING hands the    *)
(* rows back in no particular order.                                       *)
NextEvents == {e \in Events : /\ Eligible(e)
                              /\ Cardinality({f \in Events : Eligible(f) /\ f < e}) < BatchSize}

ClaimPendingEvents(p) ==
    /\ batch[p] = {}
    /\ NextEvents # {}
    /\ state' = [e \in Events |-> IF e \in NextEvents THEN "PROCESSING" ELSE state[e]]
    /\ due' = [e \in Events |-> e \notin NextEvents /\ due[e]]
    /\ batch' = [batch EXCEPT ![p] = NextEvents]
    /\ seen' = [seen EXCEPT ![p] = retry]
    /\ UNCHANGED <<retry, doing, deliveries, faults>>

(* producer.send succeeds *)
Send(p, e) ==
    /\ doing[p] = Idle
    /\ e \in batch[p]
    /\ deliveries' = [deliveries EXCEPT ![e] = @ + 1]
    /\ doing' = [doing EXCEPT ![p] = <<"sent", e>>]
    /\ UNCHANGED <<rows, batch, seen, faults>>

AFault == faults < MaxFaults /\ faults' = faults + 1

(* Mutant: the error of producer.send is swallowed *)
SendErrorSwallowed(p, e, reached) ==
    /\ doing[p] = Idle
    /\ e \in batch[p]
    /\ AFault
    /\ deliveries' = IF reached THEN [deliveries EXCEPT ![e] = @ + 1] ELSE deliveries
    /\ doing' = [doing EXCEPT ![p] = <<"sent", e>>]
    /\ UNCHANGED <<rows, batch, seen>>

(* producer.send throws; the broker may have the message all the same      *)
SendError(p, e, reached) ==
    /\ doing[p] = Idle
    /\ e \in batch[p]
    /\ AFault
    /\ deliveries' = IF reached THEN [deliveries EXCEPT ![e] = @ + 1] ELSE deliveries
    /\ doing' = [doing EXCEPT ![p] = <<"error", e>>]
    /\ UNCHANGED <<rows, batch, seen>>

MarkPublished(p) ==
    /\ doing[p][1] = "sent"
    /\ state' = [state EXCEPT ![doing[p][2]] = "PUBLISHED"]
    /\ due' = [due EXCEPT ![doing[p][2]] = TRUE]
    /\ batch' = [batch EXCEPT ![p] = @ \ {doing[p][2]}]
    /\ doing' = [doing EXCEPT ![p] = Idle]
    /\ UNCHANGED <<retry, seen, deliveries, faults>>

(* The UPDATE of markPublished throws, with or without effect: control     *)
(* goes to the catch block of the same event                               *)
MarkPublishedError(p, committed) ==
    /\ doing[p][1] = "sent"
    /\ AFault
    /\ IF committed THEN /\ state' = [state EXCEPT ![doing[p][2]] = "PUBLISHED"]
                         /\ due' = [due EXCEPT ![doing[p][2]] = TRUE]
                    ELSE UNCHANGED <<state, due>>
    /\ doing' = [doing EXCEPT ![p] = <<"error", doing[p][2]>>]
    /\ UNCHANGED <<retry, batch, seen, deliveries>>

(* The status is computed from the retryCount read at the claim, the count *)
(* is incremented in the row                                               *)
MarkPublishFailed(p) ==
    LET e == doing[p][2] IN
    /\ doing[p][1] = "error"
    /\ state' = [state EXCEPT ![e] = IF seen[p][e] + 1 >= MaxRetry THEN "FAILED" ELSE "PENDING"]
    /\ retry' = [retry EXCEPT ![e] = @ + 1]
    /\ due' = [due EXCEPT ![e] = FALSE]
    /\ batch' = [batch EXCEPT ![p] = @ \ {e}]
    /\ doing' = [doing EXCEPT ![p] = Idle]
    /\ UNCHANGED <<seen, deliveries, faults>>

Abandon(p) ==
    /\ AFault
    /\ batch' = [batch EXCEPT ![p] = {}]
    /\ doing' = [doing EXCEPT ![p] = Idle]
    /\ UNCHANGED <<rows, seen, deliveries>>

(* markPublishFailed throws inside the catch block: publishPendingEvents   *)
(* rejects and the rest of the batch stays PROCESSING                      *)
MarkPublishFailedError(p) == doing[p][1] = "error" /\ Abandon(p)

(* The instance stops and starts again *)
Crash(p) == batch[p] # {} /\ Abandon(p)

(* next_retry_at passes.  A lease that ends under a publisher which still  *)
(* works on the event is a fault: the publisher was too slow.              *)
TimePasses(e) ==
    /\ ~due[e]
    /\ due' = [due EXCEPT ![e] = TRUE]
    /\ IF state[e] = "PROCESSING" /\ Holders(e) # {} THEN AFault ELSE UNCHANGED faults
    /\ UNCHANGED <<state, retry, workers, deliveries>>

-----------------------------------------------------------------------------
Init ==
    /\ state = [e \in Events |-> "absent"]
    /\ retry = [e \in Events |-> 0]
    /\ due = [e \in Events |-> TRUE]
    /\ batch = [p \in Publishers |-> {}]
    /\ seen = [p \in Publishers |-> [e \in Events |-> 0]]
    /\ doing = [p \in Publishers |-> Idle]
    /\ deliveries = [e \in Events |-> 0]
    /\ faults = 0

PublisherStep(p) ==
    \/ ClaimPendingEvents(p)
    \/ \E e \in Events : Send(p, e)
    \/ MarkPublished(p)
    \/ MarkPublishFailed(p)

PublisherFault(p) ==
    \/ \E e \in Events, reached \in BOOLEAN : SendError(p, e, reached)
    \/ \E committed \in BOOLEAN : MarkPublishedError(p, committed)
    \/ MarkPublishFailedError(p)
    \/ Crash(p)

Next ==
    \/ \E e \in Events : InsertEvent(e) \/ TimePasses(e)
    \/ \E p \in Publishers : PublisherStep(p) \/ PublisherFault(p)

Spec == Init /\ [][Next]_vars

(* The poll timer fires every 15 s and an await ends, and time passes      *)
Fairness == /\ \A p \in Publishers : WF_vars(PublisherStep(p))
            /\ \A e \in Events : WF_vars(TimePasses(e))

FairSpec == Spec /\ Fairness

-----------------------------------------------------------------------------
(* Properties                                                              *)

TypeOK ==
    /\ state \in [Events -> RowStatus]
    /\ retry \in [Events -> Nat]
    /\ due \in [Events -> BOOLEAN]
    /\ batch \in [Publishers -> SUBSET Events]
    /\ seen \in [Publishers -> [Events -> Nat]]
    /\ doing \in [Publishers -> Phase \X (0..NumEvents)]
    /\ deliveries \in [Events -> Nat]
    /\ faults \in Nat

(* A row is marked PUBLISHED only when the broker has its event, however   *)
(* late the mark comes and whoever took the event over meanwhile.          *)
PublishedWasSent == \A e \in Events : state[e] = "PUBLISHED" => deliveries[e] >= 1

(* Every event ends up published, or given up after its retries, and stays *)
(* so: no row is left PROCESSING by a crash, PENDING behind a late failure *)
(* of another publisher, or claimed again and again.                       *)
EventuallySettled ==
    \A e \in Events : state[e] # "absent" ~>
        []\/ state[e] = "PUBLISHED"
          \/ state[e] \in {"FAILED", "PENDING"} /\ retry[e] >= MaxRetry

(* The outbox implements the delivery promise of EventDelivery             *)
Delivery == INSTANCE EventDelivery
                WITH Events <- Events,
                     recorded <- {e \in Events : state[e] # "absent"},
                     delivered <- deliveries, faults <- faults
ImplementsDelivery == Delivery!DeliverySpec
=============================================================================
