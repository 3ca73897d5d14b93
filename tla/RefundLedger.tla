---------------------------- MODULE RefundLedger ----------------------------
(***************************************************************************)
(* The refunds of one paid payment: the rows of payment_service.refunds,   *)
(* the instances of the Camunda process Process_Refund_Workflow that write *)
(* them, and the payment provider.  Each external task is one step (its    *)
(* database work is one transaction or one statement); between two tasks   *)
(* everything else may happen, so what a task read may be out of date when *)
(* a later one acts on it.                                                 *)
(*                                                                         *)
(* A refund row is identified by its idempotency key, which the database   *)
(* keeps unique.  The provider decides each refund once, under the stable  *)
(* provider_refund_id of its row, and may report the result any number of  *)
(* times.                                                                  *)
(***************************************************************************)
EXTENDS Integers, Sequences, FiniteSets

CONSTANTS
    Amount,        \* amount of the payment
    Keys,          \* idempotency keys
    ReturnKeys,    \* keys of the form return:<id>
    Requested,     \* Requested[k]: the amount a workflow of key k starts with
    Approvable,    \* amounts an admin may approve instead
    MaxAmount,     \* upper bound of Requested and Approvable
    KeyStarts,     \* bound: how often a key is started
    MaxWorkflows,  \* bound: process instances
    MaxEvents      \* bound: completion events of a refund that are counted

ASSUME AmountAssumption == /\ Amount \in Nat \ {0}
                           /\ MaxAmount \in Nat
                           /\ Requested \in [Keys -> 1..MaxAmount]
                           /\ Approvable \subseteq 1..MaxAmount
ASSUME KeysAssumption == IsFiniteSet(Keys) /\ ReturnKeys \subseteq Keys
ASSUME LedgerBounds == /\ KeyStarts \in Nat
                       /\ MaxWorkflows \in Nat
                       /\ MaxEvents \in Nat \ {0}

VARIABLES
    orderStatus,  \* status of the order, "active": confirmed, processing, shipping
    payStatus,    \* status of the payment
    refunded,     \* payments.refunded_amount
    row,          \* refunds rows by key
    wf,           \* process instances in order of their start
    asked,        \* keys whose refund was requested from the provider
    outcome,      \* the provider's decision on each key
    completed,    \* payment.refund.completed events written for each key
    overruled     \* history: keys whose row one process has failed while another
                  \* of the same key goes on, or went on, to have it paid

vars == <<orderStatus, payStatus, refunded, row, wf, asked, outcome, completed,
          overruled>>
payment == <<payStatus, refunded>>
provider == <<asked, outcome>>

RowStatus == {"none", "pending", "refunded", "failed"}
Phase == {"payment", "order", "review", "reject", "record", "gateway",
          "waiting", "persist", "done"}
Row == [status: RowStatus, amount: 0..MaxAmount]
Workflow == [key: Keys, amount: 1..MaxAmount, phase: Phase,
             allowed: BOOLEAN, refund: Keys,
             result: {"none", "SUCCESS", "FAILED"}]

-----------------------------------------------------------------------------
(* Amounts: a set of rows is as large as its set of units of money         *)

Units(S) == {u \in Keys \X (1..MaxAmount) : u[1] \in S /\ u[2] <= row[u[1]].amount}
Total(S) == Cardinality(Units(S))

WithStatus(s) == {k \in Keys : row[k].status \in s}

(* Mutant: refunds still on their way are forgotten *)
ReservedCompletedOnly == Total(WithStatus({"refunded"}))

(* The SUM over pending and refunded rows in validateRefundCondition and   *)
(* createRefundRecord                                                      *)
Reserved == Total(WithStatus({"pending", "refunded"}))

Refundable == payStatus \in {"paid", "partially_refunded"}

Move(w, to) == wf' = [wf EXCEPT ![w].phase = to]

-----------------------------------------------------------------------------
(* The process                                                             *)

(* startRefundWorkflow by an administrator, or by startApprovedReturnRefund *)
(* for a return, which first looks for a refund of that return              *)
StartWorkflow(k) ==
    /\ Len(wf) < MaxWorkflows
    /\ Cardinality({w \in DOMAIN wf : wf[w].key = k}) < KeyStarts
    /\ k \in ReturnKeys => /\ orderStatus \in {"delivered", "refunded"}
                           /\ Refundable
                           /\ Requested[k] <= Amount
                           /\ row[k].status = "none"
    /\ wf' = Append(wf, [key |-> k, amount |-> Requested[k], phase |-> "payment",
                         allowed |-> FALSE, refund |-> k, result |-> "none"])
    /\ UNCHANGED <<orderStatus, payment, row, provider, completed, overruled>>

(* refund.check-payment-status: reads payment and balance for the route    *)
CheckPayment(w) ==
    /\ wf[w].phase = "payment"
    /\ wf' = [wf EXCEPT ![w].phase = "order",
                        ![w].allowed = /\ Refundable
                                       /\ wf[w].amount <= Amount - Reserved]
    /\ UNCHANGED <<orderStatus, payment, row, provider, completed, overruled>>

(* refund.check-order-fulfillment-status and the gateway after it          *)
Route(w) ==
    IF ~wf[w].allowed THEN "reject"
    ELSE IF wf[w].key \in ReturnKeys THEN "record"
    ELSE IF orderStatus = "refunded" THEN "reject"
    ELSE IF orderStatus = "pending" THEN "record"
    ELSE "review"

CheckOrder(w) ==
    /\ wf[w].phase = "order"
    /\ Move(w, Route(w))
    /\ UNCHANGED <<orderStatus, payment, row, provider, completed, overruled>>

(* The administrator's user task: approve, approve another amount, reject, *)
(* or exchange the product, which ends in two outbox events                *)
AdminApprove(w, a) ==
    /\ wf[w].phase = "review"
    /\ wf' = [wf EXCEPT ![w].phase = "record", ![w].amount = a]
    /\ UNCHANGED <<orderStatus, payment, row, provider, completed, overruled>>

AdminDecline(w, to) ==
    /\ wf[w].phase = "review"
    /\ to \in {"reject", "done"}
    /\ Move(w, to)
    /\ UNCHANGED <<orderStatus, payment, row, provider, completed, overruled>>

(* One process fails the row of k, another has it paid: harmless if the    *)
(* provider has declined                                                   *)
Overrule(k) == IF outcome[k] = "FAILED" THEN overruled ELSE overruled \cup {k}

(* refund.create-record, under the payment's row lock: a row of the key is *)
(* reused whatever its status, a new one needs balance; otherwise the task *)
(* fails and is tried again                                                *)
CreateRecord(w) ==
    LET k == wf[w].key IN
    /\ wf[w].phase = "record"
    /\ \/ /\ row[k].status # "none"
          /\ overruled' = IF row[k].status = "failed" THEN Overrule(k) ELSE overruled
          /\ UNCHANGED row
       \/ /\ row[k].status = "none"
          /\ Refundable
          /\ Reserved + wf[w].amount <= Amount
          /\ row' = [row EXCEPT ![k] = [status |-> "pending", amount |-> wf[w].amount]]
          /\ UNCHANGED overruled
    /\ wf' = [wf EXCEPT ![w].phase = "gateway", ![w].refund = k]
    /\ UNCHANGED <<orderStatus, payment, provider, completed>>

(* refund.update-rejected: the row of the key becomes failed whatever it   *)
(* was, or a failed row is written                                         *)
UpdateRejected(w) ==
    LET k == wf[w].key IN
    /\ wf[w].phase = "reject"
    /\ row' = [row EXCEPT ![k].status = "failed",
                          ![k].amount = IF row[k].status = "none" THEN wf[w].amount
                                                                  ELSE row[k].amount]
    /\ overruled' = IF row[k].status \in {"pending", "refunded"} THEN Overrule(k)
                                                               ELSE overruled
    /\ Move(w, "done")
    /\ UNCHANGED <<orderStatus, payment, provider, completed>>

(* refund.call-gateway-api; the process then waits for a message           *)
CallGateway(w) ==
    /\ wf[w].phase = "gateway"
    /\ asked' = asked \cup {wf[w].refund}
    /\ Move(w, "waiting")
    /\ UNCHANGED <<orderStatus, payment, row, outcome, completed, overruled>>

(* The provider pays the money back, or declines                           *)
ProviderDecides(k, result) ==
    /\ k \in asked
    /\ outcome[k] = "none"
    /\ outcome' = [outcome EXCEPT ![k] = result]
    /\ UNCHANGED <<orderStatus, payment, row, wf, asked, completed, overruled>>

(* Mutant: the instance keeps the refundId it waits for *)
RefundWebhookOwnRefund(w, k) ==
    /\ outcome[k] # "none"
    /\ {x \in DOMAIN wf : wf[x].phase = "waiting"} = {w}
    /\ wf' = [wf EXCEPT ![w].phase = "persist", ![w].result = outcome[k]]
    /\ UNCHANGED <<orderStatus, payment, row, provider, completed, overruled>>

(* refunds/webhook and correlateRefundResult: the engine correlates the    *)
(* message by the payment's id, which must match exactly one waiting       *)
(* instance; the message overwrites the instance's refundId and result     *)
RefundWebhook(w, k) ==
    /\ outcome[k] # "none"
    /\ {x \in DOMAIN wf : wf[x].phase = "waiting"} = {w}
    /\ wf' = [wf EXCEPT ![w].phase = "persist", ![w].refund = k,
                        ![w].result = outcome[k]]
    /\ UNCHANGED <<orderStatus, payment, row, provider, completed, overruled>>

-----------------------------------------------------------------------------
(* persistRefundResultTransaction                                          *)

(* Mutant: the row's own amount decides whether the payment is refunded *)
FullyRefundedAlone(k) == row[k].amount >= Amount

FullyRefunded(k) == Total(WithStatus({"refunded"}) \cup {k}) >= Amount

AtMost(n, limit) == IF n < limit THEN n ELSE limit

RecordSuccess(k) ==
    /\ row' = [row EXCEPT ![k].status = "refunded"]
    /\ payStatus' = IF FullyRefunded(k) THEN "refunded" ELSE "partially_refunded"
    /\ refunded' = AtMost(Total(WithStatus({"refunded"}) \cup {k}), Amount)
    /\ completed' = [completed EXCEPT ![k] = AtMost(@ + 1, MaxEvents)]

(* The transaction, and the call that tells the order service about a full *)
(* refund; the process ends                                                *)
PersistSuccess(w) ==
    LET k == wf[w].refund IN
    /\ wf[w].phase = "persist"
    /\ wf[w].result = "SUCCESS"
    /\ RecordSuccess(k)
    /\ IF FullyRefunded(k) THEN /\ orderStatus \in {"delivered", "refunded"}
                                /\ orderStatus' = "refunded"
                           ELSE UNCHANGED orderStatus
    /\ Move(w, "done")
    /\ UNCHANGED <<provider, overruled>>

(* The same when the worker fails after the commit -- the order service    *)
(* refuses the call or cannot be reached, or the task's completion is      *)
(* lost: the task is handed out again                                      *)
PersistSuccessRetried(w) ==
    LET k == wf[w].refund IN
    /\ wf[w].phase = "persist"
    /\ wf[w].result = "SUCCESS"
    /\ RecordSuccess(k)
    /\ UNCHANGED <<orderStatus, wf, provider, overruled>>

(* A failure.  The gateway after the task reads refundRetryAllowed, which  *)
(* only refund.increase-retry-count, behind that gateway, sets: the engine *)
(* rejects the completion and the task is handed out again.  The 30 minute *)
(* timer of the wait state runs into the same gateway and changes nothing. *)
PersistFailed(w) ==
    LET k == wf[w].refund IN
    /\ wf[w].phase = "persist"
    /\ wf[w].result = "FAILED"
    /\ row' = [row EXCEPT ![k].status = "failed"]
    /\ UNCHANGED <<orderStatus, payment, wf, provider, completed, overruled>>

(* The order meanwhile: confirmed and shipped, delivered, refunded through *)
(* its returns                                                             *)
OrderAdvances ==
    /\ \/ orderStatus = "pending" /\ orderStatus' = "active"
       \/ orderStatus = "active" /\ orderStatus' = "delivered"
       \/ orderStatus = "delivered" /\ orderStatus' = "refunded"
    /\ UNCHANGED <<payment, row, wf, provider, completed, overruled>>

-----------------------------------------------------------------------------
Init ==
    /\ orderStatus = "pending"
    /\ payStatus = "paid"
    /\ refunded = 0
    /\ row = [k \in Keys |-> [status |-> "none", amount |-> 0]]
    /\ wf = <<>>
    /\ asked = {}
    /\ outcome = [k \in Keys |-> "none"]
    /\ completed = [k \in Keys |-> 0]
    /\ overruled = {}

WorkerStep(w) ==
    \/ CheckPayment(w)
    \/ CheckOrder(w)
    \/ CreateRecord(w)
    \/ UpdateRejected(w)
    \/ CallGateway(w)
    \/ PersistSuccess(w)
    \/ PersistFailed(w)

Next ==
    \/ \E k \in Keys : StartWorkflow(k)
    \/ \E w \in DOMAIN wf : WorkerStep(w) \/ PersistSuccessRetried(w)
    \/ \E w \in DOMAIN wf : \/ \E a \in Approvable \cup {wf[w].amount} : AdminApprove(w, a)
                            \/ \E to \in {"reject", "done"} : AdminDecline(w, to)
    \/ \E k \in Keys, result \in {"SUCCESS", "FAILED"} : ProviderDecides(k, result)
    \/ \E w \in DOMAIN wf, k \in Keys : RefundWebhook(w, k)
    \/ OrderAdvances

Spec == Init /\ [][Next]_vars

-----------------------------------------------------------------------------
(* Properties                                                              *)

TypeOK ==
    /\ orderStatus \in {"pending", "active", "delivered", "refunded"}
    /\ payStatus \in {"paid", "partially_refunded", "refunded"}
    /\ refunded \in 0..Amount
    /\ row \in [Keys -> Row]
    /\ wf \in Seq(Workflow)
    /\ asked \subseteq Keys
    /\ outcome \in [Keys -> {"none", "SUCCESS", "FAILED"}]
    /\ completed \in [Keys -> 0..MaxEvents]
    /\ overruled \subseteq Keys

PaidOut == {k \in Keys : outcome[k] = "SUCCESS"}

(* However many processes run at once, with any key started again at any   *)
(* time and every balance possibly out of date when it is acted on, the    *)
(* provider never pays back more than was paid.  Only a refund that one of *)
(* two processes of its key has rejected while the other goes on is not    *)
(* counted, and it does not make the others exceed the payment.            *)
PaidOutWithinPayment == Total(PaidOut \ overruled) <= Amount

(* A row says refunded only when the provider paid, whichever process a    *)
(* result was correlated with; one that says failed was never paid, with   *)
(* the same exception.                                                     *)
RowsFollowProvider ==
    /\ \A k \in WithStatus({"refunded"}) : outcome[k] = "SUCCESS"
    /\ \A k \in WithStatus({"failed"}) \ overruled : outcome[k] # "SUCCESS"

Announced == {k \in Keys : completed[k] > 0}

(* The refunded rows have been announced through the outbox, and the       *)
(* announced ones are refunded but for some of those excepted.  Unless one *)
(* of these is failed at the moment, the payment agrees with its rows:     *)
(* refunded_amount is their sum, never cut unless there was an exception,  *)
(* and the status tells none, some and all apart.                          *)
LedgerAgrees ==
    LET rows == WithStatus({"refunded"}) IN
    /\ rows \subseteq Announced /\ Announced \subseteq rows \cup overruled
    /\ Total(rows \ overruled) <= Amount
    /\ Announced = rows =>
           /\ refunded = AtMost(Total(rows), Amount)
           /\ payStatus = IF rows = {} THEN "paid"
                          ELSE IF Total(rows) < Amount THEN "partially_refunded"
                          ELSE "refunded"

-----------------------------------------------------------------------------
(* What the repository's comments and documents say and the code does not  *)

(* refund-workflow.service.ts, validateRefundCondition: the refunds that   *)
(* hold a reservation do not exceed what was paid.                         *)
ReservedWithinPayment == Reserved <= Amount
=============================================================================
