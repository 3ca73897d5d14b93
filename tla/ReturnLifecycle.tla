--------------------------- MODULE ReturnLifecycle ---------------------------
(***************************************************************************)
(* The return requests of one delivered order: order_service.              *)
(* return_requests with their items, the goods put back on the shelf, and  *)
(* the money paid back for them, either through the payment's provider     *)
(* (one refund process per request) or by hand.                            *)
(*                                                                         *)
(* Every handler is one transaction under the locks of request and order,  *)
(* except receiveReturnRequest: after its transaction it calls the payment *)
(* service and writes the answer, or the error, in a later UPDATE.  In     *)
(* between the refund process runs and reports its own result.             *)
(*                                                                         *)
(* Money is counted in the smallest unit that roundMoney keeps.            *)
(***************************************************************************)
EXTENDS Integers, Sequences, FiniteSets, FiniteSetsExt

CONSTANTS
    Items,         \* items of the order
    Bought,        \* Bought[i]: units of the item
    Price,         \* Price[i]: unit price
    Shipping,      \* paid on top of the merchandise
    AdminAmounts,  \* amounts an administrator refunds outside of returns
    ComboItems,    \* ComboItems[online]: items of the order's gift campaign
    Discounts,     \* Discounts[online]: possible discounts of the order
    MaxRequests    \* bound, MaxRequests[online]: requests of the order

ASSUME ItemsAssumption == /\ IsFiniteSet(Items)
                          /\ Items # {}
                          /\ Bought \in [Items -> Nat \ {0}]
                          /\ Price \in [Items -> Nat]
                          /\ ComboItems \in [BOOLEAN -> SUBSET Items]
ASSUME MoneyAssumption == /\ Discounts \in [BOOLEAN -> SUBSET Nat]
                          /\ Shipping \in Nat
                          /\ AdminAmounts \subseteq Nat
                          /\ MaxRequests \in [BOOLEAN -> Nat]
                          /\ \E i \in Items : Price[i] > 0

VARIABLES
    discount,     \* orders.discount_amount
    online,       \* paid through a provider whose refunds are enabled
    orderStatus,  \* delivered or refunded
    restocked,    \* restocked[i]: units put back on the shelf
    req,          \* return_requests in order of creation
    adminRefund   \* what the provider paid back outside of returns

vars == <<discount, online, orderStatus, restocked, req, adminRefund>>

Status == {"pending", "approved", "rejected", "refund_pending", "refund_failed",
           "manual_refund_pending", "completed"}
RefundStatus == {"none", "dispatching", "processing", "dispatch_failed",
                 "provider_failed", "awaiting_manual_confirmation",
                 "completed", "manual_completed", "not_eligible"}

(* The refund process of a request: the call is sent, refused or starts it; *)
(* the process is rejected or records its refund and ends with a result     *)
Run == {"none", "sent", "refused", "started", "rejected", "running",
        "SUCCESS", "FAILED"}

-----------------------------------------------------------------------------
(* Amounts                                                                 *)

(* The sum of f[x] over S, counted: f[x] pairs for each x                  *)
Total(f, S) == Cardinality(UNION {{x} \X (1..f[x]) : x \in S})

Gross(q) == Total([i \in Items |-> Price[i] * q[i]], Items)
Subtotal == Gross(Bought)
Merchandise == Max({Subtotal - discount, 0})
Paid == Merchandise + Shipping

(* Mutant: amounts are cut off instead of rounded *)
CalculateReturnRefundCut(g) == (g * Merchandise) \div Subtotal

(* The gross amount less its share of the discount, rounded half up        *)
CalculateReturnRefund(g) == (2 * g * Merchandise + Subtotal) \div (2 * Subtotal)

Requests == DOMAIN req

(* Mutant: refunds confirmed by hand are forgotten *)
RefundedBeforeByProvider == {r \in Requests : /\ req[r].status = "completed"
                                              /\ req[r].refund = "completed"}

(* The requests that count as paid back                                    *)
RefundedBefore == {r \in Requests : /\ req[r].status = "completed"
                                    /\ req[r].refund \in {"completed", "manual_completed"}}

Approved(R) == Total([r \in Requests |-> req[r].approved], R)

Remaining == Max({Merchandise - Approved(RefundedBefore), 0})

(* What the n-th of the accepted items s gets of what remains              *)
Share(s, gross, n, remaining) ==
    IF n = Len(s) THEN remaining
                  ELSE Min({CalculateReturnRefund(gross[s[n]]), remaining})

(* allocateReturnItemRefunds: item refunds of the accepted items in the    *)
(* order s                                                                 *)
AllocateReturnItemRefunds(s, gross, approved) ==
    LET given[n \in 0..Len(s)] ==
            IF n = 0 THEN 0
            ELSE given[n - 1] + Share(s, gross, n, Max({approved - given[n - 1], 0}))
    IN [i \in Items |-> IF \E n \in 1..Len(s) : s[n] = i
                        THEN LET n == CHOOSE m \in 1..Len(s) : s[m] = i
                             IN given[n] - given[n - 1]
                        ELSE 0]

(* The rows of a request have one creation time and are read in the order  *)
(* of their random ids                                                     *)
Orders(S) == {s \in [1..Cardinality(S) -> S] : \A i \in S : \E n \in DOMAIN s : s[n] = i}

-----------------------------------------------------------------------------
(* The customer                                                            *)

Active(r) == req[r].status \notin {"rejected", "completed"}

None == [i \in Items |-> 0]

(* What a request keeps from being returned again                          *)
Claimed(r) == CASE req[r].status = "rejected" -> None
                [] req[r].status \in {"pending", "approved"} -> req[r].asked
                [] OTHER -> req[r].taken

(* previousQuantity: the units of other requests                           *)
Previous(i) == Total([r \in Requests |-> Claimed(r)[i]], Requests)

Available(i) == Bought[i] - Previous(i)

(* Selections a customer can send, parseReturnItems: at least one item     *)
Selections == {q \in [Items -> UNION {0..Bought[i] : i \in Items}] : q # None}

(* The checks of createReturnRequest.  The combo must be returned as a     *)
(* whole by every request, whether it selects an item of it or not.        *)
Acceptable(q) ==
    /\ orderStatus = "delivered"
    /\ \A r \in Requests : ~Active(r)
    /\ \A i \in Items : q[i] <= Available(i)
    /\ \A i \in ComboItems[online] : q[i] = Available(i)

CreateReturnRequest(q) ==
    /\ Len(req) < MaxRequests[online]
    /\ Acceptable(q)
    /\ req' = Append(req, [asked |-> q, taken |-> None, itemRefund |-> None,
                           status |-> "pending", refund |-> "none",
                           approved |-> 0, run |-> "none", awaiting |-> FALSE])
    /\ UNCHANGED <<discount, online, orderStatus, restocked, adminRefund>>

-----------------------------------------------------------------------------
(* The administrator                                                       *)

ReviewReturnRequest(r, decision) ==
    /\ req[r].status = "pending"
    /\ req' = [req EXCEPT ![r].status = decision]
    /\ UNCHANGED <<discount, online, orderStatus, restocked, adminRefund>>

ProviderPaid == adminRefund + Approved({r \in Requests : req[r].run = "SUCCESS"})

Provider == online /\ ProviderPaid < Paid

(* receiveReturnRequest of an approved request, each requested item        *)
(* classified; s is the order in which the accepted items are read         *)
ReceiveReturnRequest(r, disposition, s) ==
    LET accepted == {i \in Items : req[r].asked[i] > 0 /\ disposition[i] # "rejected"}
        taken == [i \in Items |-> IF i \in accepted THEN req[r].asked[i] ELSE 0]
        approved == Min({CalculateReturnRefund(Gross(taken)), Remaining})
        received == [req[r] EXCEPT
            !.taken = taken,
            !.approved = approved,
            !.itemRefund = AllocateReturnItemRefunds(
                               s, [i \in Items |-> Price[i] * taken[i]], approved),
            !.status = IF approved = 0 THEN "completed"
                       ELSE IF Provider THEN "refund_pending" ELSE "manual_refund_pending",
            !.refund = IF approved = 0 THEN "not_eligible"
                       ELSE IF Provider THEN "dispatching" ELSE "awaiting_manual_confirmation",
            !.run = IF approved > 0 /\ Provider THEN "sent" ELSE "none",
            !.awaiting = approved > 0 /\ Provider]
    IN /\ req[r].status = "approved"
       /\ s \in Orders(accepted)
       /\ req' = [req EXCEPT ![r] = received]
       /\ restocked' = [i \in Items |-> restocked[i] +
                            IF disposition[i] = "restock" THEN taken[i] ELSE 0]
       /\ UNCHANGED <<discount, online, orderStatus, adminRefund>>

(* Mutant: the goods are put back a second time *)
ReceiveAfterFailureRestocking(r) ==
    /\ req[r].status = "refund_failed"
    /\ req' = [req EXCEPT ![r].status = "manual_refund_pending",
                          ![r].refund = "awaiting_manual_confirmation"]
    /\ restocked' = [i \in Items |-> restocked[i] + req[r].taken[i]]
    /\ UNCHANGED <<discount, online, orderStatus, adminRefund>>

(* receiveReturnRequest again, after the refund failed                     *)
ReceiveAfterFailure(r) ==
    /\ req[r].status = "refund_failed"
    /\ req' = [req EXCEPT ![r].status = "manual_refund_pending",
                          ![r].refund = "awaiting_manual_confirmation"]
    /\ UNCHANGED <<discount, online, orderStatus, restocked, adminRefund>>

(* Request r becomes completed, and the order refunded once the completed  *)
(* refunds cover the merchandise                                           *)
Complete(r, refund) ==
    /\ req' = [req EXCEPT ![r].status = "completed", ![r].refund = refund]
    /\ orderStatus' = IF Approved(RefundedBefore \cup {r}) >= Merchandise
                      THEN "refunded" ELSE orderStatus

CompleteManualReturnRefund(r) ==
    /\ req[r].status = "manual_refund_pending"
    /\ Complete(r, "manual_completed")
    /\ UNCHANGED <<discount, online, restocked, adminRefund>>

-----------------------------------------------------------------------------
(* The payment service                                                     *)

Reserved == adminRefund + Approved({r \in Requests : req[r].run \in {"running", "SUCCESS"}})

(* startApprovedReturnRefund: needs a payment not yet refunded completely  *)
StartReturnRefund(r) ==
    /\ req[r].run = "sent"
    /\ req' = [req EXCEPT ![r].run = IF ProviderPaid < Paid /\ req[r].approved <= Paid
                                     THEN "started" ELSE "refused"]
    /\ UNCHANGED <<discount, online, orderStatus, restocked, adminRefund>>

(* The refund process records its refund, or rejects it for want of        *)
(* balance and ends without a word to the order service                    *)
RecordReturnRefund(r) ==
    /\ req[r].run = "started"
    /\ req' = [req EXCEPT ![r].run = IF /\ ProviderPaid < Paid
                                        /\ Reserved + req[r].approved <= Paid
                                     THEN "running" ELSE "rejected"]
    /\ UNCHANGED <<discount, online, orderStatus, restocked, adminRefund>>

ProviderDecides(r, result) ==
    /\ req[r].run = "running"
    /\ req' = [req EXCEPT ![r].run = result]
    /\ UNCHANGED <<discount, online, orderStatus, restocked, adminRefund>>

(* A refund started by an administrator, not for a return                  *)
AdminRefund(a) ==
    /\ online
    /\ a > 0
    /\ adminRefund = 0
    /\ Reserved + a <= Paid
    /\ adminRefund' = a
    /\ UNCHANGED <<discount, online, orderStatus, restocked, req>>

-----------------------------------------------------------------------------
(* The answers                                                             *)

(* The answer of startReturnRefund, written unless completed               *)
DispatchAnswered(r) ==
    /\ req[r].awaiting
    /\ req[r].run \notin {"sent", "refused"}
    /\ req' = [req EXCEPT ![r] = IF req[r].status = "completed"
                                 THEN [@ EXCEPT !.awaiting = FALSE]
                                 ELSE [@ EXCEPT !.status = "refund_pending",
                                                !.refund = "processing",
                                                !.awaiting = FALSE]]
    /\ UNCHANGED <<discount, online, orderStatus, restocked, adminRefund>>

(* Mutant: a late error also overwrites a completed request *)
DispatchErrorAlways(r) ==
    /\ req[r].awaiting
    /\ req' = [req EXCEPT ![r] = [@ EXCEPT !.status = "refund_failed",
                                           !.refund = "dispatch_failed",
                                           !.awaiting = FALSE]]
    /\ UNCHANGED <<discount, online, orderStatus, restocked, adminRefund>>

(* An error instead: refused, or the answer was lost on the way            *)
DispatchError(r) ==
    /\ req[r].awaiting
    /\ req' = [req EXCEPT ![r] = IF req[r].status = "completed"
                                 THEN [@ EXCEPT !.awaiting = FALSE]
                                 ELSE [@ EXCEPT !.status = "refund_failed",
                                                !.refund = "dispatch_failed",
                                                !.awaiting = FALSE]]
    /\ UNCHANGED <<discount, online, orderStatus, restocked, adminRefund>>

(* The order service stops while it waits: nothing is written              *)
OrderServiceStops(r) ==
    /\ req[r].awaiting
    /\ req' = [req EXCEPT ![r].awaiting = FALSE]
    /\ UNCHANGED <<discount, online, orderStatus, restocked, adminRefund>>

(* updateReturnRefundResult, called after each (repeated) persistence of   *)
(* the provider's result; any other status refuses the call                *)
ReturnRefundCompleted(r) ==
    /\ req[r].run = "SUCCESS"
    /\ req[r].status \in {"refund_pending", "refund_failed"}
    /\ Complete(r, "completed")
    /\ UNCHANGED <<discount, online, restocked, adminRefund>>

(* Mutant: the result is not looked at *)
ReturnRefundFailedCompleting(r) ==
    /\ req[r].run = "FAILED"
    /\ req[r].status \in {"refund_pending", "refund_failed"}
    /\ Complete(r, "completed")
    /\ UNCHANGED <<discount, online, restocked, adminRefund>>

ReturnRefundFailed(r) ==
    /\ req[r].run = "FAILED"
    /\ req[r].status \in {"refund_pending", "refund_failed"}
    /\ req' = [req EXCEPT ![r].status = "refund_failed", ![r].refund = "provider_failed"]
    /\ UNCHANGED <<discount, online, orderStatus, restocked, adminRefund>>

(* updatePaymentStatus(refunded): the whole payment was paid back          *)
PaymentRefunded ==
    /\ ProviderPaid > 0
    /\ ProviderPaid >= Paid
    /\ orderStatus' = "refunded"
    /\ req' = [r \in Requests |->
                  IF req[r].status \in {"refund_pending", "refund_failed"}
                  THEN [req[r] EXCEPT !.status = "completed", !.refund = "completed"]
                  ELSE req[r]]
    /\ UNCHANGED <<discount, online, restocked, adminRefund>>

-----------------------------------------------------------------------------
Init ==
    /\ online \in BOOLEAN
    /\ discount \in Discounts[online]
    /\ orderStatus = "delivered"
    /\ restocked = None
    /\ req = <<>>
    /\ adminRefund = 0

Disposition == [Items -> {"restock", "damaged", "rejected"}]

Dispatch(r) == DispatchAnswered(r) \/ DispatchError(r)

RefundProcess(r) ==
    \/ StartReturnRefund(r)
    \/ RecordReturnRefund(r)
    \/ \E result \in {"SUCCESS", "FAILED"} : ProviderDecides(r, result)

RefundResult(r) == ReturnRefundCompleted(r) \/ ReturnRefundFailed(r)

Receive(r) ==
    \E d \in Disposition : \E s \in UNION {Orders(S) : S \in SUBSET Items} :
        ReceiveReturnRequest(r, d, s)

Next ==
    \/ \E q \in Selections : CreateReturnRequest(q)
    \/ \E a \in AdminAmounts : AdminRefund(a)
    \/ PaymentRefunded
    \/ \E r \in Requests :
          \/ \E decision \in {"approved", "rejected"} : ReviewReturnRequest(r, decision)
          \/ Receive(r)
          \/ ReceiveAfterFailure(r)
          \/ CompleteManualReturnRefund(r)
          \/ RefundProcess(r)
          \/ Dispatch(r)
          \/ OrderServiceStops(r)
          \/ RefundResult(r)

Spec == Init /\ [][Next]_vars

-----------------------------------------------------------------------------
(* Properties                                                              *)

Request == [asked: [Items -> Nat], taken: [Items -> Nat], itemRefund: [Items -> Nat],
            status: Status, refund: RefundStatus, approved: Nat, run: Run,
            awaiting: BOOLEAN]

TypeOK ==
    /\ discount \in Discounts[online]
    /\ online \in BOOLEAN
    /\ orderStatus \in {"delivered", "refunded"}
    /\ restocked \in [Items -> Nat]
    /\ req \in Seq(Request)
    /\ adminRefund \in Nat

Taken(i) == Total([r \in Requests |-> req[r].taken[i]], Requests)

(* Over all requests no more units are taken back than were bought, and no *)
(* unit is put on the shelf twice, although the same request is received   *)
(* again after a failed refund.                                            *)
ReturnedUnits ==
    \A i \in Items :
        restocked[i] <= Taken(i) /\ Taken(i) <= Bought[i]

(* The amounts approved for all requests stay within what was paid for the *)
(* merchandise, although each is rounded up on its own.                    *)
ApprovedWithinTotal == Approved(Requests) <= Merchandise

(* The refunds of a request's items, none below zero, add up to its amount *)
(* in whatever order they are read, and a customer who returns everything, *)
(* in however many requests, gets the merchandise total but for half a     *)
(* unit of money per request.                                              *)
RefundsAddUp ==
    /\ \A r \in Requests : /\ req[r].itemRefund \in [Items -> Nat]
                            /\ Total(req[r].itemRefund, Items) = req[r].approved
    /\ (\A i \in Items : Taken(i) = Bought[i])
           => 2 * (Merchandise - Approved(Requests)) <= Len(req)

(* A request is completed as refunded only if the provider paid for it or  *)
(* paid the whole payment back, and the order is refunded only if its      *)
(* completed returns cover the merchandise or the payment was paid back,   *)
(* whichever of the two calls reported it, and in whatever order.          *)
CompletedWasPaid ==
    /\ \A r \in Requests : (req[r].status = "completed" /\ req[r].refund = "completed")
                               => req[r].run = "SUCCESS" \/ ProviderPaid >= Paid
    /\ orderStatus = "refunded" => \/ Approved(RefundedBefore) >= Merchandise
                                   \/ ProviderPaid >= Paid

(* Rejected and completed requests stay so: no late answer, error or       *)
(* result reopens them.                                                    *)
ClosedRequestsFinal ==
    [][\A r \in Requests : req[r].status \in {"rejected", "completed"}
                             => /\ req'[r].status = req[r].status
                                /\ req'[r].refund = req[r].refund]_vars
=============================================================================
