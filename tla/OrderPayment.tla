---------------------------- MODULE OrderPayment ----------------------------
(***************************************************************************)
(* Orders, inventory, the voucher and payments of the Balii shop, as the   *)
(* order service and the payment service keep them in one PostgreSQL       *)
(* database.  Every database transaction is one step: it locks the order   *)
(* row first (or is a single UPDATE), so two of them on one order are      *)
(* serialised.  What is NOT atomic in the code is not atomic here either:  *)
(*   - createPayment reads the order over HTTP and inserts later           *)
(*     (`attempts' holds the requests between the two);                    *)
(*   - the payment service tells the order service about a result by an    *)
(*     HTTP call after its own commit (`calls'), which may be lost;        *)
(*   - the Camunda workflow waits for a callback (`waiting') and expires   *)
(*     a payment some time after the timer or the reconciliation job       *)
(*     decided to (`expiring'); its cancel-release task is retried until   *)
(*     it succeeds (`releaseTasks').                                       *)
(***************************************************************************)
EXTENDS Integers, Sequences, FiniteSets

CONSTANTS
    Orders,            \* order ids
    UserOf,            \* the user of each order
    Variants,          \* product variants
    Qty,               \* Qty[o][v]: units of variant v in order o
    MaxQty,            \* upper bound of Qty
    InitStock,         \* stock_quantity of each variant at the start
    AdminStock,        \* stock values the admin may set
    Methods,           \* payment methods, "cod" is the offline one
    MaxPayments,       \* bound: payments inserted in a behaviour
    MaxAttempts,       \* bound: payment requests between read and insert
    MaxJobs,           \* bound: open waits and expiry jobs
    MaxSupplied,       \* bound: units of a variant ever put on the shelf
    UsageLimit,        \* usage_limit of the voucher
    UserLimitPerUser   \* user_limit_per_user of the voucher

ASSUME OrdersAssumption == IsFiniteSet(Orders)
ASSUME QtyAssumption == /\ MaxQty \in Nat
                        /\ Qty \in [Orders -> [Variants -> 0..MaxQty]]
ASSUME StockAssumption == /\ InitStock \in [Variants -> Nat]
                          /\ AdminStock \subseteq Nat
ASSUME BoundsAssumption == /\ MaxPayments \in Nat
                           /\ MaxAttempts \in Nat
                           /\ MaxJobs \in Nat
                           /\ MaxSupplied \in Nat
                           /\ UsageLimit \in Nat
                           /\ UserLimitPerUser \in Nat

VARIABLES
    status,       \* order_statuses.code of each order, "absent" before checkout
    inv,          \* orders.inventory_state
    stock,        \* product_variants.stock_quantity
    reserved,     \* product_variants.reserved_quantity
    supplied,     \* units put on the shelf from outside: initially, by admin
                  \* adjustments and by accepted returns (inventory_movements)
    usedCount,    \* vouchers.used_count
    usages,       \* voucher_usages: the orders that hold a use of the voucher
    pay,          \* payments in order of created_at
    attempts,     \* createPayment / createOrReusePayment between read and insert
    waiting,      \* payments whose workflow waits for the gateway callback
    expiring,     \* payments some job has decided to mark expired
    calls,        \* updateOrderPayment calls in flight to the order service
    releaseTasks  \* orders with an open order.cancel-release task

goods == <<stock, reserved, supplied>>
voucher == <<usedCount, usages>>
jobs == <<attempts, waiting, expiring, calls, releaseTasks>>
vars == <<status, inv, stock, reserved, supplied, usedCount, usages, pay,
          attempts, waiting, expiring, calls, releaseTasks>>

OrderStatus == {"absent", "pending", "confirmed", "processing", "shipping",
                "delivered", "cancelled", "refunded"}
InventoryState == {"none", "reserved", "committed", "released"}
PaymentStatus == {"pending", "paid", "failed", "cancelled",
                  "partially_refunded", "refunded"}
SettledStatus == {"paid", "partially_refunded", "refunded"}
Payment == [order: Orders, method: Methods, status: PaymentStatus,
            paidAt: BOOLEAN, checkoutKey: BOOLEAN]
Attempt == [order: Orders, method: Methods, via: {"checkout", "workflow"}]
Call == [order: Orders, kind: {"paid", "failed", "refunded"}]

-----------------------------------------------------------------------------
(* Reads                                                                   *)

PaymentsOf(o) == {p \in DOMAIN pay : pay[p].order = o}

(* The first row of the ORDER BY created_at DESC reads *)
IsLatest(p, o) == p \in PaymentsOf(o) /\ \A q \in PaymentsOf(o) : q <= p

HasSettledPayment(o) == \E p \in PaymentsOf(o) : pay[p].status \in SettledStatus

(* Units of variant v that belong to orders in inventory state s *)
Held(s, v) == {u \in Orders \X (1..MaxQty) : /\ inv[u[1]] = s
                                             /\ u[2] <= Qty[u[1]][v]}

(* validateVoucherForCheckout: global quota and per-user quota *)
VoucherUsable(o) ==
    /\ usedCount < UsageLimit
    /\ Cardinality({x \in usages : UserOf[x] = UserOf[o]}) < UserLimitPerUser

-----------------------------------------------------------------------------
(* Transaction parts shared by several handlers                            *)

(* transitionInventoryInTransaction(committed): reserved units leave stock. *)
(* Its early return for an order already in the target state is not taken  *)
(* from any caller below: they all require a status that StatusInventory   *)
(* couples with another inventory state.                                   *)
CanCommit(o) == /\ inv[o] = "reserved"
                /\ \A v \in Variants : /\ Qty[o][v] <= stock[v]
                                       /\ Qty[o][v] <= reserved[v]

CommitInventory(o) ==
    /\ stock' = [v \in Variants |-> stock[v] - Qty[o][v]]
    /\ reserved' = [v \in Variants |-> reserved[v] - Qty[o][v]]
    /\ inv' = [inv EXCEPT ![o] = "committed"]
    /\ UNCHANGED supplied

(* transitionInventoryInTransaction(released): a reservation is undone, a  *)
(* committed order is put back on the shelf                                *)
CanRelease(o) == \/ /\ inv[o] = "reserved"
                    /\ \A v \in Variants : Qty[o][v] <= reserved[v]
                 \/ inv[o] = "committed"

(* Mutant: a committed order is released without putting its goods back *)
ReleaseWithoutRestock(o) ==
    /\ \/ /\ inv[o] = "reserved"
          /\ reserved' = [v \in Variants |-> reserved[v] - Qty[o][v]]
          /\ UNCHANGED stock
       \/ inv[o] = "committed" /\ UNCHANGED <<stock, reserved>>
    /\ inv' = [inv EXCEPT ![o] = "released"]
    /\ UNCHANGED supplied

ReleaseInventory(o) ==
    /\ \/ /\ inv[o] = "reserved"
          /\ reserved' = [v \in Variants |-> reserved[v] - Qty[o][v]]
          /\ UNCHANGED stock
       \/ /\ inv[o] = "committed"
          /\ stock' = [v \in Variants |-> stock[v] + Qty[o][v]]
          /\ UNCHANGED reserved
    /\ inv' = [inv EXCEPT ![o] = "released"]
    /\ UNCHANGED supplied

(* Mutant: the usage row is deleted, used_count is forgotten *)
ReleaseUsageOnly(o) ==
    /\ usages' = usages \ {o}
    /\ UNCHANGED usedCount

(* releaseVoucherUsageInTransaction: used_count = GREATEST(used_count-1,0) *)
ReleaseVoucher(o) ==
    /\ usages' = usages \ {o}
    /\ usedCount' = IF o \in usages /\ usedCount > 0 THEN usedCount - 1
                                                     ELSE usedCount

(* cancelPendingPaymentsInTransaction *)
CancelPendingPayments(o) ==
    pay' = [p \in DOMAIN pay |->
              IF pay[p].order = o /\ pay[p].status = "pending"
              THEN [pay[p] EXCEPT !.status = "cancelled"]
              ELSE pay[p]]

(* Mutant: the cancellation forgets the inventory *)
CancelKeepingStock(o) ==
    /\ CanRelease(o)
    /\ ReleaseVoucher(o)
    /\ CancelPendingPayments(o)
    /\ status' = [status EXCEPT ![o] = "cancelled"]
    /\ UNCHANGED <<inv, goods>>

(* The three statements every cancellation runs *)
CancelOrder(o) ==
    /\ CanRelease(o)
    /\ ReleaseInventory(o)
    /\ ReleaseVoucher(o)
    /\ CancelPendingPayments(o)
    /\ status' = [status EXCEPT ![o] = "cancelled"]

-----------------------------------------------------------------------------
(* Order service                                                           *)

(* Mutant: availability is checked against stock_quantity alone *)
CreateOrderOverselling(o, useVoucher) ==
    /\ status[o] = "absent"
    /\ useVoucher => VoucherUsable(o)
    /\ \A v \in Variants : Qty[o][v] <= stock[v]
    /\ reserved' = [v \in Variants |-> reserved[v] + Qty[o][v]]
    /\ inv' = [inv EXCEPT ![o] = "reserved"]
    /\ status' = [status EXCEPT ![o] = "pending"]
    /\ IF useVoucher THEN /\ usedCount' = usedCount + 1
                          /\ usages' = usages \cup {o}
                     ELSE UNCHANGED voucher
    /\ UNCHANGED <<stock, supplied, pay, jobs>>

(* createOrder: voucher check, conditional reservations, order and voucher *)
(* usage, all in one transaction; a missing unit of any variant rolls back *)
CreateOrder(o, useVoucher) ==
    /\ status[o] = "absent"
    /\ useVoucher => VoucherUsable(o)
    /\ \A v \in Variants : Qty[o][v] > 0 => reserved[v] + Qty[o][v] <= stock[v]
    /\ reserved' = [v \in Variants |-> reserved[v] + Qty[o][v]]
    /\ inv' = [inv EXCEPT ![o] = "reserved"]
    /\ status' = [status EXCEPT ![o] = "pending"]
    /\ IF useVoucher THEN /\ usedCount' = usedCount + 1
                          /\ usages' = usages \cup {o}
                     ELSE UNCHANGED voucher
    /\ UNCHANGED <<stock, supplied, pay, jobs>>

(* updatePaymentStatus('paid', 'confirmed') *)
ConfirmPaid(o) ==
    /\ status[o] = "pending"
    /\ CanCommit(o)
    /\ CommitInventory(o)
    /\ status' = [status EXCEPT ![o] = "confirmed"]
    /\ UNCHANGED <<voucher, pay>>

(* updatePaymentStatus('failed', 'cancelled') *)
CancelUnpaid(o) ==
    /\ status[o] = "pending"
    /\ ~HasSettledPayment(o)
    /\ CancelOrder(o)

(* updatePaymentStatus('refunded', 'refunded') *)
MarkRefunded(o) ==
    /\ status[o] \in {"cancelled", "delivered", "refunded"}
    /\ status' = [status EXCEPT ![o] = "refunded"]
    /\ UNCHANGED <<inv, goods, voucher, pay>>

(* What updatePaymentStatus accepts; anything else is a no-op or an error  *)
Applies(c) ==
    \/ /\ c.kind = "paid"
       /\ status[c.order] = "pending"
       /\ CanCommit(c.order)
    \/ /\ c.kind = "failed"
       /\ status[c.order] = "pending"
       /\ ~HasSettledPayment(c.order)
       /\ CanRelease(c.order)
    \/ /\ c.kind = "refunded"
       /\ status[c.order] \in {"cancelled", "delivered", "refunded"}

UpdatePaymentStatus(c) ==
    \/ c.kind = "paid" /\ ConfirmPaid(c.order)
    \/ c.kind = "failed" /\ CancelUnpaid(c.order)
    \/ c.kind = "refunded" /\ MarkRefunded(c.order)
    \/ ~Applies(c) /\ UNCHANGED <<status, inv, goods, voucher, pay>>

(* An updateOrderPayment call reaches the order service ...                *)
DeliverCall(c) ==
    /\ c \in calls
    /\ UpdatePaymentStatus(c)
    /\ calls' = calls \ {c}
    /\ UNCHANGED <<attempts, waiting, expiring, releaseTasks>>

(* ... or fails: BadGatewayException, nobody sends it again                *)
LoseCall(c) ==
    /\ c \in calls
    /\ calls' = calls \ {c}
    /\ UNCHANGED <<status, inv, goods, voucher, pay, attempts, waiting,
                   expiring, releaseTasks>>

(* Mutant: a shipped order may still be cancelled *)
AllowedTransitionLax(from, to) ==
    \/ from = "pending" /\ to \in {"confirmed", "cancelled"}
    \/ from = "confirmed" /\ to \in {"processing", "cancelled"}
    \/ from = "processing" /\ to \in {"shipping", "cancelled"}
    \/ from = "shipping" /\ to \in {"delivered", "cancelled"}

(* updateOrderStatus by an administrator *)
AllowedTransition(from, to) ==
    \/ from = "pending" /\ to \in {"confirmed", "cancelled"}
    \/ from = "confirmed" /\ to \in {"processing", "cancelled"}
    \/ from = "processing" /\ to \in {"shipping", "cancelled"}
    \/ from = "shipping" /\ to = "delivered"

(* Mutant: any latest payment is good enough *)
AdminConfirmUnpaid(o) ==
    /\ AllowedTransition(status[o], "confirmed")
    /\ PaymentsOf(o) # {}
    /\ CanCommit(o)
    /\ CommitInventory(o)
    /\ status' = [status EXCEPT ![o] = "confirmed"]
    /\ UNCHANGED <<voucher, pay, jobs>>

AdminConfirm(o) ==
    /\ AllowedTransition(status[o], "confirmed")
    /\ \E p \in PaymentsOf(o) : /\ IsLatest(p, o)
                                /\ \/ pay[p].method = "cod"
                                   \/ pay[p].status = "paid"
    /\ CanCommit(o)
    /\ CommitInventory(o)
    /\ status' = [status EXCEPT ![o] = "confirmed"]
    /\ UNCHANGED <<voucher, pay, jobs>>

CancelAllowed(o) == /\ AllowedTransition(status[o], "cancelled")
                    /\ ~HasSettledPayment(o)

AdminCancel(o) ==
    /\ CancelAllowed(o)
    /\ CancelOrder(o)
    /\ UNCHANGED jobs

AdminAdvance(o, to) ==
    /\ to \in {"processing", "shipping", "delivered"}
    /\ AllowedTransition(status[o], to)
    /\ status' = [status EXCEPT ![o] = to]
    /\ UNCHANGED <<inv, goods, voucher, pay, jobs>>

(* product-variants.service update: the row is locked, and stock may not   *)
(* be set below what is reserved                                           *)
AdjustStock(v, n) ==
    /\ n <= MaxSupplied
    /\ n # stock[v]
    /\ reserved[v] <= n
    /\ stock' = [stock EXCEPT ![v] = n]
    /\ supplied' = [supplied EXCEPT ![v] = supplied[v] - stock[v] + n]
    /\ UNCHANGED <<status, inv, reserved, voucher, pay, jobs>>

(* receiveReturnRequest puts accepted units of a delivered order back on   *)
(* the shelf; the order keeps its inventory state                          *)
RestockReturn(o, v, n) ==
    /\ status[o] \in {"delivered", "refunded"}
    /\ inv[o] = "committed"
    /\ n <= Qty[o][v]
    /\ supplied[v] + n <= MaxSupplied
    /\ stock' = [stock EXCEPT ![v] = stock[v] + n]
    /\ supplied' = [supplied EXCEPT ![v] = supplied[v] + n]
    /\ UNCHANGED <<status, inv, reserved, voucher, pay, jobs>>

(* completeManualReturnRefund and updateReturnRefundResult(completed) once *)
(* the order's returns cover what was paid for its merchandise             *)
CompleteReturns(o) ==
    /\ status[o] = "delivered"
    /\ status' = [status EXCEPT ![o] = "refunded"]
    /\ UNCHANGED <<inv, goods, voucher, pay, jobs>>

-----------------------------------------------------------------------------
(* Payment service                                                         *)

OpenJobs == Cardinality(waiting) + Cardinality(expiring)

(* createPayment up to the INSERT: the order is pending, its latest payment *)
(* is not paid, and the method has no pending or paid payment to reuse      *)
BeginCheckoutPayment(o, m) ==
    /\ status[o] = "pending"
    /\ \A p \in PaymentsOf(o) : IsLatest(p, o) => pay[p].status # "paid"
    /\ \A p \in PaymentsOf(o) :
          pay[p].method = m => pay[p].status \notin {"pending", "paid"}
    /\ Cardinality(attempts) < MaxAttempts
    /\ attempts' = attempts \cup {[order |-> o, method |-> m, via |-> "checkout"]}
    /\ UNCHANGED <<status, inv, goods, voucher, pay, waiting, expiring, calls,
                   releaseTasks>>

(* The Camunda workflow of an order: createOrReusePayment reads the latest *)
(* payment of the order, and reuses it while it is pending or paid.  The   *)
(* order's own status is not looked at.                                    *)
ReusePayment(p) ==
    /\ IsLatest(p, pay[p].order)
    /\ pay[p].status \in {"pending", "paid"}
    /\ p \notin waiting
    /\ OpenJobs < MaxJobs
    /\ waiting' = waiting \cup {p}
    /\ UNCHANGED <<status, inv, goods, voucher, pay, attempts, expiring, calls,
                   releaseTasks>>

BeginWorkflowPayment(o, m) ==
    /\ status[o] # "absent"
    /\ \A p \in PaymentsOf(o) :
          IsLatest(p, o) => pay[p].status \notin {"pending", "paid"}
    /\ Cardinality(attempts) < MaxAttempts
    /\ attempts' = attempts \cup {[order |-> o, method |-> m, via |-> "workflow"]}
    /\ UNCHANGED <<status, inv, goods, voucher, pay, waiting, expiring, calls,
                   releaseTasks>>

(* The unique index on idempotency_key = checkout:<order>:<method> *)
CheckoutKeyTaken(o, m) ==
    \E p \in PaymentsOf(o) : pay[p].method = m /\ pay[p].checkoutKey

(* The INSERT of a payment.  A checkout whose key exists gets 23505 and     *)
(* returns the payment that has it.                                         *)
InsertPayment(a) ==
    /\ a \in attempts
    /\ attempts' = attempts \ {a}
    /\ \/ /\ a.via = "checkout"
          /\ CheckoutKeyTaken(a.order, a.method)
          /\ UNCHANGED <<pay, waiting>>
       \/ /\ ~(a.via = "checkout" /\ CheckoutKeyTaken(a.order, a.method))
          /\ Len(pay) < MaxPayments
          /\ a.via = "workflow" => OpenJobs < MaxJobs
          /\ pay' = Append(pay, [order |-> a.order, method |-> a.method,
                                 status |-> "pending", paidAt |-> FALSE,
                                 checkoutKey |-> (a.via = "checkout")])
          /\ waiting' = IF a.via = "workflow" THEN waiting \cup {Len(pay) + 1}
                                              ELSE waiting
    /\ UNCHANGED <<status, inv, goods, voucher, expiring, calls, releaseTasks>>

(* Mutant: the order's status is not looked at *)
RecordableForAnyOrder(p, result) == pay[p].status = "pending"

(* Mutant: a repeated result is recorded again *)
RecordableAgain(p, result) ==
    result = "SUCCESS" => status[pay[p].order] \notin {"cancelled", "refunded"}

(* persistPaymentResultTransaction and the call that follows its commit.   *)
(* A payment that is not pending is left alone; a success for a cancelled  *)
(* or refunded order is rejected.                                          *)
Recordable(p, result) ==
    /\ pay[p].status = "pending"
    /\ result = "SUCCESS" => status[pay[p].order] \notin {"cancelled", "refunded"}

RecordResult(p, result) ==
    /\ pay' = [pay EXCEPT ![p].status = IF result = "SUCCESS" THEN "paid" ELSE "failed",
                          ![p].paidAt = (pay[p].paidAt \/ result = "SUCCESS")]
    /\ calls' = calls \cup
          {[order |-> pay[p].order,
            kind |-> IF result = "SUCCESS" THEN "paid" ELSE "failed"]}

(* VNPay IPN, SePay webhook, simulation endpoints, reconciled              *)
(* successes: any number of them, in any order                             *)
PaymentResult(p, result) ==
    /\ Recordable(p, result)
    /\ RecordResult(p, result)
    /\ UNCHANGED <<status, inv, goods, voucher, attempts, waiting, expiring,
                   releaseTasks>>

(* The same result through the workflow: the callback ends the wait, and   *)
(* the process branches on the callback's result, not on what was recorded *)
(* (FAILED: cancel-release; UNKNOWN: an admin decides).  A result the      *)
(* transaction rejects stays an incident.                                  *)
WorkflowCallback(p, result) ==
    /\ p \in waiting
    /\ waiting' = waiting \ {p}
    /\ \/ Recordable(p, result) /\ RecordResult(p, result)
       \/ ~Recordable(p, result) /\ UNCHANGED <<pay, calls>>
    /\ \/ result \in {"FAILED", "UNKNOWN"} /\ releaseTasks' = releaseTasks \cup {pay[p].order}
       \/ result \in {"SUCCESS", "UNKNOWN"} /\ UNCHANGED releaseTasks
    /\ UNCHANGED <<status, inv, goods, voucher, attempts, expiring>>

(* A callback whose signature does not verify ends the process instance:   *)
(* the webhook is logged, the payment only gets a failure_reason           *)
InvalidCallback(p) ==
    /\ p \in waiting
    /\ waiting' = waiting \ {p}
    /\ UNCHANGED <<status, inv, goods, voucher, pay, attempts, expiring, calls,
                   releaseTasks>>

(* The 15 minute boundary timer of the wait state *)
WorkflowTimeout(p) ==
    /\ p \in waiting
    /\ waiting' = waiting \ {p}
    /\ expiring' = expiring \cup {p}
    /\ UNCHANGED <<status, inv, goods, voucher, pay, attempts, calls, releaseTasks>>

(* The reconciliation job reads a pending online payment past expires_at   *)
ReconcileExpired(p) ==
    /\ pay[p].status = "pending"
    /\ pay[p].method # "cod"
    /\ p \notin expiring
    /\ OpenJobs < MaxJobs
    /\ expiring' = expiring \cup {p}
    /\ UNCHANGED <<status, inv, goods, voucher, pay, attempts, waiting, calls,
                   releaseTasks>>

(* The reconciliation job, which read the payment while it was pending,    *)
(* persists the failure the gateway reports and then releases the order    *)
ReconcileFailed(p) ==
    /\ pay[p].method # "cod"
    /\ \/ Recordable(p, "FAILED") /\ RecordResult(p, "FAILED")
       \/ ~Recordable(p, "FAILED") /\ UNCHANGED <<pay, calls>>
    /\ releaseTasks' = releaseTasks \cup {pay[p].order}
    /\ UNCHANGED <<status, inv, goods, voucher, attempts, waiting, expiring>>

(* Mutant: a status that payment_statuses does not have *)
ExpireAsExpired(p) ==
    /\ pay' = [pay EXCEPT ![p].status = "expired"]
    /\ calls' = calls \cup {[order |-> pay[p].order, kind |-> "failed"]}

(* markExpiredTransaction: the UPDATE has no condition on the status read  *)
ExpirePayment(p) ==
    /\ pay' = [pay EXCEPT ![p].status = "failed"]
    /\ calls' = calls \cup {[order |-> pay[p].order, kind |-> "failed"]}

(* Mutant: the process ends after mark-expired, without cancel-release *)
MarkExpiredOnly(p) ==
    /\ p \in expiring
    /\ ExpirePayment(p)
    /\ expiring' = expiring \ {p}
    /\ UNCHANGED <<status, inv, goods, voucher, attempts, waiting, releaseTasks>>

MarkExpired(p) ==
    /\ p \in expiring
    /\ ExpirePayment(p)
    /\ expiring' = expiring \ {p}
    /\ releaseTasks' = releaseTasks \cup {pay[p].order}
    /\ UNCHANGED <<status, inv, goods, voucher, attempts, waiting>>

(* Its commit succeeds but the call or the task's completion does not: the *)
(* worker reports a failure and the engine hands the task out again        *)
MarkExpiredRetried(p) ==
    /\ p \in expiring
    /\ ExpirePayment(p)
    /\ UNCHANGED <<status, inv, goods, voucher, attempts, waiting, expiring,
                   releaseTasks>>

(* cancelOrReleaseOrder, a retried external task *)
RunReleaseTask(o) ==
    /\ o \in releaseTasks
    /\ UpdatePaymentStatus([order |-> o, kind |-> "failed"])
    /\ releaseTasks' = releaseTasks \ {o}
    /\ UNCHANGED <<attempts, waiting, expiring, calls>>

(* persistRefundResultTransaction(SUCCESS) seen from the payment: the sum  *)
(* of its refunds covers the amount or does not.  A refund is recorded     *)
(* while the payment is paid, its result arrives whatever became of it.    *)
RefundPayment(p, full) ==
    /\ pay[p].paidAt
    /\ pay' = [pay EXCEPT ![p].status = IF full THEN "refunded" ELSE "partially_refunded"]
    /\ calls' = IF full THEN calls \cup {[order |-> pay[p].order, kind |-> "refunded"]}
                        ELSE calls
    /\ UNCHANGED <<status, inv, goods, voucher, attempts, waiting, expiring,
                   releaseTasks>>

-----------------------------------------------------------------------------
Init ==
    /\ status = [o \in Orders |-> "absent"]
    /\ inv = [o \in Orders |-> "none"]
    /\ stock = InitStock
    /\ supplied = InitStock
    /\ reserved = [v \in Variants |-> 0]
    /\ usedCount = 0
    /\ usages = {}
    /\ pay = <<>>
    /\ attempts = {}
    /\ waiting = {}
    /\ expiring = {}
    /\ calls = {}
    /\ releaseTasks = {}

OrderServiceNext ==
    \/ \E o \in Orders, useVoucher \in BOOLEAN : CreateOrder(o, useVoucher)
    \/ \E c \in calls : DeliverCall(c) \/ LoseCall(c)
    \/ \E o \in Orders : AdminConfirm(o) \/ AdminCancel(o)
    \/ \E o \in Orders, to \in OrderStatus : AdminAdvance(o, to)
    \/ \E v \in Variants, n \in AdminStock : AdjustStock(v, n)
    \/ \E o \in Orders, v \in Variants, n \in 1..MaxQty : RestockReturn(o, v, n)
    \/ \E o \in Orders : CompleteReturns(o)

PaymentServiceNext ==
    \/ \E o \in Orders, m \in Methods :
          BeginCheckoutPayment(o, m) \/ BeginWorkflowPayment(o, m)
    \/ \E a \in attempts : InsertPayment(a)
    \/ \E p \in DOMAIN pay : \/ ReusePayment(p)
                             \/ InvalidCallback(p)
                             \/ WorkflowTimeout(p)
                             \/ ReconcileExpired(p)
                             \/ ReconcileFailed(p)
                             \/ MarkExpired(p)
                             \/ MarkExpiredRetried(p)
    \/ \E p \in DOMAIN pay, result \in {"SUCCESS", "FAILED"} : PaymentResult(p, result)
    \/ \E p \in DOMAIN pay, result \in {"SUCCESS", "FAILED", "UNKNOWN"} :
          WorkflowCallback(p, result)
    \/ \E p \in DOMAIN pay, full \in BOOLEAN : RefundPayment(p, full)
    \/ \E o \in Orders : RunReleaseTask(o)

Next == OrderServiceNext \/ PaymentServiceNext

Spec == Init /\ [][Next]_vars

-----------------------------------------------------------------------------
(* Properties                                                              *)

TypeOK ==
    /\ status \in [Orders -> OrderStatus]
    /\ inv \in [Orders -> InventoryState]
    /\ stock \in [Variants -> Nat]
    /\ reserved \in [Variants -> Nat]
    /\ supplied \in [Variants -> Int]
    /\ usedCount \in Nat
    /\ usages \subseteq Orders
    /\ pay \in Seq(Payment)
    /\ attempts \subseteq Attempt
    /\ waiting \subseteq DOMAIN pay
    /\ expiring \subseteq DOMAIN pay
    /\ calls \subseteq Call
    /\ releaseTasks \subseteq Orders

(* Conservation of goods.  reserved_quantity is exactly what the orders in *)
(* state 'reserved' hold, and stock_quantity plus what committed orders    *)
(* took away is exactly what was ever supplied: no interleaving of         *)
(* checkouts, callbacks, expiries, cancellations and admin adjustments     *)
(* loses or invents a unit (transitionInventoryInTransaction, createOrder).*)
InventoryAccounting ==
    \A v \in Variants :
        /\ reserved[v] = Cardinality(Held("reserved", v))
        /\ stock[v] + Cardinality(Held("committed", v)) = supplied[v]

(* No overselling: what is promised to unpaid orders is on the shelf, the  *)
(* CHECK constraint chk_product_variant_inventory_balances never has to    *)
(* reject a transaction.                                                   *)
NoOverselling == \A v \in Variants : reserved[v] <= stock[v]

(* The inventory state follows the order status, although five different   *)
(* handlers of two services write them: a pending order always still has   *)
(* its reservation, an order being fulfilled has taken its goods, and a    *)
(* cancelled one has given everything back.                                *)
StatusInventory ==
    \A o \in Orders :
        /\ status[o] = "absent" <=> inv[o] = "none"
        /\ status[o] = "pending" <=> inv[o] = "reserved"
        /\ status[o] = "cancelled" => inv[o] = "released"
        /\ inv[o] = "released" => status[o] \in {"cancelled", "refunded"}

(* used_count is the number of usages, never beyond the quota, no user     *)
(* holds more than the per-user quota, and a cancelled order holds none.   *)
VoucherAccounting ==
    /\ usedCount = Cardinality(usages)
    /\ usedCount <= UsageLimit
    /\ \A x \in usages :
          /\ status[x] \notin {"absent", "cancelled"}
          /\ Cardinality({y \in usages : UserOf[y] = UserOf[x]}) <= UserLimitPerUser

(* No cancelled order keeps a payment recorded as paid: however the        *)
(* cancellation (admin, failed callback, expiry, release task) raced with  *)
(* the payment result, one of the two is refused.                          *)
CancelledNotPaid ==
    \A o \in Orders : status[o] = "cancelled" =>
        \A p \in PaymentsOf(o) : pay[p].status # "paid"

(* Goods leave only for money or cash on delivery: every order past        *)
(* 'pending' that was not cancelled has a payment whose paid_at is set, or *)
(* a COD payment.                                                          *)
FulfilledWasPaid ==
    \A o \in Orders :
        inv[o] = "committed" =>
            \E p \in PaymentsOf(o) : pay[p].paidAt \/ pay[p].method = "cod"

(* An order never moves backwards: nothing returns to an earlier status,   *)
(* and goods that are shipped or delivered are not cancelled any more.     *)
Rank == [absent |-> 0, pending |-> 1, confirmed |-> 2, processing |-> 3,
         shipping |-> 4, delivered |-> 5, cancelled |-> 6, refunded |-> 7]
StatusForward ==
    [][\A o \in Orders : /\ Rank[status[o]] <= Rank[status'[o]]
                         /\ status[o] \in {"shipping", "delivered"} =>
                               status'[o] # "cancelled"]_vars

(* A payment is decided once: it never returns to pending, and only the    *)
(* refund path moves it after it was settled or given up -- except that    *)
(* expiry may overwrite anything (see PaidNeverReverted).                  *)
DecidedOnce ==
    [][\A p \in DOMAIN pay :
          pay[p].status # "pending" =>
             \/ pay'[p].status = pay[p].status
             \/ pay'[p].status \in {"refunded", "partially_refunded"} /\ pay[p].paidAt
             \/ pay'[p].status = "failed" /\ p \in expiring]_vars

(* A payment some job has decided to expire does not leave its order       *)
(* holding stock: the order leaves 'pending' or turns out to be paid.      *)
ExpiryReleasesStock ==
    \A p \in 1..MaxPayments :
        p \in expiring ~>
            /\ p \in DOMAIN pay
            /\ \/ status[pay[p].order] # "pending"
               \/ HasSettledPayment(pay[p].order)

(* Camunda hands an external task out again until it is completed          *)
(* (handleFailure always leaves 3 retries), so its tasks are done          *)
(* eventually once the services can reach each other; an HTTP call in      *)
(* flight ends one way or the other.                                       *)
Fairness ==
    /\ \A p \in 1..MaxPayments : WF_vars(p \in DOMAIN pay /\ MarkExpired(p))
    /\ \A o \in Orders : WF_vars(RunReleaseTask(o))
    /\ \A c \in Call : WF_vars(DeliverCall(c))

FairSpec == Spec /\ Fairness

-----------------------------------------------------------------------------
(* What the repository's documents say and the code does not do            *)

(* docs/bo-test-case-luan-van.md: a completed state is not rolled back. A  *)
(* payment with paid_at set stays settled.                                 *)
PaidNeverReverted ==
    \A p \in DOMAIN pay : pay[p].paidAt => pay[p].status \in SettledStatus
=============================================================================
