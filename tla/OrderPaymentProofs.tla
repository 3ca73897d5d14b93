------------------------- MODULE OrderPaymentProofs -------------------------
(***************************************************************************)
(* Proofs about OrderPayment, for every value of its constants.            *)
(***************************************************************************)
EXTENDS OrderPayment, SequenceTheorems, FiniteSetTheorems, TLAPS

USE OrdersAssumption, QtyAssumption, StockAssumption, BoundsAssumption

-----------------------------------------------------------------------------
(* Payments as a sequence                                                  *)

(* A function on the indices of a sequence with values in S is a sequence  *)
LEMMA SeqFromFunction ==
    ASSUME NEW S, NEW n \in Nat, NEW f \in [1..n -> S]
    PROVE  f \in Seq(S) /\ Len(f) = n
  OBVIOUS

LEMMA PayElement ==
    ASSUME TypeOK, NEW p \in DOMAIN pay
    PROVE  /\ p \in 1..Len(pay)
           /\ pay[p] \in Payment
           /\ pay[p].order \in Orders
<1>1. p \in 1..Len(pay) /\ pay[p] \in Payment
  BY DEF TypeOK
<1>2. pay[p].order \in Orders
  BY <1>1 DEF Payment
<1> QED
  BY <1>1, <1>2

(* What a step may do to the payments: nothing disappears, an order and a  *)
(* method never change, paid_at is never taken back                        *)
PayGrows ==
    /\ pay' \in Seq(Payment)
    /\ DOMAIN pay \subseteq DOMAIN pay'
    /\ \A p \in DOMAIN pay : /\ pay'[p].order = pay[p].order
                             /\ pay'[p].method = pay[p].method
                             /\ pay[p].paidAt => pay'[p].paidAt

LEMMA PayUnchanged == TypeOK /\ UNCHANGED pay => PayGrows
  BY DEF TypeOK, PayGrows

LEMMA CancelPendingGrows ==
    ASSUME TypeOK, NEW o, CancelPendingPayments(o)
    PROVE  PayGrows
<1>1. \A p \in DOMAIN pay : pay[p] \in Payment
  BY DEF TypeOK
<1>2. \A r \in Payment : [r EXCEPT !.status = "cancelled"] \in Payment
  BY DEF Payment, PaymentStatus
<1>a. Len(pay) \in Nat /\ DOMAIN pay = 1..Len(pay)
  BY DEF TypeOK
<1>b. pay' \in [1..Len(pay) -> Payment]
  BY <1>1, <1>2, <1>a DEF CancelPendingPayments
<1>3. pay' \in Seq(Payment) /\ Len(pay') = Len(pay)
  BY <1>a, <1>b, SeqFromFunction
<1>4. \A p \in DOMAIN pay : /\ pay'[p].order = pay[p].order
                            /\ pay'[p].method = pay[p].method
                            /\ pay'[p].paidAt = pay[p].paidAt
  BY <1>1 DEF TypeOK, CancelPendingPayments, Payment
<1>5. DOMAIN pay = DOMAIN pay'
  BY <1>3 DEF TypeOK
<1> QED
  BY <1>3, <1>4, <1>5 DEF PayGrows

LEMMA PayExcept ==
    ASSUME TypeOK, NEW p \in DOMAIN pay, NEW r \in Payment,
           r.order = pay[p].order, r.method = pay[p].method,
           pay[p].paidAt => r.paidAt,
           pay' = [pay EXCEPT ![p] = r]
    PROVE  PayGrows
<1>1. pay \in Seq(Payment) /\ p \in 1..Len(pay) /\ DOMAIN pay = 1..Len(pay)
  BY DEF TypeOK
<1>2. /\ pay' \in Seq(Payment)
      /\ Len(pay') = Len(pay)
      /\ \A j \in 1..Len(pay) : pay'[j] = IF j = p THEN r ELSE pay[j]
  BY <1>1, ExceptSeq
<1> QED
  BY <1>1, <1>2 DEF PayGrows

LEMMA RecordResultGrows ==
    ASSUME TypeOK, NEW p \in DOMAIN pay, NEW result, RecordResult(p, result)
    PROVE  PayGrows /\ calls' \subseteq Call
<1>1. pay[p] \in Payment /\ pay[p].order \in Orders
  BY PayElement
<1> DEFINE r == [pay[p] EXCEPT !.status = IF result = "SUCCESS" THEN "paid" ELSE "failed",
                               !.paidAt = (pay[p].paidAt \/ result = "SUCCESS")]
<1>2. r \in Payment /\ r.order = pay[p].order /\ r.method = pay[p].method
  BY <1>1 DEF Payment, PaymentStatus
<1>3. pay[p].paidAt => r.paidAt
  BY <1>1 DEF Payment
<1>4. pay' = [pay EXCEPT ![p] = r]
  BY <1>1 DEF RecordResult, TypeOK, Payment
<1>5. PayGrows
  BY <1>2, <1>3, <1>4, PayExcept
<1>6. calls' \subseteq Call
  BY <1>1 DEF RecordResult, TypeOK, Call
<1> QED
  BY <1>5, <1>6

LEMMA ExpireGrows ==
    ASSUME TypeOK, NEW p \in DOMAIN pay, ExpirePayment(p)
    PROVE  PayGrows /\ calls' \subseteq Call
<1>1. pay[p] \in Payment /\ pay[p].order \in Orders
  BY PayElement
<1> DEFINE r == [pay[p] EXCEPT !.status = "failed"]
<1>2. /\ r \in Payment /\ r.order = pay[p].order /\ r.method = pay[p].method
      /\ pay[p].paidAt => r.paidAt
  BY <1>1 DEF Payment, PaymentStatus
<1>3. pay' = [pay EXCEPT ![p] = r]
  BY <1>1 DEF ExpirePayment, TypeOK, Payment
<1>4. PayGrows
  BY <1>2, <1>3, PayExcept
<1>5. calls' \subseteq Call
  BY <1>1 DEF ExpirePayment, TypeOK, Call
<1> QED
  BY <1>4, <1>5

LEMMA RefundGrows ==
    ASSUME TypeOK, NEW p \in DOMAIN pay, NEW full \in BOOLEAN, RefundPayment(p, full)
    PROVE  PayGrows /\ calls' \subseteq Call
<1>1. pay[p] \in Payment /\ pay[p].order \in Orders
  BY PayElement
<1> DEFINE r == [pay[p] EXCEPT !.status = IF full THEN "refunded" ELSE "partially_refunded"]
<1>2. /\ r \in Payment /\ r.order = pay[p].order /\ r.method = pay[p].method
      /\ pay[p].paidAt => r.paidAt
  BY <1>1 DEF Payment, PaymentStatus
<1>3. pay' = [pay EXCEPT ![p] = r]
  BY <1>1 DEF RefundPayment, TypeOK, Payment
<1>4. PayGrows
  BY <1>2, <1>3, PayExcept
<1>5. calls' \subseteq Call
  BY <1>1 DEF RefundPayment, TypeOK, Call
<1> QED
  BY <1>4, <1>5

LEMMA InsertGrows ==
    ASSUME TypeOK, NEW a \in attempts, InsertPayment(a)
    PROVE  PayGrows /\ waiting' \subseteq DOMAIN pay'
<1>1. a \in Attempt
  BY DEF TypeOK
<1>2. CASE UNCHANGED <<pay, waiting>>
  BY <1>2, PayUnchanged DEF TypeOK
<1>3. CASE ~ UNCHANGED <<pay, waiting>>
  <2> DEFINE r == [order |-> a.order, method |-> a.method, status |-> "pending",
                   paidAt |-> FALSE, checkoutKey |-> (a.via = "checkout")]
  <2>1. r \in Payment
    BY <1>1 DEF Payment, Attempt, PaymentStatus
  <2>2. pay' = Append(pay, r) /\ waiting' \subseteq waiting \cup {Len(pay) + 1}
    BY <1>3 DEF InsertPayment
  <2>3. /\ pay' \in Seq(Payment) /\ Len(pay') = Len(pay) + 1
        /\ \A i \in 1..Len(pay) : pay'[i] = pay[i]
    BY <2>1, <2>2, AppendProperties DEF TypeOK
  <2>4. DOMAIN pay = 1..Len(pay) /\ DOMAIN pay' = 1..(Len(pay) + 1) /\ Len(pay) \in Nat
    BY <2>3 DEF TypeOK
  <2>5. PayGrows
    BY <2>3, <2>4 DEF PayGrows
  <2>6. waiting' \subseteq DOMAIN pay'
    BY <2>2, <2>4 DEF TypeOK
  <2> QED
    BY <2>5, <2>6
<1> QED
  BY <1>2, <1>3

-----------------------------------------------------------------------------
(* What a step does to orders, goods and the voucher                       *)

Confirmed(o) ==
    /\ status[o] = "pending"
    /\ CanCommit(o)
    /\ CommitInventory(o)
    /\ status' = [status EXCEPT ![o] = "confirmed"]
    /\ UNCHANGED <<voucher, pay>>

Cancelled(o) ==
    /\ status[o] \in {"pending", "confirmed", "processing"}
    /\ ~HasSettledPayment(o)
    /\ CancelOrder(o)

Relabelled(o, to) ==
    /\ \/ status[o] = "confirmed" /\ to = "processing"
       \/ status[o] = "processing" /\ to = "shipping"
       \/ status[o] = "shipping" /\ to = "delivered"
       \/ status[o] \in {"cancelled", "delivered", "refunded"} /\ to = "refunded"
    /\ status' = [status EXCEPT ![o] = to]
    /\ UNCHANGED <<inv, goods, voucher, pay>>

OrdersUntouched == UNCHANGED <<status, inv, goods, voucher>>

OrderEffect ==
    \/ OrdersUntouched
    \/ \E o \in Orders, useVoucher \in BOOLEAN : CreateOrder(o, useVoucher)
    \/ \E o \in Orders : Confirmed(o)
    \/ \E o \in Orders : Cancelled(o)
    \/ \E o \in Orders, to \in OrderStatus : Relabelled(o, to)
    \/ \E v \in Variants, n \in AdminStock : AdjustStock(v, n)
    \/ \E o \in Orders, v \in Variants, n \in 1..MaxQty : RestockReturn(o, v, n)

LEMMA UpdatePaymentStatusEffect ==
    ASSUME NEW o \in Orders, NEW k, UpdatePaymentStatus([order |-> o, kind |-> k])
    PROVE  \/ OrdersUntouched /\ UNCHANGED pay
           \/ k = "paid" /\ Confirmed(o)
           \/ Cancelled(o)
           \/ Relabelled(o, "refunded")
  BY DEF UpdatePaymentStatus, ConfirmPaid, CancelUnpaid, MarkRefunded,
         OrdersUntouched, Confirmed, Cancelled, Relabelled

LEMMA CallIsRecord ==
    ASSUME TypeOK, NEW c \in calls
    PROVE  /\ c.order \in Orders
           /\ c = [order |-> c.order, kind |-> c.kind]
  BY DEF TypeOK, Call

LEMMA StepOrderEffect ==
    ASSUME TypeOK, [Next]_vars
    PROVE  OrderEffect
<1> USE DEF OrderEffect
<1>1. CASE UNCHANGED vars
  BY <1>1 DEF vars, OrdersUntouched, goods, voucher
<1>2. CASE PaymentServiceNext
  <2>1. ASSUME NEW o \in Orders, RunReleaseTask(o) PROVE OrderEffect
    BY <2>1, UpdatePaymentStatusEffect DEF RunReleaseTask, OrderStatus
  <2>2. CASE ~ \E o \in Orders : RunReleaseTask(o)
    <3>1. OrdersUntouched
      BY <1>2, <2>2 DEF PaymentServiceNext, OrdersUntouched, BeginCheckoutPayment,
         BeginWorkflowPayment, InsertPayment, ReusePayment, InvalidCallback,
         WorkflowTimeout, ReconcileExpired, ReconcileFailed, MarkExpired,
         MarkExpiredRetried, PaymentResult, WorkflowCallback, RefundPayment
    <3> QED
      BY <3>1
  <2> QED
    BY <2>1, <2>2
<1>3. CASE OrderServiceNext
  <2>1. ASSUME NEW c \in calls, DeliverCall(c) PROVE OrderEffect
    <3>1. UpdatePaymentStatus([order |-> c.order, kind |-> c.kind])
      BY <2>1, CallIsRecord DEF DeliverCall
    <3> QED
      BY <3>1, CallIsRecord, UpdatePaymentStatusEffect DEF OrderStatus
  <2>2. ASSUME NEW c \in calls, LoseCall(c) PROVE OrderEffect
    BY <2>2 DEF LoseCall, OrdersUntouched
  <2>3. ASSUME NEW o \in Orders, AdminConfirm(o) PROVE OrderEffect
    BY <2>3 DEF AdminConfirm, AllowedTransition, Confirmed
  <2>4. ASSUME NEW o \in Orders, AdminCancel(o) PROVE OrderEffect
    BY <2>4 DEF AdminCancel, CancelAllowed, AllowedTransition, Cancelled
  <2>5. ASSUME NEW o \in Orders, NEW to \in OrderStatus, AdminAdvance(o, to)
        PROVE  OrderEffect
    BY <2>5 DEF AdminAdvance, AllowedTransition, Relabelled
  <2>6. ASSUME NEW o \in Orders, CompleteReturns(o) PROVE OrderEffect
    BY <2>6 DEF CompleteReturns, Relabelled, OrderStatus
  <2> QED
    BY <1>3, <2>1, <2>2, <2>3, <2>4, <2>5, <2>6 DEF OrderServiceNext
<1> QED
  BY <1>1, <1>2, <1>3 DEF Next

-----------------------------------------------------------------------------
(* What a step does to payments                                            *)

PayEffect ==
    \/ UNCHANGED pay
    \/ \E o \in Orders : Cancelled(o)
    \/ \E a \in attempts : InsertPayment(a)
    \/ \E p \in DOMAIN pay, result \in {"SUCCESS", "FAILED", "UNKNOWN"} :
          Recordable(p, result) /\ RecordResult(p, result) /\ UNCHANGED status
    \/ \E p \in DOMAIN pay : p \in expiring /\ ExpirePayment(p)
    \/ \E p \in DOMAIN pay, full \in BOOLEAN : RefundPayment(p, full)

LEMMA StepPayEffect ==
    ASSUME TypeOK, [Next]_vars
    PROVE  PayEffect
<1> USE DEF PayEffect
<1>1. ASSUME NEW o \in Orders, NEW k, UpdatePaymentStatus([order |-> o, kind |-> k])
      PROVE  PayEffect
  BY <1>1, UpdatePaymentStatusEffect DEF Confirmed, Relabelled
<1>2. CASE OrderServiceNext
  <2>1. ASSUME NEW c \in calls, DeliverCall(c) PROVE PayEffect
    BY <2>1, <1>1, CallIsRecord DEF DeliverCall
  <2>2. ASSUME NEW o \in Orders, AdminCancel(o) PROVE PayEffect
    BY <2>2 DEF AdminCancel, CancelAllowed, AllowedTransition, Cancelled
  <2>3. CASE ~(\E c \in calls : DeliverCall(c)) /\ ~(\E o \in Orders : AdminCancel(o))
    <3>1. UNCHANGED pay
      BY <1>2, <2>3 DEF OrderServiceNext, CreateOrder, LoseCall, AdminConfirm,
         AdminAdvance, AdjustStock, RestockReturn, CompleteReturns
    <3> QED
      BY <3>1
  <2> QED
    BY <2>1, <2>2, <2>3
<1>3. CASE PaymentServiceNext
  <2>1. ASSUME NEW p \in DOMAIN pay, NEW result \in {"SUCCESS", "FAILED", "UNKNOWN"},
               PaymentResult(p, result) \/ WorkflowCallback(p, result)
        PROVE  PayEffect
    BY <2>1 DEF PaymentResult, WorkflowCallback
  <2>2. ASSUME NEW p \in DOMAIN pay, ReconcileFailed(p) PROVE PayEffect
    BY <2>2 DEF ReconcileFailed
  <2>3. ASSUME NEW p \in DOMAIN pay, MarkExpired(p) \/ MarkExpiredRetried(p) PROVE PayEffect
    BY <2>3 DEF MarkExpired, MarkExpiredRetried
  <2>4. ASSUME NEW o \in Orders, RunReleaseTask(o) PROVE PayEffect
    BY <2>4, <1>1 DEF RunReleaseTask
  <2>5. ASSUME NEW p \in DOMAIN pay,
               \/ ReusePayment(p) \/ InvalidCallback(p) \/ WorkflowTimeout(p)
               \/ ReconcileExpired(p)
        PROVE  PayEffect
    BY <2>5 DEF ReusePayment, InvalidCallback, WorkflowTimeout, ReconcileExpired
  <2>6. ASSUME NEW o \in Orders, NEW m \in Methods,
               BeginCheckoutPayment(o, m) \/ BeginWorkflowPayment(o, m)
        PROVE  PayEffect
    BY <2>6 DEF BeginCheckoutPayment, BeginWorkflowPayment
  <2> QED
    BY <1>3, <2>1, <2>2, <2>3, <2>4, <2>5, <2>6 DEF PaymentServiceNext
<1> QED
  BY <1>2, <1>3 DEF Next, vars

LEMMA StepPayGrows ==
    ASSUME TypeOK, [Next]_vars
    PROVE  PayGrows
<1>1. ASSUME NEW o \in Orders, Cancelled(o) PROVE PayGrows
  BY <1>1, CancelPendingGrows DEF Cancelled, CancelOrder
<1> QED
  BY <1>1, StepPayEffect, PayUnchanged, InsertGrows, RecordResultGrows, ExpireGrows,
     RefundGrows DEF PayEffect

(* The ways a payment's row may change *)
PayMove(p) ==
    \/ pay'[p] = pay[p]
    \/ /\ pay[p].status = "pending"
       /\ pay'[p].status = "cancelled"
    \/ /\ pay[p].status = "pending"
       /\ pay'[p].status = "failed"
    \/ /\ pay[p].status = "pending"
       /\ pay'[p].status = "paid"
       /\ pay'[p].paidAt
       /\ status[pay[p].order] \notin {"cancelled", "refunded"}
       /\ UNCHANGED status
    \/ /\ p \in expiring
       /\ pay'[p].status = "failed"
    \/ /\ pay[p].paidAt
       /\ pay'[p].status \in {"refunded", "partially_refunded"}

LEMMA StepPayMove ==
    ASSUME TypeOK, [Next]_vars
    PROVE  /\ \A p \in DOMAIN pay : PayMove(p)
           /\ \A p \in DOMAIN pay' \ DOMAIN pay : pay'[p].status = "pending"
<1> DEFINE Goal == /\ \A p \in DOMAIN pay : PayMove(p)
                   /\ \A p \in DOMAIN pay' \ DOMAIN pay : pay'[p].status = "pending"
<1>0. /\ \A p \in DOMAIN pay : pay[p] \in Payment
      /\ DOMAIN pay = 1..Len(pay) /\ Len(pay) \in Nat
  BY DEF TypeOK
<1>1. CASE UNCHANGED pay
  BY <1>1 DEF PayMove
<1>2. ASSUME NEW o \in Orders, Cancelled(o) PROVE Goal
  <2>1. DOMAIN pay' = DOMAIN pay
    BY <1>2 DEF Cancelled, CancelOrder, CancelPendingPayments
  <2>2. \A p \in DOMAIN pay : PayMove(p)
    BY <1>2, <1>0 DEF Cancelled, CancelOrder, CancelPendingPayments, PayMove, Payment
  <2> QED
    BY <2>1, <2>2
<1>3. ASSUME NEW a \in attempts, InsertPayment(a) PROVE Goal
  <2>1. CASE UNCHANGED pay
    BY <1>1, <2>1
  <2>2. CASE ~ UNCHANGED pay
    <3> DEFINE r == [order |-> a.order, method |-> a.method, status |-> "pending",
                     paidAt |-> FALSE, checkoutKey |-> (a.via = "checkout")]
    <3>1. pay' = Append(pay, r)
      BY <1>3, <2>2 DEF InsertPayment
    <3>2. /\ DOMAIN pay' = 1..(Len(pay) + 1)
          /\ \A p \in DOMAIN pay : pay'[p] = pay[p]
          /\ pay'[Len(pay) + 1] = r
      BY <3>1, <1>0 DEF TypeOK
    <3> HIDE DEF r
    <3>3. r.status = "pending"
      BY DEF r
    <3> QED
      BY <3>2, <3>3, <1>0 DEF PayMove
  <2> QED
    BY <2>1, <2>2
<1>4. ASSUME NEW p \in DOMAIN pay, NEW result \in {"SUCCESS", "FAILED", "UNKNOWN"},
             Recordable(p, result), RecordResult(p, result), UNCHANGED status
      PROVE  Goal
  <2>1. /\ DOMAIN pay' = DOMAIN pay
        /\ \A q \in DOMAIN pay : q # p => pay'[q] = pay[q]
    BY <1>4 DEF RecordResult
  <2>2. /\ pay'[p].status = (IF result = "SUCCESS" THEN "paid" ELSE "failed")
        /\ result = "SUCCESS" => pay'[p].paidAt
    BY <1>4, <1>0 DEF RecordResult, Payment
  <2>3. PayMove(p)
    BY <1>4, <2>2 DEF PayMove, Recordable
  <2> QED
    BY <2>1, <2>3 DEF PayMove
<1>5. ASSUME NEW p \in DOMAIN pay, p \in expiring, ExpirePayment(p) PROVE Goal
  <2>1. /\ DOMAIN pay' = DOMAIN pay
        /\ \A q \in DOMAIN pay : q # p => pay'[q] = pay[q]
    BY <1>5 DEF ExpirePayment
  <2>2. pay'[p].status = "failed"
    BY <1>5, <1>0 DEF ExpirePayment, Payment
  <2> QED
    BY <1>5, <2>1, <2>2 DEF PayMove
<1>6. ASSUME NEW p \in DOMAIN pay, NEW full \in BOOLEAN, RefundPayment(p, full) PROVE Goal
  <2>1. /\ DOMAIN pay' = DOMAIN pay
        /\ \A q \in DOMAIN pay : q # p => pay'[q] = pay[q]
    BY <1>6 DEF RefundPayment
  <2>2. pay[p].paidAt /\ pay'[p].status \in {"refunded", "partially_refunded"}
    BY <1>6, <1>0 DEF RefundPayment, Payment
  <2> QED
    BY <2>1, <2>2 DEF PayMove
<1> QED
  BY <1>1, <1>2, <1>3, <1>4, <1>5, <1>6, StepPayEffect DEF PayEffect

-----------------------------------------------------------------------------
(* Type correctness                                                        *)

GoodsOK ==
    /\ status \in [Orders -> OrderStatus]
    /\ inv \in [Orders -> InventoryState]
    /\ stock \in [Variants -> Nat]
    /\ reserved \in [Variants -> Nat]
    /\ supplied \in [Variants -> Int]
    /\ usedCount \in Nat
    /\ usages \subseteq Orders

JobsOK ==
    /\ attempts \subseteq Attempt
    /\ waiting \subseteq DOMAIN pay
    /\ expiring \subseteq DOMAIN pay
    /\ calls \subseteq Call
    /\ releaseTasks \subseteq Orders

LEMMA GoodsType ==
    ASSUME GoodsOK, OrderEffect
    PROVE  GoodsOK'
<1> USE DEF GoodsOK, OrderStatus, InventoryState
<1>1. CASE OrdersUntouched
  BY <1>1 DEF OrdersUntouched, goods, voucher
<1>2. ASSUME NEW o \in Orders, NEW useVoucher \in BOOLEAN, CreateOrder(o, useVoucher)
      PROVE  GoodsOK'
  BY <1>2 DEF CreateOrder, voucher
<1>3. ASSUME NEW o \in Orders, Confirmed(o) PROVE GoodsOK'
  BY <1>3 DEF Confirmed, CanCommit, CommitInventory, voucher
<1>4. ASSUME NEW o \in Orders, Cancelled(o) PROVE GoodsOK'
  BY <1>4 DEF Cancelled, CancelOrder, CanRelease, ReleaseInventory, ReleaseVoucher
<1>5. ASSUME NEW o \in Orders, NEW to \in OrderStatus, Relabelled(o, to) PROVE GoodsOK'
  BY <1>5 DEF Relabelled, goods, voucher
<1>6. ASSUME NEW v \in Variants, NEW n \in AdminStock, AdjustStock(v, n) PROVE GoodsOK'
  BY <1>6 DEF AdjustStock, voucher
<1>7. ASSUME NEW o \in Orders, NEW v \in Variants, NEW n \in 1..MaxQty, RestockReturn(o, v, n)
      PROVE  GoodsOK'
  BY <1>7 DEF RestockReturn, voucher
<1> QED
  BY <1>1, <1>2, <1>3, <1>4, <1>5, <1>6, <1>7 DEF OrderEffect

LEMMA JobsType ==
    ASSUME TypeOK, [Next]_vars
    PROVE  JobsOK'
<1>1. DOMAIN pay \subseteq DOMAIN pay'
  BY StepPayGrows DEF PayGrows
<1>2. \A p \in DOMAIN pay : pay[p].order \in Orders
  BY PayElement
<1> USE <1>1 DEF TypeOK, JobsOK
<1>3. CASE UNCHANGED jobs
  BY <1>3 DEF jobs
<1>4. CASE OrderServiceNext
  <2>1. ASSUME NEW c \in calls, DeliverCall(c) \/ LoseCall(c) PROVE JobsOK'
    BY <2>1 DEF DeliverCall, LoseCall
  <2>2. CASE ~ \E c \in calls : DeliverCall(c) \/ LoseCall(c)
    <3>1. UNCHANGED jobs
      BY <1>4, <2>2 DEF OrderServiceNext, CreateOrder, AdminConfirm, AdminCancel,
         AdminAdvance, AdjustStock, RestockReturn, CompleteReturns, jobs
    <3> QED
      BY <1>3, <3>1
  <2> QED
    BY <2>1, <2>2
<1>5. CASE PaymentServiceNext
  <2>1. ASSUME NEW a \in attempts, InsertPayment(a) PROVE JobsOK'
    BY <2>1, InsertGrows DEF InsertPayment
  <2>2. ASSUME NEW p \in DOMAIN pay, NEW result, PaymentResult(p, result) PROVE JobsOK'
    BY <2>2, RecordResultGrows DEF PaymentResult
  <2>3. ASSUME NEW p \in DOMAIN pay, NEW result, WorkflowCallback(p, result) PROVE JobsOK'
    <3>1. calls' \subseteq Call
      BY <2>3, RecordResultGrows DEF WorkflowCallback
    <3> QED
      BY <2>3, <3>1, <1>2 DEF WorkflowCallback
  <2>4. ASSUME NEW p \in DOMAIN pay, ReconcileFailed(p) PROVE JobsOK'
    <3>1. calls' \subseteq Call
      BY <2>4, RecordResultGrows DEF ReconcileFailed
    <3> QED
      BY <2>4, <3>1, <1>2 DEF ReconcileFailed
  <2>5. ASSUME NEW p \in DOMAIN pay, MarkExpired(p) \/ MarkExpiredRetried(p) PROVE JobsOK'
    <3>1. calls' \subseteq Call
      BY <2>5, ExpireGrows DEF MarkExpired, MarkExpiredRetried
    <3> QED
      BY <2>5, <3>1, <1>2 DEF MarkExpired, MarkExpiredRetried
  <2>6. ASSUME NEW p \in DOMAIN pay, NEW full \in BOOLEAN, RefundPayment(p, full) PROVE JobsOK'
    <3>1. calls' \subseteq Call
      BY <2>6, RefundGrows
    <3> QED
      BY <2>6, <3>1 DEF RefundPayment
  <2>7. ASSUME NEW o \in Orders, RunReleaseTask(o) PROVE JobsOK'
    BY <2>7 DEF RunReleaseTask
  <2>8. ASSUME NEW p \in DOMAIN pay,
               \/ ReusePayment(p) \/ InvalidCallback(p) \/ WorkflowTimeout(p)
               \/ ReconcileExpired(p)
        PROVE  JobsOK'
    BY <2>8 DEF ReusePayment, InvalidCallback, WorkflowTimeout, ReconcileExpired
  <2>9. ASSUME NEW o \in Orders, NEW m \in Methods,
               BeginCheckoutPayment(o, m) \/ BeginWorkflowPayment(o, m)
        PROVE  JobsOK'
    BY <2>9 DEF BeginCheckoutPayment, BeginWorkflowPayment, Attempt
  <2> QED
    BY <1>5, <2>1, <2>2, <2>3, <2>4, <2>5, <2>6, <2>7, <2>8, <2>9 DEF PaymentServiceNext
<1> QED
  BY <1>3, <1>4, <1>5 DEF Next, vars, jobs

LEMMA TypeInit == Init => TypeOK
  BY DEF Init, TypeOK, OrderStatus, InventoryState

LEMMA TypeStep == TypeOK /\ [Next]_vars => TypeOK'
<1> SUFFICES ASSUME TypeOK, [Next]_vars PROVE TypeOK'
  OBVIOUS
<1>1. OrderEffect
  BY StepOrderEffect
<1>2. pay' \in Seq(Payment)
  BY StepPayGrows DEF PayGrows
<1> QED
  BY <1>1, <1>2, GoodsType, JobsType DEF TypeOK, GoodsOK, JobsOK

(* Every variable keeps its type, whatever the interleaving: in particular *)
(* no subtraction of transitionInventoryInTransaction goes below zero.     *)
THEOREM TypeCorrect == Spec => []TypeOK
<1>1. Init => TypeOK
  BY TypeInit
<1>2. TypeOK /\ [Next]_vars => TypeOK'
  BY TypeStep
<1> QED
  BY <1>1, <1>2, PTL DEF Spec

-----------------------------------------------------------------------------
(* Order status and inventory state                                        *)

LEMMA StatusInventoryStep ==
    ASSUME TypeOK, StatusInventory, OrderEffect
    PROVE  StatusInventory'
<1> USE DEF StatusInventory, TypeOK
<1>1. CASE OrdersUntouched
  BY <1>1 DEF OrdersUntouched
<1>2. ASSUME NEW o \in Orders, NEW useVoucher \in BOOLEAN, CreateOrder(o, useVoucher)
      PROVE  StatusInventory'
  BY <1>2 DEF CreateOrder
<1>3. ASSUME NEW o \in Orders, Confirmed(o) PROVE StatusInventory'
  BY <1>3 DEF Confirmed, CommitInventory
<1>4. ASSUME NEW o \in Orders, Cancelled(o) PROVE StatusInventory'
  BY <1>4 DEF Cancelled, CancelOrder, ReleaseInventory
<1>5. ASSUME NEW o \in Orders, NEW to \in OrderStatus, Relabelled(o, to) PROVE StatusInventory'
  BY <1>5 DEF Relabelled
<1>6. ASSUME NEW v \in Variants, NEW n \in AdminStock, AdjustStock(v, n) PROVE StatusInventory'
  BY <1>6 DEF AdjustStock
<1>7. ASSUME NEW o \in Orders, NEW v \in Variants, NEW n \in 1..MaxQty, RestockReturn(o, v, n)
      PROVE  StatusInventory'
  BY <1>7 DEF RestockReturn
<1> QED
  BY <1>1, <1>2, <1>3, <1>4, <1>5, <1>6, <1>7 DEF OrderEffect

(* The status and the inventory state of an order stay coupled, although   *)
(* five handlers of two services write them.                               *)
THEOREM StatusInventoryCorrect == Spec => []StatusInventory
<1>1. Init => StatusInventory
  BY DEF Init, StatusInventory
<1>2. TypeOK /\ StatusInventory /\ [Next]_vars => StatusInventory'
  BY StatusInventoryStep, StepOrderEffect
<1> QED
  BY <1>1, <1>2, TypeCorrect, PTL DEF Spec

-----------------------------------------------------------------------------
(* No overselling                                                          *)

LEMMA NoOversellingStep ==
    ASSUME TypeOK, NoOverselling, OrderEffect
    PROVE  NoOverselling'
<1> USE DEF NoOverselling, TypeOK
<1>1. CASE OrdersUntouched
  BY <1>1 DEF OrdersUntouched, goods
<1>2. ASSUME NEW o \in Orders, NEW useVoucher \in BOOLEAN, CreateOrder(o, useVoucher)
      PROVE  NoOverselling'
  BY <1>2 DEF CreateOrder
<1>3. ASSUME NEW o \in Orders, Confirmed(o) PROVE NoOverselling'
  BY <1>3 DEF Confirmed, CanCommit, CommitInventory
<1>4. ASSUME NEW o \in Orders, Cancelled(o) PROVE NoOverselling'
  BY <1>4 DEF Cancelled, CancelOrder, CanRelease, ReleaseInventory
<1>5. ASSUME NEW o \in Orders, NEW to \in OrderStatus, Relabelled(o, to) PROVE NoOverselling'
  BY <1>5 DEF Relabelled, goods
<1>6. ASSUME NEW v \in Variants, NEW n \in AdminStock, AdjustStock(v, n) PROVE NoOverselling'
  BY <1>6 DEF AdjustStock
<1>7. ASSUME NEW o \in Orders, NEW v \in Variants, NEW n \in 1..MaxQty, RestockReturn(o, v, n)
      PROVE  NoOverselling'
  BY <1>7 DEF RestockReturn
<1> QED
  BY <1>1, <1>2, <1>3, <1>4, <1>5, <1>6, <1>7 DEF OrderEffect

(* What is promised to unpaid orders is always on the shelf.               *)
THEOREM NoOversellingCorrect == Spec => []NoOverselling
<1>1. Init => NoOverselling
  BY DEF Init, NoOverselling
<1>2. TypeOK /\ NoOverselling /\ [Next]_vars => NoOverselling'
  BY NoOversellingStep, StepOrderEffect
<1> QED
  BY <1>1, <1>2, TypeCorrect, PTL DEF Spec

-----------------------------------------------------------------------------
(* Payments against orders                                                 *)

(* Only a cancellation step makes an order cancelled *)
LEMMA BecomesCancelled ==
    ASSUME TypeOK, OrderEffect, NEW o \in Orders,
           status[o] # "cancelled", status'[o] = "cancelled"
    PROVE  Cancelled(o)
<1> USE DEF TypeOK
<1>1. ASSUME NEW x \in Orders, Cancelled(x), x # o PROVE FALSE
  BY <1>1 DEF Cancelled, CancelOrder
<1>2. ~ OrdersUntouched
  BY DEF OrdersUntouched
<1>3. ASSUME NEW x \in Orders, NEW u \in BOOLEAN, CreateOrder(x, u) PROVE FALSE
  BY <1>3 DEF CreateOrder
<1>4. ASSUME NEW x \in Orders, Confirmed(x) PROVE FALSE
  BY <1>4 DEF Confirmed
<1>5. ASSUME NEW x \in Orders, NEW to \in OrderStatus, Relabelled(x, to) PROVE FALSE
  BY <1>5 DEF Relabelled
<1>6. ASSUME NEW v \in Variants, NEW n \in AdminStock, AdjustStock(v, n) PROVE FALSE
  BY <1>6 DEF AdjustStock
<1>7. ASSUME NEW x \in Orders, NEW v \in Variants, NEW n \in 1..MaxQty, RestockReturn(x, v, n)
      PROVE  FALSE
  BY <1>7 DEF RestockReturn
<1> QED
  BY <1>1, <1>2, <1>3, <1>4, <1>5, <1>6, <1>7 DEF OrderEffect

LEMMA CancelledNotPaidStep ==
    ASSUME TypeOK, CancelledNotPaid, [Next]_vars
    PROVE  CancelledNotPaid'
<1> SUFFICES ASSUME NEW o \in Orders, status'[o] = "cancelled",
                    NEW p \in DOMAIN pay', pay'[p].order = o, pay'[p].status = "paid"
             PROVE  FALSE
  BY DEF CancelledNotPaid, PaymentsOf
<1>1. p \in DOMAIN pay /\ pay[p].order = o /\ PayMove(p)
  BY StepPayMove, StepPayGrows DEF PayGrows
<1>2. CASE pay[p].status = "paid"
  <2>1. status[o] # "cancelled"
    BY <1>1, <1>2 DEF CancelledNotPaid, PaymentsOf
  <2>2. Cancelled(o)
    BY <2>1, BecomesCancelled, StepOrderEffect
  <2> QED
    BY <1>1, <1>2, <2>2 DEF Cancelled, HasSettledPayment, PaymentsOf, SettledStatus
<1>3. CASE pay[p].status # "paid"
  BY <1>1, <1>3 DEF PayMove
<1> QED
  BY <1>2, <1>3

(* A cancellation and a payment result never both win: a cancelled order   *)
(* has no payment recorded as paid.                                        *)
THEOREM CancelledNotPaidCorrect == Spec => []CancelledNotPaid
<1>1. Init => CancelledNotPaid
  BY DEF Init, CancelledNotPaid
<1>2. TypeOK /\ CancelledNotPaid /\ [Next]_vars => CancelledNotPaid'
  BY CancelledNotPaidStep
<1> QED
  BY <1>1, <1>2, TypeCorrect, PTL DEF Spec

(* The decision about a payment is final but for refunds and expiry.       *)
THEOREM DecidedOnceCorrect == Spec => DecidedOnce
<1> DEFINE Final(p) == pay[p].status # "pending" =>
             \/ pay'[p].status = pay[p].status
             \/ pay'[p].status \in {"refunded", "partially_refunded"} /\ pay[p].paidAt
             \/ pay'[p].status = "failed" /\ p \in expiring
<1>1. TypeOK /\ [Next]_vars => [\A p \in DOMAIN pay : Final(p)]_vars
  BY StepPayMove DEF PayMove
<1> QED
  BY <1>1, TypeCorrect, PTL DEF Spec, DecidedOnce

-----------------------------------------------------------------------------
(* Goods leave only for money or cash on delivery                          *)

(* A "paid" call comes from a payment that has just been recorded as paid  *)
LEMMA PaidCallOrigin ==
    ASSUME TypeOK, [Next]_vars, NEW c \in calls', c \notin calls, c.kind = "paid"
    PROVE  \E p \in DOMAIN pay : pay[p].order = c.order /\ pay'[p].paidAt
<1> DEFINE Goal == \E p \in DOMAIN pay : pay[p].order = c.order /\ pay'[p].paidAt
<1>0. \A p \in DOMAIN pay : pay[p] \in Payment
  BY DEF TypeOK
<1>1. ASSUME NEW p \in DOMAIN pay, NEW result, RecordResult(p, result) PROVE Goal
  <2>1. c = [order |-> pay[p].order, kind |-> "paid"] /\ result = "SUCCESS"
    BY <1>1 DEF RecordResult
  <2>2. pay'[p].paidAt
    BY <1>1, <1>0, <2>1 DEF RecordResult, Payment
  <2> QED
    BY <2>1, <2>2
<1>2. ASSUME NEW p \in DOMAIN pay, ExpirePayment(p) PROVE Goal
  BY <1>2 DEF ExpirePayment
<1>3. ASSUME NEW p \in DOMAIN pay, NEW full, RefundPayment(p, full) PROVE Goal
  BY <1>3 DEF RefundPayment
<1>4. calls' # calls
  OBVIOUS
<1>5. CASE OrderServiceNext
  <2>1. calls' \subseteq calls
    BY <1>5 DEF OrderServiceNext, CreateOrder, DeliverCall, LoseCall, AdminConfirm,
       AdminCancel, AdminAdvance, AdjustStock, RestockReturn, CompleteReturns, jobs
  <2> QED
    BY <2>1
<1>6. CASE PaymentServiceNext
  <2>1. ASSUME NEW p \in DOMAIN pay, NEW result,
               PaymentResult(p, result) \/ WorkflowCallback(p, result)
        PROVE  Goal
    BY <2>1, <1>1, <1>4 DEF PaymentResult, WorkflowCallback
  <2>2. ASSUME NEW p \in DOMAIN pay, ReconcileFailed(p) PROVE Goal
    BY <2>2, <1>1, <1>4 DEF ReconcileFailed
  <2>3. ASSUME NEW p \in DOMAIN pay, MarkExpired(p) \/ MarkExpiredRetried(p) PROVE Goal
    BY <2>3, <1>2 DEF MarkExpired, MarkExpiredRetried
  <2>4. ASSUME NEW a \in attempts, InsertPayment(a) PROVE Goal
    BY <2>4, <1>4 DEF InsertPayment
  <2>5. ASSUME NEW p \in DOMAIN pay,
               \/ ReusePayment(p) \/ InvalidCallback(p) \/ WorkflowTimeout(p)
               \/ ReconcileExpired(p)
        PROVE  Goal
    BY <2>5, <1>4 DEF ReusePayment, InvalidCallback, WorkflowTimeout, ReconcileExpired
  <2>6. ASSUME NEW o \in Orders, NEW m \in Methods,
               BeginCheckoutPayment(o, m) \/ BeginWorkflowPayment(o, m)
        PROVE  Goal
    BY <2>6, <1>4 DEF BeginCheckoutPayment, BeginWorkflowPayment
  <2>7. ASSUME NEW o \in Orders, RunReleaseTask(o) PROVE Goal
    BY <2>7, <1>4 DEF RunReleaseTask
  <2> QED
    BY <1>6, <1>3, <2>1, <2>2, <2>3, <2>4, <2>5, <2>6, <2>7 DEF PaymentServiceNext
<1> QED
  BY <1>4, <1>5, <1>6 DEF Next, vars

(* Goods are committed by an admin who looked at the latest payment or by  *)
(* a "paid" call                                                           *)
LEMMA CommitOrigin ==
    ASSUME TypeOK, [Next]_vars, NEW o \in Orders,
           inv[o] # "committed", inv'[o] = "committed"
    PROVE  \/ AdminConfirm(o)
           \/ \E c \in calls : c.order = o /\ c.kind = "paid"
<1> USE DEF TypeOK
<1>1. ASSUME NEW x \in Orders, NEW k, UpdatePaymentStatus([order |-> x, kind |-> k])
      PROVE  k = "paid" /\ x = o
  <2>1. CASE OrdersUntouched
    BY <2>1 DEF OrdersUntouched
  <2>2. CASE Cancelled(x)
    BY <2>2 DEF Cancelled, CancelOrder, ReleaseInventory
  <2>3. CASE Relabelled(x, "refunded")
    BY <2>3 DEF Relabelled
  <2>4. CASE k = "paid" /\ Confirmed(x)
    BY <2>4 DEF Confirmed, CommitInventory
  <2> QED
    BY <1>1, <2>1, <2>2, <2>3, <2>4, UpdatePaymentStatusEffect
<1>2. CASE PaymentServiceNext
  <2>1. ASSUME NEW x \in Orders, RunReleaseTask(x) PROVE FALSE
    BY <2>1, <1>1 DEF RunReleaseTask
  <2>2. CASE ~ \E x \in Orders : RunReleaseTask(x)
    BY <1>2, <2>2 DEF PaymentServiceNext, BeginCheckoutPayment,
       BeginWorkflowPayment, InsertPayment, ReusePayment, InvalidCallback,
       WorkflowTimeout, ReconcileExpired, ReconcileFailed, MarkExpired,
       MarkExpiredRetried, PaymentResult, WorkflowCallback, RefundPayment
  <2> QED
    BY <2>1, <2>2
<1>3. CASE OrderServiceNext
  <2>1. ASSUME NEW c \in calls, DeliverCall(c) PROVE c.order = o /\ c.kind = "paid"
    BY <2>1, <1>1, CallIsRecord DEF DeliverCall
  <2>2. ASSUME NEW x \in Orders, AdminConfirm(x), x # o PROVE FALSE
    BY <2>2 DEF AdminConfirm, CommitInventory
  <2>3. ASSUME NEW x \in Orders, AdminCancel(x) PROVE FALSE
    BY <2>3 DEF AdminCancel, CancelOrder, ReleaseInventory
  <2>4. ASSUME NEW x \in Orders, NEW u \in BOOLEAN, CreateOrder(x, u) PROVE FALSE
    BY <2>4 DEF CreateOrder
  <2>5. CASE \/ \E c \in calls : LoseCall(c)
             \/ \E x \in Orders, to \in OrderStatus : AdminAdvance(x, to)
             \/ \E v \in Variants, n \in AdminStock : AdjustStock(v, n)
             \/ \E x \in Orders, v \in Variants, n \in 1..MaxQty : RestockReturn(x, v, n)
             \/ \E x \in Orders : CompleteReturns(x)
    BY <2>5 DEF LoseCall, AdminAdvance, AdjustStock, RestockReturn, CompleteReturns
  <2> QED
    BY <1>3, <2>1, <2>2, <2>3, <2>4, <2>5 DEF OrderServiceNext
<1> QED
  BY <1>2, <1>3 DEF Next, vars

(* FulfilledWasPaid needs to know where a "paid" call comes from and that  *)
(* the status paid is never without paid_at                                *)
PaidEvidence ==
    /\ \A c \in calls : c.kind = "paid" => \E p \in PaymentsOf(c.order) : pay[p].paidAt
    /\ \A p \in DOMAIN pay : pay[p].status = "paid" => pay[p].paidAt
    /\ FulfilledWasPaid

LEMMA PaidEvidenceStep ==
    ASSUME TypeOK, PaidEvidence, [Next]_vars
    PROVE  PaidEvidence'
<1>1. /\ DOMAIN pay \subseteq DOMAIN pay'
      /\ \A p \in DOMAIN pay : /\ pay'[p].order = pay[p].order
                               /\ pay'[p].method = pay[p].method
                               /\ pay[p].paidAt => pay'[p].paidAt
  BY StepPayGrows DEF PayGrows
<1>2. ASSUME NEW c \in calls', c.kind = "paid"
      PROVE  \E p \in DOMAIN pay' : pay'[p].order = c.order /\ pay'[p].paidAt
  <2>1. CASE c \in calls
    BY <1>1, <1>2, <2>1 DEF PaidEvidence, PaymentsOf
  <2>2. CASE c \notin calls
    BY <1>1, <1>2, <2>2, PaidCallOrigin
  <2> QED
    BY <2>1, <2>2
<1>3. ASSUME NEW p \in DOMAIN pay', pay'[p].status = "paid"
      PROVE  pay'[p].paidAt
  <2>1. p \in DOMAIN pay /\ PayMove(p)
    BY <1>3, StepPayMove
  <2> QED
    BY <1>1, <1>3, <2>1 DEF PayMove, PaidEvidence
<1>4. ASSUME NEW o \in Orders, inv'[o] = "committed"
      PROVE  \E p \in DOMAIN pay' : /\ pay'[p].order = o
                                    /\ pay'[p].paidAt \/ pay'[p].method = "cod"
  <2>1. CASE inv[o] = "committed"
    BY <1>1, <2>1 DEF PaidEvidence, FulfilledWasPaid, PaymentsOf
  <2>2. CASE inv[o] # "committed"
    <3>1. CASE AdminConfirm(o)
      <4>1. PICK p \in PaymentsOf(o) : pay[p].method = "cod" \/ pay[p].status = "paid"
        BY <3>1 DEF AdminConfirm
      <4> QED
        BY <1>1, <4>1 DEF PaidEvidence, PaymentsOf
    <3>2. ASSUME NEW c \in calls, c.order = o, c.kind = "paid"
          PROVE  \E p \in DOMAIN pay' : pay'[p].order = o /\ pay'[p].paidAt
      BY <1>1, <3>2 DEF PaidEvidence, PaymentsOf
    <3> QED
      BY <1>4, <2>2, <3>1, <3>2, CommitOrigin
  <2> QED
    BY <2>1, <2>2
<1> QED
  BY <1>2, <1>3, <1>4 DEF PaidEvidence, FulfilledWasPaid, PaymentsOf

(* An order whose goods have left has a payment with paid_at or a COD      *)
(* payment, whichever of the two confirmation paths it took.               *)
THEOREM FulfilledWasPaidCorrect == Spec => []FulfilledWasPaid
<1>1. Init => PaidEvidence
  BY DEF Init, PaidEvidence, FulfilledWasPaid
<1>2. TypeOK /\ PaidEvidence /\ [Next]_vars => PaidEvidence'
  BY PaidEvidenceStep
<1>3. PaidEvidence => FulfilledWasPaid
  BY DEF PaidEvidence
<1> QED
  BY <1>1, <1>2, <1>3, TypeCorrect, PTL DEF Spec

-----------------------------------------------------------------------------
(* An order never moves backwards                                          *)

LEMMA ForwardStep ==
    ASSUME TypeOK, OrderEffect, NEW o \in Orders
    PROVE  /\ Rank[status[o]] <= Rank[status'[o]]
           /\ status[o] \in {"shipping", "delivered"} => status'[o] # "cancelled"
<1>0. status[o] \in OrderStatus /\ status \in [Orders -> OrderStatus]
  BY DEF TypeOK
<1> DEFINE Up(s, t) == s = t \/ <<s, t>> \in
        {<<"absent", "pending">>, <<"pending", "confirmed">>, <<"confirmed", "processing">>,
         <<"processing", "shipping">>, <<"shipping", "delivered">>, <<"pending", "cancelled">>,
         <<"confirmed", "cancelled">>, <<"processing", "cancelled">>,
         <<"cancelled", "refunded">>, <<"delivered", "refunded">>}
<1>1. Up(status[o], status'[o])
  <2>1. CASE OrdersUntouched
    BY <2>1 DEF OrdersUntouched
  <2>2. ASSUME NEW x \in Orders, NEW u \in BOOLEAN, CreateOrder(x, u)
        PROVE  Up(status[o], status'[o])
    BY <2>2, <1>0 DEF CreateOrder
  <2>3. ASSUME NEW x \in Orders, Confirmed(x) PROVE Up(status[o], status'[o])
    BY <2>3, <1>0 DEF Confirmed
  <2>4. ASSUME NEW x \in Orders, Cancelled(x) PROVE Up(status[o], status'[o])
    BY <2>4, <1>0 DEF Cancelled, CancelOrder
  <2>5. ASSUME NEW x \in Orders, NEW to \in OrderStatus, Relabelled(x, to)
        PROVE  Up(status[o], status'[o])
    BY <2>5, <1>0 DEF Relabelled
  <2>6. ASSUME NEW v \in Variants, NEW n \in AdminStock, AdjustStock(v, n)
        PROVE  Up(status[o], status'[o])
    BY <2>6 DEF AdjustStock
  <2>7. ASSUME NEW x \in Orders, NEW v \in Variants, NEW n \in 1..MaxQty,
               RestockReturn(x, v, n)
        PROVE  Up(status[o], status'[o])
    BY <2>7 DEF RestockReturn
  <2> QED
    BY <2>1, <2>2, <2>3, <2>4, <2>5, <2>6, <2>7 DEF OrderEffect
<1> QED
  BY <1>0, <1>1 DEF Rank, OrderStatus

(* No interleaving moves an order to an earlier status, and shipped goods  *)
(* are not cancelled.                                                      *)
THEOREM StatusForwardCorrect == Spec => StatusForward
<1>1. TypeOK /\ [Next]_vars =>
         [\A o \in Orders : /\ Rank[status[o]] <= Rank[status'[o]]
                            /\ status[o] \in {"shipping", "delivered"} =>
                                  status'[o] # "cancelled"]_vars
  BY ForwardStep, StepOrderEffect
<1> QED
  BY <1>1, TypeCorrect, PTL DEF Spec, StatusForward

-----------------------------------------------------------------------------
(* Conservation of goods                                                   *)

Units(o, v) == {o} \X (1..Qty[o][v])

LEMMA IntervalCardinality ==
    ASSUME NEW n \in Nat
    PROVE  IsFiniteSet(1..n) /\ Cardinality(1..n) = n
<1>1. 1 \in Int /\ n \in Int
  OBVIOUS
<1>2. IsFiniteSet(1..n) /\ Cardinality(1..n) = IF 1 > n THEN 0 ELSE n - 1 + 1
  BY <1>1, FS_Interval, Zenon
<1>3. (IF 1 > n THEN 0 ELSE n - 1 + 1) = n
  OBVIOUS
<1> QED
  BY <1>2, <1>3

LEMMA UnitsCardinality ==
    ASSUME NEW o \in Orders, NEW v \in Variants
    PROVE  IsFiniteSet(Units(o, v)) /\ Cardinality(Units(o, v)) = Qty[o][v]
<1>1. IsFiniteSet({o}) /\ Cardinality({o}) = 1
  BY FS_Singleton
<1>2. Qty[o][v] \in Nat
  OBVIOUS
<1>3. IsFiniteSet(1..Qty[o][v]) /\ Cardinality(1..Qty[o][v]) = Qty[o][v]
  BY <1>2, IntervalCardinality
<1>4. /\ IsFiniteSet({o} \X (1..Qty[o][v]))
      /\ Cardinality({o} \X (1..Qty[o][v])) = Cardinality({o}) * Cardinality(1..Qty[o][v])
  BY <1>1, <1>3, FS_Product
<1> QED
  BY <1>1, <1>2, <1>3, <1>4 DEF Units

LEMMA AllUnitsFinite == IsFiniteSet(Orders \X (1..MaxQty))
<1>1. IsFiniteSet(1..MaxQty)
  BY FS_Interval
<1> QED
  BY <1>1, FS_Product

LEMMA HeldFinite ==
    ASSUME NEW s, NEW v
    PROVE  /\ IsFiniteSet(Held(s, v)) /\ Cardinality(Held(s, v)) \in Nat
           /\ IsFiniteSet(Held(s, v)') /\ Cardinality(Held(s, v)') \in Nat
<1>1. Held(s, v) \in SUBSET (Orders \X (1..MaxQty)) /\ Held(s, v)' \in SUBSET (Orders \X (1..MaxQty))
  BY DEF Held
<1>2. IsFiniteSet(Held(s, v)) /\ IsFiniteSet(Held(s, v)')
  BY <1>1, AllUnitsFinite, FS_Subset
<1> QED
  BY <1>2, FS_CardinalityType

LEMMA DisjointCardinality ==
    ASSUME NEW A, NEW B, IsFiniteSet(A), IsFiniteSet(B), A \cap B = {}
    PROVE  Cardinality(A \cup B) = Cardinality(A) + Cardinality(B)
<1>1. Cardinality(A \cup B) = Cardinality(A) + Cardinality(B) - Cardinality(A \cap B)
  BY FS_Union
<1>2. Cardinality(A \cap B) = 0
  BY FS_EmptySet
<1>3. Cardinality(A) \in Nat /\ Cardinality(B) \in Nat
  BY FS_CardinalityType
<1> QED
  BY <1>1, <1>2, <1>3

(* An order that enters state t brings its units with it ... *)
LEMMA HeldGain ==
    ASSUME TypeOK, NEW o \in Orders, NEW t, NEW v \in Variants,
           inv[o] # t, inv' = [inv EXCEPT ![o] = t]
    PROVE  Cardinality(Held(t, v)') = Cardinality(Held(t, v)) + Qty[o][v]
<1>1. \A x \in Orders : inv'[x] = IF x = o THEN t ELSE inv[x]
  BY DEF TypeOK
<1>2. Qty[o][v] \in 0..MaxQty
  OBVIOUS
<1>3. Held(t, v)' = Held(t, v) \cup Units(o, v)
  BY <1>1, <1>2 DEF Held, Units
<1>4. Held(t, v) \cap Units(o, v) = {}
  BY DEF Held, Units
<1> QED
  BY <1>3, <1>4, HeldFinite, UnitsCardinality, DisjointCardinality

(* ... and takes them out of the state it leaves *)
LEMMA HeldLoss ==
    ASSUME TypeOK, NEW o \in Orders, NEW s, NEW t, NEW v \in Variants,
           inv[o] = s, s # t, inv' = [inv EXCEPT ![o] = t]
    PROVE  Cardinality(Held(s, v)) = Cardinality(Held(s, v)') + Qty[o][v]
<1>1. \A x \in Orders : inv'[x] = IF x = o THEN t ELSE inv[x]
  BY DEF TypeOK
<1>2. Qty[o][v] \in 0..MaxQty
  OBVIOUS
<1>3. Held(s, v) = Held(s, v)' \cup Units(o, v)
  BY <1>1, <1>2 DEF Held, Units
<1>4. Held(s, v)' \cap Units(o, v) = {}
  BY <1>1 DEF Held, Units
<1> QED
  BY <1>3, <1>4, HeldFinite, UnitsCardinality, DisjointCardinality

LEMMA HeldSame ==
    ASSUME TypeOK, NEW o \in Orders, NEW s, NEW t, NEW v \in Variants,
           inv[o] # s, s # t, inv' = [inv EXCEPT ![o] = t]
    PROVE  Held(s, v)' = Held(s, v)
  BY DEF Held, TypeOK

(* The accounting of one variant *)
Accounted(v) ==
    /\ reserved[v] = Cardinality(Held("reserved", v))
    /\ stock[v] + Cardinality(Held("committed", v)) = supplied[v]

LEMMA AccountingStep ==
    ASSUME TypeOK, StatusInventory, InventoryAccounting, OrderEffect
    PROVE  InventoryAccounting'
<1> SUFFICES ASSUME NEW v \in Variants PROVE Accounted(v)'
  BY DEF InventoryAccounting, Accounted
<1>1. Accounted(v)
  BY DEF InventoryAccounting, Accounted
<1>2. /\ stock[v] \in Nat /\ reserved[v] \in Nat /\ supplied[v] \in Int
      /\ \A o \in Orders : Qty[o][v] \in Nat
  BY DEF TypeOK
<1>3. \A t \in InventoryState : /\ Cardinality(Held(t, v)) \in Nat
                                /\ Cardinality(Held(t, v)') \in Nat
  BY HeldFinite
<1>4. ASSUME UNCHANGED inv PROVE \A t : Held(t, v)' = Held(t, v)
  BY <1>4 DEF Held
<1>5. CASE OrdersUntouched
  BY <1>1, <1>4, <1>5 DEF OrdersUntouched, goods, Accounted
<1>6. ASSUME NEW o \in Orders, NEW useVoucher \in BOOLEAN, CreateOrder(o, useVoucher)
      PROVE  Accounted(v)'
  <2>1. inv[o] = "none" /\ inv' = [inv EXCEPT ![o] = "reserved"]
    BY <1>6 DEF CreateOrder, StatusInventory
  <2>2. Cardinality(Held("reserved", v)') = Cardinality(Held("reserved", v)) + Qty[o][v]
    BY <2>1, HeldGain
  <2>3. Held("committed", v)' = Held("committed", v)
    BY <2>1, HeldSame
  <2>4. reserved'[v] = reserved[v] + Qty[o][v] /\ stock' = stock /\ supplied' = supplied
    BY <1>6 DEF CreateOrder
  <2> QED
    BY <1>1, <1>2, <1>3, <2>2, <2>3, <2>4 DEF Accounted
<1>7. ASSUME NEW o \in Orders, Confirmed(o) PROVE Accounted(v)'
  <2>1. inv[o] = "reserved" /\ inv' = [inv EXCEPT ![o] = "committed"]
    BY <1>7 DEF Confirmed, CanCommit, CommitInventory
  <2>2. Cardinality(Held("committed", v)') = Cardinality(Held("committed", v)) + Qty[o][v]
    BY <2>1, HeldGain
  <2>3. Cardinality(Held("reserved", v)) = Cardinality(Held("reserved", v)') + Qty[o][v]
    BY <2>1, HeldLoss
  <2>4. /\ reserved'[v] = reserved[v] - Qty[o][v]
        /\ stock'[v] = stock[v] - Qty[o][v]
        /\ supplied' = supplied
    BY <1>7 DEF Confirmed, CommitInventory
  <2> HIDE DEF Accounted
  <2>5. reserved'[v] = Cardinality(Held("reserved", v)')
    BY <1>1, <1>2, <1>3, <2>3, <2>4 DEF Accounted, InventoryState
  <2>6. stock'[v] + Cardinality(Held("committed", v)') = supplied'[v]
    BY <1>1, <1>2, <1>3, <2>2, <2>4 DEF Accounted, InventoryState
  <2> QED
    BY <2>5, <2>6 DEF Accounted
<1>8. ASSUME NEW o \in Orders, Cancelled(o) PROVE Accounted(v)'
  <2>0. inv' = [inv EXCEPT ![o] = "released"] /\ supplied' = supplied
    BY <1>8 DEF Cancelled, CancelOrder, ReleaseInventory
  <2>1. CASE inv[o] = "reserved"
    <3>1. Cardinality(Held("reserved", v)) = Cardinality(Held("reserved", v)') + Qty[o][v]
      BY <2>0, <2>1, HeldLoss
    <3>2. Held("committed", v)' = Held("committed", v)
      BY <2>0, <2>1, HeldSame
    <3>3. reserved'[v] = reserved[v] - Qty[o][v] /\ stock' = stock
      BY <1>8, <2>1 DEF Cancelled, CancelOrder, ReleaseInventory
    <3>4. reserved'[v] = Cardinality(Held("reserved", v)')
      BY <1>1, <1>2, <1>3, <3>1, <3>3 DEF Accounted, InventoryState
    <3> QED
      BY <1>1, <2>0, <3>2, <3>3, <3>4 DEF Accounted
  <2>2. CASE inv[o] = "committed"
    <3>1. Cardinality(Held("committed", v)) = Cardinality(Held("committed", v)') + Qty[o][v]
      BY <2>0, <2>2, HeldLoss
    <3>2. Held("reserved", v)' = Held("reserved", v)
      BY <2>0, <2>2, HeldSame
    <3>3. stock'[v] = stock[v] + Qty[o][v] /\ reserved' = reserved
      BY <1>8, <2>2 DEF Cancelled, CancelOrder, ReleaseInventory
    <3>4. stock'[v] + Cardinality(Held("committed", v)') = supplied'[v]
      BY <1>1, <1>2, <1>3, <2>0, <3>1, <3>3 DEF Accounted, InventoryState
    <3> QED
      BY <1>1, <3>2, <3>3, <3>4 DEF Accounted
  <2> QED
    BY <1>8, <2>1, <2>2 DEF Cancelled, CancelOrder, CanRelease
<1>9. ASSUME NEW o \in Orders, NEW to \in OrderStatus, Relabelled(o, to) PROVE Accounted(v)'
  BY <1>1, <1>4, <1>9 DEF Relabelled, goods, Accounted
<1>10. ASSUME NEW w \in Variants, NEW n \in AdminStock, AdjustStock(w, n) PROVE Accounted(v)'
  <2>1. UNCHANGED <<inv, reserved>>
    BY <1>10 DEF AdjustStock
  <2>2. \E d \in Int : stock'[v] = stock[v] + d /\ supplied'[v] = supplied[v] + d
    <3>1. CASE w = v
      <4>1. n - stock[v] \in Int
        BY <1>2
      <4>2. stock'[v] = stock[v] + (n - stock[v]) /\ supplied'[v] = supplied[v] + (n - stock[v])
        BY <1>10, <1>2, <3>1 DEF AdjustStock, TypeOK
      <4> QED
        BY <4>1, <4>2
    <3>2. CASE w # v
      <4>1. stock'[v] = stock[v] + 0 /\ supplied'[v] = supplied[v] + 0
        BY <1>10, <1>2, <3>2 DEF AdjustStock, TypeOK
      <4> QED
        BY <4>1
    <3> QED
      BY <3>1, <3>2
  <2>3. stock'[v] + Cardinality(Held("committed", v)) = supplied'[v]
    <3>1. /\ stock[v] + Cardinality(Held("committed", v)) = supplied[v]
          /\ Cardinality(Held("committed", v)) \in Nat
      BY <1>1, <1>3 DEF Accounted, InventoryState
    <3> QED
      BY <1>2, <2>2, <3>1
  <2> QED
    BY <1>1, <1>4, <2>1, <2>3 DEF Accounted
<1>11. ASSUME NEW o \in Orders, NEW w \in Variants, NEW n \in 1..MaxQty, RestockReturn(o, w, n)
       PROVE  Accounted(v)'
  <2>1. UNCHANGED <<inv, reserved>>
    BY <1>11 DEF RestockReturn
  <2>2. \E d \in Int : stock'[v] = stock[v] + d /\ supplied'[v] = supplied[v] + d
    <3>1. CASE w = v
      <4>1. n \in Int
        BY <1>2
      <4>2. stock'[v] = stock[v] + (n) /\ supplied'[v] = supplied[v] + (n)
        BY <1>11, <1>2, <3>1 DEF RestockReturn, TypeOK
      <4> QED
        BY <4>1, <4>2
    <3>2. CASE w # v
      <4>1. stock'[v] = stock[v] + 0 /\ supplied'[v] = supplied[v] + 0
        BY <1>11, <1>2, <3>2 DEF RestockReturn, TypeOK
      <4> QED
        BY <4>1
    <3> QED
      BY <3>1, <3>2
  <2>3. stock'[v] + Cardinality(Held("committed", v)) = supplied'[v]
    <3>1. /\ stock[v] + Cardinality(Held("committed", v)) = supplied[v]
          /\ Cardinality(Held("committed", v)) \in Nat
      BY <1>1, <1>3 DEF Accounted, InventoryState
    <3> QED
      BY <1>2, <2>2, <3>1
  <2> QED
    BY <1>1, <1>4, <2>1, <2>3 DEF Accounted
<1> QED
  BY <1>5, <1>6, <1>7, <1>8, <1>9, <1>10, <1>11 DEF OrderEffect

LEMMA AccountingInit == Init => InventoryAccounting
<1> SUFFICES ASSUME Init, NEW v \in Variants PROVE Accounted(v)
  BY DEF InventoryAccounting, Accounted
<1>1. Held("reserved", v) = {} /\ Held("committed", v) = {}
  BY DEF Init, Held
<1>2. Cardinality({}) = 0
  BY FS_EmptySet
<1>3. stock[v] = supplied[v] /\ stock[v] \in Nat /\ reserved[v] = 0
  BY DEF Init
<1>4. Cardinality(Held("reserved", v)) = 0 /\ Cardinality(Held("committed", v)) = 0
  BY <1>1, <1>2
<1> QED
  BY <1>3, <1>4 DEF Accounted

(* No interleaving of checkouts, callbacks, expiries, cancellations,       *)
(* returns and admin adjustments loses or invents a unit.                  *)
THEOREM InventoryAccountingCorrect == Spec => []InventoryAccounting
<1>1. TypeOK /\ StatusInventory /\ InventoryAccounting /\ [Next]_vars => InventoryAccounting'
  BY AccountingStep, StepOrderEffect
<1> QED
  BY <1>1, AccountingInit, TypeCorrect, StatusInventoryCorrect, PTL DEF Spec

-----------------------------------------------------------------------------
(* The voucher                                                             *)

SameUser(S, x) == {y \in S : UserOf[y] = UserOf[x]}

LEMMA SubsetFinite ==
    ASSUME NEW S \in SUBSET Orders
    PROVE  /\ IsFiniteSet(S) /\ Cardinality(S) \in Nat
           /\ \A T \in SUBSET S : IsFiniteSet(T) /\ Cardinality(T) \in Nat /\ Cardinality(T) <= Cardinality(S)
<1>1. IsFiniteSet(S) /\ Cardinality(S) \in Nat
  BY FS_Subset, FS_CardinalityType
<1>2. ASSUME NEW T \in SUBSET S
      PROVE  IsFiniteSet(T) /\ Cardinality(T) \in Nat /\ Cardinality(T) <= Cardinality(S)
  BY <1>1, FS_Subset, FS_CardinalityType
<1> QED
  BY <1>1, <1>2

(* A checkout with the voucher adds one use, within both quotas *)
LEMMA VoucherUse ==
    ASSUME TypeOK, VoucherAccounting, NEW o \in Orders, status[o] = "absent",
           VoucherUsable(o), usedCount' = usedCount + 1, usages' = usages \cup {o},
           status' = [status EXCEPT ![o] = "pending"]
    PROVE  VoucherAccounting'
<1>1. o \notin usages
  BY DEF VoucherAccounting
<1>2. IsFiniteSet(usages) /\ Cardinality(usages) \in Nat
  BY SubsetFinite DEF TypeOK
<1>3. Cardinality(usages') = Cardinality(usages) + 1
  BY <1>1, <1>2, FS_AddElement
<1>4. usedCount' = Cardinality(usages') /\ usedCount' <= UsageLimit
  BY <1>2, <1>3 DEF VoucherAccounting, VoucherUsable
<1>5. ASSUME NEW x \in usages' PROVE status'[x] \notin {"absent", "cancelled"}
  BY DEF VoucherAccounting, TypeOK
<1>6. ASSUME NEW x \in usages'
      PROVE  Cardinality(SameUser(usages', x)) <= UserLimitPerUser
  <2>1. CASE UserOf[x] = UserOf[o]
    <3>1. SameUser(usages', x) = SameUser(usages, o) \cup {o}
      BY <2>1 DEF SameUser
    <3>2. SameUser(usages, o) \in SUBSET usages
      BY DEF SameUser
    <3>3. IsFiniteSet(SameUser(usages, o)) /\ Cardinality(SameUser(usages, o)) \in Nat
      BY <3>2, SubsetFinite DEF TypeOK
    <3>4. o \notin SameUser(usages, o)
      BY <1>1 DEF SameUser
    <3>5. Cardinality(SameUser(usages', x)) = Cardinality(SameUser(usages, o)) + 1
      BY <3>1, <3>3, <3>4, FS_AddElement
    <3>6. Cardinality(SameUser(usages, o)) < UserLimitPerUser
      BY DEF VoucherUsable, SameUser
    <3> QED
      BY <3>3, <3>5, <3>6
  <2>2. CASE UserOf[x] # UserOf[o]
    <3>1. x \in usages /\ SameUser(usages', x) = SameUser(usages, x)
      BY <2>2 DEF SameUser
    <3> QED
      BY <3>1 DEF VoucherAccounting, SameUser
  <2> QED
    BY <2>1, <2>2
<1> QED
  BY <1>4, <1>5, <1>6 DEF VoucherAccounting, SameUser

(* A cancellation gives the use back *)
LEMMA VoucherRelease ==
    ASSUME TypeOK, VoucherAccounting, NEW o \in Orders, ReleaseVoucher(o),
           status' = [status EXCEPT ![o] = "cancelled"]
    PROVE  VoucherAccounting'
<1>1. IsFiniteSet(usages) /\ Cardinality(usages) \in Nat
  BY SubsetFinite DEF TypeOK
<1>2. usages' = usages \ {o} /\ usages' \in SUBSET usages
  BY DEF ReleaseVoucher
<1>3. Cardinality(usages') = IF o \in usages THEN Cardinality(usages) - 1 ELSE Cardinality(usages)
  BY <1>1, <1>2, FS_RemoveElement
<1>4. Cardinality(usages') \in Nat
  BY <1>2, SubsetFinite DEF TypeOK
<1>5. usedCount' = Cardinality(usages') /\ usedCount' <= UsageLimit
  BY <1>1, <1>3, <1>4 DEF VoucherAccounting, ReleaseVoucher
<1>6. ASSUME NEW x \in usages' PROVE status'[x] \notin {"absent", "cancelled"}
  BY <1>2 DEF VoucherAccounting, TypeOK
<1>7. ASSUME NEW x \in usages'
      PROVE  Cardinality(SameUser(usages', x)) <= UserLimitPerUser
  <2>1. SameUser(usages', x) \in SUBSET SameUser(usages, x) /\ SameUser(usages, x) \in SUBSET Orders
    BY <1>2 DEF SameUser, TypeOK
  <2>2. /\ Cardinality(SameUser(usages', x)) <= Cardinality(SameUser(usages, x))
        /\ Cardinality(SameUser(usages', x)) \in Nat /\ Cardinality(SameUser(usages, x)) \in Nat
    BY <2>1, SubsetFinite
  <2>3. Cardinality(SameUser(usages, x)) <= UserLimitPerUser
    BY <1>2 DEF VoucherAccounting, SameUser
  <2> QED
    BY <2>2, <2>3
<1> QED
  BY <1>5, <1>6, <1>7 DEF VoucherAccounting, SameUser

LEMMA VoucherStep ==
    ASSUME TypeOK, VoucherAccounting, OrderEffect
    PROVE  VoucherAccounting'
<1>1. ASSUME UNCHANGED voucher,
             \A x \in Orders : status[x] \notin {"absent", "cancelled"} =>
                                   status'[x] \notin {"absent", "cancelled"}
      PROVE  VoucherAccounting'
  BY <1>1 DEF VoucherAccounting, voucher, TypeOK
<1>2. CASE OrdersUntouched
  BY <1>1, <1>2 DEF OrdersUntouched
<1>3. ASSUME NEW o \in Orders, NEW useVoucher \in BOOLEAN, CreateOrder(o, useVoucher)
      PROVE  VoucherAccounting'
  <2>1. CASE useVoucher
    BY <1>3, <2>1, VoucherUse DEF CreateOrder
  <2>2. CASE ~useVoucher
    BY <1>1, <1>3, <2>2 DEF CreateOrder, TypeOK
  <2> QED
    BY <2>1, <2>2
<1>4. ASSUME NEW o \in Orders, Confirmed(o) PROVE VoucherAccounting'
  BY <1>1, <1>4 DEF Confirmed, TypeOK
<1>5. ASSUME NEW o \in Orders, Cancelled(o) PROVE VoucherAccounting'
  BY <1>5, VoucherRelease DEF Cancelled, CancelOrder
<1>6. ASSUME NEW o \in Orders, NEW to \in OrderStatus, Relabelled(o, to) PROVE VoucherAccounting'
  BY <1>1, <1>6 DEF Relabelled, TypeOK
<1>7. ASSUME NEW v \in Variants, NEW n \in AdminStock, AdjustStock(v, n) PROVE VoucherAccounting'
  BY <1>1, <1>7 DEF AdjustStock
<1>8. ASSUME NEW o \in Orders, NEW v \in Variants, NEW n \in 1..MaxQty, RestockReturn(o, v, n)
      PROVE  VoucherAccounting'
  BY <1>1, <1>8 DEF RestockReturn
<1> QED
  BY <1>2, <1>3, <1>4, <1>5, <1>6, <1>7, <1>8 DEF OrderEffect

(* used_count is exact and both quotas hold, however checkouts and         *)
(* cancellations interleave.                                               *)
THEOREM VoucherAccountingCorrect == Spec => []VoucherAccounting
<1>1. Init => VoucherAccounting
  <2>1. Cardinality({}) = 0
    BY FS_EmptySet
  <2> QED
    BY <2>1 DEF Init, VoucherAccounting
<1>2. TypeOK /\ VoucherAccounting /\ [Next]_vars => VoucherAccounting'
  BY VoucherStep, StepOrderEffect
<1> QED
  BY <1>1, <1>2, TypeCorrect, PTL DEF Spec
=============================================================================
