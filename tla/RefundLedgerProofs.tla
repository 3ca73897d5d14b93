------------------------- MODULE RefundLedgerProofs -------------------------
(***************************************************************************)
(* Proofs about RefundLedger, for any amounts and any number of keys and   *)
(* process instances.                                                      *)
(***************************************************************************)
EXTENDS RefundLedger, FiniteSetTheorems, SequenceTheorems, TLAPS

USE AmountAssumption, KeysAssumption, LedgerBounds

-----------------------------------------------------------------------------
(* The inductive invariant                                                 *)

(* There is a row of key k, and if it says failed, the provider has        *)
(* declined, unless the key was overruled                                  *)
Sound(k) == /\ row[k].status # "none"
            /\ row[k].status = "failed" /\ k \notin overruled => outcome[k] = "FAILED"

(* What a process is about to ask for is sound, and the result it is about *)
(* to persist is the provider's on that refund, its own or not             *)
WorkflowFits(w) ==
    /\ wf[w].phase = "gateway" => Sound(wf[w].refund)
    /\ wf[w].phase = "persist" => /\ wf[w].result # "none"
                                  /\ wf[w].result = outcome[wf[w].refund]

KeyFits(k) ==
    /\ outcome[k] # "none" => k \in asked
    /\ k \in asked => Sound(k)
    /\ row[k].status = "refunded" => outcome[k] = "SUCCESS"

Fits == /\ \A w \in DOMAIN wf : WorkflowFits(w)
        /\ \A k \in Keys : KeyFits(k)

(* Reservations that are not given up although the provider may still pay  *)
Holding == WithStatus({"pending", "refunded"}) \ overruled

HoldingWithinPayment == Total(Holding) <= Amount

(* What LedgerAgrees says beyond that                                      *)
Agreement ==
    LET rows == WithStatus({"refunded"}) IN
    /\ rows \subseteq Announced /\ Announced \subseteq rows \cup overruled
    /\ Announced = rows =>
           /\ refunded = AtMost(Total(rows), Amount)
           /\ payStatus = IF rows = {} THEN "paid"
                          ELSE IF Total(rows) < Amount THEN "partially_refunded"
                          ELSE "refunded"

LedgerInv == Fits /\ HoldingWithinPayment /\ Agreement

-----------------------------------------------------------------------------
(* Amounts                                                                 *)

(* Units, with the rows as a parameter *)
UnitsOf(r, S) == {u \in Keys \X (1..MaxAmount) : u[1] \in S /\ u[2] <= r[u[1]].amount}

LEMMA UnitsOfFinite ==
    ASSUME NEW r, NEW S
    PROVE  IsFiniteSet(UnitsOf(r, S)) /\ Cardinality(UnitsOf(r, S)) \in Nat
<1>1. IsFiniteSet(1..MaxAmount)
  BY FS_Interval
<1>2. IsFiniteSet(Keys \X (1..MaxAmount))
  BY <1>1, FS_Product
<1>3. UnitsOf(r, S) \in SUBSET (Keys \X (1..MaxAmount))
  BY DEF UnitsOf
<1>4. IsFiniteSet(UnitsOf(r, S))
  BY <1>2, <1>3, FS_Subset
<1> QED
  BY <1>4, FS_CardinalityType

(* More rows hold no less *)
LEMMA UnitsOfMonotone ==
    ASSUME NEW r, NEW S, NEW T, S \subseteq T
    PROVE  Cardinality(UnitsOf(r, S)) <= Cardinality(UnitsOf(r, T))
<1>1. UnitsOf(r, S) \in SUBSET UnitsOf(r, T)
  BY DEF UnitsOf
<1> QED
  BY <1>1, UnitsOfFinite, FS_Subset

(* Rows with the same amounts hold the same *)
LEMMA UnitsOfSame ==
    ASSUME NEW r, NEW s, NEW S, \A k \in S : r[k].amount = s[k].amount
    PROVE  UnitsOf(r, S) = UnitsOf(s, S)
  BY DEF UnitsOf

(* One more row adds its amount at most *)
LEMMA UnitsOfAdded ==
    ASSUME NEW r, NEW S, NEW k \in Keys, NEW a \in 1..MaxAmount, r[k].amount = a
    PROVE  Cardinality(UnitsOf(r, S \cup {k})) <= Cardinality(UnitsOf(r, S)) + a
<1>1. IsFiniteSet({k}) /\ Cardinality({k}) = 1
  BY FS_Singleton
<1>2. IsFiniteSet(1..a) /\ Cardinality(1..a) = a
  BY FS_Interval
<1>3. IsFiniteSet({k} \X (1..a)) /\ Cardinality({k} \X (1..a)) = 1 * a
  BY <1>1, <1>2, FS_Product
<1>4. UnitsOf(r, S \cup {k}) \subseteq UnitsOf(r, S) \cup ({k} \X (1..a))
  BY DEF UnitsOf
<1> DEFINE A == UnitsOf(r, S)
           B == {k} \X (1..a)
<1>5. IsFiniteSet(A) /\ Cardinality(A) \in Nat
  BY UnitsOfFinite
<1>6. IsFiniteSet(A \cap B) /\ Cardinality(A \cap B) \in Nat
  BY <1>5, FS_Subset, FS_CardinalityType
<1>7. IsFiniteSet(A \cup B) /\ Cardinality(A \cup B) = Cardinality(A) + Cardinality(B) - Cardinality(A \cap B)
  BY <1>3, <1>5, FS_Union
<1>8. Cardinality(UnitsOf(r, S \cup {k})) <= Cardinality(A \cup B)
  BY <1>4, <1>7, FS_Subset
<1>9. Cardinality(UnitsOf(r, S \cup {k})) \in Nat
  BY UnitsOfFinite
<1> QED
  BY <1>3, <1>5, <1>6, <1>7, <1>8, <1>9

LEMMA TotalIs == \A S : Total(S) = Cardinality(UnitsOf(row, S))
  BY DEF Total, Units, UnitsOf

LEMMA TotalIsNext == \A S : Total(S)' = Cardinality(UnitsOf(row', S))
  BY DEF Total, Units, UnitsOf

-----------------------------------------------------------------------------
(* Types                                                                   *)

(* Process w becomes r, the others stay *)
Becomes(w, r) == wf' = [wf EXCEPT ![w] = r]

LEMMA BecomesEffect ==
    ASSUME TypeOK, NEW w \in DOMAIN wf, NEW r \in Workflow, Becomes(w, r)
    PROVE  /\ wf' \in Seq(Workflow) /\ DOMAIN wf' = DOMAIN wf
           /\ \A v \in DOMAIN wf : wf'[v] = IF v = w THEN r ELSE wf[v]
<1>1. wf \in Seq(Workflow) /\ DOMAIN wf = 1..Len(wf)
  BY LenProperties DEF TypeOK
<1>2. /\ wf' \in Seq(Workflow) /\ Len(wf') = Len(wf)
      /\ \A v \in 1..Len(wf) : wf'[v] = IF v = w THEN r ELSE wf[v]
  BY <1>1, ExceptSeq DEF Becomes
<1> QED
  BY <1>1, <1>2, LenProperties

LEMMA WorkflowType ==
    ASSUME TypeOK, NEW w \in DOMAIN wf
    PROVE  /\ wf[w] \in Workflow
           /\ wf[w].key \in Keys /\ wf[w].refund \in Keys /\ wf[w].amount \in 1..MaxAmount
           /\ wf[w].result \in {"none", "SUCCESS", "FAILED"} /\ wf[w].phase \in Phase
<1>1. wf[w] \in Workflow
  BY LenProperties, ElementOfSeq DEF TypeOK
<1> QED
  BY <1>1 DEF Workflow

LEMMA ReservedType == Reserved \in Nat
  BY TotalIs, UnitsOfFinite DEF Reserved

(* What the steps of a process make of it *)
LEMMA MoveEffect ==
    ASSUME TypeOK, NEW w \in DOMAIN wf, NEW to \in Phase, Move(w, to)
    PROVE  LET r == [wf[w] EXCEPT !.phase = to] IN r \in Workflow /\ Becomes(w, r)
<1>1. wf[w] \in Workflow
  BY WorkflowType
<1>2. [wf[w] EXCEPT !.phase = to] \in Workflow
  BY <1>1 DEF Workflow
<1>3. Becomes(w, [wf[w] EXCEPT !.phase = to])
  BY DEF Move, Becomes
<1> QED
  BY <1>2, <1>3

LEMMA CheckPaymentEffect ==
    ASSUME TypeOK, NEW w \in DOMAIN wf, CheckPayment(w)
    PROVE  \E b \in BOOLEAN :
              LET r == [wf[w] EXCEPT !.phase = "order", !.allowed = b]
              IN r \in Workflow /\ Becomes(w, r)
<1> DEFINE b == Refundable /\ wf[w].amount <= Amount - Reserved
<1>1. wf[w] \in Workflow
  BY WorkflowType
<1>2. b \in BOOLEAN
  OBVIOUS
<1>3. Becomes(w, [wf[w] EXCEPT !.phase = "order", !.allowed = b])
  BY DEF CheckPayment, Becomes
<1> HIDE DEF b
<1>4. [wf[w] EXCEPT !.phase = "order", !.allowed = b] \in Workflow
  BY <1>1, <1>2 DEF Workflow, Phase
<1> QED
  BY <1>2, <1>3, <1>4

LEMMA AdminApproveEffect ==
    ASSUME TypeOK, NEW w \in DOMAIN wf, NEW a \in Approvable \cup {wf[w].amount}, AdminApprove(w, a)
    PROVE  LET r == [wf[w] EXCEPT !.phase = "record", !.amount = a]
           IN r \in Workflow /\ Becomes(w, r)
<1>1. wf[w] \in Workflow /\ a \in 1..MaxAmount
  BY WorkflowType
<1>2. [wf[w] EXCEPT !.phase = "record", !.amount = a] \in Workflow
  BY <1>1 DEF Workflow, Phase
<1>3. Becomes(w, [wf[w] EXCEPT !.phase = "record", !.amount = a])
  BY DEF AdminApprove, Becomes
<1> QED
  BY <1>2, <1>3

LEMMA CreateRecordEffect ==
    ASSUME TypeOK, NEW w \in DOMAIN wf, CreateRecord(w)
    PROVE  LET r == [wf[w] EXCEPT !.phase = "gateway", !.refund = wf[w].key]
           IN r \in Workflow /\ Becomes(w, r)
<1>1. wf[w] \in Workflow /\ wf[w].key \in Keys
  BY WorkflowType
<1>2. [wf[w] EXCEPT !.phase = "gateway", !.refund = wf[w].key] \in Workflow
  BY <1>1 DEF Workflow, Phase
<1>3. Becomes(w, [wf[w] EXCEPT !.phase = "gateway", !.refund = wf[w].key])
  BY DEF CreateRecord, Becomes
<1> QED
  BY <1>2, <1>3

LEMMA RefundWebhookEffect ==
    ASSUME TypeOK, NEW w \in DOMAIN wf, NEW k \in Keys, RefundWebhook(w, k)
    PROVE  LET r == [wf[w] EXCEPT !.phase = "persist", !.refund = k, !.result = outcome[k]]
           IN r \in Workflow /\ Becomes(w, r)
<1>1. wf[w] \in Workflow /\ outcome[k] \in {"none", "SUCCESS", "FAILED"}
  BY WorkflowType DEF TypeOK
<1>2. [wf[w] EXCEPT !.phase = "persist", !.refund = k, !.result = outcome[k]] \in Workflow
  BY <1>1 DEF Workflow, Phase
<1>3. Becomes(w, [wf[w] EXCEPT !.phase = "persist", !.refund = k, !.result = outcome[k]])
  BY DEF RefundWebhook, Becomes
<1> QED
  BY <1>2, <1>3

LEMMA StartEffect ==
    ASSUME TypeOK, NEW k \in Keys, StartWorkflow(k)
    PROVE  LET n == Len(wf) + 1
               r == [key |-> k, amount |-> Requested[k], phase |-> "payment",
                     allowed |-> FALSE, refund |-> k, result |-> "none"]
           IN /\ wf' \in Seq(Workflow) /\ DOMAIN wf' = DOMAIN wf \cup {n} /\ n \notin DOMAIN wf
              /\ \A v \in DOMAIN wf : wf'[v] = wf[v]
              /\ wf'[n] = r
<1> DEFINE n == Len(wf) + 1
           r == [key |-> k, amount |-> Requested[k], phase |-> "payment",
                 allowed |-> FALSE, refund |-> k, result |-> "none"]
<1>1. wf \in Seq(Workflow) /\ DOMAIN wf = 1..Len(wf) /\ Len(wf) \in Nat
  BY LenProperties DEF TypeOK
<1>2. r \in Workflow
  BY DEF Workflow, Phase
<1>3. wf' = Append(wf, r)
  BY DEF StartWorkflow
<1> HIDE DEF r
<1>4. /\ wf' \in Seq(Workflow) /\ Len(wf') = n
      /\ \A v \in 1..Len(wf) : wf'[v] = wf[v]
      /\ wf'[n] = r
  BY <1>1, <1>2, <1>3, AppendProperties
<1>5. DOMAIN wf' = 1..n
  BY <1>4, LenProperties
<1>6. 1..n = (1..Len(wf)) \cup {n} /\ n \notin 1..Len(wf)
  BY <1>1
<1> QED
  BY <1>1, <1>4, <1>5, <1>6 DEF r

LEMMA RecordSuccessType ==
    ASSUME TypeOK, NEW k \in Keys, RecordSuccess(k)
    PROVE  /\ row' \in [Keys -> Row] /\ completed' \in [Keys -> 0..MaxEvents]
           /\ payStatus' \in {"paid", "partially_refunded", "refunded"}
           /\ refunded' \in 0..Amount
<1>1. row' \in [Keys -> Row]
  BY DEF RecordSuccess, TypeOK, Row, RowStatus
<1>2. AtMost(completed[k] + 1, MaxEvents) \in 0..MaxEvents
  BY DEF AtMost, TypeOK
<1>3. completed' \in [Keys -> 0..MaxEvents]
  BY <1>2 DEF RecordSuccess, TypeOK
<1>4. Total(WithStatus({"refunded"}) \cup {k}) \in Nat
  BY TotalIs, UnitsOfFinite
<1>5. refunded' \in 0..Amount
  BY <1>4 DEF RecordSuccess, AtMost
<1> QED
  BY <1>1, <1>3, <1>5 DEF RecordSuccess

LEMMA TypeInit == Init => TypeOK
  BY EmptySeq DEF Init, TypeOK, Row, RowStatus

LEMMA TypeStep == TypeOK /\ [Next]_vars => TypeOK'
<1> SUFFICES ASSUME TypeOK, [Next]_vars PROVE TypeOK'
  OBVIOUS
<1> USE DEF payment, provider
<1>1. ASSUME NEW k \in Keys, StartWorkflow(k) PROVE TypeOK'
  <2>1. wf' \in Seq(Workflow)
    BY <1>1, StartEffect
  <2> QED
    BY <1>1, <2>1 DEF StartWorkflow, TypeOK
<1>2. ASSUME NEW w \in DOMAIN wf, CheckPayment(w) PROVE TypeOK'
  <2>1. wf' \in Seq(Workflow)
    BY <1>2, CheckPaymentEffect, BecomesEffect
  <2> QED
    BY <1>2, <2>1 DEF CheckPayment, TypeOK
<1>3. ASSUME NEW w \in DOMAIN wf, CheckOrder(w) PROVE TypeOK'
  <2>1. Route(w) \in Phase
    BY DEF Route, Phase
  <2>2. wf' \in Seq(Workflow)
    BY <1>3, <2>1, MoveEffect, BecomesEffect DEF CheckOrder
  <2> QED
    BY <1>3, <2>2 DEF CheckOrder, TypeOK
<1>4. ASSUME NEW w \in DOMAIN wf, CreateRecord(w) PROVE TypeOK'
  <2>1. wf' \in Seq(Workflow)
    BY <1>4, CreateRecordEffect, BecomesEffect
  <2>2. [status |-> "pending", amount |-> wf[w].amount] \in Row
    BY WorkflowType DEF Row, RowStatus
  <2>3. row' \in [Keys -> Row]
    BY <1>4, <2>2 DEF CreateRecord, TypeOK
  <2>4. overruled' \subseteq Keys
    BY <1>4, WorkflowType DEF CreateRecord, Overrule, TypeOK
  <2> QED
    BY <1>4, <2>1, <2>3, <2>4 DEF CreateRecord, TypeOK
<1>5. ASSUME NEW w \in DOMAIN wf, UpdateRejected(w) PROVE TypeOK'
  <2>1. wf' \in Seq(Workflow)
    BY <1>5, MoveEffect, BecomesEffect DEF UpdateRejected, Phase
  <2>2. row' \in [Keys -> Row]
    BY <1>5, WorkflowType DEF UpdateRejected, TypeOK, Row, RowStatus
  <2>3. overruled' \subseteq Keys
    BY <1>5, WorkflowType DEF UpdateRejected, Overrule, TypeOK
  <2> QED
    BY <1>5, <2>1, <2>2, <2>3 DEF UpdateRejected, TypeOK
<1>6. ASSUME NEW w \in DOMAIN wf, CallGateway(w) PROVE TypeOK'
  <2>1. wf' \in Seq(Workflow)
    BY <1>6, MoveEffect, BecomesEffect DEF CallGateway, Phase
  <2> QED
    BY <1>6, <2>1, WorkflowType DEF CallGateway, TypeOK
<1>7. ASSUME NEW w \in DOMAIN wf, PersistSuccess(w) PROVE TypeOK'
  <2>1. wf' \in Seq(Workflow)
    BY <1>7, MoveEffect, BecomesEffect DEF PersistSuccess, Phase
  <2>2. wf[w].refund \in Keys /\ RecordSuccess(wf[w].refund)
    BY <1>7, WorkflowType DEF PersistSuccess
  <2>3. orderStatus' \in {orderStatus, "refunded"}
    BY <1>7 DEF PersistSuccess
  <2> QED
    BY <1>7, <2>1, <2>2, <2>3, RecordSuccessType DEF PersistSuccess, TypeOK
<1>8. ASSUME NEW w \in DOMAIN wf, PersistFailed(w) PROVE TypeOK'
  <2>1. row' \in [Keys -> Row]
    BY <1>8 DEF PersistFailed, TypeOK, Row, RowStatus
  <2> QED
    BY <1>8, <2>1 DEF PersistFailed, TypeOK
<1>9. ASSUME NEW w \in DOMAIN wf, PersistSuccessRetried(w) PROVE TypeOK'
  <2>1. wf[w].refund \in Keys /\ RecordSuccess(wf[w].refund)
    BY <1>9, WorkflowType DEF PersistSuccessRetried
  <2> QED
    BY <1>9, <2>1, RecordSuccessType DEF PersistSuccessRetried, TypeOK
<1>10. ASSUME NEW w \in DOMAIN wf, NEW a \in Approvable \cup {wf[w].amount}, AdminApprove(w, a)
       PROVE  TypeOK'
  <2>1. wf' \in Seq(Workflow)
    BY <1>10, AdminApproveEffect, BecomesEffect
  <2> QED
    BY <1>10, <2>1 DEF AdminApprove, TypeOK
<1>11. ASSUME NEW w \in DOMAIN wf, NEW to \in {"reject", "done"}, AdminDecline(w, to)
       PROVE  TypeOK'
  <2>1. wf' \in Seq(Workflow)
    BY <1>11, MoveEffect, BecomesEffect DEF AdminDecline, Phase
  <2> QED
    BY <1>11, <2>1 DEF AdminDecline, TypeOK
<1>12. ASSUME NEW k \in Keys, NEW result \in {"SUCCESS", "FAILED"}, ProviderDecides(k, result)
       PROVE  TypeOK'
  BY <1>12 DEF ProviderDecides, TypeOK
<1>13. ASSUME NEW w \in DOMAIN wf, NEW k \in Keys, RefundWebhook(w, k) PROVE TypeOK'
  <2>1. wf' \in Seq(Workflow)
    BY <1>13, RefundWebhookEffect, BecomesEffect
  <2> QED
    BY <1>13, <2>1 DEF RefundWebhook, TypeOK
<1>14. CASE OrderAdvances
  BY <1>14 DEF OrderAdvances, TypeOK
<1>15. CASE UNCHANGED vars
  BY <1>15 DEF vars, TypeOK
<1> QED
  BY <1>1, <1>2, <1>3, <1>4, <1>5, <1>6, <1>7, <1>8, <1>9, <1>10, <1>11, <1>12, <1>13, <1>14,
     <1>15 DEF Next, WorkerStep

(* Every variable of the refunds keeps its type; in particular             *)
(* refunded_amount never leaves 0..Amount, whatever is correlated with     *)
(* whatever and however often a key is started.                            *)
THEOREM TypeCorrect == Spec => []TypeOK
  BY TypeInit, TypeStep, PTL DEF Spec

-----------------------------------------------------------------------------
(* Keys, rows and processes                                                *)

LEMMA FitsInit == Init => Fits
  BY EmptySeq DEF Init, Fits, KeyFits

(* Process w goes on where rows, requests and results stay *)
LEMMA FitsMoved ==
    ASSUME TypeOK, Fits, NEW w \in DOMAIN wf, NEW r \in Workflow, Becomes(w, r),
           UNCHANGED <<row, asked, outcome, overruled>>,
           \/ r.phase \notin {"gateway", "persist"}
           \/ r.phase = "persist" /\ r.result # "none" /\ r.result = outcome[r.refund]
    PROVE  Fits'
<1>1. /\ DOMAIN wf' = DOMAIN wf
      /\ \A v \in DOMAIN wf : wf'[v] = IF v = w THEN r ELSE wf[v]
  BY BecomesEffect
<1>2. ASSUME NEW v \in DOMAIN wf PROVE WorkflowFits(v)'
  <2>1. CASE v # w
    BY <1>1, <2>1 DEF Fits, WorkflowFits, Sound
  <2>2. CASE v = w
    BY <1>1, <2>2 DEF WorkflowFits
  <2> QED
    BY <2>1, <2>2
<1>3. \A k \in Keys : KeyFits(k)'
  BY DEF Fits, KeyFits, Sound
<1> QED
  BY <1>1, <1>2, <1>3 DEF Fits

LEMMA StartFits ==
    ASSUME TypeOK, Fits, NEW k \in Keys, StartWorkflow(k)
    PROVE  Fits'
<1> DEFINE n == Len(wf) + 1
           r == [key |-> k, amount |-> Requested[k], phase |-> "payment",
                 allowed |-> FALSE, refund |-> k, result |-> "none"]
<1>1. r.phase = "payment"
  OBVIOUS
<1>2. /\ DOMAIN wf' = DOMAIN wf \cup {n}
      /\ \A v \in DOMAIN wf : wf'[v] = wf[v]
      /\ wf'[n] = r
  BY StartEffect
<1> HIDE DEF r, n
<1>3. UNCHANGED <<row, asked, outcome, overruled>>
  BY DEF StartWorkflow, provider
<1>4. \A v \in DOMAIN wf' : WorkflowFits(v)'
  BY <1>1, <1>2, <1>3 DEF Fits, WorkflowFits, Sound
<1>5. \A x \in Keys : KeyFits(x)'
  BY <1>3 DEF Fits, KeyFits, Sound
<1> QED
  BY <1>4, <1>5 DEF Fits

(* Rows are written, but no sound one becomes unsound *)
StaySound == \A k \in Keys : Sound(k) => Sound(k)'

LEMMA FitsWritten ==
    ASSUME TypeOK, Fits, StaySound, UNCHANGED <<asked, outcome>>,
           NEW w \in DOMAIN wf, NEW r \in Workflow, Becomes(w, r),
           \A k \in Keys : row'[k].status = "refunded" => outcome[k] = "SUCCESS",
           \/ r = wf[w]
           \/ r.phase = "done"
           \/ r.phase = "gateway" /\ \E k \in Keys : k = r.refund /\ Sound(k)'
    PROVE  Fits'
<1>1. /\ DOMAIN wf' = DOMAIN wf
      /\ \A v \in DOMAIN wf : wf'[v] = IF v = w THEN r ELSE wf[v]
  BY BecomesEffect
<1>2. ASSUME NEW v \in DOMAIN wf PROVE WorkflowFits(v)'
  <2>1. wf[v].refund \in Keys /\ WorkflowFits(v)
    BY WorkflowType DEF Fits
  <2>2. PICK x \in Keys : x = wf[v].refund
    BY <2>1
  <2>3. CASE wf'[v] = wf[v]
    <3>1. wf[v].phase = "gateway" => Sound(x)
      BY <2>1, <2>2 DEF WorkflowFits
    <3>2. wf[v].phase = "gateway" => Sound(x)'
      BY <3>1 DEF StaySound
    <3> QED
      BY <2>1, <2>2, <2>3, <3>2 DEF WorkflowFits, Sound
  <2>4. CASE wf'[v].phase = "done"
    BY <2>4 DEF WorkflowFits
  <2>5. CASE wf'[v] = r /\ r.phase = "gateway" /\ \E k \in Keys : k = r.refund /\ Sound(k)'
    BY <2>5 DEF WorkflowFits, Sound
  <2> QED
    BY <1>1, <2>3, <2>4, <2>5
<1>3. ASSUME NEW k \in Keys PROVE KeyFits(k)'
  <2>1. KeyFits(k) /\ (Sound(k) => Sound(k)')
    BY DEF Fits, StaySound
  <2>2. k \in asked => Sound(k)'
    BY <2>1 DEF KeyFits
  <2> QED
    BY <2>1, <2>2 DEF KeyFits
<1> QED
  BY <1>1, <1>2, <1>3 DEF Fits

LEMMA CreateRecordFits ==
    ASSUME TypeOK, Fits, NEW w \in DOMAIN wf, CreateRecord(w)
    PROVE  Fits'
<1> DEFINE r == [wf[w] EXCEPT !.phase = "gateway", !.refund = wf[w].key]
<1>0. PICK k \in Keys : k = wf[w].key
  BY WorkflowType
<1>1. r \in Workflow /\ Becomes(w, r)
  BY CreateRecordEffect
<1>2. r.phase = "gateway" /\ r.refund = k /\ k \in Keys
  BY <1>0, WorkflowType DEF Workflow
<1>3. UNCHANGED <<asked, outcome>> /\ overruled \subseteq overruled'
  BY DEF CreateRecord, provider, Overrule
<1>4. \A x \in Keys : /\ x # k => row'[x] = row[x]
                      /\ row[x].status # "none" => row'[x] = row[x]
                      /\ row[x].status = "none" => row'[x].status \in {"none", "pending"}
  BY <1>0 DEF CreateRecord, TypeOK
<1>5. /\ row[k].status = "none" => row'[k].status = "pending"
      /\ row[k].status = "failed" => k \in overruled' \/ outcome[k] = "FAILED"
  BY <1>0 DEF CreateRecord, Overrule, TypeOK
<1> HIDE DEF r
<1>6. StaySound
  BY <1>3, <1>4 DEF StaySound, Sound
<1>7. Sound(k)'
  BY <1>2, <1>3, <1>4, <1>5 DEF Sound
<1>8. \E x \in Keys : x = r.refund /\ Sound(x)'
  BY <1>2, <1>7
<1>9. \A x \in Keys : row'[x].status = "refunded" => outcome[x] = "SUCCESS"
  BY <1>4 DEF Fits, KeyFits
<1> QED
  BY <1>1, <1>2, <1>3, <1>6, <1>8, <1>9, FitsWritten

LEMMA UpdateRejectedFits ==
    ASSUME TypeOK, Fits, NEW w \in DOMAIN wf, UpdateRejected(w)
    PROVE  Fits'
<1> DEFINE k == wf[w].key
           r == [wf[w] EXCEPT !.phase = "done"]
<1>1. r \in Workflow /\ Becomes(w, r)
  BY MoveEffect DEF UpdateRejected, Phase
<1>2. r.phase = "done" /\ k \in Keys
  BY WorkflowType DEF Workflow
<1>3. UNCHANGED <<asked, outcome>> /\ overruled \subseteq overruled'
  BY DEF UpdateRejected, provider, Overrule
<1>4. row'[k].status = "failed" /\ \A x \in Keys : x # k => row'[x] = row[x]
  BY <1>2 DEF UpdateRejected, TypeOK, Row
<1>5. row[k].status \in {"pending", "refunded"} => k \in overruled' \/ outcome[k] = "FAILED"
  BY DEF UpdateRejected, Overrule
<1>6. row[k].status \in {"none", "pending", "refunded", "failed"}
  BY <1>2 DEF TypeOK, Row, RowStatus
<1> HIDE DEF k, r
<1>7. StaySound
  BY <1>2, <1>3, <1>4, <1>5, <1>6 DEF StaySound, Sound
<1>8. \A x \in Keys : row'[x].status = "refunded" => outcome[x] = "SUCCESS"
  BY <1>4 DEF Fits, KeyFits
<1> QED
  BY <1>1, <1>2, <1>3, <1>7, <1>8, FitsWritten

LEMMA CallGatewayFits ==
    ASSUME TypeOK, Fits, NEW w \in DOMAIN wf, CallGateway(w)
    PROVE  Fits'
<1> DEFINE r == [wf[w] EXCEPT !.phase = "waiting"]
<1>1. r \in Workflow /\ Becomes(w, r)
  BY MoveEffect DEF CallGateway, Phase
<1>2. r.phase = "waiting" /\ wf[w].refund \in Keys
  BY WorkflowType DEF Workflow
<1> HIDE DEF r
<1>3. /\ DOMAIN wf' = DOMAIN wf
      /\ \A v \in DOMAIN wf : wf'[v] = IF v = w THEN r ELSE wf[v]
  BY <1>1, BecomesEffect
<1>4. /\ Sound(wf[w].refund)
      /\ asked' = asked \cup {wf[w].refund} /\ UNCHANGED <<row, outcome, overruled>>
  BY DEF CallGateway, Fits, WorkflowFits
<1>5. \A v \in DOMAIN wf : WorkflowFits(v)'
  BY <1>2, <1>3, <1>4 DEF Fits, WorkflowFits, Sound
<1>6. \A k \in Keys : KeyFits(k)'
  BY <1>4 DEF Fits, KeyFits, Sound
<1> QED
  BY <1>3, <1>5, <1>6 DEF Fits

LEMMA ProviderFits ==
    ASSUME TypeOK, Fits, NEW k \in Keys, NEW result \in {"SUCCESS", "FAILED"},
           ProviderDecides(k, result)
    PROVE  Fits'
<1>1. /\ UNCHANGED <<row, wf, asked, overruled>> /\ k \in asked /\ outcome[k] = "none"
      /\ \A x \in Keys : outcome'[x] = IF x = k THEN result ELSE outcome[x]
  BY DEF ProviderDecides, TypeOK
<1>2. ASSUME NEW v \in DOMAIN wf PROVE WorkflowFits(v)'
  <2>1. wf[v].refund \in Keys
    BY WorkflowType
  <2> QED
    BY <1>1, <2>1 DEF Fits, WorkflowFits, Sound
<1>3. \A x \in Keys : KeyFits(x)'
  BY <1>1 DEF Fits, KeyFits, Sound
<1> QED
  BY <1>1, <1>2, <1>3 DEF Fits

(* The row of key k is set to the status s, with its amount *)
LEMMA StatusSet ==
    ASSUME TypeOK, NEW k \in Keys, NEW s, row' = [row EXCEPT ![k].status = s]
    PROVE  \A x \in Keys : /\ row'[x].status = IF x = k THEN s ELSE row[x].status
                           /\ row'[x].amount = row[x].amount
<1>1. row \in [Keys -> Row]
  BY DEF TypeOK
<1> QED
  BY <1>1 DEF Row

(* The provider's result reaches its row, the one of this process or not *)
LEMMA PersistStep ==
    ASSUME TypeOK, Fits, NEW w \in DOMAIN wf,
           PersistSuccess(w) \/ PersistSuccessRetried(w) \/ PersistFailed(w)
    PROVE  LET k == wf[w].refund
               s == IF wf[w].result = "SUCCESS" THEN "refunded" ELSE "failed"
           IN /\ Fits'
              /\ k \in Keys /\ Sound(k)
              /\ outcome[k] = wf[w].result /\ outcome[k] \in {"SUCCESS", "FAILED"}
              /\ \A x \in Keys : /\ row'[x].status = IF x = k THEN s ELSE row[x].status
                                 /\ row'[x].amount = row[x].amount
<1> DEFINE k == wf[w].refund
           s == IF wf[w].result = "SUCCESS" THEN "refunded" ELSE "failed"
           r == [wf[w] EXCEPT !.phase = "done"]
<1>1. k \in Keys /\ wf[w].phase = "persist"
  BY WorkflowType DEF PersistSuccess, PersistSuccessRetried, PersistFailed
<1>2. outcome[k] = wf[w].result /\ outcome[k] \in {"SUCCESS", "FAILED"}
  BY <1>1 DEF Fits, WorkflowFits, TypeOK
<1>3. k \in asked /\ Sound(k)
  BY <1>1, <1>2 DEF Fits, KeyFits
<1>4. \A x \in Keys : /\ row'[x].status = IF x = k THEN s ELSE row[x].status
                      /\ row'[x].amount = row[x].amount
  <2>1. row' = [row EXCEPT ![k].status = s]
    BY DEF PersistSuccess, PersistSuccessRetried, PersistFailed, RecordSuccess
  <2> HIDE DEF k, s
  <2> QED
    BY <1>1, <2>1, StatusSet
<1>5. UNCHANGED <<asked, outcome, overruled>> /\ (wf' = wf \/ Move(w, "done"))
  BY DEF PersistSuccess, PersistSuccessRetried, PersistFailed, provider
<1>6. s = "failed" => outcome[k] = "FAILED"
  BY <1>2
<1>7. s = "refunded" => outcome[k] = "SUCCESS"
  BY <1>2
<1>8. s \in {"refunded", "failed"}
  OBVIOUS
<1>9. r \in Workflow /\ r.phase = "done" /\ wf[w] \in Workflow
  BY WorkflowType DEF Workflow, Phase
<1>10. wf' = wf => Becomes(w, wf[w])
  BY LenProperties DEF Becomes, TypeOK
<1>11. Move(w, "done") => Becomes(w, r)
  BY DEF Move, Becomes
<1> HIDE DEF k, s, r
<1>12. StaySound
  BY <1>3, <1>4, <1>5, <1>6, <1>8 DEF StaySound, Sound
<1>13. \A x \in Keys : row'[x].status = "refunded" => outcome[x] = "SUCCESS"
  BY <1>4, <1>7 DEF Fits, KeyFits
<1>14. Fits'
  <2>1. CASE wf' = wf
    BY <1>5, <1>9, <1>10, <1>12, <1>13, <2>1, FitsWritten
  <2>2. CASE Move(w, "done")
    BY <1>5, <1>9, <1>11, <1>12, <1>13, <2>2, FitsWritten
  <2> QED
    BY <1>5, <2>1, <2>2
<1> QED
  BY <1>1, <1>2, <1>3, <1>4, <1>14 DEF k, s

LEMMA FitsStep == TypeOK /\ Fits /\ [Next]_vars => Fits'
<1> SUFFICES ASSUME TypeOK, Fits, [Next]_vars PROVE Fits'
  OBVIOUS
<1>1. ASSUME NEW k \in Keys, StartWorkflow(k) PROVE Fits'
  BY <1>1, StartFits
<1>2. ASSUME NEW w \in DOMAIN wf, CheckPayment(w) PROVE Fits'
  <2>1. PICK b \in BOOLEAN : LET r == [wf[w] EXCEPT !.phase = "order", !.allowed = b]
                             IN r \in Workflow /\ Becomes(w, r)
    BY <1>2, CheckPaymentEffect
  <2> DEFINE r == [wf[w] EXCEPT !.phase = "order", !.allowed = b]
  <2>2. r.phase = "order"
    BY WorkflowType DEF Workflow
  <2>3. UNCHANGED <<row, asked, outcome, overruled>>
    BY <1>2 DEF CheckPayment, provider
  <2>4. r \in Workflow /\ Becomes(w, r)
    BY <2>1
  <2> HIDE DEF r
  <2> QED
    BY <2>2, <2>3, <2>4, FitsMoved
<1>3. ASSUME NEW w \in DOMAIN wf, NEW to \in Phase \ {"gateway", "persist"}, Move(w, to),
             UNCHANGED <<row, asked, outcome, overruled>>
      PROVE  Fits'
  <2> DEFINE r == [wf[w] EXCEPT !.phase = to]
  <2>1. r \in Workflow /\ Becomes(w, r)
    BY <1>3, MoveEffect
  <2>2. r.phase = to
    BY WorkflowType DEF Workflow
  <2> HIDE DEF r
  <2> QED
    BY <1>3, <2>1, <2>2, FitsMoved
<1>4. ASSUME NEW w \in DOMAIN wf, CheckOrder(w) PROVE Fits'
  <2>1. Route(w) \in Phase \ {"gateway", "persist"}
    BY DEF Route, Phase
  <2> QED
    BY <1>3, <1>4, <2>1 DEF CheckOrder, provider
<1>5. ASSUME NEW w \in DOMAIN wf, NEW a \in Approvable \cup {wf[w].amount}, AdminApprove(w, a)
      PROVE  Fits'
  <2> DEFINE r == [wf[w] EXCEPT !.phase = "record", !.amount = a]
  <2>1. r \in Workflow /\ Becomes(w, r)
    BY <1>5, AdminApproveEffect
  <2>2. r.phase = "record"
    BY WorkflowType DEF Workflow
  <2>3. UNCHANGED <<row, asked, outcome, overruled>>
    BY <1>5 DEF AdminApprove, provider
  <2> HIDE DEF r
  <2> QED
    BY <2>1, <2>2, <2>3, FitsMoved
<1>6. ASSUME NEW w \in DOMAIN wf, NEW to \in {"reject", "done"}, AdminDecline(w, to) PROVE Fits'
  <2>1. to \in Phase \ {"gateway", "persist"}
    BY DEF Phase
  <2> QED
    BY <1>3, <1>6, <2>1 DEF AdminDecline, provider
<1>7. ASSUME NEW w \in DOMAIN wf, NEW k \in Keys, RefundWebhook(w, k) PROVE Fits'
  <2> DEFINE r == [wf[w] EXCEPT !.phase = "persist", !.refund = k, !.result = outcome[k]]
  <2>1. r \in Workflow /\ Becomes(w, r)
    BY <1>7, RefundWebhookEffect
  <2>2. r.phase = "persist" /\ r.refund = k /\ r.result = outcome[k]
    BY WorkflowType DEF Workflow
  <2>3. outcome[k] # "none" /\ UNCHANGED <<row, asked, outcome, overruled>>
    BY <1>7 DEF RefundWebhook, provider
  <2> HIDE DEF r
  <2> QED
    BY <2>1, <2>2, <2>3, FitsMoved
<1>8. CASE wf' = wf /\ UNCHANGED <<row, asked, outcome, overruled>>
  BY <1>8 DEF Fits, WorkflowFits, KeyFits, Sound
<1> QED
  BY <1>1, <1>2, <1>4, <1>5, <1>6, <1>7, <1>8, CreateRecordFits, UpdateRejectedFits,
     CallGatewayFits, ProviderFits, PersistStep
     DEF Next, WorkerStep, OrderAdvances, provider, vars

-----------------------------------------------------------------------------
(* Balances                                                                *)

(* The rows that hold a reservation become no more *)
LEMMA HoldingKept ==
    ASSUME HoldingWithinPayment,
           \A k \in Holding' : k \in Holding /\ row'[k].amount = row[k].amount
    PROVE  HoldingWithinPayment'
<1> DEFINE S == Holding
           T == Holding'
<1>1. T \subseteq S
  OBVIOUS
<1>2. UnitsOf(row', T) = UnitsOf(row, T)
  BY UnitsOfSame
<1>3. Cardinality(UnitsOf(row, T)) <= Cardinality(UnitsOf(row, S))
  BY <1>1, UnitsOfMonotone
<1>4. Total(Holding) = Cardinality(UnitsOf(row, S)) /\ Total(Holding)' = Cardinality(UnitsOf(row', T))
  BY TotalIs DEF Total, Units, UnitsOf
<1>5. Cardinality(UnitsOf(row, T)) \in Nat /\ Cardinality(UnitsOf(row, S)) \in Nat
  BY UnitsOfFinite
<1> HIDE DEF S, T
<1> QED
  BY <1>2, <1>3, <1>4, <1>5 DEF HoldingWithinPayment

(* The refunded rows stay, and so does the payment *)
LEMMA AgreementKept ==
    ASSUME Agreement, UNCHANGED <<payStatus, refunded, completed>>,
           overruled \subseteq overruled',
           \A k \in Keys : /\ row'[k].status = "refunded" <=> row[k].status = "refunded"
                           /\ row[k].status = "refunded" => row'[k].amount = row[k].amount
    PROVE  Agreement'
<1> DEFINE S == WithStatus({"refunded"})
<1>1. WithStatus({"refunded"})' = S /\ Announced' = Announced
  BY DEF WithStatus, Announced
<1>2. UnitsOf(row', S) = UnitsOf(row, S)
  BY UnitsOfSame DEF WithStatus
<1>3. Total(S) = Cardinality(UnitsOf(row, S))
  BY TotalIs
<1>4. Total(WithStatus({"refunded"}))' = Cardinality(UnitsOf(row', S))
  BY <1>1, TotalIsNext
<1> QED
  BY <1>1, <1>2, <1>3, <1>4 DEF Agreement

LEMMA CreateRecordBalances ==
    ASSUME TypeOK, LedgerInv, NEW w \in DOMAIN wf, CreateRecord(w)
    PROVE  HoldingWithinPayment' /\ Agreement'
<1> DEFINE k == wf[w].key
           a == wf[w].amount
           S == WithStatus({"pending", "refunded"})
<1>1. k \in Keys /\ a \in 1..MaxAmount
  BY WorkflowType
<1>2. overruled \subseteq overruled' /\ UNCHANGED <<payStatus, refunded, completed>>
  BY DEF CreateRecord, Overrule, payment
<1>3. CASE row' = row
  <2>1. \A x \in Holding' : x \in Holding /\ row'[x].amount = row[x].amount
    BY <1>2, <1>3 DEF Holding, WithStatus
  <2> QED
    BY <1>2, <1>3, <2>1, HoldingKept, AgreementKept DEF LedgerInv
<1>4. CASE row[k].status = "none" /\ row' # row
  <2>1. Reserved + a <= Amount /\ row' = [row EXCEPT ![k] = [status |-> "pending", amount |-> a]]
    BY <1>4 DEF CreateRecord
  <2>2. row'[k].status = "pending" /\ row'[k].amount = a /\ \A x \in Keys : x # k => row'[x] = row[x]
    BY <1>1, <2>1 DEF TypeOK
  <2>3. row[k].status = "none"
    BY <1>4
  <2> HIDE DEF k, a
  <2>4. Holding' \subseteq S \cup {k}
    BY <2>2 DEF WithStatus, Holding
  <2>5. Cardinality(UnitsOf(row', S \cup {k})) <= Cardinality(UnitsOf(row', S)) + a
    BY <1>1, <2>2, UnitsOfAdded
  <2>6. UnitsOf(row', S) = UnitsOf(row, S)
    BY <2>2, <2>3, UnitsOfSame DEF WithStatus
  <2>7. Reserved = Cardinality(UnitsOf(row, S))
    BY TotalIs DEF Reserved
  <2>8. Cardinality(UnitsOf(row', Holding')) <= Cardinality(UnitsOf(row', S \cup {k}))
    BY <2>4, UnitsOfMonotone
  <2>9. Total(Holding)' = Cardinality(UnitsOf(row', Holding'))
    BY DEF Total, Units, UnitsOf
  <2>10. /\ Cardinality(UnitsOf(row, S)) \in Nat /\ Cardinality(UnitsOf(row', S \cup {k})) \in Nat
         /\ Cardinality(UnitsOf(row', Holding')) \in Nat
    BY UnitsOfFinite
  <2> HIDE DEF S
  <2>11. HoldingWithinPayment'
    BY <1>1, <2>1, <2>5, <2>6, <2>7, <2>8, <2>9, <2>10 DEF HoldingWithinPayment
  <2>12. Agreement'
    <3>1. \A x \in Keys : /\ row'[x].status = "refunded" <=> row[x].status = "refunded"
                          /\ row[x].status = "refunded" => row'[x].amount = row[x].amount
      BY <2>2, <2>3
    <3> QED
      BY <1>2, <3>1, AgreementKept DEF LedgerInv
  <2> QED
    BY <2>11, <2>12
<1> QED
  BY <1>3, <1>4 DEF CreateRecord

LEMMA UpdateRejectedBalances ==
    ASSUME TypeOK, LedgerInv, NEW w \in DOMAIN wf, UpdateRejected(w)
    PROVE  HoldingWithinPayment' /\ Agreement'
<1> DEFINE k == wf[w].key
<1>1. k \in Keys
  BY WorkflowType
<1>2. /\ overruled \subseteq overruled' /\ overruled' \subseteq overruled \cup {k}
      /\ UNCHANGED <<payStatus, refunded, completed>>
  BY DEF UpdateRejected, Overrule, payment
<1>3. row'[k].status = "failed" /\ \A x \in Keys : x # k => row'[x] = row[x]
  BY <1>1 DEF UpdateRejected, TypeOK, Row
<1>4. row[k].status = "refunded" => k \in overruled'
  <2>1. row[k].status = "refunded" => outcome[k] # "FAILED"
    BY <1>1 DEF LedgerInv, Fits, KeyFits
  <2> QED
    BY <2>1 DEF UpdateRejected, Overrule
<1> HIDE DEF k
<1>5. HoldingWithinPayment'
  <2>1. \A x \in Holding' : x \in Holding /\ row'[x].amount = row[x].amount
    BY <1>2, <1>3 DEF Holding, WithStatus
  <2> QED
    BY <2>1, HoldingKept DEF LedgerInv
<1>6. CASE row[k].status # "refunded"
  <2>1. \A x \in Keys : /\ row'[x].status = "refunded" <=> row[x].status = "refunded"
                        /\ row[x].status = "refunded" => row'[x].amount = row[x].amount
    BY <1>3, <1>6
  <2> QED
    BY <1>2, <1>5, <2>1, AgreementKept DEF LedgerInv
<1>7. CASE row[k].status = "refunded"
  <2> DEFINE S == WithStatus({"refunded"})
             T == WithStatus({"refunded"})'
  <2>1. T = S \ {k}
    BY <1>3 DEF WithStatus
  <2>2. k \in S /\ Announced' = Announced
    BY <1>1, <1>2, <1>7 DEF WithStatus, Announced
  <2>3. S \subseteq Announced /\ Announced \subseteq S \cup overruled
    BY DEF LedgerInv, Agreement
  <2> HIDE DEF S, T
  <2>4. T \subseteq Announced' /\ Announced' \subseteq T \cup overruled' /\ Announced' # T
    BY <1>2, <1>4, <1>7, <2>1, <2>2, <2>3
  <2> QED
    BY <1>5, <2>4 DEF Agreement, T
<1> QED
  BY <1>6, <1>7

LEMMA PersistFailedBalances ==
    ASSUME TypeOK, LedgerInv, NEW w \in DOMAIN wf, PersistFailed(w)
    PROVE  HoldingWithinPayment' /\ Agreement'
<1> DEFINE k == wf[w].refund
<1>0. wf[w].result = "FAILED" /\ row' = [row EXCEPT ![k].status = "failed"]
  BY DEF PersistFailed
<1>1. /\ k \in Keys /\ outcome[k] = "FAILED"
      /\ \A x \in Keys : /\ row'[x].status = IF x = k THEN "failed" ELSE row[x].status
                         /\ row'[x].amount = row[x].amount
  <2>1. k \in Keys /\ outcome[k] = "FAILED"
    BY <1>0, PersistStep DEF LedgerInv
  <2> HIDE DEF k
  <2> QED
    BY <1>0, <2>1, StatusSet
<1>2. row[k].status # "refunded"
  BY <1>1 DEF LedgerInv, Fits, KeyFits
<1>3. UNCHANGED <<payStatus, refunded, completed, overruled>>
  BY DEF PersistFailed, payment
<1> HIDE DEF k
<1>4. \A x \in Holding' : x \in Holding /\ row'[x].amount = row[x].amount
  BY <1>1, <1>3 DEF Holding, WithStatus
<1>5. \A x \in Keys : /\ row'[x].status = "refunded" <=> row[x].status = "refunded"
                      /\ row[x].status = "refunded" => row'[x].amount = row[x].amount
  BY <1>1, <1>2
<1> QED
  BY <1>3, <1>4, <1>5, HoldingKept, AgreementKept DEF LedgerInv

LEMMA PersistSuccessBalances ==
    ASSUME TypeOK, LedgerInv, NEW w \in DOMAIN wf, PersistSuccess(w) \/ PersistSuccessRetried(w)
    PROVE  HoldingWithinPayment' /\ Agreement'
<1> DEFINE k == wf[w].refund
           S == WithStatus({"refunded"})
           n == Total(S \cup {k})
<1>1. wf[w].result = "SUCCESS" /\ RecordSuccess(k) /\ overruled' = overruled
  BY DEF PersistSuccess, PersistSuccessRetried
<1>2. /\ k \in Keys /\ outcome[k] = "SUCCESS" /\ Sound(k)
      /\ \A x \in Keys : /\ row'[x].status = IF x = k THEN "refunded" ELSE row[x].status
                         /\ row'[x].amount = row[x].amount
  BY <1>1, PersistStep DEF LedgerInv
<1>3. k \in overruled \/ row[k].status \in {"pending", "refunded"}
  BY <1>2 DEF Sound, TypeOK, Row, RowStatus
<1> HIDE DEF k
<1>4. HoldingWithinPayment'
  <2>1. \A x \in Holding' : x \in Holding /\ row'[x].amount = row[x].amount
    BY <1>1, <1>2, <1>3 DEF Holding, WithStatus
  <2> QED
    BY <2>1, HoldingKept DEF LedgerInv
<1>5. WithStatus({"refunded"})' = S \cup {k}
  BY <1>2 DEF WithStatus
<1>6. n \in Nat
  BY TotalIs, UnitsOfFinite
<1>7. Total(WithStatus({"refunded"}))' = n
  <2>1. UnitsOf(row', S \cup {k}) = UnitsOf(row, S \cup {k})
    BY <1>2, UnitsOfSame DEF WithStatus
  <2>2. n = Cardinality(UnitsOf(row, S \cup {k}))
    BY TotalIs
  <2>3. Total(WithStatus({"refunded"}))' = Cardinality(UnitsOf(row', S \cup {k}))
    BY <1>5, TotalIsNext
  <2> QED
    BY <2>1, <2>2, <2>3
<1>8. /\ payStatus' = IF n >= Amount THEN "refunded" ELSE "partially_refunded"
      /\ refunded' = AtMost(n, Amount)
      /\ completed' = [completed EXCEPT ![k] = AtMost(@ + 1, MaxEvents)]
  BY <1>1 DEF RecordSuccess, FullyRefunded
<1>9. S \cup {k} # {}
  OBVIOUS
<1>10. Announced' = Announced \cup {k}
  <2>1. AtMost(completed[k] + 1, MaxEvents) > 0
    BY <1>2 DEF AtMost, TypeOK
  <2>2. \A x \in Keys : completed'[x] = IF x = k THEN AtMost(completed[k] + 1, MaxEvents)
                                                 ELSE completed[x]
    BY <1>8 DEF TypeOK
  <2> QED
    BY <1>2, <2>1, <2>2 DEF Announced
<1>11. S \subseteq Announced /\ Announced \subseteq S \cup overruled
  BY DEF LedgerInv, Agreement
<1> HIDE DEF n, S
<1>12. payStatus' = IF S \cup {k} = {} THEN "paid"
                    ELSE IF n < Amount THEN "partially_refunded" ELSE "refunded"
  BY <1>6, <1>8, <1>9
<1>13. Agreement'
  BY <1>1, <1>5, <1>7, <1>8, <1>10, <1>11, <1>12 DEF Agreement, AtMost
<1> QED
  BY <1>4, <1>13

LEMMA LedgerInvStep == TypeOK /\ LedgerInv /\ [Next]_vars => LedgerInv'
<1> SUFFICES ASSUME TypeOK, LedgerInv, [Next]_vars PROVE LedgerInv'
  OBVIOUS
<1>1. Fits'
  BY FitsStep DEF LedgerInv
<1>2. CASE UNCHANGED <<payStatus, refunded, completed, row, overruled>>
  <2>1. \A x \in Holding' : x \in Holding /\ row'[x].amount = row[x].amount
    BY <1>2 DEF Holding, WithStatus
  <2>2. HoldingWithinPayment'
    BY <2>1, HoldingKept DEF LedgerInv
  <2>3. Agreement'
    BY <1>2, AgreementKept DEF LedgerInv
  <2> QED
    BY <1>1, <2>2, <2>3 DEF LedgerInv
<1>3. ASSUME NEW w \in DOMAIN wf,
             CreateRecord(w) \/ UpdateRejected(w) \/ PersistFailed(w)
                \/ PersistSuccess(w) \/ PersistSuccessRetried(w)
      PROVE  LedgerInv'
  BY <1>1, <1>3, CreateRecordBalances, UpdateRejectedBalances, PersistFailedBalances,
     PersistSuccessBalances DEF LedgerInv
<1> QED
  BY <1>2, <1>3 DEF Next, WorkerStep, StartWorkflow, CheckPayment, CheckOrder, CallGateway,
     AdminApprove, AdminDecline, ProviderDecides, RefundWebhook, OrderAdvances, payment, vars

LEMMA LedgerInvInit == Init => LedgerInv
<1> SUFFICES ASSUME Init PROVE LedgerInv
  OBVIOUS
<1>1. WithStatus({"refunded"}) = {} /\ Holding = {} /\ Announced = {}
  BY DEF Init, WithStatus, Holding, Announced
<1>2. UnitsOf(row, {}) = {}
  BY DEF UnitsOf
<1>3. Total({}) = 0
  BY <1>2, TotalIs, FS_EmptySet
<1>4. HoldingWithinPayment
  BY <1>1, <1>3 DEF HoldingWithinPayment
<1>5. refunded = 0 /\ payStatus = "paid"
  BY DEF Init
<1>6. AtMost(0, Amount) = 0
  BY DEF AtMost
<1>7. Agreement
  BY <1>1, <1>3, <1>5, <1>6 DEF Agreement
<1> QED
  BY <1>4, <1>7, FitsInit DEF LedgerInv

LEMMA LedgerInvInvariant == Spec => [](TypeOK /\ LedgerInv)
<1>1. Init => TypeOK /\ LedgerInv
  BY TypeInit, LedgerInvInit
<1>2. TypeOK /\ LedgerInv /\ [Next]_vars => (TypeOK /\ LedgerInv)'
  BY TypeStep, LedgerInvStep
<1> QED
  BY <1>1, <1>2, PTL DEF Spec

(* However often keys are started, a row says refunded only when the       *)
(* provider paid, and a failed row was never paid unless one process       *)
(* rejected what another went on with, although correlateRefundResult may  *)
(* hand a result to the process of another refund.                         *)
THEOREM RowsFollowProviderCorrect == Spec => []RowsFollowProvider
<1>1. TypeOK /\ LedgerInv => RowsFollowProvider
  BY DEF LedgerInv, Fits, KeyFits, Sound, RowsFollowProvider, WithStatus
<1> QED
  BY <1>1, LedgerInvInvariant, PTL

(* What holds no reservation does not count                                *)
LEMMA WithinPayment ==
    ASSUME HoldingWithinPayment, NEW S, S \subseteq Holding
    PROVE  Total(S) <= Amount
<1>1. Cardinality(UnitsOf(row, S)) <= Cardinality(UnitsOf(row, Holding))
  BY UnitsOfMonotone
<1>2. Total(S) = Cardinality(UnitsOf(row, S)) /\ Total(Holding) = Cardinality(UnitsOf(row, Holding))
  BY TotalIs
<1>3. Cardinality(UnitsOf(row, S)) \in Nat /\ Cardinality(UnitsOf(row, Holding)) \in Nat
  BY UnitsOfFinite
<1> QED
  BY <1>1, <1>2, <1>3 DEF HoldingWithinPayment

(* However often keys are started, the provider never pays back more than  *)
(* was paid, not counting overruled refunds: createRefundRecord reserves   *)
(* under the lock of the payment, and any other reservation is given up    *)
(* only when the provider has declined.                                    *)
THEOREM PaidOutWithinPaymentCorrect == Spec => []PaidOutWithinPayment
<1>1. TypeOK /\ LedgerInv => PaidOutWithinPayment
  <2> SUFFICES ASSUME TypeOK, LedgerInv PROVE PaidOutWithinPayment
    OBVIOUS
  <2>1. PaidOut \ overruled \subseteq Holding
    <3> SUFFICES ASSUME NEW k \in Keys, outcome[k] = "SUCCESS", k \notin overruled
                 PROVE  row[k].status \in {"pending", "refunded"}
      BY DEF PaidOut, Holding, WithStatus
    <3>1. row[k].status \in RowStatus /\ KeyFits(k)
      BY DEF TypeOK, Row, LedgerInv, Fits
    <3> QED
      BY <3>1 DEF KeyFits, Sound, RowStatus
  <2> QED
    BY <2>1, WithinPayment DEF LedgerInv, PaidOutWithinPayment
<1> QED
  BY <1>1, LedgerInvInvariant, PTL

(* However often keys are started, the payment agrees with its refund rows *)
(* after every persistRefundResultTransaction, repeated ones included, and *)
(* until one of the refunded rows is rejected.                             *)
THEOREM LedgerAgreesCorrect == Spec => []LedgerAgrees
<1>1. TypeOK /\ LedgerInv => LedgerAgrees
  <2> SUFFICES ASSUME TypeOK, LedgerInv PROVE LedgerAgrees
    OBVIOUS
  <2>1. WithStatus({"refunded"}) \ overruled \subseteq Holding
    BY DEF Holding, WithStatus
  <2>2. Total(WithStatus({"refunded"}) \ overruled) <= Amount
    BY <2>1, WithinPayment DEF LedgerInv
  <2> QED
    BY <2>2 DEF LedgerInv, Agreement, LedgerAgrees
<1> QED
  BY <1>1, LedgerInvInvariant, PTL
=============================================================================
