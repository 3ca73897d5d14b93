------------------------ MODULE PaymentOutboxProofs ------------------------
(***************************************************************************)
(* Proofs about PaymentOutbox, for every number of events, publishers,     *)
(* retries and faults.                                                     *)
(***************************************************************************)
EXTENDS PaymentOutbox, FiniteSetTheorems, TLAPS

USE OutboxAssumption

-----------------------------------------------------------------------------
(* Types                                                                   *)

LEMMA IdlePhase == Idle[1] = "loop" /\ Idle[2] = 0 /\ Idle \in Phase \X (0..NumEvents)
  BY DEF Idle, Phase

LEMMA AtType ==
    \A n \in 0..NumEvents : /\ <<"sent", n>> \in Phase \X (0..NumEvents)
                             /\ <<"error", n>> \in Phase \X (0..NumEvents)
  BY DEF Phase

(* What the loop body of a publisher is at *)
LEMMA DoingType ==
    ASSUME TypeOK, NEW p \in Publishers
    PROVE  doing[p] \in Phase \X (0..NumEvents) /\ doing[p][2] \in 0..NumEvents
  BY DEF TypeOK

LEMMA TypeStep == TypeOK /\ [Next]_vars => TypeOK'
<1> SUFFICES ASSUME TypeOK, [Next]_vars PROVE TypeOK'
  OBVIOUS
<1> USE DEF TypeOK
<1>1. ASSUME NEW e \in Events, InsertEvent(e) PROVE TypeOK'
  BY <1>1 DEF InsertEvent, RowStatus, workers
<1>2. ASSUME NEW e \in Events, TimePasses(e) PROVE TypeOK'
  BY <1>2 DEF TimePasses, AFault, workers
<1>3. ASSUME NEW p \in Publishers, ClaimPendingEvents(p) PROVE TypeOK'
  <2>1. NextEvents \subseteq Events
    BY DEF NextEvents
  <2> QED
    BY <1>3, <2>1 DEF ClaimPendingEvents, RowStatus
<1>4. ASSUME NEW p \in Publishers, NEW e \in Events, Send(p, e) PROVE TypeOK'
  <2>1. doing' \in [Publishers -> Phase \X (0..NumEvents)]
    <3>1. e \in 0..NumEvents
      BY DEF Events
    <3>2. <<"sent", e>> \in Phase \X (0..NumEvents)
      BY <3>1, AtType
    <3> QED
      BY <1>4, <3>2 DEF Send
  <2>2. deliveries' \in [Events -> Nat]
    BY <1>4 DEF Send
  <2> QED
    BY <1>4, <2>1, <2>2 DEF Send, rows
<1>5. ASSUME NEW p \in Publishers, NEW e \in Events, NEW reached \in BOOLEAN,
             SendError(p, e, reached)
      PROVE  TypeOK'
  <2>1. doing' \in [Publishers -> Phase \X (0..NumEvents)]
    <3>1. e \in 0..NumEvents
      BY DEF Events
    <3>2. <<"error", e>> \in Phase \X (0..NumEvents)
      BY <3>1, AtType
    <3> QED
      BY <1>5, <3>2 DEF SendError
  <2>2. deliveries' \in [Events -> Nat]
    BY <1>5 DEF SendError
  <2> QED
    BY <1>5, <2>1, <2>2 DEF SendError, AFault, rows
<1>6. ASSUME NEW p \in Publishers, MarkPublished(p) PROVE TypeOK'
  BY <1>6, IdlePhase DEF MarkPublished, RowStatus
<1>7. ASSUME NEW p \in Publishers, NEW committed \in BOOLEAN,
             MarkPublishedError(p, committed)
      PROVE  TypeOK'
  <2>1. doing' \in [Publishers -> Phase \X (0..NumEvents)]
    <3>1. <<"error", doing[p][2]>> \in Phase \X (0..NumEvents)
      BY DoingType, AtType
    <3> QED
      BY <1>7, <3>1 DEF MarkPublishedError
  <2>2. state' \in [Events -> RowStatus] /\ due' \in [Events -> BOOLEAN]
    BY <1>7 DEF MarkPublishedError, RowStatus
  <2> QED
    BY <1>7, <2>1, <2>2 DEF MarkPublishedError, AFault
<1>8. ASSUME NEW p \in Publishers, MarkPublishFailed(p) PROVE TypeOK'
  <2>1. \A n, m : (IF n + 1 >= m THEN "FAILED" ELSE "PENDING") \in RowStatus
    BY DEF RowStatus
  <2>2. state' \in [Events -> RowStatus]
    BY <1>8, <2>1 DEF MarkPublishFailed
  <2> QED
    BY <1>8, <2>2, IdlePhase DEF MarkPublishFailed
<1>9. ASSUME NEW p \in Publishers, Abandon(p) PROVE TypeOK'
  BY <1>9, IdlePhase DEF Abandon, AFault, rows
<1>10. CASE UNCHANGED vars
  BY <1>10 DEF vars
<1> QED
  BY <1>1, <1>2, <1>3, <1>4, <1>5, <1>6, <1>7, <1>8, <1>9, <1>10
     DEF Next, PublisherStep, PublisherFault, MarkPublishFailedError, Crash

LEMMA TypeInit == Init => TypeOK
  BY IdlePhase DEF Init, TypeOK, RowStatus, Events

(* Every variable of the outbox keeps its type in all its steps. *)
THEOREM TypeCorrect == Spec => []TypeOK
  BY TypeInit, TypeStep, PTL DEF Spec

-----------------------------------------------------------------------------
(* The loop of a publisher                                                 *)

(* A publisher between two events is idle, else it works on an event of    *)
(* its batch, which is recorded; after producer.send the broker has it     *)
LoopInv ==
    \A p \in Publishers :
        /\ \A e \in batch[p] : state[e] # "absent"
        /\ \/ doing[p] = Idle
           \/ doing[p][1] \in {"sent", "error"} /\ doing[p][2] \in batch[p]
        /\ doing[p][1] = "sent" => deliveries[doing[p][2]] >= 1

LEMMA LoopStep ==
    TypeOK /\ LoopInv /\ [Next]_vars => LoopInv'
<1> SUFFICES ASSUME TypeOK, LoopInv, [Next]_vars, NEW q \in Publishers
             PROVE  /\ \A e \in batch'[q] : state'[e] # "absent"
                    /\ \/ doing'[q] = Idle
                       \/ doing'[q][1] \in {"sent", "error"} /\ doing'[q][2] \in batch'[q]
                    /\ doing'[q][1] = "sent" => deliveries'[doing'[q][2]] >= 1
  BY DEF LoopInv
<1> DEFINE Goal == /\ \A e \in batch'[q] : state'[e] # "absent"
                   /\ \/ doing'[q] = Idle
                      \/ doing'[q][1] \in {"sent", "error"} /\ doing'[q][2] \in batch'[q]
                   /\ doing'[q][1] = "sent" => deliveries'[doing'[q][2]] >= 1
<1> USE DEF TypeOK, LoopInv
<1>1. ASSUME NEW e \in Events, InsertEvent(e) PROVE Goal
  BY <1>1 DEF InsertEvent, workers
<1>2. ASSUME NEW e \in Events, TimePasses(e) PROVE Goal
  BY <1>2 DEF TimePasses, workers
<1>3. ASSUME NEW p \in Publishers, ClaimPendingEvents(p) PROVE Goal
  <2>1. NextEvents \subseteq Events
    BY DEF NextEvents
  <2>2. \A e \in batch'[q] : state'[e] # "absent"
    BY <1>3, <2>1 DEF ClaimPendingEvents
  <2>3. batch[q] \subseteq batch'[q]
    BY <1>3 DEF ClaimPendingEvents
  <2> QED
    BY <1>3, <2>2, <2>3 DEF ClaimPendingEvents
<1>4. ASSUME NEW p \in Publishers, NEW e \in Events, Send(p, e) PROVE Goal
  <2>1. \A f \in Events : deliveries'[f] >= deliveries[f]
    BY <1>4 DEF Send
  <2>2. deliveries'[e] >= 1
    BY <1>4 DEF Send
  <2>3. doing[q][1] = "sent" => deliveries'[doing[q][2]] >= 1
    BY <2>1, <1>4, IdlePhase DEF Send
  <2>4. doing'[q] = IF q = p THEN <<"sent", e>> ELSE doing[q]
    BY <1>4 DEF Send
  <2> QED
    BY <1>4, <2>2, <2>3, <2>4 DEF Send, rows
<1>5. ASSUME NEW p \in Publishers, NEW e \in Events, NEW reached \in BOOLEAN,
             SendError(p, e, reached)
      PROVE  Goal
  <2>1. \A f \in Events : deliveries'[f] >= deliveries[f]
    BY <1>5 DEF SendError
  <2>2. doing[q][1] = "sent" => deliveries'[doing[q][2]] >= 1
    BY <2>1, <1>5, IdlePhase DEF SendError
  <2>3. doing'[q] = IF q = p THEN <<"error", e>> ELSE doing[q]
    BY <1>5 DEF SendError
  <2> QED
    BY <1>5, <2>2, <2>3 DEF SendError, rows
<1>6. ASSUME NEW p \in Publishers, MarkPublished(p) PROVE Goal
  BY <1>6, IdlePhase DEF MarkPublished
<1>7. ASSUME NEW p \in Publishers, NEW committed \in BOOLEAN,
             MarkPublishedError(p, committed)
      PROVE  Goal
  <2>1. doing'[q] = IF q = p THEN <<"error", doing[p][2]>> ELSE doing[q]
    BY <1>7 DEF MarkPublishedError
  <2>2. doing[p][2] \in batch[p]
    BY <1>7, IdlePhase DEF MarkPublishedError
  <2> QED
    BY <1>7, <2>1, <2>2 DEF MarkPublishedError
<1>8. ASSUME NEW p \in Publishers, MarkPublishFailed(p) PROVE Goal
  BY <1>8, IdlePhase DEF MarkPublishFailed
<1>9. ASSUME NEW p \in Publishers, Abandon(p) PROVE Goal
  BY <1>9, IdlePhase DEF Abandon, rows
<1>10. CASE UNCHANGED vars
  BY <1>10 DEF vars
<1> QED
  BY <1>1, <1>2, <1>3, <1>4, <1>5, <1>6, <1>7, <1>8, <1>9, <1>10
     DEF Next, PublisherStep, PublisherFault, MarkPublishFailedError, Crash

LEMMA LoopInit == Init => LoopInv
  BY IdlePhase DEF Init, LoopInv

LEMMA PublishedWasSentStep ==
    TypeOK /\ LoopInv /\ PublishedWasSent /\ [Next]_vars => PublishedWasSent'
<1> SUFFICES ASSUME TypeOK, LoopInv, PublishedWasSent, [Next]_vars,
                    NEW f \in Events, state'[f] = "PUBLISHED"
             PROVE  deliveries'[f] >= 1
  BY DEF PublishedWasSent
<1> USE DEF TypeOK, PublishedWasSent
<1>1. ASSUME NEW e \in Events, InsertEvent(e) PROVE deliveries'[f] >= 1
  BY <1>1 DEF InsertEvent
<1>2. ASSUME NEW e \in Events, TimePasses(e) PROVE deliveries'[f] >= 1
  BY <1>2 DEF TimePasses
<1>3. ASSUME NEW p \in Publishers, ClaimPendingEvents(p) PROVE deliveries'[f] >= 1
  BY <1>3 DEF ClaimPendingEvents
<1>4. ASSUME NEW p \in Publishers, NEW e \in Events, Send(p, e) PROVE deliveries'[f] >= 1
  BY <1>4 DEF Send, rows
<1>5. ASSUME NEW p \in Publishers, NEW e \in Events, NEW reached \in BOOLEAN,
             SendError(p, e, reached)
      PROVE  deliveries'[f] >= 1
  BY <1>5 DEF SendError, rows
<1>6. ASSUME NEW p \in Publishers, MarkPublished(p) PROVE deliveries'[f] >= 1
  BY <1>6 DEF MarkPublished, LoopInv
<1>7. ASSUME NEW p \in Publishers, NEW committed \in BOOLEAN,
             MarkPublishedError(p, committed)
      PROVE  deliveries'[f] >= 1
  BY <1>7 DEF MarkPublishedError, LoopInv
<1>8. ASSUME NEW p \in Publishers, MarkPublishFailed(p) PROVE deliveries'[f] >= 1
  BY <1>8 DEF MarkPublishFailed
<1>9. ASSUME NEW p \in Publishers, Abandon(p) PROVE deliveries'[f] >= 1
  BY <1>9 DEF Abandon, rows
<1>10. CASE UNCHANGED vars
  BY <1>10 DEF vars
<1> QED
  BY <1>1, <1>2, <1>3, <1>4, <1>5, <1>6, <1>7, <1>8, <1>9, <1>10
     DEF Next, PublisherStep, PublisherFault, MarkPublishFailedError, Crash

(* A row that markPublished has set to PUBLISHED was sent, whoever claimed *)
(* it meanwhile and however late the UPDATE came.                          *)
THEOREM PublishedWasSentCorrect == Spec => []PublishedWasSent
<1>1. Init => PublishedWasSent
  BY DEF Init, PublishedWasSent
<1>2. Init => TypeOK /\ LoopInv /\ PublishedWasSent
  BY <1>1, TypeInit, LoopInit
<1>3. /\ TypeOK /\ LoopInv /\ PublishedWasSent
      /\ [Next]_vars
      => (TypeOK /\ LoopInv /\ PublishedWasSent)'
  BY TypeStep, LoopStep, PublishedWasSentStep
<1> QED
  BY <1>2, <1>3, PTL DEF Spec

-----------------------------------------------------------------------------
(* Deliveries and faults                                                   *)

(* Publishers that may still send e, or report its failure                 *)
MaySend(e) == {p \in Publishers : e \in batch[p] /\ doing[p] # <<"sent", e>>}

(* The row can be claimed, now or later, without another fault             *)
Open(e) == \/ state[e] \in {"absent", "PENDING", "FAILED"}
           \/ state[e] = "PROCESSING" /\ (due[e] \/ Holders(e) = {})

Right(e) == IF Open(e) THEN 1 ELSE 0

(* What has been delivered, what may be and what may be claimed is covered *)
(* by the right to the first delivery and by the faults so far             *)
Covered == \A e \in Events :
    deliveries[e] + Cardinality(MaySend(e)) + Right(e) <= 1 + faults

LEMMA MaySendFinite ==
    ASSUME NEW e
    PROVE  /\ IsFiniteSet(MaySend(e)) /\ Cardinality(MaySend(e)) \in Nat
           /\ IsFiniteSet(MaySend(e)') /\ Cardinality(MaySend(e)') \in Nat
<1>1. MaySend(e) \subseteq Publishers /\ MaySend(e)' \subseteq Publishers
  BY DEF MaySend
<1>2. IsFiniteSet(MaySend(e)) /\ IsFiniteSet(MaySend(e)')
  BY <1>1, FS_Subset
<1> QED
  BY <1>2, FS_CardinalityType

(* No publisher joins *)
LEMMA MaySendShrinks ==
    ASSUME NEW e, MaySend(e)' \subseteq MaySend(e)
    PROVE  Cardinality(MaySend(e)') <= Cardinality(MaySend(e))
  BY MaySendFinite, FS_Subset

(* One leaves *)
LEMMA MaySendLeaves ==
    ASSUME NEW e, NEW p \in MaySend(e), MaySend(e)' \subseteq MaySend(e) \ {p}
    PROVE  Cardinality(MaySend(e)') <= Cardinality(MaySend(e)) - 1
<1>1. /\ IsFiniteSet(MaySend(e) \ {p})
      /\ Cardinality(MaySend(e) \ {p}) = Cardinality(MaySend(e)) - 1
  BY MaySendFinite, FS_RemoveElement
<1>2. Cardinality(MaySend(e)') <= Cardinality(MaySend(e) \ {p})
  BY <1>1, FS_Subset
<1> QED
  BY <1>1, <1>2

(* One joins *)
LEMMA MaySendJoins ==
    ASSUME NEW e, NEW p, MaySend(e)' \subseteq MaySend(e) \cup {p}
    PROVE  Cardinality(MaySend(e)') <= Cardinality(MaySend(e)) + 1
<1>1. /\ IsFiniteSet(MaySend(e) \cup {p})
      /\ Cardinality(MaySend(e) \cup {p}) \in {Cardinality(MaySend(e)), Cardinality(MaySend(e)) + 1}
  BY MaySendFinite, FS_AddElement
<1>2. Cardinality(MaySend(e)') <= Cardinality(MaySend(e) \cup {p})
  BY <1>1, FS_Subset
<1> QED
  BY <1>1, <1>2, MaySendFinite

LEMMA CoveredStep ==
    TypeOK /\ LoopInv /\ Covered /\ [Next]_vars => Covered'
<1> SUFFICES ASSUME TypeOK, LoopInv, Covered, [Next]_vars, NEW e \in Events
             PROVE  deliveries'[e] + Cardinality(MaySend(e)') + Right(e)' <= 1 + faults'
  BY DEF Covered
<1> DEFINE Goal == deliveries'[e] + Cardinality(MaySend(e)') + Right(e)' <= 1 + faults'
           n == Cardinality(MaySend(e))
           m == Cardinality(MaySend(e)')
<1>a. n \in Nat /\ m \in Nat
  BY MaySendFinite
<1>b. Right(e) \in {0, 1} /\ Right(e)' \in {0, 1}
  BY DEF Right
<1>c. deliveries[e] \in Nat /\ faults \in Nat
  BY DEF TypeOK
<1>d. deliveries[e] + n + Right(e) <= 1 + faults
  BY DEF Covered
<1> HIDE DEF n, m
<1>1. ASSUME NEW x \in Events, InsertEvent(x) PROVE Goal
  <2>1. m <= n
    BY <1>1, MaySendShrinks DEF InsertEvent, workers, MaySend, n, m
  <2>2. Right(e)' = Right(e)
    BY <1>1 DEF InsertEvent, workers, Right, Open, Holders, TypeOK
  <2> QED
    BY <1>1, <1>a, <1>b, <1>c, <1>d, <2>1, <2>2 DEF InsertEvent, m
<1>2. ASSUME NEW x \in Events, TimePasses(x) PROVE Goal
  <2>1. m <= n
    BY <1>2, MaySendShrinks DEF TimePasses, workers, MaySend, n, m
  <2>2. Right(e)' = Right(e) \/ faults' = faults + 1
    BY <1>2 DEF TimePasses, AFault, workers, Right, Open, Holders, TypeOK
  <2>3. faults' \in {faults, faults + 1}
    BY <1>2 DEF TimePasses, AFault
  <2> QED
    BY <1>2, <1>a, <1>b, <1>c, <1>d, <2>1, <2>2, <2>3 DEF TimePasses, m
<1>3. ASSUME NEW p \in Publishers, ClaimPendingEvents(p) PROVE Goal
  <2>1. CASE e \in NextEvents
    <3>1. Right(e) = 1
      BY <2>1 DEF NextEvents, Eligible, Right, Open
    <3>2. p \in Holders(e)'
      BY <1>3, <2>1 DEF ClaimPendingEvents, Holders, TypeOK
    <3>3. Right(e)' = 0
      BY <1>3, <2>1, <3>2 DEF ClaimPendingEvents, Right, Open, TypeOK
    <3>4. m <= n + 1
      BY <1>3, MaySendJoins DEF ClaimPendingEvents, MaySend, TypeOK, n, m
    <3> QED
      BY <1>3, <1>a, <1>c, <1>d, <3>1, <3>3, <3>4 DEF ClaimPendingEvents, m
  <2>2. CASE e \notin NextEvents
    <3>1. m <= n
      BY <1>3, <2>2, MaySendShrinks DEF ClaimPendingEvents, MaySend, TypeOK, n, m
    <3>2. state'[e] = state[e] /\ due'[e] = due[e] /\ Holders(e)' = Holders(e)
      BY <1>3, <2>2 DEF ClaimPendingEvents, Holders, TypeOK
    <3>3. Right(e)' = Right(e)
      BY <3>2 DEF Right, Open
    <3> QED
      BY <1>3, <1>a, <1>b, <1>c, <1>d, <3>1, <3>3 DEF ClaimPendingEvents, m
  <2> QED
    BY <2>1, <2>2
<1>4. ASSUME NEW p \in Publishers, NEW x \in Events, Send(p, x) PROVE Goal
  <2>1. Right(e)' = Right(e)
    BY <1>4 DEF Send, rows, Right, Open, Holders
  <2>2. CASE x = e
    <3>1. p \in MaySend(e)
      BY <1>4, <2>2, IdlePhase DEF Send, MaySend
    <3>2. MaySend(e)' \subseteq MaySend(e) \ {p}
      BY <1>4, <2>2 DEF Send, MaySend, TypeOK
    <3>3. m <= n - 1
      BY <3>1, <3>2, MaySendLeaves DEF n, m
    <3> QED
      BY <1>4, <1>a, <1>b, <1>c, <1>d, <2>1, <2>2, <3>3 DEF Send, m, TypeOK
  <2>3. CASE x # e
    <3>1. MaySend(e)' \subseteq MaySend(e)
      BY <1>4, IdlePhase DEF Send, MaySend, TypeOK
    <3>2. m <= n
      BY <3>1, MaySendShrinks DEF n, m
    <3> QED
      BY <1>4, <1>a, <1>b, <1>c, <1>d, <2>1, <2>3, <3>2 DEF Send, m, TypeOK
  <2> QED
    BY <2>2, <2>3
<1>5. ASSUME NEW p \in Publishers, NEW x \in Events, NEW reached \in BOOLEAN,
             SendError(p, x, reached)
      PROVE  Goal
  <2>1. Right(e)' = Right(e)
    BY <1>5 DEF SendError, rows, Right, Open, Holders
  <2>2. MaySend(e)' \subseteq MaySend(e)
    BY <1>5, IdlePhase DEF SendError, MaySend, TypeOK
  <2>3. m <= n
    BY <2>2, MaySendShrinks DEF n, m
  <2>4. deliveries'[e] \in {deliveries[e], deliveries[e] + 1}
    BY <1>5 DEF SendError, TypeOK
  <2> QED
    BY <1>5, <1>a, <1>b, <1>c, <1>d, <2>1, <2>3, <2>4 DEF SendError, AFault, m
<1>6. ASSUME NEW p \in Publishers, MarkPublished(p) PROVE Goal
  <2>1. MaySend(e)' \subseteq MaySend(e)
    BY <1>6 DEF MarkPublished, MaySend, TypeOK
  <2>2. m <= n
    BY <2>1, MaySendShrinks DEF n, m
  <2>3. CASE doing[p][2] = e
    <3>1. Right(e)' = 0
      BY <1>6, <2>3 DEF MarkPublished, Right, Open, TypeOK
    <3> QED
      BY <1>6, <1>a, <1>b, <1>c, <1>d, <2>2, <3>1 DEF MarkPublished, m
  <2>4. CASE doing[p][2] # e
    <3>1. state'[e] = state[e] /\ due'[e] = due[e] /\ Holders(e)' = Holders(e)
      BY <1>6, <2>4 DEF MarkPublished, Holders, TypeOK
    <3>2. Right(e)' = Right(e)
      BY <3>1 DEF Right, Open
    <3> QED
      BY <1>6, <1>a, <1>b, <1>c, <1>d, <2>2, <3>2 DEF MarkPublished, m
  <2> QED
    BY <2>3, <2>4
<1>7. ASSUME NEW p \in Publishers, NEW committed \in BOOLEAN,
             MarkPublishedError(p, committed)
      PROVE  Goal
  <2>1. MaySend(e)' \subseteq MaySend(e) \cup {p}
    BY <1>7 DEF MarkPublishedError, MaySend, TypeOK
  <2>2. m <= n + 1
    BY <2>1, MaySendJoins DEF n, m
  <2>3. Right(e)' <= Right(e)
    <3>1. Holders(e)' = Holders(e)
      BY <1>7 DEF MarkPublishedError, Holders
    <3>2. state'[e] = "PUBLISHED" \/ (state'[e] = state[e] /\ due'[e] = due[e])
      BY <1>7 DEF MarkPublishedError, TypeOK
    <3> QED
      BY <3>1, <3>2 DEF Right, Open
  <2> QED
    BY <1>7, <1>a, <1>b, <1>c, <1>d, <2>2, <2>3 DEF MarkPublishedError, AFault, m
<1>8. ASSUME NEW p \in Publishers, MarkPublishFailed(p) PROVE Goal
  <2>1. CASE doing[p][2] = e
    <3>1. p \in MaySend(e)
      BY <1>8, <2>1, IdlePhase DEF MarkPublishFailed, MaySend, LoopInv
    <3>2. MaySend(e)' \subseteq MaySend(e) \ {p}
      BY <1>8, <2>1 DEF MarkPublishFailed, MaySend, TypeOK
    <3>3. m <= n - 1
      BY <3>1, <3>2, MaySendLeaves DEF n, m
    <3> QED
      BY <1>8, <1>a, <1>b, <1>c, <1>d, <3>3 DEF MarkPublishFailed, m
  <2>2. CASE doing[p][2] # e
    <3>1. MaySend(e)' \subseteq MaySend(e)
      <4>1. doing[p] # <<"sent", e>>
        BY <1>8 DEF MarkPublishFailed
      <4> QED
        BY <1>8, <4>1, <2>2 DEF MarkPublishFailed, MaySend, TypeOK
    <3>2. m <= n
      BY <3>1, MaySendShrinks DEF n, m
    <3>3. state'[e] = state[e] /\ due'[e] = due[e] /\ Holders(e)' = Holders(e)
      BY <1>8, <2>2 DEF MarkPublishFailed, Holders, TypeOK
    <3>4. Right(e)' = Right(e)
      BY <3>3 DEF Right, Open
    <3> QED
      BY <1>8, <1>a, <1>b, <1>c, <1>d, <3>2, <3>4 DEF MarkPublishFailed, m
  <2> QED
    BY <2>1, <2>2
<1>9. ASSUME NEW p \in Publishers, Abandon(p) PROVE Goal
  <2>1. MaySend(e)' \subseteq MaySend(e)
    BY <1>9 DEF Abandon, MaySend, TypeOK
  <2>2. m <= n
    BY <2>1, MaySendShrinks DEF n, m
  <2> QED
    BY <1>9, <1>a, <1>b, <1>c, <1>d, <2>2 DEF Abandon, AFault, m
<1>10. CASE UNCHANGED vars
  <2>1. MaySend(e)' = MaySend(e) /\ Right(e)' = Right(e)
    BY <1>10 DEF vars, MaySend, Right, Open, Holders
  <2> QED
    BY <1>10, <1>d, <2>1 DEF vars, n
<1> QED
  BY <1>1, <1>2, <1>3, <1>4, <1>5, <1>6, <1>7, <1>8, <1>9, <1>10
     DEF Next, PublisherStep, PublisherFault, MarkPublishFailedError, Crash

LEMMA CoveredInit == Init => Covered
<1> SUFFICES ASSUME Init, NEW e \in Events
             PROVE  deliveries[e] + Cardinality(MaySend(e)) + Right(e) <= 1 + faults
  BY DEF Covered
<1>1. MaySend(e) = {}
  BY DEF Init, MaySend
<1>2. Cardinality(MaySend(e)) = 0
  BY <1>1, FS_EmptySet
<1> QED
  BY <1>2 DEF Init, Right

-----------------------------------------------------------------------------
(* The outbox implements EventDelivery                                     *)

LEMMA InitImplements == Init => Delivery!DeliveryInit
  BY DEF Init, Delivery!DeliveryInit

(* A successful send is a delivery that is covered: the publisher was      *)
(* among those that may still send                                         *)
LEMMA SendImplements ==
    ASSUME TypeOK, LoopInv, Covered, NEW p \in Publishers, NEW e \in Events, Send(p, e)
    PROVE  Delivery!Deliver(e)
<1>1. p \in MaySend(e)
  BY IdlePhase DEF Send, MaySend
<1>2. Cardinality(MaySend(e)) \in Nat /\ Cardinality(MaySend(e)) # 0
  BY <1>1, MaySendFinite, FS_EmptySet
<1>3. deliveries[e] <= faults
  <2>1. deliveries[e] + Cardinality(MaySend(e)) + Right(e) <= 1 + faults
    BY DEF Covered
  <2>2. Right(e) \in {0, 1} /\ deliveries[e] \in Nat /\ faults \in Nat
    BY DEF Right, TypeOK
  <2> QED
    BY <1>2, <2>1, <2>2
<1>4. state[e] # "absent"
  BY DEF Send, LoopInv
<1> QED
  BY <1>3, <1>4 DEF Send, rows, Delivery!Deliver

(* So is one that reached the broker without an answer, at the price of a  *)
(* fault                                                                   *)
LEMMA SendErrorImplements ==
    ASSUME TypeOK, LoopInv, Covered, NEW p \in Publishers, NEW e \in Events,
           NEW reached \in BOOLEAN, SendError(p, e, reached)
    PROVE  Delivery!Deliver(e) \/ Delivery!Fault
<1>1. CASE reached
  <2>1. deliveries[e] <= faults'
    <3>1. deliveries[e] + Cardinality(MaySend(e)) + Right(e) <= 1 + faults
      BY DEF Covered
    <3>2. Right(e) \in {0, 1} /\ deliveries[e] \in Nat /\ faults \in Nat
      BY DEF Right, TypeOK
    <3>3. Cardinality(MaySend(e)) \in Nat
      BY MaySendFinite
    <3> QED
      BY <3>1, <3>2, <3>3 DEF SendError, AFault
  <2>2. state[e] # "absent"
    BY DEF SendError, LoopInv
  <2> QED
    BY <1>1, <2>1, <2>2 DEF SendError, AFault, rows, Delivery!Deliver
<1>2. CASE ~reached
  BY <1>2 DEF SendError, AFault, rows, Delivery!Fault
<1> QED
  BY <1>1, <1>2

LEMMA StepImplements ==
    TypeOK /\ LoopInv /\ Covered /\ [Next]_vars
        => [Delivery!DeliveryNext]_(Delivery!dvars)
<1> SUFFICES ASSUME TypeOK, LoopInv, Covered, [Next]_vars
             PROVE  [Delivery!DeliveryNext]_(Delivery!dvars)
  OBVIOUS
<1> DEFINE recorded == {e \in Events : state[e] # "absent"}
           Goal == [Delivery!DeliveryNext]_(Delivery!dvars)
<1>1. ASSUME NEW x \in Events, InsertEvent(x) PROVE Goal
  <2>1. recorded' = recorded \cup {x} /\ x \notin recorded
    BY <1>1 DEF InsertEvent, TypeOK
  <2>2. Delivery!Record(x)
    BY <1>1, <2>1 DEF InsertEvent, Delivery!Record
  <2> QED
    BY <2>2 DEF Delivery!DeliveryNext
<1>2. ASSUME NEW x \in Events, TimePasses(x) PROVE Goal
  BY <1>2 DEF TimePasses, AFault, Delivery!DeliveryNext, Delivery!Fault, Delivery!dvars
<1>3. ASSUME NEW p \in Publishers, ClaimPendingEvents(p) PROVE Goal
  <2>1. recorded' = recorded
    BY <1>3 DEF ClaimPendingEvents, NextEvents, Eligible, TypeOK
  <2> QED
    BY <1>3, <2>1 DEF ClaimPendingEvents, Delivery!dvars
<1>4. ASSUME NEW p \in Publishers, NEW x \in Events, Send(p, x) PROVE Goal
  BY <1>4, SendImplements DEF Delivery!DeliveryNext
<1>5. ASSUME NEW p \in Publishers, NEW x \in Events, NEW reached \in BOOLEAN,
             SendError(p, x, reached)
      PROVE  Goal
  BY <1>5, SendErrorImplements DEF Delivery!DeliveryNext
<1>6. ASSUME NEW p \in Publishers, MarkPublished(p) PROVE Goal
  <2>1. doing[p][2] \in batch[p]
    BY <1>6, IdlePhase DEF MarkPublished, LoopInv
  <2>2. recorded' = recorded
    BY <1>6, <2>1 DEF MarkPublished, LoopInv, TypeOK
  <2> QED
    BY <1>6, <2>2 DEF MarkPublished, Delivery!dvars
<1>7. ASSUME NEW p \in Publishers, NEW committed \in BOOLEAN,
             MarkPublishedError(p, committed)
      PROVE  Goal
  <2>1. doing[p][2] \in batch[p]
    BY <1>7, IdlePhase DEF MarkPublishedError, LoopInv
  <2>2. recorded' = recorded
    BY <1>7, <2>1 DEF MarkPublishedError, LoopInv, TypeOK
  <2>3. Delivery!Fault
    BY <1>7, <2>2 DEF MarkPublishedError, AFault, Delivery!Fault
  <2> QED
    BY <2>3 DEF Delivery!DeliveryNext
<1>8. ASSUME NEW p \in Publishers, MarkPublishFailed(p) PROVE Goal
  <2>1. doing[p][2] \in batch[p]
    BY <1>8, IdlePhase DEF MarkPublishFailed, LoopInv
  <2>2. recorded' = recorded
    BY <1>8, <2>1 DEF MarkPublishFailed, LoopInv, TypeOK
  <2> QED
    BY <1>8, <2>2 DEF MarkPublishFailed, Delivery!dvars
<1>9. ASSUME NEW p \in Publishers, Abandon(p) PROVE Goal
  <2>1. Delivery!Fault
    BY <1>9 DEF Abandon, AFault, rows, Delivery!Fault
  <2> QED
    BY <2>1 DEF Delivery!DeliveryNext
<1>10. CASE UNCHANGED vars
  BY <1>10 DEF vars, Delivery!dvars
<1> QED
  BY <1>1, <1>2, <1>3, <1>4, <1>5, <1>6, <1>7, <1>8, <1>9, <1>10
     DEF Next, PublisherStep, PublisherFault, MarkPublishFailedError, Crash

(* The outbox keeps the delivery promise: an event reaches the broker only *)
(* after the transaction that recorded it, and every delivery beyond the   *)
(* first is paid for by a fault of its own, with any number of publishers, *)
(* crashes, lost answers and leases that end too early.                    *)
THEOREM ImplementsDeliveryCorrect == Spec => ImplementsDelivery
<1>1. Init => TypeOK /\ LoopInv /\ Covered
  BY TypeInit, LoopInit, CoveredInit
<1>2. TypeOK /\ LoopInv /\ Covered /\ [Next]_vars => (TypeOK /\ LoopInv /\ Covered)'
  BY TypeStep, LoopStep, CoveredStep
<1> QED
  BY <1>1, <1>2, InitImplements, StepImplements, PTL
     DEF Spec, ImplementsDelivery, Delivery!DeliverySpec

=============================================================================
