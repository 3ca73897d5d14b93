--------------------------- MODULE CheckoutProofs ---------------------------
(***************************************************************************)
(* Proofs about Checkout, for any number of requests, users, keys and      *)
(* variants and any carts, stocks and limits.                              *)
(***************************************************************************)
EXTENDS Checkout, FiniteSetTheorems, FunctionTheorems, SequenceTheorems, TLAPS

-----------------------------------------------------------------------------
(* The inductive invariant                                                 *)

(* Stages of createOrder in which its transaction may have locked or       *)
(* changed a row, those before the order exists, and those in which the    *)
(* snapshot of the cart is known                                           *)
Reserving == {"lines", "insert", "commit"}
Before == {"new", "snapshot", "begin", "voucher", "lines", "insert", "commit", "recover"}
Known == {"begin", "voucher", "lines", "insert", "commit", "recover", "clear"}

(* Units of v in the lines before line n                                   *)
UnitsBelow(lines, v, n) == {u \in Units(lines, v) : u[1] < n}

(* The order of r does not exist before its commit, a request is answered  *)
(* with an order of its key, and the key of a transaction about to commit  *)
(* is locked and unused                                                    *)
KeyInv(r) ==
    /\ req[r].stage \in Before => order[r].state = "none"
    /\ req[r].stage \in {"clear", "done"} => req[r].answer \in PlacedWith(KeyOf(r))
    /\ req[r].stage \notin {"clear", "done"} => req[r].answer = None
    /\ req[r].stage = "commit" => /\ lock[KeyOf(r)] = Checkout(r)
                                  /\ PlacedWith(KeyOf(r)) = {}

(* The voucher stays usable while a transaction that uses it is open       *)
HoldsVoucher(r) ==
    req[r].stage \in Reserving /\ req[r].asks.voucher =>
        lock[Voucher] = Checkout(r) /\ VoucherUsable(r)

(* The snapshot of the cart                                                *)
CartInv(r) ==
    LET c == cart[BuyerOf(r)] IN
    /\ req[r].stage \in Known =>
           req[r].version <= c.version /\ (req[r].version = c.version => c.lines = req[r].lines)
    /\ req[r].cleared \in {<<>>, req[r].lines}
    /\ req[r].stage # "done" => req[r].cleared = <<>>
    /\ req[r].answer = r => req[r].lines = order[r].lines

(* The lines reserved so far, each variant of them locked                  *)
LinesInv(r) ==
    /\ req[r].stage \in {"begin", "voucher"} => req[r].next = 1 /\ req[r].lines # <<>>
    /\ req[r].stage \in {"new", "snapshot"} => req[r].next = 1
    /\ req[r].stage = "lines" => req[r].next \in 1..Len(req[r].lines)
    /\ req[r].stage \in {"insert", "commit"} =>
           req[r].lines # <<>> /\ req[r].next = Len(req[r].lines) + 1
    /\ \A v \in Variants :
           /\ pend[Checkout(r)][v] = IF req[r].stage \in Reserving
                                     THEN Cardinality(UnitsBelow(req[r].lines, v, req[r].next))
                                     ELSE 0
           /\ pend[Checkout(r)][v] > 0 =>
                  /\ lock[v] = Checkout(r)
                  /\ row[v].active
                  /\ row[v].reserved + pend[Checkout(r)][v] <= row[v].stock

(* The cancellation of r has taken back the variants that are no longer in *)
(* its plan, each of them locked                                           *)
CancelInv(r) ==
    LET plan == cancel[r].plan
        mine == VariantsOf(order[r].lines) IN
    /\ order[r].state # "none" => order[r].lines # <<>>
    /\ cancel[r].stage # "idle" => order[r].state = "reserved"
    /\ cancel[r].stage = "release" => plan # <<>>
    /\ cancel[r].stage # "release" => plan = <<>>
    /\ \A i, j \in DOMAIN plan : i # j => plan[i] # plan[j]
    /\ \A v \in Variants :
           /\ pend[Cancellation(r)][v] =
                  IF cancel[r].stage # "idle" /\ v \in mine \ {plan[i] : i \in DOMAIN plan}
                  THEN -Cardinality(Units(order[r].lines, v)) ELSE 0
           /\ pend[Cancellation(r)][v] # 0 => lock[v] = Cancellation(r)
    /\ \A i \in DOMAIN plan : plan[i] \in mine
    /\ cancel[r].stage = "commit" /\ order[r].voucher => lock[Voucher] = Cancellation(r)

OneOrder == \A o, p \in Requests :
                KeyOf(o) = KeyOf(p) /\ order[o].state # "none" /\ order[p].state # "none" => o = p

ReqInv(r) == KeyInv(r) /\ HoldsVoucher(r) /\ CartInv(r) /\ LinesInv(r)

CheckoutInv == /\ \A r \in Requests : ReqInv(r) /\ CancelInv(r)
               /\ OneOrder
               /\ VoucherExact
               /\ InventoryExact

-----------------------------------------------------------------------------
(* Transactions and rows                                                   *)

LEMMA TxFacts ==
    /\ None \notin Tx /\ None \notin Requests
    /\ \A r \in Requests : Checkout(r) \in Tx /\ Cancellation(r) \in Tx
    /\ \A r, q \in Requests : /\ Checkout(r) = Checkout(q) => r = q
                              /\ Cancellation(r) = Cancellation(q) => r = q
                              /\ Checkout(r) # Cancellation(q)
  BY CheckoutAssumption DEF Tx, Checkout, Cancellation

LEMMA RowFacts ==
    /\ Voucher \in Rows /\ Variants \subseteq Rows /\ Keys \subseteq Rows
    /\ Voucher \notin Variants /\ Voucher \notin Keys /\ Variants \cap Keys = {}
  BY CheckoutAssumption DEF Rows

LEMMA ReqType ==
    ASSUME TypeOK, NEW r \in Requests
    PROVE  /\ req[r] \in Request /\ KeyOf(r) \in Keys /\ BuyerOf(r) \in Users
           /\ req[r].asks \in [key: Keys, voucher: BOOLEAN] /\ req[r].asks.voucher \in BOOLEAN
           /\ req[r].lines \in Seq(Line) /\ req[r].version \in Nat /\ req[r].next \in Nat
           /\ req[r].stage \in Stage
<1>1. req[r] \in Request
  BY DEF TypeOK
<1>2. req[r].asks \in [key: Keys, voucher: BOOLEAN]
  BY <1>1 DEF Request
<1>3. KeyOf(r) \in Keys
  BY <1>2 DEF KeyOf
<1>4. BuyerOf(r) \in Users
  BY <1>3, CheckoutAssumption DEF BuyerOf
<1> QED
  BY <1>1, <1>2, <1>3, <1>4 DEF Request

(* Request r becomes q, the others stay *)
LEMMA ReqSet ==
    ASSUME TypeOK, NEW r \in Requests, NEW q \in Request, req' = [req EXCEPT ![r] = q]
    PROVE  /\ req' \in [Requests -> Request]
           /\ \A x \in Requests : req'[x] = IF x = r THEN q ELSE req[x]
  BY DEF TypeOK

LEMMA FailedEffect ==
    ASSUME TypeOK, NEW r \in Requests, Failed(r)
    PROVE  \E q \in Request :
              /\ req' = [req EXCEPT ![r] = q]
              /\ q.asks = req[r].asks /\ q.stage = "failed" /\ q.answer = None
              /\ q.cleared = <<>> /\ q.lines = <<>>
<1> DEFINE q == [NewRequest(req[r].asks) EXCEPT !.stage = "failed"]
<1>1. req[r].asks \in [key: Keys, voucher: BOOLEAN]
  BY ReqType
<1>2. <<>> \in Seq(Line)
  BY EmptySeq
<1>3. q \in Request
  BY <1>1, <1>2 DEF NewRequest, Request, Stage, Ended
<1>4. /\ q.asks = req[r].asks /\ q.stage = "failed" /\ q.answer = None
      /\ q.cleared = <<>> /\ q.lines = <<>>
  BY DEF NewRequest
<1>5. req' = [req EXCEPT ![r] = q]
  BY DEF Failed
<1> QED
  BY <1>3, <1>4, <1>5

(* All but stage and answer is the same in p and q *)
Same(p, q) == /\ p.asks = q.asks /\ p.lines = q.lines /\ p.version = q.version
              /\ p.next = q.next /\ p.cleared = q.cleared

LEMMA ToEffect ==
    ASSUME TypeOK, NEW r \in Requests, NEW s \in Stage, To(r, s)
    PROVE  \E q \in Request :
              /\ req' = [req EXCEPT ![r] = q]
              /\ Same(q, req[r]) /\ q.stage = s /\ q.answer = req[r].answer
<1> DEFINE q == [req[r] EXCEPT !.stage = s]
<1>1. req[r] \in Request
  BY ReqType
<1>2. q \in Request
  BY <1>1 DEF Request
<1>3. Same(q, req[r]) /\ q.stage = s /\ q.answer = req[r].answer
  BY <1>1 DEF Request, Same
<1>4. req' = [req EXCEPT ![r] = q]
  BY DEF To
<1> QED
  BY <1>2, <1>3, <1>4

LEMMA AnswerEffect ==
    ASSUME TypeOK, NEW r \in Requests, NEW o \in Requests, NEW s \in Stage, Answer(r, o, s)
    PROVE  \E q \in Request :
              /\ req' = [req EXCEPT ![r] = q]
              /\ Same(q, req[r]) /\ q.stage = s /\ q.answer = o
<1> DEFINE q == [req[r] EXCEPT !.stage = s, !.answer = o]
<1>1. req[r] \in Request
  BY ReqType
<1>2. q \in Request
  BY <1>1 DEF Request
<1>3. Same(q, req[r]) /\ q.stage = s /\ q.answer = o
  BY <1>1 DEF Request, Same
<1>4. req' = [req EXCEPT ![r] = q]
  BY DEF Answer
<1> QED
  BY <1>2, <1>3, <1>4

(* Transaction t touches no lock and no pending change of another one *)
OwnLocks(t) ==
    /\ lock' \in [Rows -> Tx \cup {None}]
    /\ pend' \in [Tx -> [Variants -> Int]]
    /\ \A s \in Tx \ {t} : /\ pend'[s] = pend[s]
                           /\ \A x \in Rows : lock[x] = s => lock'[x] = s

LEMMA NoChangeType == NoChange \in [Variants -> Int] /\ \A v \in Variants : NoChange[v] = 0
  BY DEF NoChange

LEMMA EndEffect ==
    ASSUME TypeOK, NEW t \in Tx, End(t)
    PROVE  OwnLocks(t) /\ \A v \in Variants : pend'[t][v] = 0
<1>1. lock' \in [Rows -> Tx \cup {None}]
  BY DEF End, TypeOK
<1>2. pend' \in [Tx -> [Variants -> Int]] /\ pend'[t] = NoChange /\ \A s \in Tx \ {t} : pend'[s] = pend[s]
  BY NoChangeType DEF End, TypeOK
<1>3. \A s \in Tx \ {t} : \A x \in Rows : lock[x] = s => lock'[x] = s
  BY DEF End
<1> QED
  BY <1>1, <1>2, <1>3, NoChangeType DEF OwnLocks

LEMMA TakeEffect ==
    ASSUME TypeOK, NEW t \in Tx, NEW x \in Rows, Free(x, t), Take(x, t)
    PROVE  /\ lock' \in [Rows -> Tx \cup {None}]
           /\ lock'[x] = t
           /\ \A y \in Rows : lock[y] = t => lock'[y] = t
           /\ \A s \in Tx \ {t} : \A y \in Rows : lock[y] = s => lock'[y] = s
<1>1. lock' = [lock EXCEPT ![x] = t] /\ lock \in [Rows -> Tx \cup {None}]
  BY DEF Take, TypeOK
<1>2. \A y \in Rows : lock'[y] = IF y = x THEN t ELSE lock[y]
  BY <1>1
<1>3. \A s \in Tx \ {t} : lock[x] # s
  BY TxFacts DEF Free
<1> QED
  BY <1>1, <1>2, <1>3

LEMMA UnchangedLocks ==
    ASSUME TypeOK, UNCHANGED tx, NEW t
    PROVE  OwnLocks(t)
  BY DEF tx, OwnLocks, TypeOK

-----------------------------------------------------------------------------
(* What the steps of one transaction leave to the others                   *)

(* What transaction t relies on while others work *)
Rely(t) ==
    /\ pend'[t] = pend[t]
    /\ \A x \in Rows : lock[x] = t => lock'[x] = t
    /\ \A v \in Variants : lock[v] = t => row'[v] = row[v]
    /\ \A k \in Keys : lock[k] = t => PlacedWith(k)' = PlacedWith(k)
    /\ lock[Voucher] = t => used' = used /\ Usages' = Usages

(* What holds of every step *)
Frame ==
    /\ \A o \in Requests : /\ req'[o].asks = req[o].asks
                           /\ order[o].state # "none" => order'[o].state # "none"
    /\ \A u \in Users : cart'[u] = cart[u] \/ cart'[u].version = cart[u].version + 1

LEMMA Owners ==
    ASSUME \A o \in Requests : req'[o].asks = req[o].asks
    PROVE  \A o \in Requests : KeyOf(o)' = KeyOf(o) /\ BuyerOf(o)' = BuyerOf(o)
  BY DEF KeyOf, BuyerOf

LEMMA ReqFrame ==
    ASSUME TypeOK, NEW r \in Requests, ReqInv(r), Frame, Rely(Checkout(r)),
           req'[r] = req[r], order'[r].lines = order[r].lines,
           order'[r].state = "none" <=> order[r].state = "none"
    PROVE  ReqInv(r)'
<1> DEFINE t == Checkout(r)
           k == KeyOf(r)
           u == BuyerOf(r)
<1>1. /\ \A o \in Requests : KeyOf(o)' = KeyOf(o) /\ BuyerOf(o)' = BuyerOf(o)
      /\ k \in Keys /\ u \in Users /\ k \in Rows /\ Voucher \in Rows
  BY Owners, ReqType, RowFacts DEF Frame
<1>2. PlacedWith(k) \subseteq PlacedWith(k)'
  BY <1>1 DEF PlacedWith, Frame
<1>3. KeyInv(r)'
  BY <1>1, <1>2 DEF ReqInv, KeyInv, Rely
<1>4. HoldsVoucher(r)'
  <2>1. ASSUME req[r].stage \in Reserving, req[r].asks.voucher
        PROVE  lock'[Voucher] = t /\ VoucherUsable(r)'
    <3>1. lock[Voucher] = t /\ VoucherUsable(r)
      BY <2>1 DEF ReqInv, HoldsVoucher
    <3>2. lock'[Voucher] = t /\ used' = used /\ Usages' = Usages
      BY <1>1, <3>1 DEF Rely
    <3>3. {o \in Usages' : BuyerOf(o)' = BuyerOf(r)'} = {o \in Usages : BuyerOf(o) = BuyerOf(r)}
      BY <1>1, <3>2 DEF Usages
    <3> QED
      BY <3>1, <3>2, <3>3 DEF VoucherUsable
  <2> QED
    BY <2>1 DEF HoldsVoucher
<1>5. CartInv(r)'
  <2>1. cart[u].version \in Nat /\ req[r].version \in Nat
    BY <1>1, ReqType DEF TypeOK
  <2>2. cart'[u] = cart[u] \/ cart'[u].version = cart[u].version + 1
    BY <1>1 DEF Frame
  <2> QED
    BY <1>1, <2>1, <2>2 DEF ReqInv, CartInv
<1>6. LinesInv(r)'
  <2>1. pend'[t] = pend[t] /\ \A v \in Variants : lock[v] = t => lock'[v] = t /\ row'[v] = row[v]
    BY RowFacts DEF Rely
  <2> QED
    BY <2>1 DEF ReqInv, LinesInv
<1> QED
  BY <1>3, <1>4, <1>5, <1>6 DEF ReqInv

LEMMA CancelFrame ==
    ASSUME TypeOK, NEW r \in Requests, CancelInv(r), Rely(Cancellation(r)),
           cancel'[r] = cancel[r],
           \/ order'[r] = order[r]
           \/ cancel[r].stage = "idle" /\ order'[r].lines # <<>>
    PROVE  CancelInv(r)'
<1> DEFINE t == Cancellation(r)
<1>1. pend'[t] = pend[t] /\ \A v \in Variants : lock[v] = t => lock'[v] = t
  BY RowFacts DEF Rely
<1>2. lock[Voucher] = t => lock'[Voucher] = t
  BY RowFacts DEF Rely
<1>3. CASE order'[r] = order[r]
  BY <1>1, <1>2, <1>3 DEF CancelInv
<1>4. CASE cancel[r].stage = "idle" /\ order'[r].lines # <<>>
  <2>1. cancel[r].plan = <<>> /\ DOMAIN cancel[r].plan = {}
    BY <1>4 DEF CancelInv
  <2> QED
    BY <1>1, <1>4, <2>1 DEF CancelInv
<1> QED
  BY <1>3, <1>4

-----------------------------------------------------------------------------
(* Steps of a checkout that leave the orders and the stock alone           *)

LEMMA SameOrders ==
    ASSUME UNCHANGED order, \A o \in Requests : req'[o].asks = req[o].asks
    PROVE  /\ \A k \in Keys : PlacedWith(k)' = PlacedWith(k)
           /\ Usages' = Usages
           /\ \A v : Held(v)' = Held(v)
           /\ \A u : {o \in Usages' : BuyerOf(o)' = u} = {o \in Usages : BuyerOf(o) = u}
           /\ OneOrder => OneOrder'
<1>1. \A o \in Requests : KeyOf(o)' = KeyOf(o) /\ BuyerOf(o)' = BuyerOf(o)
  BY Owners
<1>2. \A k \in Keys : PlacedWith(k)' = PlacedWith(k)
  BY <1>1 DEF PlacedWith
<1>3. Usages' = Usages /\ Usages \subseteq Requests
  BY DEF Usages
<1>4. \A v : Held(v)' = Held(v)
  BY DEF Held
<1>5. \A u : {o \in Usages' : BuyerOf(o)' = u} = {o \in Usages : BuyerOf(o) = u}
  BY <1>1, <1>3
<1>6. OneOrder => OneOrder'
  BY <1>1 DEF OneOrder
<1> QED
  BY <1>2, <1>3, <1>4, <1>5, <1>6

LEMMA SameVoucher ==
    ASSUME UNCHANGED <<order, used>>, \A o \in Requests : req'[o].asks = req[o].asks, VoucherExact
    PROVE  VoucherExact'
  BY SameOrders DEF VoucherExact

LEMMA SameInventory ==
    ASSUME UNCHANGED <<order, row, stale>>, \A o \in Requests : req'[o].asks = req[o].asks,
           InventoryExact
    PROVE  InventoryExact'
  BY SameOrders DEF InventoryExact

(* Nobody else relies on what the step changes *)
LEMMA OthersRely ==
    ASSUME UNCHANGED goods, NEW t, OwnLocks(t), \A o \in Requests : req'[o].asks = req[o].asks,
           NEW s \in Tx \ {t}
    PROVE  Rely(s)
<1>1. UNCHANGED <<row, used, order>>
  BY DEF goods
<1> QED
  BY <1>1, SameOrders DEF OwnLocks, Rely

LEMMA CheckoutKeeps ==
    ASSUME TypeOK, CheckoutInv, NEW r \in Requests, UNCHANGED <<goods, cancel>>,
           OwnLocks(Checkout(r)), NEW q \in Request, req' = [req EXCEPT ![r] = q],
           q.asks = req[r].asks,
           cart' \in [Users -> [lines: Seq(Line), version: Nat]],
           \A u \in Users : cart'[u] = cart[u] \/ cart'[u].version = cart[u].version + 1,
           ReqInv(r)'
    PROVE  TypeOK' /\ CheckoutInv'
<1> DEFINE t == Checkout(r)
<1>1. /\ req' \in [Requests -> Request]
      /\ \A x \in Requests : req'[x] = IF x = r THEN q ELSE req[x]
  BY ReqSet
<1>2. \A o \in Requests : req'[o].asks = req[o].asks
  BY <1>1
<1>3. UNCHANGED <<row, used, order, removal, stale>>
  BY DEF goods
<1>4. TypeOK'
  BY <1>1, <1>3 DEF TypeOK, OwnLocks
<1>5. Frame
  BY <1>2, <1>3 DEF Frame
<1>6. \A s \in Tx \ {t} : Rely(s)
  BY <1>2, OthersRely
<1>7. ASSUME NEW x \in Requests
      PROVE  ReqInv(x)' /\ CancelInv(x)'
  <2>1. ReqInv(x) /\ CancelInv(x)
    BY DEF CheckoutInv
  <2>2. CancelInv(x)'
    BY <1>3, <1>6, <2>1, TxFacts, CancelFrame
  <2>3. CASE x = r
    BY <2>2, <2>3
  <2>4. CASE x # r
    <3>1. Rely(Checkout(x)) /\ req'[x] = req[x]
      BY <1>1, <1>6, <2>4, TxFacts
    <3> QED
      BY <1>3, <1>5, <2>1, <2>2, <3>1, ReqFrame
  <2> QED
    BY <2>3, <2>4
<1>8. OneOrder' /\ VoucherExact' /\ InventoryExact'
  BY <1>2, <1>3, SameOrders, SameVoucher, SameInventory DEF CheckoutInv
<1> QED
  BY <1>4, <1>7, <1>8 DEF CheckoutInv

(* A checkout that fails or stops leaves nothing behind *)
LEMMA FailedKeeps ==
    ASSUME TypeOK, CheckoutInv, NEW r \in Requests, UNCHANGED <<goods, cancel, cart>>,
           OwnLocks(Checkout(r)), \A v \in Variants : pend'[Checkout(r)][v] = 0, Failed(r)
    PROVE  TypeOK' /\ CheckoutInv'
<1>1. PICK q \in Request :
              /\ req' = [req EXCEPT ![r] = q]
              /\ q.asks = req[r].asks /\ q.stage = "failed" /\ q.answer = None
              /\ q.cleared = <<>> /\ q.lines = <<>>
  BY FailedEffect
<1>2. req'[r] = q
  BY <1>1, ReqSet
<1>3. KeyInv(r)' /\ HoldsVoucher(r)'
  BY <1>1, <1>2 DEF KeyInv, HoldsVoucher, Before, Reserving
<1>4. CartInv(r)'
  BY <1>1, <1>2, TxFacts DEF CartInv, Known
<1>5. LinesInv(r)'
  BY <1>1, <1>2 DEF LinesInv, Reserving
<1>6. cart' \in [Users -> [lines: Seq(Line), version: Nat]] /\ \A u \in Users : cart'[u] = cart[u]
  BY DEF TypeOK
<1>7. ReqInv(r)'
  BY <1>3, <1>4, <1>5 DEF ReqInv
<1> QED
  BY <1>1, <1>6, <1>7, CheckoutKeeps

(* What a request that has no transaction, or an idle one, has pending *)
LEMMA NothingPending ==
    ASSUME NEW r \in Requests, LinesInv(r), req[r].stage \notin Reserving
    PROVE  \A v \in Variants : pend[Checkout(r)][v] = 0
  BY DEF LinesInv

LEMMA UnitsBelowFirst ==
    ASSUME NEW lines \in Seq(Line), NEW v
    PROVE  UnitsBelow(lines, v, 1) = {}
<1>1. \A u \in Units(lines, v) : u[1] \in 1..Len(lines)
  BY LenProperties DEF Units
<1> QED
  BY <1>1 DEF UnitsBelow

(* A statement that leaves locks and reservations alone *)
LEMMA PlainKeeps ==
    ASSUME TypeOK, CheckoutInv, NEW r \in Requests, UNCHANGED <<goods, cart, tx, cancel>>,
           NEW q \in Request, req' = [req EXCEPT ![r] = q], q.asks = req[r].asks,
           ReqInv(r)'
    PROVE  TypeOK' /\ CheckoutInv'
<1>1. OwnLocks(Checkout(r))
  BY UnchangedLocks
<1>2. cart' \in [Users -> [lines: Seq(Line), version: Nat]] /\ \A u \in Users : cart'[u] = cart[u]
  BY DEF TypeOK
<1> QED
  BY <1>1, <1>2, CheckoutKeeps

(* The answer is an order of an earlier request *)
LEMMA AnsweredKeeps ==
    ASSUME TypeOK, CheckoutInv, NEW r \in Requests, UNCHANGED <<goods, cart, tx, cancel>>,
           NEW o \in PlacedWith(KeyOf(r)), NEW s \in {"clear", "done"},
           req[r].stage \in {"new", "begin", "recover"}, s = "clear" => req[r].stage = "begin",
           Answer(r, o, s)
    PROVE  TypeOK' /\ CheckoutInv'
<1>0. o \in Requests /\ s \in Stage
  BY DEF PlacedWith, Stage, Ended
<1>1. PICK q \in Request : /\ req' = [req EXCEPT ![r] = q]
                           /\ Same(q, req[r]) /\ q.stage = s /\ q.answer = o
  BY <1>0, AnswerEffect
<1>2. /\ req'[r] = q /\ q.asks = req[r].asks
      /\ \A x \in Requests : req'[x].asks = req[x].asks
  BY <1>1, ReqSet DEF Same
<1>3. ReqInv(r)
  BY DEF CheckoutInv
<1>4. UNCHANGED <<row, used, order, cart, lock, pend>>
  BY DEF goods, tx
<1>5. KeyOf(r)' = KeyOf(r) /\ BuyerOf(r)' = BuyerOf(r) /\ KeyOf(r) \in Keys
  BY <1>2, Owners, ReqType
<1>6. PlacedWith(KeyOf(r))' = PlacedWith(KeyOf(r))
  BY <1>2, <1>4, <1>5, SameOrders
<1>7. order[r].state = "none" /\ o # r
  BY <1>3 DEF ReqInv, KeyInv, Before, PlacedWith
<1>8. KeyInv(r)' /\ HoldsVoucher(r)'
  BY <1>1, <1>2, <1>6 DEF KeyInv, HoldsVoucher, Before, Reserving
<1>9. CartInv(r)'
  BY <1>1, <1>2, <1>3, <1>4, <1>5, <1>7 DEF ReqInv, CartInv, Known, Same
<1>10. LinesInv(r)'
  <2>1. \A v \in Variants : pend'[Checkout(r)][v] = 0
    BY <1>3, <1>4, NothingPending DEF ReqInv, Reserving
  <2> QED
    BY <1>1, <1>2, <2>1 DEF LinesInv, Reserving
<1>11. ReqInv(r)'
  BY <1>8, <1>9, <1>10 DEF ReqInv
<1> QED
  BY <1>1, <1>2, <1>11, PlainKeeps

(* What a statement that moves r to stage s keeps, besides its locks *)
LEMMA Moved ==
    ASSUME TypeOK, CheckoutInv, NEW r \in Requests, UNCHANGED <<goods, cart>>,
           NEW s \in Stage, To(r, s)
    PROVE  \E q \in Request :
              /\ req' = [req EXCEPT ![r] = q] /\ req'[r] = q
              /\ Same(q, req[r]) /\ q.asks = req[r].asks /\ q.stage = s
              /\ q.answer = req[r].answer
              /\ \A o \in Requests : req'[o].asks = req[o].asks
              /\ KeyOf(r)' = KeyOf(r) /\ BuyerOf(r)' = BuyerOf(r)
              /\ KeyOf(r) \in Keys /\ KeyOf(r) \in Rows
              /\ PlacedWith(KeyOf(r))' = PlacedWith(KeyOf(r))
              /\ VoucherUsable(r)' = VoucherUsable(r)
<1>1. PICK q \in Request : /\ req' = [req EXCEPT ![r] = q]
                           /\ Same(q, req[r]) /\ q.stage = s /\ q.answer = req[r].answer
  BY ToEffect
<1>2. /\ req'[r] = q /\ q.asks = req[r].asks
      /\ \A x \in Requests : req'[x].asks = req[x].asks
  BY <1>1, ReqSet DEF Same
<1>3. KeyOf(r)' = KeyOf(r) /\ BuyerOf(r)' = BuyerOf(r) /\ KeyOf(r) \in Keys /\ KeyOf(r) \in Rows
  BY <1>2, Owners, ReqType, RowFacts
<1>4. UNCHANGED <<used, order>>
  BY DEF goods
<1>5. PlacedWith(KeyOf(r))' = PlacedWith(KeyOf(r))
  BY <1>2, <1>3, <1>4, SameOrders
<1>6. {o \in Usages' : BuyerOf(o)' = BuyerOf(r)} = {o \in Usages : BuyerOf(o) = BuyerOf(r)}
  BY <1>2, <1>4, SameOrders
<1>7. VoucherUsable(r)' = VoucherUsable(r)
  BY <1>3, <1>4, <1>6 DEF VoucherUsable
<1> QED
  BY <1>1, <1>2, <1>3, <1>5, <1>7

LEMMA LookupKeeps ==
    ASSUME TypeOK, CheckoutInv, NEW r \in Requests, Lookup(r)
    PROVE  TypeOK' /\ CheckoutInv'
<1>1. CASE \E o \in PlacedWith(KeyOf(r)) : Answer(r, o, "done")
  BY <1>1, AnsweredKeeps DEF Lookup
<1>2. CASE To(r, "snapshot")
  <2>1. ReqInv(r) /\ UNCHANGED <<row, used, order, cart, lock, pend>> /\ req[r].stage = "new"
    BY DEF CheckoutInv, Lookup, goods, tx
  <2>2. "snapshot" \in Stage
    BY DEF Stage
  <2>3. PICK q \in Request :
              /\ req' = [req EXCEPT ![r] = q] /\ req'[r] = q
              /\ Same(q, req[r]) /\ q.asks = req[r].asks /\ q.stage = "snapshot"
              /\ q.answer = req[r].answer
              /\ KeyOf(r)' = KeyOf(r) /\ BuyerOf(r)' = BuyerOf(r)
    BY <1>2, <2>2, Moved DEF Lookup
  <2>4. KeyInv(r)' /\ HoldsVoucher(r)'
    BY <2>1, <2>3 DEF ReqInv, KeyInv, HoldsVoucher, Before, Reserving
  <2>5. CartInv(r)'
    BY <2>1, <2>3 DEF ReqInv, CartInv, Known, Same
  <2>6. LinesInv(r)'
    BY <2>1, <2>3 DEF ReqInv, LinesInv, Reserving, Same
  <2>7. ReqInv(r)'
    BY <2>4, <2>5, <2>6 DEF ReqInv
  <2> QED
    BY <2>3, <2>7, PlainKeeps DEF Lookup
<1> QED
  BY <1>1, <1>2 DEF Lookup

LEMMA BeginKeeps ==
    ASSUME TypeOK, CheckoutInv, NEW r \in Requests, Begin(r)
    PROVE  TypeOK' /\ CheckoutInv'
<1>1. CASE \E o \in PlacedWith(KeyOf(r)) : Answer(r, o, "clear")
  BY <1>1, AnsweredKeeps DEF Begin
<1> DEFINE s == IF req[r].asks.voucher THEN "voucher" ELSE "lines"
<1>2. CASE To(r, s)
  <2>1. ReqInv(r) /\ UNCHANGED <<row, used, order, cart, lock, pend>> /\ req[r].stage = "begin"
    BY DEF CheckoutInv, Begin, goods, tx
  <2>2. s \in Stage /\ s \in {"voucher", "lines"} /\ (s = "lines" => ~req[r].asks.voucher)
    BY DEF Stage
  <2> HIDE DEF s
  <2>3. PICK q \in Request :
              /\ req' = [req EXCEPT ![r] = q] /\ req'[r] = q
              /\ Same(q, req[r]) /\ q.asks = req[r].asks /\ q.stage = s
              /\ q.answer = req[r].answer
              /\ KeyOf(r)' = KeyOf(r) /\ BuyerOf(r)' = BuyerOf(r)
    BY <1>2, <2>2, Moved DEF Begin
  <2>4. KeyInv(r)' /\ HoldsVoucher(r)'
    BY <2>1, <2>2, <2>3 DEF ReqInv, KeyInv, HoldsVoucher, Before, Reserving
  <2>5. CartInv(r)'
    BY <2>1, <2>2, <2>3 DEF ReqInv, CartInv, Known, Same
  <2>6. LinesInv(r)'
    <3>1. q.lines = req[r].lines /\ q.next = 1 /\ q.lines # <<>> /\ q.lines \in Seq(Line)
      BY <2>1, <2>3, ReqType DEF ReqInv, LinesInv, Same
    <3>2. 1 \in 1..Len(q.lines)
      BY <3>1, LenProperties, EmptySeq
    <3>3. \A v \in Variants : pend'[Checkout(r)][v] = 0
      BY <2>1, NothingPending DEF ReqInv, Reserving
    <3>4. \A v \in Variants : Cardinality(UnitsBelow(q.lines, v, 1)) = 0
      BY <3>1, UnitsBelowFirst, FS_EmptySet
    <3> QED
      BY <2>2, <2>3, <3>1, <3>2, <3>3, <3>4 DEF LinesInv, Reserving
  <2>7. ReqInv(r)'
    BY <2>4, <2>5, <2>6 DEF ReqInv
  <2> QED
    BY <2>3, <2>7, PlainKeeps DEF Begin
<1> QED
  BY <1>1, <1>2 DEF Begin

LEMMA RecoverKeeps ==
    ASSUME TypeOK, CheckoutInv, NEW r \in Requests, Recover(r)
    PROVE  TypeOK' /\ CheckoutInv'
  BY AnsweredKeeps DEF Recover

LEMMA FailKeeps ==
    ASSUME TypeOK, CheckoutInv, NEW r \in Requests, Fail(r) \/ OutOfStock(r)
    PROVE  TypeOK' /\ CheckoutInv'
  BY TxFacts, EndEffect, FailedKeeps DEF Fail, OutOfStock

LEMMA SnapshotKeeps ==
    ASSUME TypeOK, CheckoutInv, NEW r \in Requests, Snapshot(r)
    PROVE  TypeOK' /\ CheckoutInv'
<1> DEFINE u == BuyerOf(r)
           c == cart[u]
           q == [req[r] EXCEPT !.stage = "begin", !.lines = c.lines, !.version = c.version + 1]
<1>1. ReqInv(r) /\ UNCHANGED <<row, used, order, lock, pend>> /\ req[r].stage = "snapshot"
  BY DEF CheckoutInv, Snapshot, goods, tx
<1>2. \A v \in Variants : pend'[Checkout(r)][v] = 0
  BY <1>1, NothingPending DEF ReqInv, Reserving
<1>3. OwnLocks(Checkout(r))
  BY UnchangedLocks DEF Snapshot
<1>4. CASE Failed(r) /\ UNCHANGED cart
  BY <1>2, <1>3, <1>4, FailedKeeps DEF Snapshot
<1>5. CASE /\ c.lines # <<>>
           /\ cart' = [cart EXCEPT ![u].version = @ + 1]
           /\ req' = [req EXCEPT ![r].stage = "begin", ![r].lines = c.lines,
                                 ![r].version = c.version + 1]
  <2>1. /\ u \in Users /\ req[r] \in Request /\ c \in [lines: Seq(Line), version: Nat]
        /\ cart \in [Users -> [lines: Seq(Line), version: Nat]]
    BY ReqType DEF TypeOK
  <2>2. c.lines \in Seq(Line) /\ c.version \in Nat
    BY <2>1
  <2> DEFINE d == [c EXCEPT !.version = @ + 1]
  <2>3. d \in [lines: Seq(Line), version: Nat] /\ d.version = c.version + 1 /\ d.lines = c.lines
    BY <2>1, <2>2
  <2>4. cart' = [cart EXCEPT ![u] = d]
    BY <1>5
  <2> HIDE DEF d
  <2>5. /\ cart' \in [Users -> [lines: Seq(Line), version: Nat]] /\ cart'[u] = d
        /\ \A x \in Users : cart'[x] = cart[x] \/ cart'[x].version = cart[x].version + 1
    BY <2>1, <2>3, <2>4
  <2>6. q \in Request
    <3> HIDE DEF c
    <3>1. c.version + 1 \in Nat /\ c.lines \in Seq(Line) /\ "begin" \in Stage
      BY <2>2 DEF Stage
    <3>2. req[r] \in Request
      BY <2>1
    <3> QED
      BY <3>1, <3>2 DEF Request
  <2>7. /\ q.stage = "begin" /\ q.lines = c.lines /\ q.version = c.version + 1
        /\ q.asks = req[r].asks /\ q.next = req[r].next /\ q.answer = req[r].answer
        /\ q.cleared = req[r].cleared
    BY <2>1 DEF Request
  <2>8. req' = [req EXCEPT ![r] = q]
    BY <1>5
  <2> HIDE DEF q
  <2>9. req'[r] = q /\ \A x \in Requests : req'[x].asks = req[x].asks
    BY <2>6, <2>7, <2>8, ReqSet
  <2>10. KeyOf(r)' = KeyOf(r) /\ BuyerOf(r)' = u
    BY <2>9, Owners
  <2>11. KeyInv(r)' /\ HoldsVoucher(r)'
    BY <1>1, <2>7, <2>9, <2>10 DEF ReqInv, KeyInv, HoldsVoucher, Before, Reserving
  <2>12. CartInv(r)'
    <3>1. q.cleared = <<>> /\ q.answer = None
      BY <1>1, <2>7 DEF ReqInv, CartInv, KeyInv
    <3>2. cart'[BuyerOf(r)'].version = q.version /\ cart'[BuyerOf(r)'].lines = q.lines /\ q.version \in Nat
      BY <2>2, <2>3, <2>5, <2>7, <2>10
    <3> QED
      BY <2>9, <3>1, <3>2, TxFacts DEF CartInv
  <2>13. LinesInv(r)'
    BY <1>1, <1>2, <1>5, <2>7, <2>9 DEF ReqInv, LinesInv, Reserving
  <2>14. ReqInv(r)'
    BY <2>11, <2>12, <2>13 DEF ReqInv
  <2> QED
    BY <1>3, <2>5, <2>6, <2>7, <2>8, <2>14, CheckoutKeeps DEF Snapshot
<1> QED
  BY <1>4, <1>5 DEF Snapshot

LEMMA ValidateVoucherKeeps ==
    ASSUME TypeOK, CheckoutInv, NEW r \in Requests, ValidateVoucher(r)
    PROVE  TypeOK' /\ CheckoutInv'
<1> DEFINE t == Checkout(r)
<1>1. CASE Failed(r) /\ End(t)
  BY <1>1, TxFacts, EndEffect, FailedKeeps DEF ValidateVoucher
<1>2. CASE VoucherUsable(r) /\ To(r, "lines") /\ Take(Voucher, t) /\ UNCHANGED pend
  <2>1. ReqInv(r) /\ UNCHANGED <<row, used, order, cart, pend>> /\ req[r].stage = "voucher"
    BY <1>2 DEF CheckoutInv, ValidateVoucher, goods
  <2>2. "lines" \in Stage
    BY DEF Stage
  <2>3. PICK q \in Request :
              /\ req' = [req EXCEPT ![r] = q] /\ req'[r] = q
              /\ Same(q, req[r]) /\ q.asks = req[r].asks /\ q.stage = "lines"
              /\ q.answer = req[r].answer
              /\ KeyOf(r)' = KeyOf(r) /\ BuyerOf(r)' = BuyerOf(r)
              /\ VoucherUsable(r)' = VoucherUsable(r)
    BY <1>2, <2>2, Moved DEF ValidateVoucher
  <2>4. OwnLocks(t) /\ lock'[Voucher] = t
    BY <1>2, TxFacts, RowFacts, TakeEffect DEF ValidateVoucher, OwnLocks, TypeOK
  <2>5. KeyInv(r)' /\ HoldsVoucher(r)'
    BY <1>2, <2>1, <2>3, <2>4 DEF ReqInv, KeyInv, HoldsVoucher, Before, Reserving
  <2>6. CartInv(r)'
    BY <2>1, <2>3 DEF ReqInv, CartInv, Known, Same
  <2>7. LinesInv(r)'
    <3>1. q.lines = req[r].lines /\ q.next = 1 /\ q.lines # <<>> /\ q.lines \in Seq(Line)
      BY <2>1, <2>3, ReqType DEF ReqInv, LinesInv, Same
    <3>2. 1 \in 1..Len(q.lines)
      BY <3>1, LenProperties, EmptySeq
    <3>3. \A v \in Variants : pend'[t][v] = 0
      BY <2>1, NothingPending DEF ReqInv, Reserving
    <3>4. \A v \in Variants : Cardinality(UnitsBelow(q.lines, v, 1)) = 0
      BY <3>1, UnitsBelowFirst, FS_EmptySet
    <3> QED
      BY <2>3, <3>1, <3>2, <3>3, <3>4 DEF LinesInv, Reserving
  <2>8. ReqInv(r)'
    BY <2>5, <2>6, <2>7 DEF ReqInv
  <2>9. cart' \in [Users -> [lines: Seq(Line), version: Nat]] /\ \A u \in Users : cart'[u] = cart[u]
    BY <2>1 DEF TypeOK
  <2> QED
    BY <2>3, <2>4, <2>8, <2>9, CheckoutKeeps DEF ValidateVoucher
<1> QED
  BY <1>1, <1>2 DEF ValidateVoucher

LEMMA InsertOrderKeeps ==
    ASSUME TypeOK, CheckoutInv, NEW r \in Requests, InsertOrder(r)
    PROVE  TypeOK' /\ CheckoutInv'
<1> DEFINE t == Checkout(r)
           k == KeyOf(r)
<1>1. ReqInv(r) /\ UNCHANGED <<row, used, order, cart>> /\ req[r].stage = "insert"
  BY DEF CheckoutInv, InsertOrder, goods
<1>2. cart' \in [Users -> [lines: Seq(Line), version: Nat]] /\ \A u \in Users : cart'[u] = cart[u]
  BY <1>1 DEF TypeOK
<1>3. CASE To(r, "recover") /\ End(t)
  <2>1. "recover" \in Stage
    BY DEF Stage
  <2>2. PICK q \in Request :
              /\ req' = [req EXCEPT ![r] = q] /\ req'[r] = q
              /\ Same(q, req[r]) /\ q.asks = req[r].asks /\ q.stage = "recover"
              /\ q.answer = req[r].answer
              /\ KeyOf(r)' = KeyOf(r) /\ BuyerOf(r)' = BuyerOf(r)
    BY <1>3, <2>1, Moved DEF InsertOrder
  <2>3. OwnLocks(t) /\ \A v \in Variants : pend'[t][v] = 0
    BY <1>3, TxFacts, EndEffect
  <2>4. KeyInv(r)' /\ HoldsVoucher(r)'
    BY <1>1, <2>2 DEF ReqInv, KeyInv, HoldsVoucher, Before, Reserving
  <2>5. CartInv(r)'
    BY <1>1, <2>2 DEF ReqInv, CartInv, Known, Same
  <2>6. LinesInv(r)'
    BY <2>2, <2>3 DEF LinesInv, Reserving
  <2>7. ReqInv(r)'
    BY <2>4, <2>5, <2>6 DEF ReqInv
  <2> QED
    BY <1>2, <2>2, <2>3, <2>7, CheckoutKeeps DEF InsertOrder
<1>4. CASE PlacedWith(k) = {} /\ To(r, "commit") /\ Take(k, t) /\ UNCHANGED pend
  <2>1. "commit" \in Stage
    BY DEF Stage
  <2>2. PICK q \in Request :
              /\ req' = [req EXCEPT ![r] = q] /\ req'[r] = q
              /\ Same(q, req[r]) /\ q.asks = req[r].asks /\ q.stage = "commit"
              /\ q.answer = req[r].answer
              /\ KeyOf(r)' = KeyOf(r) /\ BuyerOf(r)' = BuyerOf(r)
              /\ KeyOf(r) \in Keys /\ KeyOf(r) \in Rows
              /\ PlacedWith(KeyOf(r))' = PlacedWith(KeyOf(r))
              /\ VoucherUsable(r)' = VoucherUsable(r)
    BY <1>4, <2>1, Moved DEF InsertOrder
  <2>3. /\ OwnLocks(t) /\ lock'[k] = t
        /\ \A x \in Rows : lock[x] = t => lock'[x] = t
    BY <1>4, <2>2, TxFacts, TakeEffect DEF InsertOrder, OwnLocks, TypeOK
  <2>4. KeyInv(r)'
    BY <1>1, <1>4, <2>2, <2>3 DEF ReqInv, KeyInv, Before
  <2>5. HoldsVoucher(r)'
    BY <1>1, <2>2, <2>3, RowFacts DEF ReqInv, HoldsVoucher, Reserving
  <2>6. CartInv(r)'
    BY <1>1, <2>2 DEF ReqInv, CartInv, Known, Same
  <2>7. LinesInv(r)'
    <3>1. q.lines = req[r].lines /\ q.next = req[r].next
      BY <2>2 DEF Same
    <3>2. \A v \in Variants : lock[v] = t => lock'[v] = t
      BY <2>3, RowFacts
    <3> QED
      BY <1>1, <1>4, <2>2, <3>1, <3>2 DEF ReqInv, LinesInv, Reserving
  <2>8. ReqInv(r)'
    BY <2>4, <2>5, <2>6, <2>7 DEF ReqInv
  <2> QED
    BY <1>2, <2>2, <2>3, <2>8, CheckoutKeeps DEF InsertOrder
<1> QED
  BY <1>3, <1>4 DEF InsertOrder

LEMMA ClearCartKeeps ==
    ASSUME TypeOK, CheckoutInv, NEW r \in Requests, ClearCart(r)
    PROVE  TypeOK' /\ CheckoutInv'
<1> DEFINE u == BuyerOf(r)
           c == cart[u]
           q == [req[r] EXCEPT !.stage = "done", !.cleared = c.lines]
<1>1. ReqInv(r) /\ UNCHANGED <<row, used, order, lock, pend>> /\ req[r].stage = "clear"
  BY DEF CheckoutInv, ClearCart, goods, tx
<1>2. \A v \in Variants : pend'[Checkout(r)][v] = 0
  BY <1>1, NothingPending DEF ReqInv, Reserving
<1>3. OwnLocks(Checkout(r))
  BY UnchangedLocks DEF ClearCart
<1>4. CASE To(r, "done") /\ UNCHANGED cart
  <2>1. "done" \in Stage
    BY DEF Stage, Ended
  <2>2. PICK p \in Request :
              /\ req' = [req EXCEPT ![r] = p] /\ req'[r] = p
              /\ Same(p, req[r]) /\ p.asks = req[r].asks /\ p.stage = "done"
              /\ p.answer = req[r].answer
              /\ KeyOf(r)' = KeyOf(r) /\ BuyerOf(r)' = BuyerOf(r)
              /\ PlacedWith(KeyOf(r))' = PlacedWith(KeyOf(r))
    BY <1>4, <2>1, Moved DEF ClearCart
  <2>3. KeyInv(r)' /\ HoldsVoucher(r)'
    BY <1>1, <2>2 DEF ReqInv, KeyInv, HoldsVoucher, Before, Reserving
  <2>4. CartInv(r)'
    BY <1>1, <2>2 DEF ReqInv, CartInv, Known, Same
  <2>5. LinesInv(r)'
    BY <1>2, <2>2 DEF LinesInv, Reserving
  <2>6. ReqInv(r)'
    BY <2>3, <2>4, <2>5 DEF ReqInv
  <2> QED
    BY <1>4, <2>2, <2>6, PlainKeeps DEF ClearCart
<1>5. CASE /\ c.version = req[r].version
           /\ cart' = [cart EXCEPT ![u] = [lines |-> <<>>, version |-> @.version + 1]]
           /\ req' = [req EXCEPT ![r].stage = "done", ![r].cleared = c.lines]
  <2>1. /\ u \in Users /\ req[r] \in Request /\ c \in [lines: Seq(Line), version: Nat]
        /\ cart \in [Users -> [lines: Seq(Line), version: Nat]] /\ <<>> \in Seq(Line)
    BY ReqType, EmptySeq DEF TypeOK
  <2>2. c.lines \in Seq(Line) /\ c.version \in Nat
    BY <2>1
  <2>3. /\ cart' \in [Users -> [lines: Seq(Line), version: Nat]]
        /\ \A x \in Users : cart'[x] = cart[x] \/ cart'[x].version = cart[x].version + 1
    <3> DEFINE d == [lines |-> <<>>, version |-> c.version + 1]
    <3>1. d \in [lines: Seq(Line), version: Nat] /\ d.version = c.version + 1
      BY <2>1, <2>2
    <3>2. cart' = [cart EXCEPT ![u] = d]
      BY <1>5
    <3> HIDE DEF d
    <3> QED
      BY <2>1, <3>1, <3>2
  <2>4. q \in Request
    BY <2>1, <2>2 DEF Request, Stage, Ended
  <2>5. /\ q.stage = "done" /\ q.lines = req[r].lines /\ q.cleared = c.lines
        /\ q.asks = req[r].asks /\ q.answer = req[r].answer
    BY <2>1 DEF Request
  <2>6. req' = [req EXCEPT ![r] = q]
    BY <1>5
  <2> HIDE DEF q
  <2>7. req'[r] = q /\ \A x \in Requests : req'[x].asks = req[x].asks
    BY <2>4, <2>5, <2>6, ReqSet
  <2>8. KeyOf(r)' = KeyOf(r) /\ KeyOf(r) \in Keys /\ PlacedWith(KeyOf(r))' = PlacedWith(KeyOf(r))
    BY <1>1, <2>7, Owners, SameOrders, ReqType
  <2>9. KeyInv(r)' /\ HoldsVoucher(r)'
    BY <1>1, <2>5, <2>7, <2>8 DEF ReqInv, KeyInv, HoldsVoucher, Before, Reserving
  <2>10. CartInv(r)'
    <3>1. c.lines = req[r].lines /\ (req[r].answer = r => req[r].lines = order[r].lines)
      BY <1>1, <1>5 DEF ReqInv, CartInv, Known
    <3> QED
      BY <1>1, <2>5, <2>7, <3>1 DEF CartInv, Known
  <2>11. LinesInv(r)'
    BY <1>2, <2>5, <2>7 DEF LinesInv, Reserving
  <2>12. ReqInv(r)'
    BY <2>9, <2>10, <2>11 DEF ReqInv
  <2> QED
    BY <1>3, <2>3, <2>4, <2>5, <2>6, <2>12, CheckoutKeeps DEF ClearCart
<1> QED
  BY <1>4, <1>5 DEF ClearCart

-----------------------------------------------------------------------------
(* Units of the lines of an order                                          *)

LEMMA LineFacts ==
    ASSUME NEW lines \in Seq(Line)
    PROVE  /\ DOMAIN lines = 1..Len(lines) /\ Len(lines) \in Nat
           /\ \A i \in DOMAIN lines : /\ lines[i].variant \in Variants
                                      /\ lines[i].quantity \in 1..MaxQuantity
                                      /\ lines[i].quantity \in Nat /\ lines[i].quantity > 0
<1>1. DOMAIN lines = 1..Len(lines) /\ Len(lines) \in Nat /\ MaxQuantity \in Nat
  BY LenProperties, CheckoutAssumption
<1>2. \A i \in DOMAIN lines : lines[i] \in Line
  BY <1>1, ElementOfSeq
<1> QED
  BY <1>1, <1>2 DEF Line

LEMMA UnitsFinite ==
    ASSUME NEW lines \in Seq(Line), NEW v
    PROVE  /\ IsFiniteSet(Units(lines, v)) /\ Cardinality(Units(lines, v)) \in Nat
           /\ \A n : /\ IsFiniteSet(UnitsBelow(lines, v, n))
                     /\ Cardinality(UnitsBelow(lines, v, n)) \in Nat
<1>1. IsFiniteSet(DOMAIN lines) /\ IsFiniteSet(1..MaxQuantity)
  BY LineFacts, CheckoutAssumption, FS_Interval
<1>2. IsFiniteSet((DOMAIN lines) \X (1..MaxQuantity))
  BY <1>1, FS_Product
<1>3. Units(lines, v) \in SUBSET ((DOMAIN lines) \X (1..MaxQuantity))
  BY DEF Units
<1>4. IsFiniteSet(Units(lines, v))
  BY <1>2, <1>3, FS_Subset
<1>5. \A n : UnitsBelow(lines, v, n) \in SUBSET Units(lines, v)
  BY DEF UnitsBelow
<1>6. \A n : IsFiniteSet(UnitsBelow(lines, v, n))
  BY <1>4, <1>5, FS_Subset
<1> QED
  BY <1>4, <1>6, FS_CardinalityType

(* The units of line n are added, if it is a line of v *)
LEMMA UnitsAdded ==
    ASSUME NEW lines \in Seq(Line), NEW v, NEW n \in 1..Len(lines)
    PROVE  Cardinality(UnitsBelow(lines, v, n + 1)) =
               Cardinality(UnitsBelow(lines, v, n))
               + IF lines[n].variant = v THEN lines[n].quantity ELSE 0
<1> DEFINE A == UnitsBelow(lines, v, n)
           a == lines[n].quantity
           B == {n} \X (1..a)
<1>1. /\ n \in DOMAIN lines /\ DOMAIN lines = 1..Len(lines) /\ n \in Nat
      /\ a \in 1..MaxQuantity /\ a \in Nat /\ a > 0
  BY LineFacts
<1>2. \A u \in Units(lines, v) : u[1] \in Nat /\ u = <<u[1], u[2]>>
  BY <1>1 DEF Units
<1>3. IsFiniteSet(A) /\ Cardinality(A) \in Nat
  BY UnitsFinite
<1>4. CASE lines[n].variant = v
  <2>1. IsFiniteSet({n}) /\ Cardinality({n}) = 1
    BY FS_Singleton
  <2>2. IsFiniteSet(1..a) /\ Cardinality(1..a) = a
    <3> HIDE DEF a
    <3>1. a \in Int /\ 1 \in Int /\ a >= 1
      BY <1>1
    <3> QED
      BY <3>1, FS_Interval
  <2>3. IsFiniteSet(B) /\ Cardinality(B) = 1 * a
    BY <2>1, <2>2, FS_Product
  <2>4. A \cap B = {}
    BY <1>1 DEF UnitsBelow
  <2>5. B \subseteq Units(lines, v)
    BY <1>1, <1>4, CheckoutAssumption DEF Units
  <2>6. \A u \in Units(lines, v) : u[1] = n => u \in B
    BY <1>1, <1>2 DEF Units
  <2>7. \A u \in B : u[1] = n
    OBVIOUS
  <2>8. \A u \in Units(lines, v) : u[1] < n + 1 <=> u[1] < n \/ u[1] = n
    BY <1>1, <1>2
  <2> HIDE DEF B
  <2>9. UnitsBelow(lines, v, n + 1) = A \cup B
    BY <2>5, <2>6, <2>7, <2>8 DEF UnitsBelow
  <2> QED
    <3> HIDE DEF A, a
    <3>1. Cardinality(A \cup B) = Cardinality(A) + Cardinality(B) - Cardinality({})
      BY <1>3, <2>3, <2>4, FS_Union
    <3>2. Cardinality(A \cup B) = Cardinality(A) + a
      BY <1>1, <1>3, <2>3, <3>1, FS_EmptySet
    <3> QED
      BY <1>4, <2>9, <3>2 DEF A, a
<1>5. CASE lines[n].variant # v
  <2>1. \A u \in Units(lines, v) : u[1] # n
    BY <1>5 DEF Units
  <2>2. \A u \in Units(lines, v) : u[1] < n + 1 <=> u[1] < n
    BY <1>1, <1>2, <2>1
  <2>3. UnitsBelow(lines, v, n + 1) = A
    BY <2>2 DEF UnitsBelow
  <2> QED
    BY <1>3, <1>5, <2>3
<1> QED
  BY <1>4, <1>5

LEMMA UnitsAll ==
    ASSUME NEW lines \in Seq(Line), NEW v
    PROVE  UnitsBelow(lines, v, Len(lines) + 1) = Units(lines, v)
<1>1. \A u \in Units(lines, v) : u[1] \in 1..Len(lines)
  BY LineFacts DEF Units
<1>2. \A u \in Units(lines, v) : u[1] < Len(lines) + 1
  BY <1>1, LineFacts
<1> QED
  BY <1>2 DEF UnitsBelow

LEMMA ReserveLineKeeps ==
    ASSUME TypeOK, CheckoutInv, NEW r \in Requests, ReserveLine(r)
    PROVE  TypeOK' /\ CheckoutInv'
<1> DEFINE t == Checkout(r)
           n == req[r].next
           lines == req[r].lines
           l == lines[n]
           s == IF n = Len(lines) THEN "insert" ELSE "lines"
           q == [req[r] EXCEPT !.next = @ + 1, !.stage = s]
<1>1. /\ ReqInv(r) /\ UNCHANGED <<row, used, order, cart>> /\ req[r].stage = "lines"
      /\ Enough(r, l) /\ Free(l.variant, t) /\ Take(l.variant, t)
      /\ pend' = [pend EXCEPT ![t][l.variant] = @ + l.quantity]
  BY DEF CheckoutInv, ReserveLine, goods
<1>2. /\ req[r] \in Request /\ lines \in Seq(Line) /\ n \in Nat /\ t \in Tx
      /\ n \in 1..Len(lines) /\ Len(lines) \in Nat
  BY <1>1, ReqType, TxFacts, LineFacts DEF ReqInv, LinesInv
<1>3. l.variant \in Variants /\ l.variant \in Rows /\ l.quantity \in Nat /\ l.quantity > 0
  BY <1>2, LineFacts, RowFacts
<1>4. s \in Stage /\ s \in {"insert", "lines"}
  BY DEF Stage
<1>5. q \in Request
  <2> HIDE DEF s
  <2>1. n + 1 \in Nat /\ s \in Stage /\ req[r] \in Request
    BY <1>2, <1>4
  <2> QED
    BY <2>1 DEF Request
<1>6. /\ q.stage = s /\ q.lines = lines /\ q.next = n + 1 /\ q.version = req[r].version
      /\ q.asks = req[r].asks /\ q.answer = req[r].answer /\ q.cleared = req[r].cleared
  BY <1>2 DEF Request
<1>7. req' = [req EXCEPT ![r] = q]
  BY DEF ReserveLine
<1> HIDE DEF q
<1>8. req'[r] = q /\ \A x \in Requests : req'[x].asks = req[x].asks
  BY <1>5, <1>6, <1>7, ReqSet
<1>9. /\ lock' \in [Rows -> Tx \cup {None}] /\ lock'[l.variant] = t
      /\ \A x \in Rows : lock[x] = t => lock'[x] = t
      /\ \A w \in Tx \ {t} : \A x \in Rows : lock[x] = w => lock'[x] = w
  BY <1>1, <1>2, <1>3, TakeEffect
<1>10. /\ pend' \in [Tx -> [Variants -> Int]] /\ \A w \in Tx \ {t} : pend'[w] = pend[w]
       /\ \A v \in Variants : pend'[t][v] = IF v = l.variant THEN pend[t][v] + l.quantity ELSE pend[t][v]
       /\ pend[t] \in [Variants -> Int]
  <2> HIDE DEF t, l
  <2>1. pend \in [Tx -> [Variants -> Int]]
    BY DEF TypeOK
  <2> QED
    BY <1>1, <1>2, <1>3, <2>1
<1>11. OwnLocks(t)
  BY <1>9, <1>10 DEF OwnLocks
<1>12. KeyOf(r)' = KeyOf(r) /\ BuyerOf(r)' = BuyerOf(r)
  BY <1>8, Owners
<1>13. KeyInv(r)'
  BY <1>1, <1>4, <1>6, <1>8 DEF ReqInv, KeyInv, Before
<1>14. HoldsVoucher(r)'
  <2>1. {o \in Usages' : BuyerOf(o)' = BuyerOf(r)} = {o \in Usages : BuyerOf(o) = BuyerOf(r)}
    BY <1>1, <1>8, SameOrders
  <2>2. VoucherUsable(r)' = VoucherUsable(r)
    BY <1>1, <1>12, <2>1 DEF VoucherUsable
  <2> QED
    BY <1>1, <1>6, <1>8, <1>9, <2>2, RowFacts DEF ReqInv, HoldsVoucher, Reserving
<1>15. CartInv(r)'
  <2>1. req[r].stage \in Known /\ s # "done" /\ req[r].stage # "done"
    BY <1>1 DEF Known
  <2> QED
    BY <1>1, <1>6, <1>8, <1>12, <2>1 DEF ReqInv, CartInv
<1>16. LinesInv(r)'
  <2>1. /\ s = "lines" => n + 1 \in 1..Len(lines)
        /\ s = "insert" => n + 1 = Len(lines) + 1 /\ lines # <<>>
    BY <1>2, EmptySeq
  <2>2. ASSUME NEW v \in Variants
        PROVE  /\ pend'[t][v] = Cardinality(UnitsBelow(lines, v, n + 1))
               /\ pend'[t][v] > 0 => /\ lock'[v] = t
                                     /\ row'[v].active
                                     /\ row'[v].reserved + pend'[t][v] <= row'[v].stock
    <3>1. /\ pend[t][v] = Cardinality(UnitsBelow(lines, v, n))
          /\ pend[t][v] > 0 => /\ lock[v] = t
                               /\ row[v].active
                               /\ row[v].reserved + pend[t][v] <= row[v].stock
      BY <1>1 DEF ReqInv, LinesInv, Reserving
    <3>2. pend'[t][v] = Cardinality(UnitsBelow(lines, v, n + 1))
      BY <1>2, <1>3, <1>10, <3>1, UnitsAdded, UnitsFinite
    <3>3. CASE v # l.variant
      BY <1>1, <1>9, <1>10, <3>1, <3>2, <3>3, RowFacts
    <3>4. CASE v = l.variant
      <4>1. row[v] \in VariantRow
        BY DEF TypeOK
      <4>2. row[v].reserved \in Int /\ row[v].stock \in Int
        BY <4>1 DEF VariantRow
      <4>3. pend[t][v] \in Int
        BY <1>10
      <4>4. row[v].active /\ row[v].stock - (row[v].reserved + pend[t][v]) >= l.quantity
        BY <1>1, <3>4 DEF Enough
      <4>5. lock'[v] = t /\ row'[v] = row[v] /\ pend'[t][v] = pend[t][v] + l.quantity
        BY <1>1, <1>9, <1>10, <3>4
      <4> HIDE DEF t, l
      <4>6. row[v].reserved + (pend[t][v] + l.quantity) <= row[v].stock
        BY <1>3, <4>2, <4>3, <4>4
      <4> QED
        BY <3>2, <4>4, <4>5, <4>6
    <3> QED
      BY <3>3, <3>4
  <2> QED
    BY <1>4, <1>6, <1>8, <2>1, <2>2 DEF LinesInv, Reserving
<1>17. ReqInv(r)'
  BY <1>13, <1>14, <1>15, <1>16 DEF ReqInv
<1>18. cart' \in [Users -> [lines: Seq(Line), version: Nat]] /\ \A u \in Users : cart'[u] = cart[u]
  BY <1>1 DEF TypeOK
<1> QED
  BY <1>5, <1>6, <1>7, <1>11, <1>17, <1>18, CheckoutKeeps DEF ReserveLine

-----------------------------------------------------------------------------
(* Steps of a cancellation before its commit                               *)

CancelRecord == [stage: {"idle", "release", "voucher", "commit"}, plan: Seq(Variants)]

LEMMA CancelType ==
    ASSUME TypeOK, NEW r \in Requests
    PROVE  /\ cancel \in [Requests -> CancelRecord]
           /\ cancel[r] \in CancelRecord /\ cancel[r].plan \in Seq(Variants)
           /\ cancel[r].stage \in {"idle", "release", "voucher", "commit"}
           /\ order[r] \in Order /\ order[r].lines \in Seq(Line) /\ order[r].voucher \in BOOLEAN
<1>1. cancel \in [Requests -> CancelRecord] /\ order[r] \in Order
  BY DEF TypeOK, CancelRecord
<1>2. cancel[r] \in CancelRecord
  BY <1>1
<1> QED
  BY <1>1, <1>2 DEF CancelRecord, Order

LEMMA CancelKeeps ==
    ASSUME TypeOK, CheckoutInv, NEW r \in Requests, UNCHANGED <<goods, cart, req>>,
           OwnLocks(Cancellation(r)), NEW c \in CancelRecord, cancel' = [cancel EXCEPT ![r] = c],
           CancelInv(r)'
    PROVE  TypeOK' /\ CheckoutInv'
<1> DEFINE t == Cancellation(r)
<1>1. /\ cancel' \in [Requests -> CancelRecord]
      /\ \A x \in Requests : cancel'[x] = IF x = r THEN c ELSE cancel[x]
  BY CancelType
<1>2. \A o \in Requests : req'[o].asks = req[o].asks
  OBVIOUS
<1>3. UNCHANGED <<row, used, order, removal, stale>>
  BY DEF goods
<1>4. TypeOK'
  BY <1>1, <1>3 DEF TypeOK, OwnLocks, CancelRecord
<1>5. Frame
  BY <1>2, <1>3 DEF Frame
<1>6. \A s \in Tx \ {t} : Rely(s)
  BY <1>2, OthersRely
<1>7. ASSUME NEW x \in Requests
      PROVE  ReqInv(x)' /\ CancelInv(x)'
  <2>1. ReqInv(x) /\ CancelInv(x)
    BY DEF CheckoutInv
  <2>2. ReqInv(x)'
    BY <1>3, <1>5, <1>6, <2>1, TxFacts, ReqFrame
  <2>3. CASE x = r
    BY <2>2, <2>3
  <2>4. CASE x # r
    <3>1. Rely(Cancellation(x)) /\ cancel'[x] = cancel[x]
      BY <1>1, <1>6, <2>4, TxFacts
    <3> QED
      BY <1>3, <2>1, <2>2, <3>1, CancelFrame
  <2> QED
    BY <2>3, <2>4
<1>8. OneOrder' /\ VoucherExact' /\ InventoryExact'
  BY <1>2, <1>3, SameOrders, SameVoucher, SameInventory DEF CheckoutInv
<1> QED
  BY <1>4, <1>7, <1>8 DEF CheckoutInv

LEMMA NoCancelType ==
    /\ NoCancel \in CancelRecord /\ NoCancel.stage = "idle" /\ NoCancel.plan = <<>>
    /\ DOMAIN NoCancel.plan = {}
  BY EmptySeq DEF NoCancel, CancelRecord

(* A cancellation that stops leaves nothing behind *)
LEMMA CancelStops ==
    ASSUME TypeOK, CheckoutInv, NEW r \in Requests, CancelFail(r) \/ CancelInconsistent(r)
    PROVE  TypeOK' /\ CheckoutInv'
<1>1. /\ UNCHANGED <<goods, cart, req>> /\ End(Cancellation(r))
      /\ cancel' = [cancel EXCEPT ![r] = NoCancel]
  BY DEF CancelFail, CancelInconsistent
<1>2. OwnLocks(Cancellation(r)) /\ \A v \in Variants : pend'[Cancellation(r)][v] = 0
  BY <1>1, TxFacts, EndEffect
<1>3. cancel'[r] = NoCancel
  BY <1>1, CancelType
<1>4. order' = order /\ CancelInv(r)
  BY <1>1 DEF goods, CheckoutInv
<1>5. CancelInv(r)'
  BY <1>2, <1>3, <1>4, NoCancelType DEF CancelInv
<1> QED
  BY <1>1, <1>2, <1>5, NoCancelType, CancelKeeps

(* A plan lists every member of the set once *)
LEMMA PlanFacts ==
    ASSUME NEW S, IsFiniteSet(S), NEW plan \in SetToSeqs(S)
    PROVE  /\ plan \in Seq(S) /\ DOMAIN plan = 1..Cardinality(S)
           /\ \A i, j \in DOMAIN plan : i # j => plan[i] # plan[j]
           /\ {plan[i] : i \in DOMAIN plan} = S
<1> DEFINE n == Cardinality(S)
<1>1. n \in Nat
  BY FS_CardinalityType
<1>2. plan \in [1..n -> S] /\ \A i, j \in 1..n : i # j => plan[i] # plan[j]
  BY DEF SetToSeqs
<1>3. IsFiniteSet(1..n) /\ Cardinality(1..n) = n
  BY <1>1, FS_Interval
<1>4. plan \in Injection(1..n, S)
  BY <1>2, Fun_IsInj
<1>5. plan \in Surjection(1..n, S)
  BY <1>3, <1>4, FS_Injection
<1>6. \A x \in S : \E i \in 1..n : plan[i] = x
  BY <1>5 DEF Surjection
<1>7. plan \in Seq(S) /\ DOMAIN plan = 1..n
  <2>1. DOMAIN plan = 1..n
    BY <1>2
  <2> HIDE DEF n
  <2> QED
    BY <1>1, <1>2, <2>1
<1> QED
  BY <1>2, <1>6, <1>7

LEMMA VariantsOfFinite ==
    ASSUME NEW lines \in Seq(Line)
    PROVE  /\ VariantsOf(lines) \subseteq Variants /\ IsFiniteSet(VariantsOf(lines))
           /\ lines # <<>> => VariantsOf(lines) # {}
<1>1. VariantsOf(lines) \subseteq Variants
  BY LineFacts DEF VariantsOf
<1>2. lines # <<>> => 1 \in DOMAIN lines
  BY LineFacts, EmptySeq
<1>3. lines # <<>> => VariantsOf(lines) # {}
  BY <1>2 DEF VariantsOf
<1>4. VariantsOf(lines) \in SUBSET Variants /\ IsFiniteSet(Variants)
  BY <1>1, CheckoutAssumption
<1>5. IsFiniteSet(VariantsOf(lines))
  BY <1>4, FS_Subset
<1> QED
  BY <1>1, <1>3, <1>5

LEMMA CancelBeginKeeps ==
    ASSUME TypeOK, CheckoutInv, NEW r \in Requests, CancelBegin(r)
    PROVE  TypeOK' /\ CheckoutInv'
<1> DEFINE S == VariantsOf(order[r].lines)
           t == Cancellation(r)
<1>1. PICK plan \in SetToSeqs(S) :
              cancel' = [cancel EXCEPT ![r] = [stage |-> "release", plan |-> plan]]
  BY DEF CancelBegin
<1>2. /\ CancelInv(r) /\ UNCHANGED <<order, lock, pend>>
      /\ cancel[r].stage = "idle" /\ order[r].state = "reserved"
  BY DEF CheckoutInv, CancelBegin, goods, tx
<1>3. S \subseteq Variants /\ IsFiniteSet(S) /\ S # {}
  BY <1>2, CancelType, VariantsOfFinite DEF CancelInv
<1> HIDE DEF S
<1>4. /\ plan \in Seq(S) /\ DOMAIN plan = 1..Cardinality(S)
      /\ \A i, j \in DOMAIN plan : i # j => plan[i] # plan[j]
      /\ {plan[i] : i \in DOMAIN plan} = S
  BY <1>3, PlanFacts
<1>5. plan \in Seq(Variants)
  BY <1>3, <1>4
<1> DEFINE c == [stage |-> "release", plan |-> plan]
<1>6. c \in CancelRecord /\ c.stage = "release" /\ c.plan = plan
  BY <1>5 DEF CancelRecord
<1>7. cancel' = [cancel EXCEPT ![r] = c]
  BY <1>1
<1> HIDE DEF c
<1>8. cancel'[r] = c
  BY <1>7, CancelType
<1>9. \A v \in Variants : pend[t][v] = 0
  BY <1>2 DEF CancelInv
<1>10. plan # <<>>
  <2>1. DOMAIN plan # {}
    BY <1>3, <1>4
  <2> QED
    BY <2>1
<1>11. CancelInv(r)'
  <2>1. VariantsOf(order'[r].lines) = S /\ pend' = pend /\ order' = order
    BY <1>2 DEF S
  <2>2. \A v \in Variants : v \notin S \ {plan[i] : i \in DOMAIN plan}
    BY <1>4
  <2>3. \A i \in DOMAIN plan : plan[i] \in S
    BY <1>4
  <2>4. order'[r].state = "reserved" /\ order'[r].lines # <<>>
    BY <1>2, <2>1 DEF CancelInv
  <2>5. \A v \in Variants : pend'[t][v] = 0
    BY <1>9, <2>1
  <2>6. cancel'[r].plan = plan /\ cancel'[r].stage = "release"
    BY <1>6, <1>8
  <2>7. \A v \in Variants :
            v \notin VariantsOf(order'[r].lines) \ {cancel'[r].plan[i] : i \in DOMAIN cancel'[r].plan}
    BY <2>1, <2>2, <2>6
  <2>8. /\ \A i, j \in DOMAIN cancel'[r].plan : i # j => cancel'[r].plan[i] # cancel'[r].plan[j]
        /\ \A i \in DOMAIN cancel'[r].plan : cancel'[r].plan[i] \in VariantsOf(order'[r].lines)
    BY <1>4, <2>1, <2>3, <2>6
  <2> QED
    BY <1>10, <2>4, <2>5, <2>6, <2>7, <2>8 DEF CancelInv
<1>12. OwnLocks(t)
  BY UnchangedLocks DEF CancelBegin
<1> QED
  BY <1>6, <1>7, <1>11, <1>12, CancelKeeps DEF CancelBegin

LEMMA CancelVoucherKeeps ==
    ASSUME TypeOK, CheckoutInv, NEW r \in Requests, CancelVoucher(r)
    PROVE  TypeOK' /\ CheckoutInv'
<1> DEFINE t == Cancellation(r)
           c == [cancel[r] EXCEPT !.stage = "commit"]
<1>1. /\ CancelInv(r) /\ UNCHANGED <<order, pend>> /\ cancel[r].stage = "voucher"
  BY DEF CheckoutInv, CancelVoucher, goods
<1>2. c \in CancelRecord /\ c.stage = "commit" /\ c.plan = cancel[r].plan
  BY CancelType DEF CancelRecord
<1>3. cancel' = [cancel EXCEPT ![r] = c]
  BY DEF CancelVoucher
<1> HIDE DEF c
<1>4. cancel'[r] = c
  BY <1>3, CancelType
<1>5. OwnLocks(t) /\ lock'[Voucher] = t /\ \A x \in Rows : lock[x] = t => lock'[x] = t
  BY TxFacts, RowFacts, TakeEffect DEF CancelVoucher, OwnLocks, TypeOK
<1>6. CancelInv(r)'
  <2>1. \A v \in Variants : lock[v] = t => lock'[v] = t
    BY <1>5, RowFacts
  <2> QED
    BY <1>1, <1>2, <1>4, <1>5, <2>1 DEF CancelInv
<1> QED
  BY <1>2, <1>3, <1>5, <1>6, CancelKeeps DEF CancelVoucher

LEMMA CancelReleaseKeeps ==
    ASSUME TypeOK, CheckoutInv, NEW r \in Requests, CancelRelease(r)
    PROVE  TypeOK' /\ CheckoutInv'
<1> DEFINE t == Cancellation(r)
           plan == cancel[r].plan
           tail == Tail(plan)
           w == Head(plan)
           n == Cardinality(Units(order[r].lines, w))
           s == IF Len(plan) = 1 THEN AfterRelease(r) ELSE "release"
           c == [cancel[r] EXCEPT !.plan = tail, !.stage = s]
           mine == VariantsOf(order[r].lines)
<1>1. /\ CancelInv(r) /\ UNCHANGED <<order, row>> /\ cancel[r].stage = "release"
      /\ Free(w, t) /\ Take(w, t) /\ pend' = [pend EXCEPT ![t][w] = -n]
  BY DEF CheckoutInv, CancelRelease, goods
<1>2. plan \in Seq(Variants) /\ plan # <<>> /\ DOMAIN plan = 1..Len(plan) /\ Len(plan) \in Nat \ {0}
  BY <1>1, CancelType, LenProperties, EmptySeq DEF CancelInv
<1>3. /\ tail \in Seq(Variants) /\ Len(tail) = Len(plan) - 1 /\ DOMAIN tail = 1..Len(tail)
      /\ \A i \in DOMAIN tail : tail[i] = plan[i + 1]
      /\ w = plan[1] /\ w \in Variants /\ w \in Rows
  BY <1>2, HeadTailProperties, LenProperties, RowFacts
<1>4. n \in Nat
  BY CancelType, UnitsFinite
<1>5. s \in {"release", "voucher", "commit"}
  BY DEF AfterRelease
<1>6. c \in CancelRecord
  <2> HIDE DEF s, tail
  <2> QED
    BY <1>3, <1>5, CancelType DEF CancelRecord
<1>7. c.stage = s /\ c.plan = tail
  BY CancelType DEF CancelRecord
<1>8. cancel' = [cancel EXCEPT ![r] = c]
  BY DEF CancelRelease
<1> HIDE DEF c
<1>9. cancel'[r] = c
  BY <1>8, CancelType
<1>10. /\ lock' \in [Rows -> Tx \cup {None}] /\ lock'[w] = t
       /\ \A x \in Rows : lock[x] = t => lock'[x] = t
       /\ \A z \in Tx \ {t} : \A x \in Rows : lock[x] = z => lock'[x] = z
  BY <1>1, <1>3, TxFacts, TakeEffect
<1>11. /\ pend' \in [Tx -> [Variants -> Int]] /\ \A z \in Tx \ {t} : pend'[z] = pend[z]
       /\ \A v \in Variants : pend'[t][v] = IF v = w THEN -n ELSE pend[t][v]
  <2>1. pend \in [Tx -> [Variants -> Int]] /\ t \in Tx
    BY TxFacts DEF TypeOK
  <2> HIDE DEF t, w, n
  <2> QED
    BY <1>1, <1>3, <1>4, <2>1
<1>12. OwnLocks(t)
  BY <1>10, <1>11 DEF OwnLocks
<1>13. CancelInv(r)'
  <2>1. {tail[i] : i \in DOMAIN tail} = {plan[i] : i \in DOMAIN plan} \ {w}
    <3>1. \A i \in DOMAIN tail : i + 1 \in DOMAIN plan /\ i + 1 # 1
      BY <1>2, <1>3
    <3>2. \A i \in DOMAIN plan : i # 1 => i - 1 \in DOMAIN tail /\ tail[i - 1] = plan[i]
      BY <1>2, <1>3
    <3>3. 1 \in DOMAIN plan /\ \A i \in DOMAIN plan : i # 1 => plan[i] # plan[1]
      BY <1>1, <1>2 DEF CancelInv
    <3> HIDE DEF tail, w, plan
    <3>4. \A x : x \in {tail[i] : i \in DOMAIN tail} => x \in {plan[i] : i \in DOMAIN plan} \ {w}
      BY <1>3, <3>1, <3>3
    <3>5. \A x : x \in {plan[i] : i \in DOMAIN plan} \ {w} => x \in {tail[i] : i \in DOMAIN tail}
      BY <1>3, <3>2, <3>3
    <3> QED
      BY <3>4, <3>5
  <2>2. \A i, j \in DOMAIN tail : i # j => tail[i] # tail[j]
    <3>1. \A i \in DOMAIN tail : i \in Nat /\ i + 1 \in DOMAIN plan
      BY <1>2, <1>3
    <3>2. \A i, j \in DOMAIN plan : i # j => plan[i] # plan[j]
      BY <1>1 DEF CancelInv
    <3>3. \A i, j \in DOMAIN tail : i # j => i + 1 # j + 1
      BY <3>1
    <3> HIDE DEF tail, plan
    <3> QED
      BY <1>3, <3>1, <3>2, <3>3
  <2>3. /\ s = "release" => tail # <<>>
        /\ s # "release" => tail = <<>>
        /\ s = "commit" => ~order[r].voucher
    <3>1. s = "release" <=> Len(plan) # 1
      BY DEF AfterRelease
    <3>2. s = "commit" => ~order[r].voucher
      BY DEF AfterRelease
    <3> HIDE DEF s
    <3>3. Len(plan) # 1 => tail # <<>>
      <4>1. Len(<<>>) = 0 /\ Len(tail) = Len(plan) - 1 /\ Len(plan) \in Nat
        BY <1>2, <1>3
      <4> HIDE DEF tail, plan
      <4> QED
        BY <4>1
    <3>4. Len(plan) = 1 => tail = <<>>
      BY <1>3, EmptySeq
    <3> QED
      BY <3>1, <3>2, <3>3, <3>4
  <2>4. w \in mine /\ \A i \in DOMAIN tail : tail[i] \in mine
    <3>1. \A i \in DOMAIN plan : plan[i] \in mine
      BY <1>1 DEF CancelInv
    <3>2. 1 \in DOMAIN plan /\ \A i \in DOMAIN tail : i + 1 \in DOMAIN plan
      BY <1>2, <1>3
    <3> QED
      BY <1>3, <3>1, <3>2
  <2>5. w \in {plan[i] : i \in DOMAIN plan}
    BY <1>2, <1>3
  <2>6. ASSUME NEW v \in Variants
        PROVE  /\ pend'[t][v] = IF v \in mine \ {tail[i] : i \in DOMAIN tail}
                                THEN -Cardinality(Units(order[r].lines, v)) ELSE 0
               /\ pend'[t][v] # 0 => lock'[v] = t
    <3>1. /\ pend[t][v] = IF v \in mine \ {plan[i] : i \in DOMAIN plan}
                          THEN -Cardinality(Units(order[r].lines, v)) ELSE 0
          /\ pend[t][v] # 0 => lock[v] = t
      BY <1>1 DEF CancelInv
    <3> HIDE DEF tail, w, plan, mine
    <3>2. CASE v = w
      BY <1>10, <1>11, <2>1, <2>4, <3>2
    <3>3. CASE v # w
      BY <1>10, <1>11, <2>1, <3>1, <3>3, RowFacts
    <3> QED
      BY <3>2, <3>3
  <2>7. order'[r] = order[r] /\ order[r].lines # <<>> /\ order[r].state = "reserved"
    BY <1>1 DEF CancelInv
  <2> HIDE DEF tail, s, w, plan
  <2> QED
    BY <1>5, <1>7, <1>9, <2>2, <2>3, <2>4, <2>6, <2>7 DEF CancelInv
<1> QED
  BY <1>6, <1>8, <1>12, <1>13, CancelKeeps DEF CancelRelease

-----------------------------------------------------------------------------
(* What the orders hold                                                    *)

LEMMA HeldFinite ==
    ASSUME TypeOK, NEW v
    PROVE  IsFiniteSet(Held(v)) /\ Cardinality(Held(v)) \in Nat
<1> DEFINE R == {o \in Requests : order[o].state = "reserved"}
           f == [o \in R |-> {o} \X Units(order[o].lines, v)]
           T == {{o} \X Units(order[o].lines, v) : o \in R}
<1>1. IsFiniteSet(R)
  BY CheckoutAssumption, FS_Subset
<1>2. f \in Surjection(R, T)
  <2>1. f \in [R -> T]
    OBVIOUS
  <2>2. \A y \in T : \E o \in R : f[o] = y
    OBVIOUS
  <2> QED
    BY <2>1, <2>2, Fun_IsSurj
<1>3. IsFiniteSet(T)
  BY <1>1, <1>2, FS_Surjection
<1>4. ASSUME NEW o \in R
      PROVE  IsFiniteSet({o} \X Units(order[o].lines, v))
  BY CancelType, UnitsFinite, FS_Singleton, FS_Product
<1>5. \A y \in T : IsFiniteSet(y)
  BY <1>4
<1>6. IsFiniteSet(UNION T)
  BY <1>3, <1>5, FS_UNION
<1>7. Held(v) = UNION T
  BY DEF Held
<1> QED
  BY <1>6, <1>7, FS_CardinalityType

UnitsFor(r, lines, v) == {r} \X Units(lines, v)

LEMMA OwnUnits ==
    ASSUME NEW r, NEW lines \in Seq(Line), NEW v
    PROVE  /\ IsFiniteSet(UnitsFor(r, lines, v))
           /\ Cardinality(UnitsFor(r, lines, v)) = Cardinality(Units(lines, v))
<1>1. IsFiniteSet({r}) /\ Cardinality({r}) = 1
  BY FS_Singleton
<1>2. IsFiniteSet(Units(lines, v)) /\ Cardinality(Units(lines, v)) \in Nat
  BY UnitsFinite
<1>3. /\ IsFiniteSet({r} \X Units(lines, v))
      /\ Cardinality({r} \X Units(lines, v)) = 1 * Cardinality(Units(lines, v))
  BY <1>1, <1>2, FS_Product
<1> QED
  BY <1>2, <1>3 DEF UnitsFor

LEMMA DisjointSum ==
    ASSUME NEW A, NEW B, IsFiniteSet(A), IsFiniteSet(B), A \cap B = {}
    PROVE  /\ IsFiniteSet(A \cup B) /\ Cardinality(A \cup B) = Cardinality(A) + Cardinality(B)
           /\ Cardinality(A) \in Nat /\ Cardinality(B) \in Nat
<1>1. Cardinality(A) \in Nat /\ Cardinality(B) \in Nat
  BY FS_CardinalityType
<1>2. IsFiniteSet(A \cup B) /\ Cardinality(A \cup B) = Cardinality(A) + Cardinality(B) - Cardinality({})
  BY FS_Union
<1> QED
  BY <1>1, <1>2, FS_EmptySet

LEMMA HeldGrows ==
    ASSUME TypeOK, NEW r \in Requests, NEW v,
           \A o \in Requests : o # r => order'[o] = order[o],
           order[r].state = "none", order'[r].state = "reserved", order'[r].lines \in Seq(Line)
    PROVE  Cardinality(Held(v)') = Cardinality(Held(v)) + Cardinality(Units(order'[r].lines, v))
<1> DEFINE B == UnitsFor(r, order'[r].lines, v)
<1>1. Held(v)' = Held(v) \cup B
  BY DEF Held, UnitsFor
<1>2. Held(v) \cap B = {}
  BY DEF Held, UnitsFor
<1>3. /\ IsFiniteSet(Held(v)) /\ IsFiniteSet(B)
      /\ Cardinality(B) = Cardinality(Units(order'[r].lines, v))
  BY HeldFinite, OwnUnits
<1> QED
  BY <1>1, <1>2, <1>3, DisjointSum

LEMMA HeldShrinks ==
    ASSUME TypeOK, NEW r \in Requests, NEW v,
           \A o \in Requests : o # r => order'[o] = order[o],
           order[r].state = "reserved", order'[r].state = "released"
    PROVE  /\ Cardinality(Held(v)) = Cardinality(Held(v)') + Cardinality(Units(order[r].lines, v))
           /\ Cardinality(Held(v)') \in Nat
<1> DEFINE B == UnitsFor(r, order[r].lines, v)
<1>1. Held(v) = Held(v)' \cup B
  BY DEF Held, UnitsFor
<1>2. Held(v)' \cap B = {}
  BY DEF Held, UnitsFor
<1>3. IsFiniteSet(Held(v)')
  <2>1. Held(v)' \in SUBSET Held(v)
    BY <1>1
  <2>2. IsFiniteSet(Held(v))
    BY HeldFinite
  <2> QED
    BY <2>1, <2>2, FS_Subset
<1>4. order[r].lines \in Seq(Line)
  BY CancelType
<1>5. IsFiniteSet(B) /\ Cardinality(B) = Cardinality(Units(order[r].lines, v))
  BY <1>4, OwnUnits
<1> QED
  BY <1>1, <1>2, <1>3, <1>5, DisjointSum

-----------------------------------------------------------------------------
(* The commits                                                             *)

LEMMA ApplyEffect ==
    ASSUME TypeOK, NEW t \in Tx, ApplyPending(t)
    PROVE  /\ row' \in [Variants -> VariantRow]
           /\ \A v \in Variants :
                  /\ row'[v].reserved = row[v].reserved + pend[t][v]
                  /\ row'[v].stock = row[v].stock /\ row'[v].active = row[v].active
                  /\ pend[t][v] = 0 => row'[v] = row[v]
                  /\ row[v].reserved \in Int /\ row[v].stock \in Int /\ pend[t][v] \in Int
<1>1. ASSUME NEW v \in Variants
      PROVE  /\ row'[v] \in VariantRow
             /\ row'[v].reserved = row[v].reserved + pend[t][v]
             /\ row'[v].stock = row[v].stock /\ row'[v].active = row[v].active
             /\ pend[t][v] = 0 => row'[v] = row[v]
             /\ row[v].reserved \in Int /\ row[v].stock \in Int /\ pend[t][v] \in Int
  <2>1. row[v] \in VariantRow /\ pend[t][v] \in Int
    BY DEF TypeOK
  <2>2. row[v].reserved \in Int /\ row[v].stock \in Int /\ row[v].active \in BOOLEAN
    BY <2>1 DEF VariantRow
  <2>3. row'[v] = [row[v] EXCEPT !.reserved = @ + pend[t][v]]
    BY DEF ApplyPending
  <2>4. row[v].reserved + pend[t][v] \in Int
    BY <2>1, <2>2
  <2>5. row'[v] \in VariantRow
    BY <2>1, <2>3, <2>4 DEF VariantRow
  <2>6. /\ row'[v].reserved = row[v].reserved + pend[t][v]
        /\ row'[v].stock = row[v].stock /\ row'[v].active = row[v].active
    BY <2>1, <2>3 DEF VariantRow
  <2>7. pend[t][v] = 0 => row'[v] = row[v]
    <3>1. pend[t][v] = 0 => row[v].reserved + pend[t][v] = row[v].reserved
      BY <2>1, <2>2
    <3> QED
      BY <2>1, <2>3, <3>1 DEF VariantRow
  <2> QED
    BY <2>1, <2>2, <2>5, <2>6, <2>7
<1>2. row' \in [Variants -> VariantRow]
  BY <1>1 DEF ApplyPending
<1> QED
  BY <1>1, <1>2

(* A commit with order o for request r *)
LEMMA OrderSet ==
    ASSUME TypeOK, NEW r \in Requests, NEW o \in Order, order' = [order EXCEPT ![r] = o]
    PROVE  /\ order' \in [Requests -> Order]
           /\ \A x \in Requests : order'[x] = IF x = r THEN o ELSE order[x]
  BY DEF TypeOK

(* What a transaction about to commit has reserved *)
LEMMA CommitPending ==
    ASSUME TypeOK, NEW r \in Requests, ReqInv(r), req[r].stage = "commit", NEW v \in Variants
    PROVE  /\ pend[Checkout(r)][v] = Cardinality(Units(req[r].lines, v))
           /\ pend[Checkout(r)][v] > 0 =>
                  /\ lock[v] = Checkout(r)
                  /\ row[v].active
                  /\ row[v].reserved + pend[Checkout(r)][v] <= row[v].stock
<1>1. req[r].lines \in Seq(Line)
  BY ReqType
<1>2. req[r].next = Len(req[r].lines) + 1
  BY DEF ReqInv, LinesInv
<1>3. UnitsBelow(req[r].lines, v, req[r].next) = Units(req[r].lines, v)
  BY <1>1, <1>2, UnitsAll
<1> QED
  BY <1>3 DEF ReqInv, LinesInv, Reserving

(* The order r placed by its commit *)
Placed(r) == [state |-> "reserved", voucher |-> req[r].asks.voucher, lines |-> req[r].lines]

LEMMA CommitEffect ==
    ASSUME TypeOK, CheckoutInv, NEW r \in Requests, Commit(r)
    PROVE  /\ Placed(r) \in Order /\ order' = [order EXCEPT ![r] = Placed(r)]
           /\ order' \in [Requests -> Order]
           /\ \A x \in Requests : order'[x] = IF x = r THEN Placed(r) ELSE order[x]
           /\ Placed(r).state = "reserved" /\ Placed(r).lines = req[r].lines
           /\ Placed(r).voucher = req[r].asks.voucher
           /\ order[r].state = "none" /\ req[r].lines # <<>>
           /\ PlacedWith(KeyOf(r)) = {} /\ lock[KeyOf(r)] = Checkout(r)
           /\ cancel[r].stage = "idle"
<1>1. req[r].lines \in Seq(Line) /\ req[r].asks.voucher \in BOOLEAN
  BY ReqType
<1>2. Placed(r) \in Order
  BY <1>1 DEF Placed, Order
<1>3. order' = [order EXCEPT ![r] = Placed(r)]
  BY DEF Commit, Placed
<1>4. /\ Placed(r).state = "reserved" /\ Placed(r).lines = req[r].lines
      /\ Placed(r).voucher = req[r].asks.voucher
  BY DEF Placed
<1>5. ReqInv(r) /\ CancelInv(r) /\ req[r].stage = "commit"
  BY DEF CheckoutInv, Commit
<1>6. /\ order[r].state = "none" /\ PlacedWith(KeyOf(r)) = {} /\ lock[KeyOf(r)] = Checkout(r)
      /\ req[r].lines # <<>>
  BY <1>5 DEF ReqInv, KeyInv, LinesInv, Before
<1>7. cancel[r].stage = "idle"
  BY <1>5, <1>6 DEF CancelInv
<1> QED
  BY <1>2, <1>3, <1>4, <1>6, <1>7, OrderSet

LEMMA CommitVoucher ==
    ASSUME TypeOK, CheckoutInv, NEW r \in Requests, Commit(r),
           \A o \in Requests : req'[o].asks = req[o].asks
    PROVE  /\ VoucherExact'
           /\ ~req[r].asks.voucher => Usages' = Usages
<1>1. \A o \in Requests : KeyOf(o)' = KeyOf(o) /\ BuyerOf(o)' = BuyerOf(o)
  BY Owners
<1>2. /\ \A x \in Requests : x # r => order'[x] = order[x]
      /\ order'[r].state = "reserved" /\ order'[r].voucher = req[r].asks.voucher
      /\ order[r].state = "none"
  BY CommitEffect
<1>3. /\ used = Cardinality(Usages) /\ used <= UsageLimit /\ used \in Nat
      /\ \A u \in Users : Cardinality({o \in Usages : BuyerOf(o) = u}) <= UserLimit
      /\ UsageLimit \in Nat /\ UserLimit \in Nat
  BY CheckoutAssumption DEF CheckoutInv, VoucherExact, TypeOK
<1>4. /\ IsFiniteSet(Usages) /\ r \notin Usages /\ Usages \subseteq Requests
      /\ \A u : IsFiniteSet({o \in Usages : BuyerOf(o) = u})
  <2>1. Usages \in SUBSET Requests /\ IsFiniteSet(Requests)
    BY CheckoutAssumption DEF Usages
  <2>2. IsFiniteSet(Usages)
    BY <2>1, FS_Subset
  <2>3. \A u : {o \in Usages : BuyerOf(o) = u} \in SUBSET Usages
    OBVIOUS
  <2>4. \A u : IsFiniteSet({o \in Usages : BuyerOf(o) = u})
    BY <2>2, <2>3, FS_Subset
  <2> QED
    BY <1>2, <2>1, <2>2, <2>4 DEF Usages
<1>5. CASE ~req[r].asks.voucher
  <2>1. Usages' = Usages
    BY <1>2, <1>5 DEF Usages
  <2>2. used' = used
    BY <1>5 DEF Commit
  <2>3. \A u : {o \in Usages' : BuyerOf(o)' = u} = {o \in Usages : BuyerOf(o) = u}
    BY <1>1, <1>4, <2>1
  <2> QED
    BY <1>3, <2>1, <2>2, <2>3 DEF VoucherExact
<1>6. CASE req[r].asks.voucher
  <2>1. Usages' = Usages \cup {r}
    BY <1>2, <1>6 DEF Usages
  <2>2. used' = used + 1
    BY <1>6 DEF Commit
  <2>3. VoucherUsable(r)
    BY <1>6 DEF CheckoutInv, ReqInv, HoldsVoucher, Reserving, Commit
  <2>4. used < UsageLimit /\ Cardinality({o \in Usages : BuyerOf(o) = BuyerOf(r)}) < UserLimit
    BY <2>3 DEF VoucherUsable
  <2>5. Cardinality(Usages') = used + 1
    BY <1>3, <1>4, <2>1, FS_AddElement
  <2>6. ASSUME NEW u \in Users
        PROVE  Cardinality({o \in Usages' : BuyerOf(o)' = u}) <= UserLimit
    <3> DEFINE S == {o \in Usages : BuyerOf(o) = u}
    <3>0. IsFiniteSet(S) /\ Cardinality(S) \in Nat /\ r \notin S
      BY <1>4, FS_CardinalityType
    <3>1. CASE BuyerOf(r) # u
      <4>1. {o \in Usages' : BuyerOf(o)' = u} = S
        BY <1>1, <1>4, <2>1, <3>1
      <4> QED
        BY <1>3, <4>1
    <3>2. CASE BuyerOf(r) = u
      <4>1. {o \in Usages' : BuyerOf(o)' = u} = S \cup {r}
        BY <1>1, <1>4, <2>1, <3>2
      <4>2. Cardinality(S) < UserLimit
        BY <2>4, <3>2
      <4> HIDE DEF S
      <4>3. Cardinality(S \cup {r}) = Cardinality(S) + 1
        BY <3>0, FS_AddElement
      <4> QED
        BY <1>3, <3>0, <4>1, <4>2, <4>3
    <3> QED
      BY <3>1, <3>2
  <2>7. used' <= UsageLimit
    BY <1>3, <2>2, <2>4
  <2> QED
    BY <1>6, <2>2, <2>5, <2>6, <2>7 DEF VoucherExact
<1> QED
  BY <1>5, <1>6

LEMMA CommitInventory ==
    ASSUME TypeOK, CheckoutInv, NEW r \in Requests, Commit(r)
    PROVE  InventoryExact'
<1>1. ReqInv(r) /\ req[r].stage = "commit" /\ Checkout(r) \in Tx /\ req[r].lines \in Seq(Line)
  BY TxFacts, ReqType DEF CheckoutInv, Commit
<1>2. /\ \A x \in Requests : x # r => order'[x] = order[x]
      /\ order'[r].state = "reserved" /\ order'[r].lines = req[r].lines
      /\ order[r].state = "none"
  BY CommitEffect
<1>3. ASSUME NEW v \in Variants \ stale
      PROVE  /\ row'[v].reserved = Cardinality(Held(v)')
             /\ row'[v].reserved <= row'[v].stock
  <2>1. /\ row'[v].reserved = row[v].reserved + pend[Checkout(r)][v]
        /\ row'[v].stock = row[v].stock
        /\ row[v].reserved \in Int /\ row[v].stock \in Int /\ pend[Checkout(r)][v] \in Int
    BY <1>1, ApplyEffect DEF Commit
  <2>2. row[v].reserved = Cardinality(Held(v)) /\ row[v].reserved <= row[v].stock
    BY DEF CheckoutInv, InventoryExact
  <2>3. /\ pend[Checkout(r)][v] = Cardinality(Units(req[r].lines, v))
        /\ pend[Checkout(r)][v] > 0 => row[v].reserved + pend[Checkout(r)][v] <= row[v].stock
    BY <1>1, CommitPending
  <2>4. Cardinality(Units(req[r].lines, v)) \in Nat
    BY <1>1, UnitsFinite
  <2>5. Cardinality(Held(v)') = Cardinality(Held(v)) + Cardinality(Units(req[r].lines, v))
    BY <1>1, <1>2, HeldGrows
  <2> QED
    BY <2>1, <2>2, <2>3, <2>4, <2>5
<1>4. stale' = stale
  BY DEF Commit
<1> QED
  BY <1>3, <1>4 DEF InventoryExact

LEMMA CommitKeeps ==
    ASSUME TypeOK, CheckoutInv, NEW r \in Requests, Commit(r)
    PROVE  TypeOK' /\ CheckoutInv'
<1> DEFINE t == Checkout(r)
           k == KeyOf(r)
<1>1. ReqInv(r) /\ req[r].stage = "commit" /\ t \in Tx /\ "clear" \in Stage
  BY TxFacts DEF CheckoutInv, Commit, Stage
<1>2. UNCHANGED <<cart, cancel, removal, stale>> /\ Answer(r, r, "clear")
  BY DEF Commit
<1>3. PICK q \in Request : /\ req' = [req EXCEPT ![r] = q]
                           /\ Same(q, req[r]) /\ q.stage = "clear" /\ q.answer = r
  BY <1>1, <1>2, AnswerEffect
<1>4. /\ req' \in [Requests -> Request] /\ req'[r] = q
      /\ \A x \in Requests : x # r => req'[x] = req[x]
      /\ \A x \in Requests : req'[x].asks = req[x].asks
  BY <1>3, ReqSet DEF Same
<1>5. \A o \in Requests : KeyOf(o)' = KeyOf(o) /\ BuyerOf(o)' = BuyerOf(o)
  BY <1>4, Owners
<1>6. k \in Keys /\ k \in Rows /\ Voucher \in Rows
  BY ReqType, RowFacts
<1>7. /\ order' \in [Requests -> Order]
      /\ \A x \in Requests : x # r => order'[x] = order[x]
      /\ order'[r].state = "reserved" /\ order'[r].lines = req[r].lines
      /\ order[r].state = "none" /\ req[r].lines # <<>>
      /\ PlacedWith(k) = {} /\ lock[k] = t /\ cancel[r].stage = "idle"
  BY CommitEffect
<1>8. /\ row' \in [Variants -> VariantRow]
      /\ \A v \in Variants : pend[t][v] = 0 => row'[v] = row[v]
  BY <1>1, ApplyEffect DEF Commit
<1>9. OwnLocks(t) /\ \A v \in Variants : pend'[t][v] = 0
  BY <1>1, EndEffect DEF Commit
<1>10. used' \in Nat
  BY DEF Commit, TypeOK
<1>11. TypeOK'
  BY <1>2, <1>4, <1>7, <1>8, <1>9, <1>10 DEF TypeOK, OwnLocks
<1>12. Frame
  BY <1>2, <1>4, <1>7 DEF Frame
<1>13. ASSUME NEW s \in Tx \ {t}
       PROVE  Rely(s)
  <2>1. pend'[s] = pend[s] /\ \A x \in Rows : lock[x] = s => lock'[x] = s
    BY <1>9 DEF OwnLocks
  <2>2. ASSUME NEW v \in Variants, lock[v] = s
        PROVE  row'[v] = row[v]
    <3>1. pend[t][v] = Cardinality(Units(req[r].lines, v)) /\ ~(pend[t][v] > 0)
      BY <1>1, <2>2, CommitPending
    <3>2. pend[t][v] \in Nat
      BY <3>1, ReqType, UnitsFinite
    <3> QED
      BY <1>8, <3>1, <3>2
  <2>3. ASSUME NEW x \in Keys, lock[x] = s
        PROVE  PlacedWith(x)' = PlacedWith(x)
    <3>1. x # k
      BY <1>7, <2>3
    <3> QED
      BY <1>5, <1>7, <3>1 DEF PlacedWith
  <2>4. ASSUME lock[Voucher] = s
        PROVE  used' = used /\ Usages' = Usages
    <3>1. ~req[r].asks.voucher
      BY <1>1, <2>4 DEF ReqInv, HoldsVoucher, Reserving
    <3> QED
      BY <1>4, <3>1, CommitVoucher DEF Commit
  <2> QED
    BY <2>1, <2>2, <2>3, <2>4 DEF Rely
<1>14. ReqInv(r)'
  <2>1. r \in PlacedWith(k)'
    BY <1>5, <1>7 DEF PlacedWith
  <2>2. KeyInv(r)' /\ HoldsVoucher(r)'
    BY <1>3, <1>4, <1>5, <2>1 DEF KeyInv, HoldsVoucher, Before, Reserving
  <2>3. CartInv(r)'
    BY <1>1, <1>2, <1>3, <1>4, <1>5, <1>7 DEF ReqInv, CartInv, Known, Same
  <2>4. LinesInv(r)'
    BY <1>3, <1>4, <1>9 DEF LinesInv, Reserving
  <2> QED
    BY <2>2, <2>3, <2>4 DEF ReqInv
<1>15. ASSUME NEW x \in Requests
       PROVE  ReqInv(x)' /\ CancelInv(x)'
  <2>1. ReqInv(x) /\ CancelInv(x)
    BY DEF CheckoutInv
  <2>2. Rely(Cancellation(x)) /\ cancel'[x] = cancel[x]
    BY <1>2, <1>13, TxFacts
  <2>3. CASE x = r
    BY <1>7, <1>14, <2>1, <2>2, <2>3, CancelFrame
  <2>4. CASE x # r
    <3>1. Rely(Checkout(x)) /\ req'[x] = req[x] /\ order'[x] = order[x]
      BY <1>4, <1>7, <1>13, <2>4, TxFacts
    <3> QED
      BY <1>12, <2>1, <2>2, <3>1, ReqFrame, CancelFrame
  <2> QED
    BY <2>3, <2>4
<1>16. OneOrder'
  <2>1. OneOrder
    BY DEF CheckoutInv
  <2>2. \A o \in Requests : o # r /\ KeyOf(o) = k => order[o].state = "none"
    BY <1>7 DEF PlacedWith
  <2> QED
    BY <1>5, <1>7, <2>1, <2>2 DEF OneOrder
<1>17. VoucherExact' /\ InventoryExact'
  BY <1>4, CommitVoucher, CommitInventory
<1> QED
  BY <1>11, <1>15, <1>16, <1>17 DEF CheckoutInv

(* What a cancellation about to commit takes back *)
LEMMA CancelPending ==
    ASSUME TypeOK, NEW r \in Requests, CancelInv(r), cancel[r].stage = "commit", NEW v \in Variants
    PROVE  /\ pend[Cancellation(r)][v] = -Cardinality(Units(order[r].lines, v))
           /\ pend[Cancellation(r)][v] # 0 => lock[v] = Cancellation(r)
<1> DEFINE mine == VariantsOf(order[r].lines)
<1>1. cancel[r].plan = <<>> /\ DOMAIN cancel[r].plan = {}
  BY DEF CancelInv
<1>2. /\ pend[Cancellation(r)][v] = IF v \in mine THEN -Cardinality(Units(order[r].lines, v)) ELSE 0
      /\ pend[Cancellation(r)][v] # 0 => lock[v] = Cancellation(r)
  BY <1>1 DEF CancelInv
<1>3. v \notin mine => Units(order[r].lines, v) = {}
  BY DEF VariantsOf, Units
<1>4. v \notin mine => Cardinality(Units(order[r].lines, v)) = 0
  BY <1>3, FS_EmptySet
<1> QED
  BY <1>2, <1>4

LEMMA CancelCommitEffect ==
    ASSUME TypeOK, CheckoutInv, NEW r \in Requests, CancelCommit(r)
    PROVE  /\ order' \in [Requests -> Order]
           /\ \A x \in Requests : /\ x # r => order'[x] = order[x]
                                  /\ order'[x].lines = order[x].lines
                                  /\ order'[x].voucher = order[x].voucher
                                  /\ order'[x].state = "none" <=> order[x].state = "none"
           /\ order[r].state = "reserved" /\ order'[r].state = "released"
           /\ order[r].lines # <<>>
<1> DEFINE o == [order[r] EXCEPT !.state = "released"]
<1>1. o \in Order /\ o.state = "released" /\ o.lines = order[r].lines /\ o.voucher = order[r].voucher
  BY CancelType DEF Order
<1>2. order' = [order EXCEPT ![r] = o]
  BY DEF CancelCommit
<1>3. CancelInv(r) /\ cancel[r].stage = "commit"
  BY DEF CheckoutInv, CancelCommit
<1>4. order[r].state = "reserved" /\ order[r].lines # <<>>
  BY <1>3 DEF CancelInv
<1> HIDE DEF o
<1> QED
  BY <1>1, <1>2, <1>4, OrderSet

LEMMA CancelCommitVoucher ==
    ASSUME TypeOK, CheckoutInv, NEW r \in Requests, CancelCommit(r)
    PROVE  /\ VoucherExact'
           /\ ~order[r].voucher => Usages' = Usages
<1>1. \A o \in Requests : KeyOf(o)' = KeyOf(o) /\ BuyerOf(o)' = BuyerOf(o)
  BY Owners DEF CancelCommit
<1>2. /\ \A x \in Requests : x # r => order'[x] = order[x]
      /\ order[r].state = "reserved" /\ order'[r].state = "released"
  BY CancelCommitEffect
<1>3. /\ used = Cardinality(Usages) /\ used <= UsageLimit /\ used \in Nat
      /\ \A u \in Users : Cardinality({o \in Usages : BuyerOf(o) = u}) <= UserLimit
      /\ UsageLimit \in Nat /\ UserLimit \in Nat
  BY CheckoutAssumption DEF CheckoutInv, VoucherExact, TypeOK
<1>4. IsFiniteSet(Usages) /\ Usages \subseteq Requests
  <2>1. Usages \in SUBSET Requests /\ IsFiniteSet(Requests)
    BY CheckoutAssumption DEF Usages
  <2> QED
    BY <2>1, FS_Subset
<1>5. Usages' = Usages \ {r} /\ (r \in Usages <=> order[r].voucher)
  BY <1>2 DEF Usages
<1>6. Cardinality(Usages') = IF order[r].voucher THEN used - 1 ELSE used
  BY <1>3, <1>4, <1>5, FS_RemoveElement
<1>7. order[r].voucher => used > 0
  <2>1. order[r].voucher => used # 0
    BY <1>3, <1>4, <1>5, FS_EmptySet
  <2> QED
    BY <1>3, <2>1
<1>8. used' = IF order[r].voucher THEN used - 1 ELSE used
  BY <1>7 DEF CancelCommit
<1>9. ASSUME NEW u \in Users
      PROVE  Cardinality({o \in Usages' : BuyerOf(o)' = u}) <= UserLimit
  <2> DEFINE S == {o \in Usages : BuyerOf(o) = u}
             T == {o \in Usages' : BuyerOf(o)' = u}
  <2>1. T \in SUBSET S /\ S \in SUBSET Usages
    BY <1>1, <1>4, <1>5
  <2>2. Cardinality(S) <= UserLimit
    BY <1>3
  <2> HIDE DEF S, T
  <2>3. IsFiniteSet(S)
    BY <1>4, <2>1, FS_Subset
  <2>4. IsFiniteSet(T) /\ Cardinality(T) <= Cardinality(S)
    BY <2>1, <2>3, FS_Subset
  <2>5. Cardinality(S) \in Nat /\ Cardinality(T) \in Nat
    BY <2>3, <2>4, FS_CardinalityType
  <2>6. Cardinality(T) <= UserLimit
    BY <1>3, <2>2, <2>4, <2>5
  <2> QED
    BY <2>6 DEF T
<1>10. ~order[r].voucher => Usages' = Usages
  BY <1>5
<1> QED
  BY <1>3, <1>6, <1>8, <1>9, <1>10 DEF VoucherExact

LEMMA CancelCommitInventory ==
    ASSUME TypeOK, CheckoutInv, NEW r \in Requests, CancelCommit(r)
    PROVE  InventoryExact'
<1>1. CancelInv(r) /\ cancel[r].stage = "commit" /\ Cancellation(r) \in Tx /\ order[r].lines \in Seq(Line)
  BY TxFacts, CancelType DEF CheckoutInv, CancelCommit
<1>2. /\ \A x \in Requests : x # r => order'[x] = order[x]
      /\ order[r].state = "reserved" /\ order'[r].state = "released"
  BY CancelCommitEffect
<1>3. ASSUME NEW v \in Variants \ stale
      PROVE  /\ row'[v].reserved = Cardinality(Held(v)')
             /\ row'[v].reserved <= row'[v].stock
  <2> DEFINE n == Cardinality(Units(order[r].lines, v))
  <2>1. /\ row'[v].reserved = row[v].reserved + pend[Cancellation(r)][v]
        /\ row'[v].stock = row[v].stock
        /\ row[v].reserved \in Int /\ row[v].stock \in Int
    BY <1>1, ApplyEffect DEF CancelCommit
  <2>2. row[v].reserved = Cardinality(Held(v)) /\ row[v].reserved <= row[v].stock
    BY DEF CheckoutInv, InventoryExact
  <2>3. pend[Cancellation(r)][v] = -n
    BY <1>1, CancelPending
  <2>4. n \in Nat
    BY <1>1, UnitsFinite
  <2>5. Cardinality(Held(v)) = Cardinality(Held(v)') + n /\ Cardinality(Held(v)') \in Nat
    BY <1>2, HeldShrinks
  <2> HIDE DEF n
  <2> QED
    BY <2>1, <2>2, <2>3, <2>4, <2>5
<1>4. stale' = stale
  BY DEF CancelCommit
<1> QED
  BY <1>3, <1>4 DEF InventoryExact

LEMMA CancelCommitKeeps ==
    ASSUME TypeOK, CheckoutInv, NEW r \in Requests, CancelCommit(r)
    PROVE  TypeOK' /\ CheckoutInv'
<1> DEFINE t == Cancellation(r)
<1>1. CancelInv(r) /\ cancel[r].stage = "commit" /\ t \in Tx
  BY TxFacts DEF CheckoutInv, CancelCommit
<1>2. UNCHANGED <<cart, req, removal, stale>>
  BY DEF CancelCommit
<1>3. \A o \in Requests : KeyOf(o)' = KeyOf(o) /\ BuyerOf(o)' = BuyerOf(o)
  BY <1>2, Owners
<1>4. /\ order' \in [Requests -> Order]
      /\ \A x \in Requests : /\ x # r => order'[x] = order[x]
                             /\ order'[x].lines = order[x].lines
                             /\ order'[x].state = "none" <=> order[x].state = "none"
      /\ order'[r].state = "released" /\ order[r].lines # <<>>
  BY CancelCommitEffect
<1>5. /\ cancel' \in [Requests -> CancelRecord] /\ cancel'[r] = NoCancel
      /\ \A x \in Requests : x # r => cancel'[x] = cancel[x]
  BY CancelType, NoCancelType DEF CancelCommit
<1>6. /\ row' \in [Variants -> VariantRow]
      /\ \A v \in Variants : pend[t][v] = 0 => row'[v] = row[v]
  BY <1>1, ApplyEffect DEF CancelCommit
<1>7. OwnLocks(t) /\ \A v \in Variants : pend'[t][v] = 0
  BY <1>1, EndEffect DEF CancelCommit
<1>8. used' \in Nat
  BY DEF CancelCommit, TypeOK
<1>9. TypeOK'
  BY <1>2, <1>4, <1>5, <1>6, <1>7, <1>8 DEF TypeOK, OwnLocks, CancelRecord
<1>10. Frame
  BY <1>2, <1>4 DEF Frame
<1>11. ASSUME NEW s \in Tx \ {t}
       PROVE  Rely(s)
  <2>1. pend'[s] = pend[s] /\ \A x \in Rows : lock[x] = s => lock'[x] = s
    BY <1>7 DEF OwnLocks
  <2>2. ASSUME NEW v \in Variants, lock[v] = s
        PROVE  row'[v] = row[v]
    BY <1>1, <1>6, <2>2, CancelPending
  <2>3. \A x \in Keys : PlacedWith(x)' = PlacedWith(x)
    BY <1>3, <1>4 DEF PlacedWith
  <2>4. ASSUME lock[Voucher] = s
        PROVE  used' = used /\ Usages' = Usages
    <3>1. ~order[r].voucher
      BY <1>1, <2>4 DEF CancelInv
    <3> QED
      BY <3>1, CancelCommitVoucher DEF CancelCommit
  <2> QED
    BY <2>1, <2>2, <2>3, <2>4 DEF Rely
<1>12. CancelInv(r)'
  BY <1>4, <1>5, <1>7, NoCancelType DEF CancelInv
<1>13. ASSUME NEW x \in Requests
       PROVE  ReqInv(x)' /\ CancelInv(x)'
  <2>1. ReqInv(x) /\ CancelInv(x)
    BY DEF CheckoutInv
  <2>2. ReqInv(x)'
    BY <1>2, <1>4, <1>10, <1>11, <2>1, TxFacts, ReqFrame
  <2>3. CASE x = r
    BY <1>12, <2>2, <2>3
  <2>4. CASE x # r
    <3>1. Rely(Cancellation(x)) /\ cancel'[x] = cancel[x] /\ order'[x] = order[x]
      BY <1>4, <1>5, <1>11, <2>4, TxFacts
    <3> QED
      BY <2>1, <2>2, <3>1, CancelFrame
  <2> QED
    BY <2>3, <2>4
<1>14. OneOrder'
  BY <1>3, <1>4 DEF CheckoutInv, OneOrder
<1>15. VoucherExact' /\ InventoryExact'
  BY CancelCommitVoucher, CancelCommitInventory
<1> QED
  BY <1>9, <1>13, <1>14, <1>15 DEF CheckoutInv

-----------------------------------------------------------------------------
(* The customer's cart and the administrator's variants                    *)

(* A step outside the transactions, which relies on nothing of theirs *)
LEMMA OutsideKeeps ==
    ASSUME TypeOK, CheckoutInv, UNCHANGED <<used, order, tx, req, cancel>>,
           \A u \in Users : cart'[u] = cart[u] \/ cart'[u].version = cart[u].version + 1,
           \A v \in Variants : lock[v] # None => row'[v] = row[v],
           InventoryExact'
    PROVE  CheckoutInv'
<1>1. \A o \in Requests : req'[o].asks = req[o].asks
  OBVIOUS
<1>2. UNCHANGED <<lock, pend>>
  BY DEF tx
<1>3. Frame
  BY <1>1 DEF Frame
<1>4. ASSUME NEW s \in Tx
      PROVE  Rely(s)
  BY <1>1, <1>2, TxFacts, SameOrders DEF Rely
<1>5. ASSUME NEW x \in Requests
      PROVE  ReqInv(x)' /\ CancelInv(x)'
  <2>1. ReqInv(x) /\ CancelInv(x) /\ Rely(Checkout(x)) /\ Rely(Cancellation(x))
    BY <1>4, TxFacts DEF CheckoutInv
  <2> QED
    BY <1>3, <2>1, ReqFrame, CancelFrame
<1>6. OneOrder' /\ VoucherExact'
  BY <1>1, SameOrders, SameVoucher DEF CheckoutInv
<1> QED
  BY <1>5, <1>6 DEF CheckoutInv

LEMMA EditCartKeeps ==
    ASSUME TypeOK, CheckoutInv, NEW u \in Users, NEW lines \in Carts, EditCart(u, lines)
    PROVE  TypeOK' /\ CheckoutInv'
<1> DEFINE c == [lines |-> lines, version |-> cart[u].version + 1]
<1>1. cart[u].version \in Nat /\ lines \in Seq(Line)
  BY CheckoutAssumption DEF TypeOK
<1>2. c \in [lines: Seq(Line), version: Nat] /\ c.version = cart[u].version + 1
  BY <1>1
<1>3. cart' = [cart EXCEPT ![u] = c]
  BY DEF EditCart
<1> HIDE DEF c
<1>4. /\ cart' \in [Users -> [lines: Seq(Line), version: Nat]]
      /\ \A x \in Users : cart'[x] = cart[x] \/ cart'[x].version = cart[x].version + 1
  BY <1>2, <1>3 DEF TypeOK
<1>5. UNCHANGED <<row, used, order, removal, stale, lock, pend, tx, req, cancel>>
  BY DEF EditCart, goods, tx
<1>6. TypeOK'
  BY <1>4, <1>5 DEF TypeOK
<1>7. InventoryExact'
  BY <1>5, SameInventory DEF CheckoutInv
<1> QED
  BY <1>4, <1>5, <1>6, <1>7, OutsideKeeps

(* One row of product_variants becomes a *)
LEMMA RowSet ==
    ASSUME TypeOK, NEW v \in Variants, NEW a \in VariantRow, row' = [row EXCEPT ![v] = a]
    PROVE  /\ row' \in [Variants -> VariantRow]
           /\ \A x \in Variants : row'[x] = IF x = v THEN a ELSE row[x]
  BY DEF TypeOK

LEMMA UpdateVariantKeeps ==
    ASSUME TypeOK, CheckoutInv, NEW v \in Variants, NEW dto \in Edits[v], UpdateVariant(v, dto)
    PROVE  TypeOK' /\ CheckoutInv'
<1> DEFINE a == [row[v] EXCEPT !.stock = dto.stock, !.active = dto.active]
<1>1. row[v] \in VariantRow
  BY DEF TypeOK
<1>2. dto \in [stock: Nat, active: BOOLEAN]
  BY CheckoutAssumption
<1>3. dto.stock \in Int /\ dto.active \in BOOLEAN
  BY <1>2
<1>4. a \in VariantRow /\ a.stock = dto.stock /\ a.reserved = row[v].reserved
  BY <1>1, <1>3 DEF VariantRow
<1>5. row' = [row EXCEPT ![v] = a]
  BY DEF UpdateVariant
<1> HIDE DEF a
<1>6. /\ row' \in [Variants -> VariantRow]
      /\ \A x \in Variants : row'[x] = IF x = v THEN a ELSE row[x]
  BY <1>4, <1>5, RowSet
<1>7. /\ UNCHANGED <<used, order, cart, tx, lock, pend, req, cancel, removal, stale>>
      /\ lock[v] = None /\ dto.stock >= row[v].reserved
  BY DEF UpdateVariant, tx
<1>8. TypeOK'
  BY <1>6, <1>7 DEF TypeOK
<1>9. InventoryExact'
  <2>1. \A x \in Variants : Held(x)' = Held(x)
    BY <1>7, SameOrders
  <2>2. row[v].reserved \in Int
    BY <1>1 DEF VariantRow
  <2>3. row[v].reserved <= dto.stock
    BY <1>3, <1>7, <2>2
  <2> QED
    BY <1>4, <1>6, <1>7, <2>1, <2>3 DEF CheckoutInv, InventoryExact
<1>10. \A x \in Variants : lock[x] # None => row'[x] = row[x]
  BY <1>6, <1>7
<1> QED
  BY <1>7, <1>8, <1>9, <1>10, OutsideKeeps

Removal == [stage: {"idle", "read", "write"}, entity: VariantRow, count: Nat,
            columns: SUBSET {"stock", "reserved", "active"}]

LEMMA RemovalType ==
    ASSUME TypeOK, NEW v \in Variants
    PROVE  /\ removal \in [Variants -> Removal] /\ removal[v] \in Removal
           /\ removal[v].entity \in VariantRow /\ removal[v].count \in Nat
           /\ removal[v].columns \subseteq {"stock", "reserved", "active"}
           /\ row[v] \in VariantRow
<1>1. removal \in [Variants -> Removal] /\ row[v] \in VariantRow
  BY DEF TypeOK, Removal
<1>2. removal[v] \in Removal
  BY <1>1
<1> QED
  BY <1>1, <1>2 DEF Removal

(* A step of remove() that reads *)
LEMMA RemovalReads ==
    ASSUME TypeOK, CheckoutInv, NEW v \in Variants, NEW m \in Removal,
           removal' = [removal EXCEPT ![v] = m],
           UNCHANGED <<row, used, order, cart, tx, req, cancel, stale>>
    PROVE  TypeOK' /\ CheckoutInv'
<1>1. removal' \in [Variants -> Removal]
  BY RemovalType
<1>2. UNCHANGED <<lock, pend>>
  BY DEF tx
<1>3. TypeOK'
  BY <1>1, <1>2 DEF TypeOK, Removal
<1>4. InventoryExact'
  BY SameInventory DEF CheckoutInv
<1> QED
  BY <1>3, <1>4, OutsideKeeps

LEMMA RemoveReadKeeps ==
    ASSUME TypeOK, CheckoutInv, NEW v \in Variants, RemoveRead(v)
    PROVE  TypeOK' /\ CheckoutInv'
<1> DEFINE e == [row[v] EXCEPT !.active = FALSE]
           m == [removal[v] EXCEPT !.stage = "read", !.count = @ + 1, !.entity = e]
<1>1. e \in VariantRow
  BY RemovalType DEF VariantRow
<1>2. m \in Removal
  <2> HIDE DEF e
  <2>1. removal[v].count + 1 \in Nat
    BY RemovalType
  <2> QED
    BY <1>1, <2>1, RemovalType DEF Removal
<1>3. removal' = [removal EXCEPT ![v] = m]
  BY DEF RemoveRead
<1> QED
  BY <1>2, <1>3, RemovalReads DEF RemoveRead

LEMMA RemoveCompareKeeps ==
    ASSUME TypeOK, CheckoutInv, NEW v \in Variants, RemoveCompare(v)
    PROVE  TypeOK' /\ CheckoutInv'
<1> DEFINE e == removal[v].entity
           C == {c \in DOMAIN e : e[c] # row[v][c]}
           m == [removal[v] EXCEPT !.stage = "write", !.columns = C]
<1>1. C \subseteq {"stock", "reserved", "active"}
  BY RemovalType DEF VariantRow
<1>2. m \in Removal
  <2> HIDE DEF C
  <2> QED
    BY <1>1, RemovalType DEF Removal
<1>3. removal' = [removal EXCEPT ![v] = m]
  BY DEF RemoveCompare
<1> QED
  BY <1>2, <1>3, RemovalReads DEF RemoveCompare

LEMMA RewrittenType ==
    ASSUME TypeOK, NEW v \in Variants
    PROVE  /\ Rewritten(v) \in VariantRow
           /\ removal[v].columns = {} => Rewritten(v) = row[v]
<1> DEFINE e == removal[v].entity
           C == removal[v].columns
           new == [c \in DOMAIN row[v] |-> IF c \in C THEN e[c] ELSE row[v][c]]
<1>1. row[v] \in VariantRow /\ e \in VariantRow
  BY RemovalType
<1>2. DOMAIN row[v] = {"stock", "reserved", "active"}
  BY <1>1 DEF VariantRow
<1>3. new = [stock |-> IF "stock" \in C THEN e.stock ELSE row[v].stock,
             reserved |-> IF "reserved" \in C THEN e.reserved ELSE row[v].reserved,
             active |-> IF "active" \in C THEN e.active ELSE row[v].active]
  BY <1>2
<1>4. new \in VariantRow
  BY <1>1, <1>3 DEF VariantRow
<1>5. C = {} => new = row[v]
  BY <1>1, <1>3 DEF VariantRow
<1>6. Rewritten(v) = IF Balanced(new) THEN new ELSE row[v]
  BY DEF Rewritten
<1> HIDE DEF new
<1> QED
  BY <1>1, <1>4, <1>5, <1>6

LEMMA RemoveWriteKeeps ==
    ASSUME TypeOK, CheckoutInv, NEW v \in Variants, RemoveWrite(v)
    PROVE  TypeOK' /\ CheckoutInv'
<1> DEFINE a == Rewritten(v)
           m == [NoRemoval EXCEPT !.count = removal[v].count]
<1>1. a \in VariantRow /\ (removal[v].columns = {} => a = row[v])
  BY RewrittenType
<1>2. /\ UNCHANGED <<used, order, cart, tx, lock, pend, req, cancel>>
      /\ row' = [row EXCEPT ![v] = a] /\ removal' = [removal EXCEPT ![v] = m]
      /\ stale' = IF \E c \in {"stock", "reserved"} : row'[v][c] # row[v][c]
                  THEN stale \cup {v} ELSE stale
  BY DEF RemoveWrite, WriteBack, tx
<1> HIDE DEF a
<1>3. /\ row' \in [Variants -> VariantRow]
      /\ \A x \in Variants : row'[x] = IF x = v THEN a ELSE row[x]
  BY <1>1, <1>2, RowSet
<1>4. m \in Removal
  <2>1. NoRemoval.entity \in VariantRow
    BY DEF NoRemoval, VariantRow
  <2>2. NoRemoval \in Removal
    BY <2>1 DEF NoRemoval, Removal
  <2> QED
    BY <2>2, RemovalType DEF Removal
<1>5. removal' \in [Variants -> Removal]
  BY <1>2, <1>4, RemovalType
<1>6. stale' \subseteq Variants /\ stale \subseteq stale'
  BY <1>2 DEF TypeOK
<1>7. TypeOK'
  BY <1>2, <1>3, <1>5, <1>6 DEF TypeOK, Removal
<1>8. v \notin stale' => row'[v].stock = row[v].stock /\ row'[v].reserved = row[v].reserved
  <2>1. v \notin stale' => \A c \in {"stock", "reserved"} : row'[v][c] = row[v][c]
    BY <1>2
  <2> QED
    BY <2>1
<1>9. InventoryExact'
  <2>1. \A x \in Variants : Held(x)' = Held(x)
    BY <1>2, SameOrders
  <2> QED
    BY <1>3, <1>6, <1>8, <2>1 DEF CheckoutInv, InventoryExact
<1>10. \A x \in Variants : lock[x] # None => row'[x] = row[x]
  BY <1>1, <1>3 DEF RemoveWrite
<1> QED
  BY <1>2, <1>7, <1>9, <1>10, OutsideKeeps

-----------------------------------------------------------------------------
(* Every step keeps the invariant                                          *)

LEMMA InitHolds ==
    ASSUME Init
    PROVE  TypeOK /\ CheckoutInv
<1>1. PICK a \in Scenarios : req = [r \in Requests |-> NewRequest(a[r])]
  BY DEF Init
<1>2. /\ row = [v \in Variants |-> [stock |-> InitStock[v], reserved |-> 0, active |-> TRUE]]
      /\ used = 0 /\ stale = {}
      /\ order = [r \in Requests |-> NoOrder]
      /\ cart = [u \in Users |-> [lines |-> InitCart[u], version |-> 1]]
      /\ lock = [x \in Rows |-> None]
      /\ pend = [t \in Tx |-> NoChange]
      /\ cancel = [r \in Requests |-> NoCancel]
      /\ removal = [v \in Variants |-> NoRemoval]
  BY DEF Init
<1>3. <<>> \in Seq(Line)
  BY EmptySeq
<1>4. \A r \in Requests : NewRequest(a[r]) \in Request
  <2>1. \A r \in Requests : a[r] \in [key: Keys, voucher: BOOLEAN]
    BY CheckoutAssumption
  <2> QED
    BY <1>3, <2>1 DEF NewRequest, Request, Stage
<1>5. req \in [Requests -> Request]
  BY <1>1, <1>4
<1>6. row \in [Variants -> VariantRow]
  <2>1. \A v \in Variants : InitStock[v] \in Int
    BY CheckoutAssumption
  <2> QED
    BY <1>2, <2>1 DEF VariantRow
<1>7. order \in [Requests -> Order]
  BY <1>2, <1>3 DEF NoOrder, Order
<1>8. cart \in [Users -> [lines: Seq(Line), version: Nat]]
  <2>1. \A u \in Users : InitCart[u] \in Seq(Line)
    BY CheckoutAssumption
  <2> QED
    BY <1>2, <2>1
<1>9. removal \in [Variants -> Removal]
  <2>1. NoRemoval.entity \in VariantRow
    BY DEF NoRemoval, VariantRow
  <2>2. NoRemoval \in Removal
    BY <2>1 DEF NoRemoval, Removal
  <2> QED
    BY <1>2, <2>2
<1>10. cancel \in [Requests -> CancelRecord] /\ pend \in [Tx -> [Variants -> Int]]
  BY <1>2, NoCancelType, NoChangeType
<1>11. TypeOK
  BY <1>2, <1>5, <1>6, <1>7, <1>8, <1>9, <1>10 DEF TypeOK, Removal, CancelRecord
<1>12. ASSUME NEW r \in Requests
       PROVE  ReqInv(r) /\ CancelInv(r)
  <2>1. /\ req[r].stage = "new" /\ req[r].answer = None /\ req[r].next = 1
        /\ req[r].cleared = <<>> /\ req[r].lines = <<>>
    BY <1>1 DEF NewRequest
  <2>2. order[r].state = "none" /\ cancel[r] = NoCancel
    BY <1>2 DEF NoOrder
  <2>3. \A v \in Variants : pend[Checkout(r)][v] = 0 /\ pend[Cancellation(r)][v] = 0
    BY <1>2, TxFacts, NoChangeType
  <2>4. KeyInv(r) /\ HoldsVoucher(r)
    BY <2>1, <2>2 DEF KeyInv, HoldsVoucher, Reserving
  <2>5. CartInv(r)
    BY <2>1, TxFacts DEF CartInv, Known
  <2>6. LinesInv(r)
    BY <2>1, <2>3 DEF LinesInv, Reserving
  <2>7. CancelInv(r)
    BY <2>2, <2>3, NoCancelType DEF CancelInv
  <2> QED
    BY <2>4, <2>5, <2>6, <2>7 DEF ReqInv
<1>13. \A r \in Requests : order[r].state = "none"
  BY <1>2 DEF NoOrder
<1>14. OneOrder
  BY <1>13 DEF OneOrder
<1>15. VoucherExact
  <2>1. Usages = {} /\ \A u : {o \in Usages : BuyerOf(o) = u} = {}
    BY <1>13 DEF Usages
  <2>2. UsageLimit \in Nat /\ UserLimit \in Nat
    BY CheckoutAssumption
  <2> QED
    BY <1>2, <2>1, <2>2, FS_EmptySet DEF VoucherExact
<1>16. InventoryExact
  <2>1. \A v : Held(v) = {}
    BY <1>13 DEF Held
  <2>2. \A v \in Variants : InitStock[v] \in Nat
    BY CheckoutAssumption
  <2>3. \A v \in Variants : row[v].reserved = 0 /\ row[v].stock = InitStock[v]
    BY <1>2
  <2>4. \A v \in Variants : Cardinality(Held(v)) = 0
    BY <2>1, FS_EmptySet
  <2>5. \A v \in Variants : row[v].reserved = Cardinality(Held(v)) /\ row[v].reserved <= row[v].stock
    BY <2>2, <2>3, <2>4
  <2> QED
    BY <2>5 DEF InventoryExact
<1> QED
  BY <1>11, <1>12, <1>14, <1>15, <1>16 DEF CheckoutInv

LEMMA NextKeeps ==
    ASSUME TypeOK, CheckoutInv, Next
    PROVE  TypeOK' /\ CheckoutInv'
<1>1. ASSUME NEW r \in Requests, CheckoutStep(r)
      PROVE  TypeOK' /\ CheckoutInv'
  BY <1>1, LookupKeeps, SnapshotKeeps, BeginKeeps, ValidateVoucherKeeps, ReserveLineKeeps,
     FailKeeps, InsertOrderKeeps, RecoverKeeps, CommitKeeps, ClearCartKeeps DEF CheckoutStep
<1>2. ASSUME NEW r \in Requests, CancelStep(r) \/ CancelBegin(r)
      PROVE  TypeOK' /\ CheckoutInv'
  BY <1>2, CancelBeginKeeps, CancelReleaseKeeps, CancelStops, CancelVoucherKeeps,
     CancelCommitKeeps DEF CancelStep
<1>3. ASSUME NEW r \in Requests, Fail(r) \/ CancelFail(r) \/ DeadlockVictim(r)
      PROVE  TypeOK' /\ CheckoutInv'
  BY <1>3, FailKeeps, CancelStops DEF DeadlockVictim
<1> QED
  BY <1>1, <1>2, <1>3, EditCartKeeps, UpdateVariantKeeps, RemoveReadKeeps,
     RemoveCompareKeeps, RemoveWriteKeeps DEF Next

LEMMA StutterKeeps ==
    ASSUME TypeOK, CheckoutInv, UNCHANGED vars
    PROVE  TypeOK' /\ CheckoutInv'
<1>1. /\ UNCHANGED <<row, used, order, cart, lock, pend, req, cancel, removal, stale>>
      /\ UNCHANGED tx
  BY DEF vars, tx
<1>2. TypeOK'
  BY <1>1 DEF TypeOK
<1>3. InventoryExact'
  BY <1>1, SameInventory DEF CheckoutInv
<1> QED
  BY <1>1, <1>2, <1>3, OutsideKeeps

LEMMA Inductive == Spec => [](TypeOK /\ CheckoutInv)
<1>1. Init => TypeOK /\ CheckoutInv
  BY InitHolds
<1>2. TypeOK /\ CheckoutInv /\ [Next]_vars => (TypeOK /\ CheckoutInv)'
  BY NextKeeps, StutterKeeps
<1> QED
  BY <1>1, <1>2, PTL DEF Spec

-----------------------------------------------------------------------------
(* Theorems                                                                *)

(* Every step of createOrder, of a cancellation and of the administrator's *)
(* edits of a variant keeps the rows, the locks and the pending changes of *)
(* the type declared for them                                              *)
THEOREM TypeCorrect == Spec => []TypeOK
<1>1. TypeOK /\ CheckoutInv => TypeOK
  OBVIOUS
<1> QED
  BY <1>1, Inductive, PTL

(* createOrder places one order for each idempotency key, however many     *)
(* calls with it interleave, fail or are repeated, and answers each call   *)
(* that ends with that order                                               *)
THEOREM OncePerKeyCorrect == Spec => []OncePerKey
<1>1. ASSUME TypeOK, CheckoutInv
      PROVE  OncePerKey
  <2>1. ASSUME NEW k \in Keys
        PROVE  Cardinality(PlacedWith(k)) <= 1
    <3>1. \A o, p \in PlacedWith(k) : o = p
      BY <1>1 DEF CheckoutInv, OneOrder, PlacedWith
    <3>2. CASE PlacedWith(k) = {}
      BY <3>2, FS_EmptySet
    <3>3. CASE PlacedWith(k) # {}
      <4>1. PICK o \in PlacedWith(k) : PlacedWith(k) = {o}
        BY <3>1, <3>3
      <4>2. Cardinality({o}) = 1
        BY FS_Singleton
      <4> QED
        BY <4>1, <4>2
    <3> QED
      BY <3>2, <3>3
  <2>2. ASSUME NEW r \in Requests, req[r].stage = "done"
        PROVE  PlacedWith(KeyOf(r)) = {req[r].answer}
    <3>1. req[r].answer \in PlacedWith(KeyOf(r))
      BY <1>1, <2>2 DEF CheckoutInv, ReqInv, KeyInv
    <3>2. \A o, p \in PlacedWith(KeyOf(r)) : o = p
      BY <1>1 DEF CheckoutInv, OneOrder, PlacedWith
    <3> QED
      BY <3>1, <3>2
  <2> QED
    BY <2>1, <2>2 DEF OncePerKey
<1> QED
  BY <1>1, Inductive, PTL

(* reserved_quantity of a variant is the number of units that the orders   *)
(* hold of it and never more than its stock, unless remove() has written   *)
(* back quantities that were no longer current                             *)
THEOREM InventoryExactCorrect == Spec => []InventoryExact
<1>1. TypeOK /\ CheckoutInv => InventoryExact
  BY DEF CheckoutInv
<1> QED
  BY <1>1, Inductive, PTL

(* used_count is the number of the voucher's usages and neither limit is   *)
(* exceeded, because the voucher's row stays locked from the check of its  *)
(* limits to the commit                                                    *)
THEOREM VoucherExactCorrect == Spec => []VoucherExact
<1>1. TypeOK /\ CheckoutInv => VoucherExact
  BY DEF CheckoutInv
<1> QED
  BY <1>1, Inductive, PTL

(* What a checkout takes out of the cart is the snapshot it has read, and  *)
(* an order it has placed itself holds the same lines                      *)
THEOREM ClearedWasReadCorrect == Spec => []ClearedWasRead
<1>1. TypeOK /\ CheckoutInv => ClearedWasRead
  BY DEF CheckoutInv, ReqInv, CartInv, ClearedWasRead
<1> QED
  BY <1>1, Inductive, PTL

(* Only the commit of its own checkout places an order *)
LEMMA OnlyCommitPlaces ==
    ASSUME TypeOK, CheckoutInv, [Next]_vars, NEW r \in Requests,
           order'[r].state = "reserved", order[r].state = "none"
    PROVE  Commit(r)
<1>1. order' # order
  OBVIOUS
<1>2. ASSUME NEW x \in Requests, Commit(x)
      PROVE  x = r
  BY <1>2, CommitEffect
<1>3. ASSUME NEW x \in Requests, CancelCommit(x)
      PROVE  FALSE
  BY <1>3, CancelCommitEffect
<1>4. ASSUME NEW x \in Requests, CheckoutStep(x)
      PROVE  Commit(x)
  BY <1>1, <1>4 DEF CheckoutStep, Lookup, Snapshot, Begin, ValidateVoucher, ReserveLine,
     OutOfStock, InsertOrder, Recover, ClearCart, goods
<1>5. ASSUME NEW x \in Requests,
             Fail(x) \/ CancelBegin(x) \/ CancelStep(x) \/ CancelFail(x) \/ DeadlockVictim(x)
      PROVE  CancelCommit(x)
  BY <1>1, <1>5 DEF Fail, CancelBegin, CancelStep, CancelRelease, CancelInconsistent,
     CancelVoucher, CancelFail, DeadlockVictim, goods
<1>6. ~UNCHANGED vars
  BY <1>1 DEF vars
<1>7. \A u \in Users, lines \in Carts : ~EditCart(u, lines)
  BY <1>1 DEF EditCart, goods
<1>8. \A v \in Variants : /\ \A dto \in Edits[v] : ~UpdateVariant(v, dto)
                          /\ ~RemoveRead(v) /\ ~RemoveCompare(v) /\ ~RemoveWrite(v)
  BY <1>1 DEF UpdateVariant, RemoveRead, RemoveCompare, RemoveWrite, WriteBack
<1> QED
  BY <1>2, <1>3, <1>4, <1>5, <1>6, <1>7, <1>8 DEF Next

(* The statements of createOrder's transaction act as one: when an order   *)
(* appears, exactly its units have been reserved, of variants that are     *)
(* active at that moment and whose stock covers them                       *)
THEOREM PlacesAtomicallyCorrect == Spec => PlacesAtomically
<1> DEFINE A == \A r \in Requests : order'[r].state = "reserved" /\ order[r].state = "none" =>
                \A v \in Variants :
                    LET n == Cardinality(Units(order'[r].lines, v)) IN
                    /\ row'[v].reserved = row[v].reserved + n
                    /\ n > 0 => row[v].active /\ row'[v].reserved <= row[v].stock
<1>1. ASSUME TypeOK, CheckoutInv, [Next]_vars
      PROVE  A
  <2>1. ASSUME NEW r \in Requests, order'[r].state = "reserved", order[r].state = "none",
               NEW v \in Variants
        PROVE  LET n == Cardinality(Units(order'[r].lines, v)) IN
               /\ row'[v].reserved = row[v].reserved + n
               /\ n > 0 => row[v].active /\ row'[v].reserved <= row[v].stock
    <3>1. Commit(r)
      BY <1>1, <2>1, OnlyCommitPlaces
    <3>2. order'[r].lines = req[r].lines
      BY <1>1, <3>1, CommitEffect
    <3>3. /\ row'[v].reserved = row[v].reserved + pend[Checkout(r)][v]
          /\ ReqInv(r) /\ req[r].stage = "commit"
      BY <1>1, <3>1, TxFacts, ApplyEffect DEF Commit, CheckoutInv
    <3>4. /\ pend[Checkout(r)][v] = Cardinality(Units(req[r].lines, v))
          /\ pend[Checkout(r)][v] > 0 =>
                 /\ row[v].active
                 /\ row[v].reserved + pend[Checkout(r)][v] <= row[v].stock
      BY <1>1, <3>3, CommitPending
    <3> QED
      BY <3>2, <3>3, <3>4
  <2> QED
    BY <2>1
<1> HIDE DEF A
<1>2. TypeOK /\ CheckoutInv /\ [Next]_vars => [A]_vars
  BY <1>1
<1>3. Spec => [][A]_vars
  BY <1>2, Inductive, PTL DEF Spec
<1> QED
  BY <1>3 DEF A, PlacesAtomically
=============================================================================
