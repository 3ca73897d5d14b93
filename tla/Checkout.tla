------------------------------ MODULE Checkout ------------------------------
(***************************************************************************)
(* createOrder statement by statement.  OrderPayment takes the placing of  *)
(* an order as one step; here every SQL statement of its transaction and   *)
(* every call to the cart service is a step of its own, between the steps  *)
(* of other checkouts, of cancellations and of the administrator's edits   *)
(* of a variant.  Transactions run at READ COMMITTED: a row written or     *)
(* read FOR UPDATE stays locked until its transaction ends, what it wrote  *)
(* is seen by others only then, and an UPDATE that had to wait evaluates   *)
(* its condition on the new row.                                           *)
(*                                                                         *)
(* An order is named by the request that created it.  Prices, the shipping *)
(* address and the dates of the voucher are left out: a refusal for one of *)
(* them is a failure like any other (Fail).  Gifts are lines of the cart.  *)
(***************************************************************************)
EXTENDS Integers, Sequences, FiniteSets, SequencesExt

CONSTANTS
    Requests,      \* calls of createOrder
    Users,
    Keys,          \* idempotency keys, one for each visit of the checkout page
    Variants,
    Voucher,       \* the voucher
    None,          \* no transaction
    UserOf,        \* UserOf[k]: whose visit it is
    Scenarios,     \* what the requests may ask for: key and use of the voucher
    InitCart,      \* InitCart[u]: the lines of the user's cart
    Carts,         \* what a customer may make of a cart: sequences of lines
    InitStock,     \* InitStock[v]
    Edits,         \* Edits[v]: the stock and active flag an edit may set
    UsageLimit,    \* vouchers.usage_limit
    UserLimit,     \* vouchers.user_limit_per_user
    MaxQuantity,   \* bound of a line's quantity
    EditAt,        \* EditAt[u]: versions of the cart at which it is edited
    MaxRemovals    \* MaxRemovals[v]: bound of the removals of a variant

Line == [variant: Variants, quantity: 1..MaxQuantity]

ASSUME CheckoutAssumption ==
    /\ IsFiniteSet(Requests) /\ IsFiniteSet(Variants)
    /\ UserOf \in [Keys -> Users]
    /\ Scenarios \subseteq [Requests -> [key: Keys, voucher: BOOLEAN]]
    /\ Carts \subseteq Seq(Line) \ {<<>>}
    /\ InitStock \in [Variants -> Nat]
    /\ InitCart \in [Users -> Seq(Line)]
    /\ Edits \in [Variants -> SUBSET [stock: Nat, active: BOOLEAN]]
    /\ {UsageLimit, UserLimit, MaxQuantity} \subseteq Nat
    /\ EditAt \in [Users -> SUBSET Nat]
    /\ MaxRemovals \in [Variants -> Nat]
    /\ Voucher \notin Variants \cup Keys
    /\ Variants \cap Keys = {}
    /\ None \notin Requests \cup ({"checkout", "cancel"} \X Requests)

VARIABLES
    row,      \* row[v]: the committed row of product_variants
    used,     \* vouchers.used_count
    order,    \* order[r]: the order that request r has created
    cart,     \* cart[u]: lines and version (updatedAt) of a user's cart
    lock,     \* lock[x]: the transaction that holds row x
    pend,     \* pend[t][v]: change of reserved_quantity that t has not committed
    req,      \* how far each checkout is
    cancel,   \* how far the cancellation of each order is
    removal,  \* how far the removal of each variant is
    stale     \* history: variants whose quantities a removal has set back

vars == <<row, used, order, cart, lock, pend, req, cancel, removal, stale>>
tx == <<lock, pend>>
goods == <<row, used, order, removal, stale>>

(* Rows that transactions wait for.  The row of a key is its entry in the  *)
(* unique index: an INSERT waits for an uncommitted one of the same key    *)
Rows == Variants \cup {Voucher} \cup Keys
Tx == {"checkout", "cancel"} \X Requests
Checkout(r) == <<"checkout", r>>
Cancellation(r) == <<"cancel", r>>

VariantRow == [stock: Int, reserved: Int, active: BOOLEAN]
Order == [state: {"none", "reserved", "released"}, lines: Seq(Line),
          voucher: BOOLEAN]
NoOrder == [state |-> "none", lines |-> <<>>, voucher |-> FALSE]
NoChange == [v \in Variants |-> 0]

Ended == {"done", "failed"}
Stage == {"new", "snapshot", "begin", "voucher", "lines", "insert", "commit",
          "recover", "clear"} \cup Ended

(* asks: the key and whether there is a voucher code; lines, version: the  *)
(* snapshot of the cart; next: the line to reserve; answer: the order that *)
(* the request is answered with; cleared: what it took out of the cart     *)
Request == [asks: [key: Keys, voucher: BOOLEAN], stage: Stage, lines: Seq(Line),
            version: Nat, next: Nat, answer: Requests \cup {None},
            cleared: Seq(Line)]
NewRequest(asks) == [asks |-> asks, stage |-> "new", lines |-> <<>>, version |-> 0,
                     next |-> 1, answer |-> None, cleared |-> <<>>]

NoRemoval == [stage |-> "idle",
              entity |-> [stock |-> 0, reserved |-> 0, active |-> FALSE],
              columns |-> {}, count |-> 0]

-----------------------------------------------------------------------------
(* Orders and their lines                                                  *)

VariantsOf(lines) == {lines[i].variant : i \in DOMAIN lines}

Units(lines, v) == {u \in (DOMAIN lines) \X (1..MaxQuantity) :
                        /\ lines[u[1]].variant = v
                        /\ u[2] <= lines[u[1]].quantity}

KeyOf(r) == req[r].asks.key
BuyerOf(r) == UserOf[KeyOf(r)]

(* The orders placed with a key                                            *)
PlacedWith(k) == {o \in Requests : KeyOf(o) = k /\ order[o].state # "none"}

(* The rows of voucher_usages                                              *)
Usages == {o \in Requests : order[o].voucher /\ order[o].state = "reserved"}

-----------------------------------------------------------------------------
(* Transactions                                                            *)

Free(x, t) == lock[x] \in {None, t}

(* The row is locked until the transaction ends                            *)
Take(x, t) == lock' = [lock EXCEPT ![x] = t]

(* Mutant: a failed transaction keeps its connection open *)
EndKeepingLocks(t) == lock' = lock /\ pend' = [pend EXCEPT ![t] = NoChange]

End(t) ==
    /\ lock' = [x \in Rows |-> IF lock[x] = t THEN None ELSE lock[x]]
    /\ pend' = [pend EXCEPT ![t] = NoChange]

ApplyPending(t) ==
    row' = [v \in Variants |-> [row[v] EXCEPT !.reserved = @ + pend[t][v]]]

(* The row that a transaction has to wait for with its next statement      *)
Awaited(t) ==
    LET r == t[2] IN
    IF t[1] = "checkout"
    THEN CASE req[r].stage = "voucher" -> {Voucher}
           [] req[r].stage = "lines" -> {req[r].lines[req[r].next].variant}
           [] req[r].stage = "insert" -> {KeyOf(r)}
           [] OTHER -> {}
    ELSE CASE cancel[r].stage = "release" -> {Head(cancel[r].plan)}
           [] cancel[r].stage = "voucher" -> {Voucher}
           [] OTHER -> {}

WaitsFor(s, t) == s # t /\ \E x \in Awaited(s) : lock[x] = t

(* The transactions of a cycle of waits: each waits for one of them and is *)
(* awaited by one of them                                                  *)
Deadlocked(t) ==
    LET waiting == {s \in Tx : \E w \in Tx : WaitsFor(s, w)} IN
    \E S \in SUBSET waiting : /\ t \in S
                              /\ \A s \in S : /\ \E w \in S : WaitsFor(s, w)
                                              /\ \E w \in S : WaitsFor(w, s)

-----------------------------------------------------------------------------
(* createOrder                                                             *)

To(r, stage) == req' = [req EXCEPT ![r].stage = stage]

Answer(r, o, stage) == req' = [req EXCEPT ![r].stage = stage, ![r].answer = o]

Failed(r) == req' = [req EXCEPT ![r] = [NewRequest(@.asks) EXCEPT !.stage = "failed"]]

(* The order of an earlier request with this key is the answer             *)
Lookup(r) ==
    /\ req[r].stage = "new"
    /\ \/ \E o \in PlacedWith(KeyOf(r)) : Answer(r, o, "done")
       \/ PlacedWith(KeyOf(r)) = {} /\ To(r, "snapshot")
    /\ UNCHANGED <<goods, cart, tx, cancel>>

Available(l) == /\ row[l.variant].active
                /\ row[l.variant].stock - row[l.variant].reserved >= l.quantity

(* validateCart: there are lines and each is in stock; the cart is saved,  *)
(* which gives it a new version even though it holds the same              *)
Snapshot(r) ==
    LET c == cart[BuyerOf(r)]
        valid == c.lines # <<>> /\ \A i \in DOMAIN c.lines : Available(c.lines[i]) IN
    /\ req[r].stage = "snapshot"
    /\ \/ /\ valid
          /\ cart' = [cart EXCEPT ![BuyerOf(r)].version = @ + 1]
          /\ req' = [req EXCEPT ![r].stage = "begin", ![r].lines = c.lines,
                                ![r].version = c.version + 1]
       \/ ~valid /\ Failed(r) /\ UNCHANGED cart
    /\ UNCHANGED <<goods, tx, cancel>>

(* BEGIN; the key is looked up once more                                   *)
Begin(r) ==
    /\ req[r].stage = "begin"
    /\ \/ \E o \in PlacedWith(KeyOf(r)) : Answer(r, o, "clear")
       \/ /\ PlacedWith(KeyOf(r)) = {}
          /\ To(r, IF req[r].asks.voucher THEN "voucher" ELSE "lines")
    /\ UNCHANGED <<goods, cart, tx, cancel>>

VoucherUsable(r) ==
    /\ used < UsageLimit
    /\ Cardinality({o \in Usages : BuyerOf(o) = BuyerOf(r)}) < UserLimit

(* Mutant: the voucher is read without FOR UPDATE *)
ValidateVoucherUnlocked(r) ==
    /\ req[r].stage = "voucher"
    /\ \/ VoucherUsable(r) /\ To(r, "lines")
       \/ ~VoucherUsable(r) /\ Failed(r)
    /\ UNCHANGED <<goods, cart, tx, cancel>>

(* SELECT ... FOR UPDATE OF v, then its limits and the user's usages       *)
ValidateVoucher(r) ==
    /\ req[r].stage = "voucher"
    /\ Free(Voucher, Checkout(r))
    /\ \/ /\ VoucherUsable(r)
          /\ To(r, "lines")
          /\ Take(Voucher, Checkout(r))
          /\ UNCHANGED pend
       \/ /\ ~VoucherUsable(r)
          /\ Failed(r)
          /\ End(Checkout(r))
    /\ UNCHANGED <<goods, cart, cancel>>

(* Mutant: what other orders hold is not subtracted *)
EnoughInAll(r, l) ==
    /\ row[l.variant].active
    /\ row[l.variant].stock - pend[Checkout(r)][l.variant] >= l.quantity

(* The condition of the UPDATE; what the transaction has reserved for an   *)
(* earlier line of the same variant counts                                 *)
Enough(r, l) ==
    /\ row[l.variant].active
    /\ row[l.variant].stock - (row[l.variant].reserved
                               + pend[Checkout(r)][l.variant]) >= l.quantity

ReserveLine(r) ==
    LET l == req[r].lines[req[r].next]
        t == Checkout(r) IN
    /\ req[r].stage = "lines"
    /\ Enough(r, l)
    /\ Free(l.variant, t)
    /\ Take(l.variant, t)
    /\ pend' = [pend EXCEPT ![t][l.variant] = @ + l.quantity]
    /\ req' = [req EXCEPT ![r].next = @ + 1,
                          ![r].stage = IF req[r].next = Len(req[r].lines)
                                       THEN "insert" ELSE "lines"]
    /\ UNCHANGED <<goods, cart, cancel>>

(* No row satisfies the condition: nothing to wait for                     *)
OutOfStock(r) ==
    /\ req[r].stage = "lines"
    /\ ~Enough(r, req[r].lines[req[r].next])
    /\ Failed(r)
    /\ End(Checkout(r))
    /\ UNCHANGED <<goods, cart, cancel>>

(* Mutant: no unique index on the key *)
InsertOrderNotUnique(r) ==
    /\ req[r].stage = "insert"
    /\ To(r, "commit")
    /\ UNCHANGED <<goods, cart, tx, cancel>>

(* INSERT INTO orders: unique_violation (23505) rolls back                 *)
InsertOrder(r) ==
    LET t == Checkout(r) IN
    /\ req[r].stage = "insert"
    /\ Free(KeyOf(r), t)
    /\ \/ /\ PlacedWith(KeyOf(r)) = {}
          /\ To(r, "commit")
          /\ Take(KeyOf(r), t)
          /\ UNCHANGED pend
       \/ /\ PlacedWith(KeyOf(r)) # {}
          /\ To(r, "recover")
          /\ End(t)
    /\ UNCHANGED <<goods, cart, cancel>>

(* After 23505 the order of the key is the answer; the cart is left alone  *)
Recover(r) ==
    /\ req[r].stage = "recover"
    /\ \E o \in PlacedWith(KeyOf(r)) : Answer(r, o, "done")
    /\ UNCHANGED <<goods, cart, tx, cancel>>

(* The voucher's UPDATE and the INSERT of its usage, whose locks are held, *)
(* and COMMIT                                                              *)
Commit(r) ==
    LET voucher == req[r].asks.voucher IN
    /\ req[r].stage = "commit"
    /\ ApplyPending(Checkout(r))
    /\ used' = IF voucher THEN used + 1 ELSE used
    /\ order' = [order EXCEPT ![r] = [state |-> "reserved", voucher |-> voucher,
                                      lines |-> req[r].lines]]
    /\ Answer(r, r, "clear")
    /\ End(Checkout(r))
    /\ UNCHANGED <<cart, cancel, removal, stale>>

(* Mutant: the version of the cart is not compared *)
ClearCartAnyVersion(r) ==
    LET u == BuyerOf(r) IN
    /\ req[r].stage = "clear"
    /\ cart' = [cart EXCEPT ![u] = [lines |-> <<>>, version |-> @.version + 1]]
    /\ req' = [req EXCEPT ![r].stage = "done", ![r].cleared = cart[u].lines]
    /\ UNCHANGED <<goods, tx, cancel>>

(* The cart is deleted if it still has the version of the snapshot; the    *)
(* request is answered in any case, after an error as well                 *)
ClearCart(r) ==
    LET u == BuyerOf(r) IN
    /\ req[r].stage = "clear"
    /\ \/ /\ cart[u].version = req[r].version
          /\ cart' = [cart EXCEPT ![u] = [lines |-> <<>>, version |-> @.version + 1]]
          /\ req' = [req EXCEPT ![r].stage = "done", ![r].cleared = cart[u].lines]
       \/ To(r, "done") /\ UNCHANGED cart
    /\ UNCHANGED <<goods, tx, cancel>>

(* A refused address, an error, or the end of the process: the transaction *)
(* is rolled back; the customer's page may send the key again              *)
Fail(r) ==
    /\ req[r].stage \notin Ended \cup {"new"}
    /\ Failed(r)
    /\ End(Checkout(r))
    /\ UNCHANGED <<goods, cart, cancel>>

-----------------------------------------------------------------------------
(* Cancelling a pending order: transitionInventoryInTransaction(released), *)
(* releaseVoucherUsageInTransaction.  The rows of GROUP BY come in no      *)
(* particular order.  The order's row is locked first, so that each order  *)
(* has one cancellation at a time                                          *)

NoCancel == [stage |-> "idle", plan |-> <<>>]

AfterRelease(r) == IF order[r].voucher THEN "voucher" ELSE "commit"

CancelBegin(r) ==
    /\ cancel[r].stage = "idle"
    /\ order[r].state = "reserved"
    /\ \E plan \in SetToSeqs(VariantsOf(order[r].lines)) :
           cancel' = [cancel EXCEPT ![r] = [stage |-> "release", plan |-> plan]]
    /\ UNCHANGED <<goods, cart, tx, req>>

CancelRelease(r) ==
    LET v == Head(cancel[r].plan)
        n == Cardinality(Units(order[r].lines, v))
        t == Cancellation(r) IN
    /\ cancel[r].stage = "release"
    /\ row[v].reserved >= n
    /\ Free(v, t)
    /\ Take(v, t)
    /\ pend' = [pend EXCEPT ![t][v] = -n]
    /\ cancel' = [cancel EXCEPT ![r].plan = Tail(@),
                                ![r].stage = IF Len(cancel[r].plan) = 1
                                             THEN AfterRelease(r) ELSE "release"]
    /\ UNCHANGED <<goods, cart, req>>

CancelVoucher(r) ==
    /\ cancel[r].stage = "voucher"
    /\ Free(Voucher, Cancellation(r))
    /\ Take(Voucher, Cancellation(r))
    /\ cancel' = [cancel EXCEPT ![r].stage = "commit"]
    /\ UNCHANGED <<goods, cart, pend, req>>

CancelCommit(r) ==
    /\ cancel[r].stage = "commit"
    /\ ApplyPending(Cancellation(r))
    /\ used' = IF order[r].voucher /\ used > 0 THEN used - 1 ELSE used
    /\ order' = [order EXCEPT ![r].state = "released"]
    /\ cancel' = [cancel EXCEPT ![r] = NoCancel]
    /\ End(Cancellation(r))
    /\ UNCHANGED <<cart, req, removal, stale>>

(* Fewer units are reserved than the order holds: the cancellation is      *)
(* refused                                                                 *)
CancelInconsistent(r) ==
    LET v == Head(cancel[r].plan) IN
    /\ cancel[r].stage = "release"
    /\ row[v].reserved < Cardinality(Units(order[r].lines, v))
    /\ cancel' = [cancel EXCEPT ![r] = NoCancel]
    /\ End(Cancellation(r))
    /\ UNCHANGED <<goods, cart, req>>

(* An error or the end of the process                                      *)
CancelFail(r) ==
    /\ cancel[r].stage # "idle"
    /\ cancel' = [cancel EXCEPT ![r] = NoCancel]
    /\ End(Cancellation(r))
    /\ UNCHANGED <<goods, cart, req>>

(* The database ends one transaction of a cycle of waits (SQLSTATE 40P01)  *)
DeadlockVictim(r) ==
    \/ Awaited(Checkout(r)) # {} /\ Deadlocked(Checkout(r)) /\ Fail(r)
    \/ Awaited(Cancellation(r)) # {} /\ Deadlocked(Cancellation(r)) /\ CancelFail(r)

-----------------------------------------------------------------------------
(* The customer's cart and the administrator's variants                    *)

(* Any request to the cart service, a mere look at the cart included, is a *)
(* save with a new version                                                 *)
EditCart(u, lines) ==
    /\ cart[u].version \in EditAt[u]
    /\ cart' = [cart EXCEPT ![u] = [lines |-> lines, version |-> @.version + 1]]
    /\ UNCHANGED <<goods, tx, req, cancel>>

(* update(): one row, locked from the first statement on                   *)
UpdateVariant(v, dto) ==
    /\ lock[v] = None
    /\ dto.stock >= row[v].reserved
    /\ row' = [row EXCEPT ![v].stock = dto.stock, ![v].active = dto.active]
    /\ UNCHANGED <<used, order, cart, tx, req, cancel, removal, stale>>

(* remove(): findOne without a lock, isActive = false                      *)
RemoveRead(v) ==
    /\ removal[v].stage = "idle"
    /\ removal[v].count < MaxRemovals[v]
    /\ removal' = [removal EXCEPT ![v].stage = "read", ![v].count = @ + 1,
                       ![v].entity = [row[v] EXCEPT !.active = FALSE]]
    /\ UNCHANGED <<row, used, order, cart, tx, req, cancel, stale>>

(* save() reads the row again; the columns in which the entity differs     *)
(* will be written                                                         *)
RemoveCompare(v) ==
    LET entity == removal[v].entity IN
    /\ removal[v].stage = "read"
    /\ removal' = [removal EXCEPT ![v].stage = "write",
                       ![v].columns = {c \in DOMAIN entity : entity[c] # row[v][c]}]
    /\ UNCHANGED <<row, used, order, cart, tx, req, cancel, stale>>

(* chk_product_variant_inventory_balances                                  *)
Balanced(r) == 0 <= r.reserved /\ r.reserved <= r.stock

(* The row as the UPDATE leaves it; the constraint may refuse it           *)
Rewritten(v) ==
    LET m == removal[v]
        new == [c \in DOMAIN row[v] |-> IF c \in m.columns THEN m.entity[c]
                                        ELSE row[v][c]]
    IN IF Balanced(new) THEN new ELSE row[v]

WriteBack(v) ==
    /\ row' = [row EXCEPT ![v] = Rewritten(v)]
    /\ stale' = IF \E c \in {"stock", "reserved"} : row'[v][c] # row[v][c]
                THEN stale \cup {v} ELSE stale
    /\ removal' = [removal EXCEPT ![v] = [NoRemoval EXCEPT !.count = removal[v].count]]
    /\ UNCHANGED <<used, order, cart, tx, req, cancel>>

(* Mutant: save() does not wait for the row's lock *)
RemoveWriteUnlocked(v) ==
    /\ removal[v].stage = "write"
    /\ WriteBack(v)

(* ... with the values read at the beginning                               *)
RemoveWrite(v) ==
    /\ removal[v].stage = "write"
    /\ removal[v].columns # {} => lock[v] = None
    /\ WriteBack(v)

-----------------------------------------------------------------------------
Init ==
    /\ row = [v \in Variants |-> [stock |-> InitStock[v], reserved |-> 0,
                                  active |-> TRUE]]
    /\ used = 0
    /\ order = [r \in Requests |-> NoOrder]
    /\ cart = [u \in Users |-> [lines |-> InitCart[u], version |-> 1]]
    /\ lock = [x \in Rows |-> None]
    /\ pend = [t \in Tx |-> NoChange]
    /\ \E s \in Scenarios : req = [r \in Requests |-> NewRequest(s[r])]
    /\ cancel = [r \in Requests |-> NoCancel]
    /\ removal = [v \in Variants |-> NoRemoval]
    /\ stale = {}

CheckoutStep(r) ==
    \/ Lookup(r)
    \/ Snapshot(r)
    \/ Begin(r)
    \/ ValidateVoucher(r)
    \/ ReserveLine(r)
    \/ OutOfStock(r)
    \/ InsertOrder(r)
    \/ Recover(r)
    \/ Commit(r)
    \/ ClearCart(r)

CancelStep(r) ==
    \/ CancelRelease(r)
    \/ CancelInconsistent(r)
    \/ CancelVoucher(r)
    \/ CancelCommit(r)

Next ==
    \/ \E r \in Requests : \/ CheckoutStep(r)
                           \/ Fail(r)
                           \/ CancelBegin(r)
                           \/ CancelStep(r)
                           \/ CancelFail(r)
                           \/ DeadlockVictim(r)
    \/ \E u \in Users, lines \in Carts : EditCart(u, lines)
    \/ \E v \in Variants :
           \/ \E dto \in Edits[v] : UpdateVariant(v, dto)
           \/ RemoveRead(v)
           \/ RemoveCompare(v)
           \/ RemoveWrite(v)

Spec == Init /\ [][Next]_vars

(* Both services and the database answer.  A statement that waits for a    *)
(* row again and again gets it: the database serves the waiters of a row   *)
(* in turn                                                                 *)
Fairness == \A r \in Requests : /\ SF_vars(CheckoutStep(r))
                                /\ SF_vars(CancelStep(r))
                                /\ WF_vars(DeadlockVictim(r))

FairSpec == Spec /\ Fairness

-----------------------------------------------------------------------------
TypeOK ==
    /\ row \in [Variants -> VariantRow]
    /\ used \in Nat
    /\ order \in [Requests -> Order]
    /\ cart \in [Users -> [lines: Seq(Line), version: Nat]]
    /\ lock \in [Rows -> Tx \cup {None}]
    /\ pend \in [Tx -> [Variants -> Int]]
    /\ req \in [Requests -> Request]
    /\ cancel \in [Requests -> [stage: {"idle", "release", "voucher", "commit"},
                                plan: Seq(Variants)]]
    /\ removal \in [Variants -> [stage: {"idle", "read", "write"},
                                 entity: VariantRow, count: Nat,
                                 columns: SUBSET {"stock", "reserved", "active"}]]
    /\ stale \subseteq Variants

(* A visit of the checkout page makes one order.  However often createOrder *)
(* is called with one key, at the same time or after a failure that the    *)
(* customer saw although the order was placed, one order is created, and   *)
(* every call that is answered is answered with it                         *)
OncePerKey ==
    /\ \A k \in Keys : Cardinality(PlacedWith(k)) <= 1
    /\ \A r \in Requests : req[r].stage = "done" =>
           PlacedWith(KeyOf(r)) = {req[r].answer}

(* Units of v in orders that hold them                                     *)
Held(v) == UNION {{r} \X Units(order[r].lines, v) :
                      r \in {o \in Requests : order[o].state = "reserved"}}

(* reserved_quantity is what the orders hold, and no more is promised than *)
(* there is, whatever statements interleave.  The one exception: remove()  *)
(* writes back the quantities it read if an order or an edit changed them  *)
(* between its two reads                                                   *)
InventoryExact ==
    \A v \in Variants \ stale : /\ row[v].reserved = Cardinality(Held(v))
                                /\ row[v].reserved <= row[v].stock

(* The voucher's count is the number of its usages and within both limits, *)
(* with checkouts that lock the voucher first and cancellations that lock  *)
(* it last                                                                 *)
VoucherExact ==
    /\ used = Cardinality(Usages)
    /\ used <= UsageLimit
    /\ \A u \in Users : Cardinality({o \in Usages : BuyerOf(o) = u}) <= UserLimit

(* A checkout takes from the cart what it has read there; if the order is  *)
(* its own, this is what was ordered.  What the customer adds meanwhile    *)
(* stays                                                                   *)
ClearedWasRead ==
    \A r \in Requests :
        /\ req[r].cleared \in {<<>>, req[r].lines}
        /\ req[r].answer = r => req[r].lines = order[r].lines

(* The transaction that places an order is one step for everyone else: at  *)
(* its commit every variant it took is still active, all of its units and  *)
(* nothing else are added, and the stock covers them                       *)
PlacesAtomically ==
    [][\A r \in Requests : order'[r].state = "reserved" /\ order[r].state = "none" =>
           \A v \in Variants :
               LET n == Cardinality(Units(order'[r].lines, v)) IN
               /\ row'[v].reserved = row[v].reserved + n
               /\ n > 0 => row[v].active /\ row'[v].reserved <= row[v].stock]_vars

(* Checkouts and cancellations lock the same rows in different orders (the *)
(* voucher first or last, the variants as the cart lists them), so that    *)
(* they may wait for each other in a circle; still each checkout ends      *)
CheckoutEnds ==
    \A r \in Requests : req[r].stage # "new" ~> req[r].stage \in Ended

=============================================================================
