---------------------------- MODULE VoucherAdmin ----------------------------
(***************************************************************************)
(* One voucher between its administration and its use.  The voucher        *)
(* service edits it without a lock: update and remove read the row, build  *)
(* the changed entity and save it.  Checkout (order service), redeemVoucher *)
(* and the cancellation of an order change used_count in transactions that *)
(* lock the row, so each of them is one step.                              *)
(*                                                                         *)
(* TypeORM's save is two statements: it SELECTs the row again and UPDATEs  *)
(* the columns in which the entity differs from that -- the columns of the *)
(* request, and every column somebody else changed since update read it.   *)
(*                                                                         *)
(* Money is counted in the smallest unit, time in periods in which the     *)
(* voucher is or is not valid.  Code, name and description are left out.   *)
(***************************************************************************)
EXTENDS Integers, FiniteSets

CONSTANTS
    Orders,     \* orders, each placed at most once
    UserOf,     \* UserOf[o]: who places order o
    AmountOf,   \* AmountOf[o]: its merchandise amount
    Edits,      \* requests to update or remove the voucher
    Creations,  \* rows an administrator may ask to create
    Changes,    \* bodies of update requests: functions from some columns to values
    MaxTime,    \* bound: the last period
    Null

(* What UpdateVoucherDto may set, and the counter *)
Settable == {"active", "type", "value", "cap", "min", "limit", "perUser",
             "starts", "ends"}
Columns == Settable \cup {"used"}

Row == [active: BOOLEAN, type: {"percent", "fixed"}, value: Nat \ {0},
        cap: Nat \cup {Null}, min: Nat, limit: (Nat \ {0}) \cup {Null},
        perUser: Nat \ {0}, starts: Nat, ends: Nat, used: Nat]

(* What the DTO lets a column be set to *)
Values(c) ==
    CASE c = "active" -> BOOLEAN
      [] c = "type" -> {"percent", "fixed"}
      [] c \in {"value", "perUser"} -> Nat \ {0}
      [] c = "limit" -> (Nat \ {0}) \cup {Null}
      [] c = "cap" -> Nat \cup {Null}
      [] OTHER -> Nat

ASSUME VoucherAssumption ==
    /\ IsFiniteSet(Orders)
    /\ DOMAIN UserOf = Orders
    /\ AmountOf \in [Orders -> Nat]
    /\ Creations \subseteq {r \in Row : r.used = 0}
    /\ \A d \in Changes : /\ DOMAIN d \subseteq Settable
                          /\ \A c \in DOMAIN d : d[c] \in Values(c)
    /\ MaxTime \in Nat
    /\ Null \notin Nat /\ Null \notin Row

VARIABLES
    row,        \* the row of vouchers, Null before it is created
    placed,     \* orders placed and not cancelled
    cancelled,  \* orders cancelled
    discount,   \* voucher_usages: the discount applied to each order, Null if none
    edit,       \* edit[e]: how far request e is
    now,        \* the current period
    overlaps    \* history: changes of used_count while a request was under way

vars == <<row, placed, cancelled, discount, edit, now, overlaps>>
orders == <<placed, cancelled>>

Phase == {"new", "read", "loaded", "done"}
Edit(phase) == [phase |-> phase, entity |-> Null, dirty |-> {}]

Usages == {o \in Orders : discount[o] # Null}
UsagesOf(u) == {o \in Usages : UserOf[o] = u}
Open == {e \in Edits : edit[e].phase \in {"read", "loaded"}}

-----------------------------------------------------------------------------
(* Administration                                                          *)

(* validateDiscountPayload *)
ValidDiscount(r) == r.type = "percent" => r.value <= 100

(* validateDateRange *)
ValidDates(r) == r.starts < r.ends

(* create: one INSERT *)
Create(r) ==
    /\ row = Null
    /\ ValidDates(r)
    /\ ValidDiscount(r)
    /\ row' = r
    /\ UNCHANGED <<orders, discount, edit, now, overlaps>>

(* The entity update builds: what the request sets, the rest as it was read *)
Entity(d) == [c \in Columns |-> IF c \in DOMAIN d THEN d[c] ELSE row[c]]

Starts(e, d) ==
    /\ edit[e].phase = "new"
    /\ edit' = [edit EXCEPT ![e] =
                   [phase |-> "read", entity |-> Entity(d), dirty |-> {}]]
    /\ UNCHANGED <<row, orders, discount, now, overlaps>>

(* update: findOne and the validation of the merged values                 *)
Update(e, d) ==
    /\ row # Null
    /\ ValidDiscount(Entity(d))
    /\ DOMAIN d \cap {"starts", "ends"} # {} => ValidDates(Entity(d))
    /\ Starts(e, d)

(* remove: findOne; the voucher is only deactivated                        *)
RemoveVoucher(e) ==
    /\ row # Null
    /\ Starts(e, [c \in {"active"} |-> FALSE])

(* save: the SELECT and the comparison                                     *)
SaveLoad(e) ==
    /\ edit[e].phase = "read"
    /\ edit' = [edit EXCEPT ![e].phase = "loaded",
                            ![e].dirty = {c \in Columns : edit[e].entity[c] # row[c]}]
    /\ UNCHANGED <<row, orders, discount, now, overlaps>>

(* save: the UPDATE                                                        *)
SaveWrite(e) ==
    /\ edit[e].phase = "loaded"
    /\ row' = [c \in Columns |-> IF c \in edit[e].dirty THEN edit[e].entity[c] ELSE row[c]]
    /\ edit' = [edit EXCEPT ![e] = Edit("done")]
    /\ UNCHANGED <<orders, discount, now, overlaps>>

-----------------------------------------------------------------------------
(* Use                                                                     *)

(* Mutant: the per-user quota is compared one too late *)
UsableOnceMore(o) ==
    /\ row # Null
    /\ row.active
    /\ row.starts <= now /\ now <= row.ends
    /\ row.limit = Null \/ row.used < row.limit
    /\ AmountOf[o] >= row.min
    /\ Cardinality(UsagesOf(UserOf[o])) <= row.perUser

(* assertVoucherUsable and validateVoucherForCheckout, on the locked row   *)
Usable(o) ==
    /\ row # Null
    /\ row.active
    /\ row.starts <= now /\ now <= row.ends
    /\ row.limit = Null \/ row.used < row.limit
    /\ AmountOf[o] >= row.min
    /\ Cardinality(UsagesOf(UserOf[o])) < row.perUser

AtMost(x, limit) == IF x < limit THEN x ELSE limit

(* A percentage is rounded to the nearest unit                             *)
Uncapped(o) == IF row.type = "percent" THEN (AmountOf[o] * row.value + 50) \div 100
               ELSE row.value

(* Mutant: the order's amount is no limit *)
DiscountUnlimited(o) == IF row.cap = Null THEN Uncapped(o) ELSE AtMost(Uncapped(o), row.cap)

(* calculateDiscountAmount                                                 *)
DiscountAmount(o) ==
    LET capped == IF row.cap = Null THEN Uncapped(o) ELSE AtMost(Uncapped(o), row.cap)
    IN AtMost(capped, AmountOf[o])

(* used_count + 1 and the usage, with the row locked                       *)
Use(o) ==
    /\ Usable(o)
    /\ row' = [row EXCEPT !.used = @ + 1]
    /\ discount' = [discount EXCEPT ![o] = DiscountAmount(o)]
    /\ overlaps' = IF Open = {} THEN overlaps ELSE overlaps + 1

(* createOrder                                                             *)
Checkout(o, useVoucher) ==
    /\ o \notin placed \cup cancelled
    /\ placed' = placed \cup {o}
    /\ IF useVoucher THEN Use(o) ELSE UNCHANGED <<row, discount, overlaps>>
    /\ UNCHANGED <<cancelled, edit, now>>

(* redeemVoucher; no route of the service leads to it yet                  *)
RedeemVoucher(o) ==
    /\ o \in placed
    /\ o \notin Usages
    /\ Use(o)
    /\ UNCHANGED <<orders, edit, now>>

(* Mutant: a cancelled order gives its use back without its row *)
ReleaseUsageOnly(o) ==
    /\ discount' = [discount EXCEPT ![o] = Null]
    /\ UNCHANGED <<row, overlaps>>

(* releaseVoucherUsageInTransaction: GREATEST(used_count - 1, 0)           *)
ReleaseVoucherUsage(o) ==
    /\ discount' = [discount EXCEPT ![o] = Null]
    /\ IF o \in Usages
       THEN /\ row' = [row EXCEPT !.used = IF @ = 0 THEN 0 ELSE @ - 1]
            /\ overlaps' = IF Open = {} THEN overlaps ELSE overlaps + 1
       ELSE UNCHANGED <<row, overlaps>>

(* An order is cancelled by any of the order service's paths               *)
CancelOrder(o) ==
    /\ o \in placed
    /\ placed' = placed \ {o}
    /\ cancelled' = cancelled \cup {o}
    /\ ReleaseVoucherUsage(o)
    /\ UNCHANGED <<edit, now>>

TimePasses ==
    /\ now < MaxTime
    /\ now' = now + 1
    /\ UNCHANGED <<row, orders, discount, edit, overlaps>>

-----------------------------------------------------------------------------
Init ==
    /\ row = Null
    /\ placed = {}
    /\ cancelled = {}
    /\ discount = [o \in Orders |-> Null]
    /\ edit = [e \in Edits |-> Edit("new")]
    /\ now = 0
    /\ overlaps = 0

Next ==
    \/ \E r \in Creations : Create(r)
    \/ \E e \in Edits : \/ \E d \in Changes : Update(e, d)
                          \/ RemoveVoucher(e)
                          \/ SaveLoad(e)
                          \/ SaveWrite(e)
    \/ \E o \in Orders : \/ \E useVoucher \in BOOLEAN : Checkout(o, useVoucher)
                         \/ RedeemVoucher(o)
                         \/ CancelOrder(o)
    \/ TimePasses

Spec == Init /\ [][Next]_vars

-----------------------------------------------------------------------------
(* Properties                                                              *)

TypeOK ==
    /\ row \in Row \cup {Null}
    /\ placed \subseteq Orders
    /\ cancelled \subseteq Orders
    /\ discount \in [Orders -> Nat \cup {Null}]
    /\ edit \in [Edits -> [phase: Phase, entity: Row \cup {Null},
                             dirty: SUBSET Columns]]
    /\ now \in 0..MaxTime
    /\ overlaps \in Nat

(* used_count differs from the number of usages by no more than the number *)
(* of uses and releases that happened while an edit was under way: without *)
(* such an overlap it is exact, and a write-back never costs more than the *)
(* changes it covers, however many edits and stale copies there are.       *)
DriftBounded ==
    row # Null => LET n == Cardinality(Usages) IN
                  row.used - n <= overlaps /\ n - row.used <= overlaps

(* A use keeps within the global quota of that moment, again but for the   *)
(* overlapping changes; always within the user's quota, which is counted   *)
(* from the usages themselves; and its discount is at most the order's     *)
(* amount, even if overlapping edits, each valid by itself, have made the  *)
(* voucher one of several hundred per cent.                                *)
UseWithinLimits ==
    [][\A o \in Usages' \ Usages :
          /\ row.limit = Null \/ Cardinality(Usages') <= row.limit + overlaps
          /\ Cardinality(UsagesOf(UserOf[o])') <= row.perUser
          /\ discount'[o] <= AmountOf[o]]_vars
=============================================================================
