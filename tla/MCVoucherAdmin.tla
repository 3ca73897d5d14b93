--------------------------- MODULE MCVoucherAdmin ---------------------------
(* A small instance of VoucherAdmin for TLC.                               *)
EXTENDS VoucherAdmin, TLC

CONSTANTS o1, o2, o3, e1, e2

(* o1 and o2 belong to one user; o2 is smaller than a fixed discount       *)
MCUserOf == [o \in Orders |-> IF o = o3 THEN "u2" ELSE "u1"]
MCAmountOf == [o \in Orders |-> IF o = o2 THEN 100 ELSE 350]

Voucher(type, value, cap) ==
    [active |-> TRUE, type |-> type, value |-> value, cap |-> cap, min |-> 50,
     limit |-> 1, perUser |-> 1, starts |-> 0, ends |-> 1, used |-> 0]
MCCreations == {Voucher("fixed", 50, Null), Voucher("fixed", 150, 120)}

(* percent and 150 are both possible for the first voucher, but not both   *)
MCChanges == {("type" :> "percent"), ("value" :> 150),
              ("perUser" :> 2), ("starts" :> 1), ("ends" :> 2),
              ("active" :> TRUE @@ "limit" :> 2)}

MCSymmetry == Permutations(Edits)
=============================================================================
