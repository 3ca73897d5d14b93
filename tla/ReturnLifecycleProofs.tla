----------------------- MODULE ReturnLifecycleProofs -----------------------
(***************************************************************************)
(* Proofs about ReturnLifecycle, for any order, prices, discounts and      *)
(* number of requests.                                                     *)
(***************************************************************************)
EXTENDS ReturnLifecycle, FiniteSetTheorems, FunctionTheorems, SequenceTheorems,
        WellFoundedInduction, TLAPS

-----------------------------------------------------------------------------
(* Sums                                                                    *)

UnitsOf(f, S) == UNION {{x} \X (1..f[x]) : x \in S}

LEMMA DisjointSum ==
    ASSUME NEW A, NEW B, IsFiniteSet(A), IsFiniteSet(B), A \cap B = {}
    PROVE  /\ IsFiniteSet(A \cup B) /\ Cardinality(A \cup B) = Cardinality(A) + Cardinality(B)
           /\ Cardinality(A) \in Nat /\ Cardinality(B) \in Nat
<1>1. Cardinality(A) \in Nat /\ Cardinality(B) \in Nat
  BY FS_CardinalityType
<1>2. IsFiniteSet(A \cup B) /\ Cardinality(A \cup B) = Cardinality(A) + Cardinality(B) - Cardinality({})
  BY FS_Union
<1> QED
  BY <1>1, <1>2, FS_EmptySet

LEMMA OneTerm ==
    ASSUME NEW f, NEW x, f[x] \in Nat
    PROVE  IsFiniteSet(UnitsOf(f, {x})) /\ Cardinality(UnitsOf(f, {x})) = f[x]
<1>1. IsFiniteSet({x}) /\ Cardinality({x}) = 1
  BY FS_Singleton
<1>2. IsFiniteSet(1..f[x]) /\ Cardinality(1..f[x]) = f[x]
  <2> DEFINE n == f[x]
  <2>1. n \in Int /\ 1 \in Int /\ n >= 0
    OBVIOUS
  <2> HIDE DEF n
  <2>2. IsFiniteSet(1..n) /\ Cardinality(1..n) = IF 1 > n THEN 0 ELSE n - 1 + 1
    BY <2>1, FS_Interval
  <2>3. IsFiniteSet(1..n) /\ Cardinality(1..n) = n
    BY <2>1, <2>2
  <2> QED
    BY <2>3 DEF n
<1>3. IsFiniteSet({x} \X (1..f[x])) /\ Cardinality({x} \X (1..f[x])) = 1 * f[x]
  <2> DEFINE A == {x}
             B == 1..f[x]
  <2>1. IsFiniteSet(A) /\ IsFiniteSet(B) /\ Cardinality(A) = 1 /\ Cardinality(B) = f[x]
    BY <1>1, <1>2
  <2> HIDE DEF A, B
  <2>2. IsFiniteSet(A \X B) /\ Cardinality(A \X B) = Cardinality(A) * Cardinality(B)
    BY <2>1, FS_Product
  <2>3. IsFiniteSet(A \X B) /\ Cardinality(A \X B) = 1 * f[x]
    BY <2>1, <2>2, Zenon
  <2> QED
    BY <2>3, Zenon DEF A, B
<1>4. UnitsOf(f, {x}) = {x} \X (1..f[x])
  BY DEF UnitsOf
<1>5. 1 * f[x] = f[x]
  OBVIOUS
<1> DEFINE P == {x} \X (1..f[x])
<1>6. IsFiniteSet(P) /\ Cardinality(P) = f[x] /\ UnitsOf(f, {x}) = P
  BY <1>3, <1>4, <1>5, Zenon
<1> HIDE DEF P
<1> QED
  BY <1>6

LEMMA TotalType ==
    ASSUME NEW f, NEW S, IsFiniteSet(S), \A x \in S : f[x] \in Nat
    PROVE  IsFiniteSet(UnitsOf(f, S)) /\ Total(f, S) = Cardinality(UnitsOf(f, S)) /\ Total(f, S) \in Nat
<1> DEFINE g == [x \in S |-> UnitsOf(f, {x})]
           T == {UnitsOf(f, {x}) : x \in S}
<1>1. g \in Surjection(S, T)
  <2>1. g \in [S -> T]
    OBVIOUS
  <2>2. \A y \in T : \E x \in S : g[x] = y
    OBVIOUS
  <2> QED
    BY <2>1, <2>2, Fun_IsSurj
<1>2. IsFiniteSet(T)
  BY <1>1, FS_Surjection
<1>3. \A y \in T : IsFiniteSet(y)
  BY OneTerm
<1>4. IsFiniteSet(UNION T)
  BY <1>2, <1>3, FS_UNION
<1>5. UNION T = UnitsOf(f, S)
  BY DEF UnitsOf
<1> QED
  BY <1>4, <1>5, FS_CardinalityType DEF Total, UnitsOf

(* The sum depends on the terms only *)
LEMMA TotalSame ==
    ASSUME NEW f, NEW g, NEW S, \A x \in S : f[x] = g[x]
    PROVE  Total(f, S) = Total(g, S)
  BY DEF Total

(* A term more *)
LEMMA TotalAdded ==
    ASSUME NEW f, NEW S, IsFiniteSet(S), \A x \in S : f[x] \in Nat, NEW y, y \notin S, f[y] \in Nat
    PROVE  /\ IsFiniteSet(S \cup {y}) /\ Total(f, S \cup {y}) = Total(f, S) + f[y]
           /\ Total(f, S) \in Nat
<1>1. UnitsOf(f, S \cup {y}) = UnitsOf(f, S) \cup UnitsOf(f, {y})
  BY DEF UnitsOf
<1>2. UnitsOf(f, S) \cap UnitsOf(f, {y}) = {}
  BY DEF UnitsOf
<1>3. IsFiniteSet(UnitsOf(f, S)) /\ Total(f, S) = Cardinality(UnitsOf(f, S)) /\ Total(f, S) \in Nat
  BY TotalType
<1>4. IsFiniteSet(UnitsOf(f, {y})) /\ Cardinality(UnitsOf(f, {y})) = f[y]
  BY OneTerm
<1>5. Cardinality(UnitsOf(f, S \cup {y})) = Total(f, S) + f[y]
  <2> DEFINE A == UnitsOf(f, S)
             B == UnitsOf(f, {y})
  <2>1. IsFiniteSet(A) /\ IsFiniteSet(B) /\ A \cap B = {}
    BY <1>2, <1>3, <1>4
  <2> HIDE DEF A, B
  <2>2. Cardinality(A \cup B) = Cardinality(A) + Cardinality(B)
    BY <2>1, DisjointSum
  <2> QED
    BY <2>2, <1>1, <1>3, <1>4 DEF A, B
<1>6. IsFiniteSet(S \cup {y})
  BY FS_AddElement
<1> QED
  BY <1>3, <1>5, <1>6 DEF Total, UnitsOf

(* Fewer and smaller terms *)
LEMMA TotalLess ==
    ASSUME NEW f, NEW g, NEW S, NEW T, IsFiniteSet(T), S \subseteq T,
           \A x \in T : g[x] \in Nat, \A x \in S : f[x] \in Nat /\ f[x] <= g[x]
    PROVE  Total(f, S) <= Total(g, T) /\ Total(f, S) \in Nat /\ Total(g, T) \in Nat
<1>1. UnitsOf(f, S) \in SUBSET UnitsOf(g, T)
  BY DEF UnitsOf
<1>2. IsFiniteSet(S)
  BY FS_Subset
<1>3. /\ IsFiniteSet(UnitsOf(g, T)) /\ Total(g, T) = Cardinality(UnitsOf(g, T)) /\ Total(g, T) \in Nat
      /\ Total(f, S) = Cardinality(UnitsOf(f, S)) /\ Total(f, S) \in Nat
  BY <1>2, TotalType
<1> QED
  BY <1>1, <1>3, FS_Subset

(* Terms that are zero do not count *)
LEMMA TotalOfNonzero ==
    ASSUME NEW f, NEW S, NEW T, S \subseteq T, \A x \in T \ S : f[x] = 0
    PROVE  Total(f, T) = Total(f, S)
<1>1. UnitsOf(f, T) = UnitsOf(f, S)
  BY DEF UnitsOf
<1> QED
  BY <1>1 DEF Total, UnitsOf

LEMMA TotalNothing == \A f : Total(f, {}) = 0
<1>1. \A f : UNION {{x} \X (1..f[x]) : x \in {}} = {}
  OBVIOUS
<1> QED
  BY <1>1, FS_EmptySet DEF Total

LEMMA TotalZero ==
    ASSUME NEW f, NEW S, \A x \in S : f[x] = 0
    PROVE  Total(f, S) = 0
<1>1. Total(f, S) = Total(f, {})
  BY TotalOfNonzero
<1> QED
  BY <1>1, TotalNothing

(* One term changes *)
LEMMA TotalChanged ==
    ASSUME NEW f, NEW g, NEW S, IsFiniteSet(S), NEW y \in S, \A x \in S : f[x] \in Nat,
           g[y] \in Nat, \A x \in S \ {y} : g[x] = f[x]
    PROVE  /\ Total(g, S) = Total(f, S) - f[y] + g[y]
           /\ Total(f, S) \in Nat /\ Total(g, S) \in Nat
<1> DEFINE R == S \ {y}
<1>1. IsFiniteSet(R) /\ S = R \cup {y} /\ y \notin R
  BY FS_RemoveElement
<1> HIDE DEF R
<1>2. \A x \in R : f[x] \in Nat /\ g[x] = f[x]
  BY DEF R
<1>3. Total(f, S) = Total(f, R) + f[y] /\ Total(f, R) \in Nat
  BY <1>1, <1>2, TotalAdded
<1>4. Total(g, S) = Total(g, R) + g[y] /\ Total(g, R) \in Nat
  BY <1>1, <1>2, TotalAdded
<1>5. Total(g, R) = Total(f, R)
  BY <1>2, TotalSame
<1>6. f[y] \in Nat
  OBVIOUS
<1> QED
  BY <1>3, <1>4, <1>5, <1>6

-----------------------------------------------------------------------------
(* Induction over data.  What holds of 0 and is passed on from k to k + 1  *)
(* holds up to L: the least number for which it does not is neither 0 nor  *)
(* the successor of one for which it does.                                 *)

LEMMA Upwards ==
    ASSUME NEW L \in Nat, NEW P, 0 \in P, \A k \in Nat : k < L /\ k \in P => k + 1 \in P
    PROVE  \A k \in 0..L : k \in P
<1> SUFFICES ASSUME NEW k \in 0..L, k \notin P PROVE FALSE
  OBVIOUS
<1> DEFINE T == {n \in 0..L : n \notin P}
           R == OpToRel(<, Nat)
<1>1. T \subseteq Nat /\ T # {}
  OBVIOUS
<1>2. \A x, y \in Nat : <<x, y>> \in R <=> x < y
  BY DEF OpToRel
<1>3. IsWellFoundedOn(R, Nat)
  BY NatLessThanWellFounded, Zenon
<1> HIDE DEF R
<1>4. PICK m \in T : \A y \in T : <<y, m>> \notin R
  BY <1>1, <1>3, WFMin
<1>5. m \in Nat /\ m <= L /\ m \notin P /\ m # 0
  OBVIOUS
<1>6. m - 1 \in Nat /\ m - 1 < m /\ m - 1 < L
  BY <1>5
<1>7. m - 1 \notin T
  BY <1>2, <1>4, <1>5, <1>6
<1>8. m - 1 \in P
  BY <1>6, <1>7
<1>9. m - 1 + 1 \in P
  BY <1>6, <1>8
<1> QED
  BY <1>5, <1>9

(* An enumeration without repetition, and terms along it *)
Distinct(s, L) == \A m, n \in 1..L : s[m] = s[n] => m = n
Terms(f, s, L) == \A n \in 1..L : f[s[n]] \in Nat

(* The first k elements of an enumeration *)
Prefix(s, k) == {s[n] : n \in 1..k}

LEMMA PrefixGrows ==
    ASSUME NEW s, NEW L \in Nat, Distinct(s, L),
           NEW k \in Nat, k < L
    PROVE  /\ Prefix(s, 0) = {}
           /\ Prefix(s, k + 1) = Prefix(s, k) \cup {s[k + 1]}
           /\ s[k + 1] \notin Prefix(s, k)
           /\ IsFiniteSet(Prefix(s, k))
<1>1. 1..(k + 1) = 1..k \cup {k + 1} /\ k + 1 \notin 1..k /\ 1..k \subseteq 1..L /\ k + 1 \in 1..L
  OBVIOUS
<1>2. Prefix(s, 0) = {}
  BY DEF Prefix
<1>3. Prefix(s, k + 1) = Prefix(s, k) \cup {s[k + 1]}
  BY <1>1 DEF Prefix
<1>4. s[k + 1] \notin Prefix(s, k)
  BY <1>1 DEF Prefix, Distinct
<1>5. IsFiniteSet(Prefix(s, k))
  <2> DEFINE f == [n \in 1..k |-> s[n]]
             T == Prefix(s, k)
  <2>1. f \in [1..k -> T] /\ \A y \in T : \E x \in 1..k : f[x] = y
    BY DEF Prefix
  <2>2. f \in Surjection(1..k, T)
    BY <2>1, Fun_IsSurj
  <2>3. IsFiniteSet(1..k)
    BY FS_Interval
  <2> HIDE DEF f, T
  <2>4. IsFiniteSet(T)
    BY <2>2, <2>3, FS_Surjection
  <2> QED
    BY <2>4 DEF T
<1> QED
  BY <1>2, <1>3, <1>4, <1>5

(* A sum along an enumeration *)
LEMMA TotalAlong ==
    ASSUME NEW s, NEW L \in Nat, Distinct(s, L),
           NEW f, Terms(f, s, L),
           NEW k \in Nat, k < L
    PROVE  /\ Total(f, Prefix(s, 0)) = 0
           /\ Total(f, Prefix(s, k + 1)) = Total(f, Prefix(s, k)) + f[s[k + 1]]
           /\ Total(f, Prefix(s, k)) \in Nat /\ f[s[k + 1]] \in Nat
<1>1. /\ Prefix(s, 0) = {}
      /\ Prefix(s, k + 1) = Prefix(s, k) \cup {s[k + 1]}
      /\ s[k + 1] \notin Prefix(s, k)
      /\ IsFiniteSet(Prefix(s, k))
  BY PrefixGrows
<1>2. f[s[k + 1]] \in Nat
  BY DEF Terms
<1>3. \A x \in Prefix(s, k) : f[x] \in Nat
  BY DEF Prefix, Terms
<1>4. Total(f, {}) = 0
  BY TotalNothing
<1> DEFINE A == Prefix(s, k)
           y == s[k + 1]
<1>5. y \notin A /\ IsFiniteSet(A) /\ f[y] \in Nat /\ \A x \in A : f[x] \in Nat
  BY <1>1, <1>2, <1>3
<1> HIDE DEF A, y
<1>6. Total(f, A \cup {y}) = Total(f, A) + f[y] /\ Total(f, A) \in Nat
  BY <1>5, TotalAdded
<1> QED
  BY <1>1, <1>2, <1>4, <1>6 DEF A, y

(* Sums add term by term *)
LEMMA TotalPlus ==
    ASSUME NEW S, IsFiniteSet(S), NEW f, NEW g, NEW h,
           \A x \in S : f[x] \in Nat /\ g[x] \in Nat /\ h[x] = f[x] + g[x]
    PROVE  /\ Total(h, S) = Total(f, S) + Total(g, S)
           /\ Total(f, S) \in Nat /\ Total(g, S) \in Nat
<1>1. PICK L \in Nat : ExistsBijection(1..L, S)
  BY FS_NatBijection
<1>2. PICK s : s \in Bijection(1..L, S)
  BY <1>1 DEF ExistsBijection
<1>3. /\ Distinct(s, L)
      /\ \A n \in 1..L : s[n] \in S
      /\ \A x \in S : \E n \in 1..L : s[n] = x
  BY <1>2 DEF Bijection, Injection, Surjection, IsInjective, Distinct
<1>4. Prefix(s, L) = S
  BY <1>3 DEF Prefix
<1>5. \A n \in 1..L : f[s[n]] \in Nat /\ g[s[n]] \in Nat /\ h[s[n]] = f[s[n]] + g[s[n]]
  BY <1>3
<1>6. Terms(f, s, L) /\ Terms(g, s, L) /\ Terms(h, s, L)
  BY <1>5 DEF Terms
<1> DEFINE Sums(k) == /\ Total(h, Prefix(s, k)) = Total(f, Prefix(s, k)) + Total(g, Prefix(s, k))
                      /\ Total(f, Prefix(s, k)) \in Nat /\ Total(g, Prefix(s, k)) \in Nat
           P == {k \in 0..L : Sums(k)}
<1>7. 0 \in P
  <2>1. Prefix(s, 0) = {}
    BY DEF Prefix
  <2>2. Total(h, Prefix(s, 0)) = 0 /\ Total(f, Prefix(s, 0)) = 0 /\ Total(g, Prefix(s, 0)) = 0
    BY <2>1, TotalNothing, Zenon
  <2>3. Sums(0)
    BY <2>2
  <2> HIDE DEF Sums
  <2> QED
    BY <2>3
<1>8. ASSUME NEW k \in Nat, k < L, k \in P PROVE k + 1 \in P
  <2>1. k + 1 \in 0..L /\ k + 1 \in 1..L
    BY <1>8
  <2>2. Sums(k)
    BY <1>8
  <2>3. /\ Total(f, Prefix(s, k + 1)) = Total(f, Prefix(s, k)) + f[s[k + 1]]
        /\ f[s[k + 1]] \in Nat
    BY <1>3, <1>6, <1>8, TotalAlong
  <2>4. /\ Total(g, Prefix(s, k + 1)) = Total(g, Prefix(s, k)) + g[s[k + 1]]
        /\ g[s[k + 1]] \in Nat
    BY <1>3, <1>6, <1>8, TotalAlong
  <2>5. /\ Total(h, Prefix(s, k + 1)) = Total(h, Prefix(s, k)) + h[s[k + 1]]
        /\ h[s[k + 1]] \in Nat
    BY <1>3, <1>6, <1>8, TotalAlong
  <2>6. h[s[k + 1]] = f[s[k + 1]] + g[s[k + 1]]
    BY <1>5, <2>1
  <2>7. Sums(k + 1)
    BY <2>2, <2>3, <2>4, <2>5, <2>6
  <2> HIDE DEF Sums
  <2> QED
    BY <2>1, <2>7
<1>9. \A k \in 0..L : k \in P
  <2> HIDE DEF P
  <2> QED
    BY <1>7, <1>8, Upwards
<1>10. Sums(L)
  BY <1>9
<1> QED
  BY <1>4, <1>10

(* Differences along an enumeration add up *)
Steps(f, s, g, L) == /\ g[0] = 0
                     /\ \A k \in 0..L : g[k] \in Nat
                     /\ \A n \in 1..L : f[s[n]] = g[n] - g[n - 1]

LEMMA Telescope ==
    ASSUME NEW s, NEW L \in Nat, Distinct(s, L), NEW f, Terms(f, s, L),
           NEW g, Steps(f, s, g, L)
    PROVE  Total(f, Prefix(s, L)) = g[L]
<1> DEFINE Sum(k) == Total(f, Prefix(s, k)) = g[k]
           P == {k \in 0..L : Sum(k)}
<1>1. 0 \in P
  <2>1. Prefix(s, 0) = {}
    BY DEF Prefix
  <2>2. Sum(0)
    BY <2>1, TotalNothing DEF Steps
  <2> HIDE DEF Sum
  <2> QED
    BY <2>2
<1>2. ASSUME NEW k \in Nat, k < L, k \in P PROVE k + 1 \in P
  <2>1. k + 1 \in 0..L /\ k + 1 \in 1..L /\ k \in 0..L /\ (k + 1) - 1 = k
    BY <1>2
  <2>2. Total(f, Prefix(s, k)) = g[k]
    BY <1>2
  <2>3. Total(f, Prefix(s, k + 1)) = Total(f, Prefix(s, k)) + f[s[k + 1]]
    BY <1>2, TotalAlong
  <2>4. f[s[k + 1]] = g[k + 1] - g[k] /\ g[k + 1] \in Nat /\ g[k] \in Nat
    BY <2>1 DEF Steps
  <2>5. Sum(k + 1)
    BY <2>2, <2>3, <2>4
  <2> HIDE DEF Sum
  <2> QED
    BY <2>1, <2>5
<1>3. L \in P
  <2> HIDE DEF P
  <2>1. \A k \in 0..L : k \in P
    BY <1>1, <1>2, Upwards
  <2> QED
    BY <2>1
<1> QED
  BY <1>3

-----------------------------------------------------------------------------
(* Shapes.  The item refunds are in some set X: that they are functions to *)
(* the natural numbers is part of what is shown of their allocation.       *)

Row(X) == [asked: [Items -> Nat], taken: [Items -> Nat], itemRefund: X,
           status: Status, refund: RefundStatus, approved: Nat, run: Run,
           awaiting: BOOLEAN]

IsRow(q) == \E X : q \in Row(X)

Shape ==
    /\ discount \in Discounts[online]
    /\ online \in BOOLEAN
    /\ orderStatus \in {"delivered", "refunded"}
    /\ restocked \in [Items -> Nat]
    /\ \E X : req \in Seq(Row(X))
    /\ adminRefund \in Nat

-----------------------------------------------------------------------------
(* The inductive invariant                                                 *)

(* Nothing is taken back, approved or started before a request is          *)
(* received, a completed request that was not paid back is worth nothing,  *)
(* and an answer is awaited only once the call is sent                     *)
RowFits(q) ==
    /\ q.status \in {"pending", "approved", "rejected"}
           => q.taken = None /\ q.approved = 0 /\ q.run = "none"
    /\ q.status = "completed"
           => \/ q.refund \in {"completed", "manual_completed"}
              \/ q.refund = "not_eligible" /\ q.approved = 0
    /\ q.awaiting => q.run # "none"

RowsFit == \A r \in Requests : RowFits(req[r])

OneActive == \A r1, r2 \in Requests : Active(r1) /\ Active(r2) => r1 = r2

ClaimedWithinBought == \A i \in Items : Previous(i) <= Bought[i]

RestockedWasTaken == \A i \in Items : restocked[i] <= Taken(i)

ReturnInv ==
    /\ Shape
    /\ RowsFit
    /\ OneActive
    /\ ClaimedWithinBought
    /\ RestockedWasTaken
    /\ ApprovedWithinTotal
    /\ CompletedWasPaid

-----------------------------------------------------------------------------
(* Amounts                                                                 *)

LEMMA MaxOfTwo ==
    ASSUME NEW a \in Int, NEW b \in Int
    PROVE  Max({a, b}) = IF a >= b THEN a ELSE b
<1>1. \E x \in {a, b} : \A y \in {a, b} : x >= y
  OBVIOUS
<1>2. /\ Max({a, b}) \in {a, b}
      /\ \A y \in {a, b} : Max({a, b}) >= y
  BY <1>1 DEF Max
<1> QED
  BY <1>2

LEMMA MinOfTwo ==
    ASSUME NEW a \in Int, NEW b \in Int
    PROVE  Min({a, b}) = IF a <= b THEN a ELSE b
<1>1. \E x \in {a, b} : \A y \in {a, b} : x <= y
  OBVIOUS
<1>2. /\ Min({a, b}) \in {a, b}
      /\ \A y \in {a, b} : Min({a, b}) <= y
  BY <1>1 DEF Min
<1> QED
  BY <1>2

LEMMA ProductNat ==
    ASSUME NEW a \in Nat, NEW b \in Nat
    PROVE  a * b \in Nat /\ (a > 0 /\ b > 0 => a * b > 0)
  OBVIOUS

LEMMA DivNat ==
    ASSUME NEW a \in Nat, NEW b \in Nat, b > 0
    PROVE  a \div b \in Nat
  OBVIOUS

LEMMA GrossType ==
    ASSUME NEW q \in [Items -> Nat]
    PROVE  Gross(q) \in Nat
<1> DEFINE f == [i \in Items |-> Price[i] * q[i]]
<1>1. \A i \in Items : Price[i] \in Nat /\ q[i] \in Nat
  BY ItemsAssumption
<1>2. \A i \in Items : f[i] \in Nat
  BY <1>1, ProductNat
<1> HIDE DEF f
<1>3. Total(f, Items) \in Nat
  BY <1>2, TotalType, ItemsAssumption
<1> QED
  BY <1>3 DEF Gross, f

LEMMA SubtotalPositive == Subtotal \in Nat /\ Subtotal > 0
<1> DEFINE f == [i \in Items |-> Price[i] * Bought[i]]
<1>0. Bought \in [Items -> Nat]
  BY ItemsAssumption
<1>1. \A i \in Items : Price[i] \in Nat /\ Bought[i] \in Nat /\ Bought[i] > 0
  BY ItemsAssumption
<1>2. PICK i \in Items : Price[i] > 0
  BY MoneyAssumption
<1>3. \A j \in Items : f[j] \in Nat
  BY <1>1, ProductNat
<1>4. f[i] > 0
  <2>1. f[i] = Price[i] * Bought[i]
    OBVIOUS
  <2> HIDE DEF f
  <2> QED
    BY <1>1, <1>2, <2>1, ProductNat
<1>5. Subtotal = Total(f, Items)
  BY DEF Subtotal, Gross
<1> HIDE DEF f
<1>6. Total(f, {i}) = f[i]
  <2>1. Cardinality(UnitsOf(f, {i})) = f[i]
    BY <1>3, OneTerm
  <2> QED
    BY <2>1 DEF Total, UnitsOf
<1>7. Total(f, {i}) <= Total(f, Items) /\ Total(f, Items) \in Nat
  <2>1. {i} \subseteq Items /\ IsFiniteSet(Items)
    BY ItemsAssumption
  <2>2. \A x \in {i} : f[x] \in Nat /\ f[x] <= f[x]
    BY <1>3
  <2> QED
    BY <1>3, <2>1, <2>2, TotalLess
<1> QED
  BY <1>3, <1>4, <1>5, <1>6, <1>7

LEMMA MerchandiseType ==
    ASSUME Shape
    PROVE  Merchandise \in Nat /\ Paid \in Nat
<1>1. discount \in Nat
  BY MoneyAssumption DEF Shape
<1>2. Subtotal - discount \in Int
  BY <1>1, SubtotalPositive
<1>3. Merchandise \in Nat
  BY <1>2, MaxOfTwo DEF Merchandise
<1> QED
  BY <1>3, MoneyAssumption DEF Paid

LEMMA RefundType ==
    ASSUME Shape, NEW g \in Nat
    PROVE  CalculateReturnRefund(g) \in Nat
<1> DEFINE M == Merchandise
           T == Subtotal
<1>1. M \in Nat /\ T \in Nat /\ T > 0
  BY MerchandiseType, SubtotalPositive
<1>2. CalculateReturnRefund(g) = (2 * g * M + T) \div (2 * T)
  BY DEF CalculateReturnRefund
<1> HIDE DEF M, T
<1>3. 2 * g \in Nat /\ 2 * T \in Nat /\ 2 * T > 0
  BY <1>1
<1>4. 2 * g * M \in Nat
  BY <1>1, <1>3, ProductNat
<1>5. 2 * g * M + T \in Nat
  BY <1>1, <1>4
<1> QED
  BY <1>2, <1>3, <1>5, DivNat

LEMMA RowFields ==
    ASSUME NEW q, IsRow(q)
    PROVE  /\ q.asked \in [Items -> Nat] /\ q.taken \in [Items -> Nat]
           /\ q.status \in Status /\ q.refund \in RefundStatus
           /\ q.approved \in Nat /\ q.run \in Run /\ q.awaiting \in BOOLEAN
  BY DEF IsRow, Row

LEMMA RowsOf ==
    ASSUME NEW s, NEW X, s \in Seq(Row(X))
    PROVE  /\ DOMAIN s = 1..Len(s) /\ Len(s) \in Nat /\ IsFiniteSet(DOMAIN s)
           /\ \A r \in DOMAIN s : IsRow(s[r])
<1>1. Len(s) \in Nat /\ DOMAIN s = 1..Len(s) /\ \A r \in DOMAIN s : s[r] \in Row(X)
  OBVIOUS
<1> QED
  BY <1>1, FS_Interval DEF IsRow

LEMMA RequestsFinite ==
    ASSUME Shape
    PROVE  /\ Requests = 1..Len(req) /\ Len(req) \in Nat /\ IsFiniteSet(Requests)
           /\ \A r \in Requests : IsRow(req[r])
  BY RowsOf DEF Shape, Requests

LEMMA ApprovedType ==
    ASSUME Shape, NEW R \in SUBSET Requests
    PROVE  Approved(R) \in Nat /\ Approved(R) <= Approved(Requests) /\ Approved(Requests) \in Nat
<1> DEFINE f == [r \in Requests |-> req[r].approved]
<1>1. \A r \in Requests : f[r] \in Nat /\ f[r] <= f[r]
  BY RequestsFinite, RowFields
<1> HIDE DEF f
<1>2. Total(f, R) \in Nat /\ Total(f, R) <= Total(f, Requests) /\ Total(f, Requests) \in Nat
  BY <1>1, RequestsFinite, TotalLess
<1> QED
  BY <1>2 DEF Approved, f

LEMMA ClaimedType ==
    ASSUME Shape, NEW r \in Requests, NEW i \in Items
    PROVE  Claimed(r)[i] \in Nat /\ req[r].taken[i] \in Nat
<1>1. req[r].asked[i] \in Nat /\ req[r].taken[i] \in Nat /\ req[r].status \in Status
  BY RequestsFinite, RowFields
<1>2. None[i] = 0
  BY DEF None
<1> QED
  BY <1>1, <1>2 DEF Claimed, Status

-----------------------------------------------------------------------------
(* allocateReturnItemRefunds                                               *)

(* Rows are read in some order, each once *)
LEMMA ReadOnce ==
    ASSUME NEW S, IsFiniteSet(S), NEW s \in Orders(S)
    PROVE  /\ Len(s) = Cardinality(S) /\ Len(s) \in Nat
           /\ \A n \in 1..Len(s) : s[n] \in S
           /\ Distinct(s, Len(s))
           /\ \A i \in S : \E n \in 1..Len(s) : s[n] = i
<1> DEFINE L == Cardinality(S)
<1>1. L \in Nat
  BY FS_CardinalityType
<1>2. s \in [1..L -> S] /\ \A i \in S : \E n \in 1..L : s[n] = i
  BY DEF Orders
<1> HIDE DEF L
<1>3. Len(s) = L
  BY <1>1, <1>2
<1>4. s \in Surjection(1..L, S)
  BY <1>2, Fun_IsSurj
<1>5. IsFiniteSet(1..L) /\ Cardinality(1..L) = L
  <2>1. IsFiniteSet(1..L) /\ Cardinality(1..L) = IF 1 > L THEN 0 ELSE L - 1 + 1
    BY <1>1, FS_Interval
  <2> QED
    BY <1>1, <2>1
<1>6. s \in Injection(1..L, S)
  BY <1>4, <1>5, FS_SurjSameCardinalityImpliesInj DEF L
<1>7. Distinct(s, L)
  BY <1>6, Fun_IsInj DEF Injection, IsInjective, Distinct
<1> QED
  BY <1>1, <1>2, <1>3, <1>7 DEF L

(* An item gets a part of what remains, the last one all of it *)
LEMMA ShareWithin ==
    ASSUME Shape, NEW s, NEW gross, NEW n, gross[s[n]] \in Nat,
           NEW a \in Nat, NEW x \in Nat, x <= a
    PROVE  LET y == x + Share(s, gross, n, Max({a - x, 0})) IN
           y \in Nat /\ x <= y /\ y <= a /\ (n = Len(s) => y = a)
<1> DEFINE c == CalculateReturnRefund(gross[s[n]])
           d == a - x
<1>1. c \in Nat
  BY RefundType
<1>2. d \in Nat /\ x + d = a
  OBVIOUS
<1>3. Max({a - x, 0}) = d
  <2>1. d \in Int /\ 0 \in Int
    BY <1>2
  <2> HIDE DEF d
  <2>2. Max({d, 0}) = IF d >= 0 THEN d ELSE 0
    BY <2>1, MaxOfTwo
  <2>3. Max({d, 0}) = d
    BY <1>2, <2>2
  <2> QED
    BY <2>3 DEF d
<1>4. Share(s, gross, n, d) = IF n = Len(s) THEN d ELSE Min({c, d})
  BY DEF Share
<1> HIDE DEF c, d
<1>5. Min({c, d}) = IF c <= d THEN c ELSE d
  BY <1>1, <1>2, MinOfTwo
<1>6. /\ Share(s, gross, n, d) \in Nat /\ Share(s, gross, n, d) <= d
      /\ n = Len(s) => Share(s, gross, n, d) = d
  BY <1>1, <1>2, <1>4, <1>5
<1> QED
  BY <1>2, <1>3, <1>6

(* What each item gets when g[n] is given up to the n-th *)
Differences(s, g) ==
    [i \in Items |-> IF \E n \in 1..Len(s) : s[n] = i
                     THEN LET n == CHOOSE m \in 1..Len(s) : s[m] = i
                          IN g[n] - g[n - 1]
                     ELSE 0]

(* What is given up to the n-th item grows from nothing to the whole       *)
(* amount; an item gets the difference                                     *)
LEMMA GivenInSteps ==
    ASSUME Shape, NEW s, Len(s) \in Nat, NEW gross, NEW a \in Nat,
           \A n \in 1..Len(s) : gross[s[n]] \in Nat
    PROVE  \E g \in [0..Len(s) -> 0..a] :
               /\ g[0] = 0
               /\ \A n \in 1..Len(s) : g[n - 1] <= g[n]
               /\ Len(s) > 0 => g[Len(s)] = a
               /\ AllocateReturnItemRefunds(s, gross, a) = Differences(s, g)
<1> DEFINE L == Len(s)
           Step(x, n) == x + Share(s, gross, n, Max({a - x, 0}))
           Good(g, k) == \A n \in 0..k : g[n] = IF n = 0 THEN 0 ELSE Step(g[n - 1], n)
           P == {k \in 0..L : \E g \in [0..L -> 0..a] : Good(g, k)}
<1>1. \A x \in 0..a, n \in 1..L : /\ Step(x, n) \in 0..a /\ x <= Step(x, n)
                                  /\ n = L => Step(x, n) = a
  <2> SUFFICES ASSUME NEW x \in 0..a, NEW n \in 1..L
               PROVE  Step(x, n) \in 0..a /\ x <= Step(x, n) /\ (n = L => Step(x, n) = a)
    OBVIOUS
  <2>1. Step(x, n) \in Nat /\ x <= Step(x, n) /\ Step(x, n) <= a /\ (n = L => Step(x, n) = a)
    <3>1. x \in Nat /\ x <= a /\ gross[s[n]] \in Nat
      OBVIOUS
    <3> HIDE DEF L
    <3> QED
      BY <3>1, ShareWithin DEF L
  <2> HIDE DEF Step
  <2> QED
    BY <2>1
<1>2. L \in Nat
  OBVIOUS
<1> HIDE DEF Step, L
<1>3. 0 \in P
  <2> DEFINE z == [n \in 0..L |-> 0]
  <2>1. z \in [0..L -> 0..a]
    OBVIOUS
  <2>2. Good(z, 0)
    BY <1>2
  <2>3. 0 \in 0..L
    BY <1>2
  <2> HIDE DEF Good, z
  <2> QED
    BY <2>1, <2>2, <2>3
<1>4. ASSUME NEW k \in Nat, k < L, k \in P PROVE k + 1 \in P
  <2>1. PICK g \in [0..L -> 0..a] : Good(g, k)
    BY <1>4
  <2> DEFINE y == Step(g[k], k + 1)
             h == [g EXCEPT ![k + 1] = y]
  <2>2. k \in 0..L /\ k + 1 \in 0..L /\ k + 1 \in 1..L
    BY <1>2, <1>4
  <2>3. y \in 0..a
    BY <1>1, <2>2
  <2> HIDE DEF y
  <2>4. h \in [0..L -> 0..a] /\ h[k + 1] = y /\ \A n \in 0..L : n # k + 1 => h[n] = g[n]
    BY <2>2, <2>3
  <2> HIDE DEF h
  <2>5. ASSUME NEW n \in 0..(k + 1) PROVE h[n] = IF n = 0 THEN 0 ELSE Step(h[n - 1], n)
    <3>1. CASE n = k + 1
      <4>1. n - 1 = k /\ k # k + 1 /\ n # 0
        BY <3>1
      <4>2. h[n - 1] = g[k]
        BY <2>2, <2>4, <4>1
      <4> QED
        BY <2>4, <3>1, <4>1, <4>2 DEF y
    <3>2. CASE n # k + 1
      <4>1. n \in Nat /\ n <= k
        BY <3>2
      <4>2. n \in 0..k /\ n \in 0..L
        BY <1>2, <1>4, <4>1
      <4>3. n # 0 => n - 1 \in 0..L /\ n - 1 # k + 1
        BY <1>2, <1>4, <4>1
      <4>4. h[n] = g[n] /\ (n # 0 => h[n - 1] = g[n - 1])
        BY <2>4, <3>2, <4>2, <4>3
      <4>5. g[n] = IF n = 0 THEN 0 ELSE Step(g[n - 1], n)
        BY <2>1, <4>2
      <4> QED
        BY <4>4, <4>5
    <3> QED
      BY <3>1, <3>2
  <2>6. Good(h, k + 1)
    BY <2>5
  <2> HIDE DEF Good
  <2> QED
    BY <2>2, <2>4, <2>6
<1>5. L \in P
  <2> HIDE DEF P
  <2>1. \A k \in 0..L : k \in P
    BY <1>2, <1>3, <1>4, Upwards
  <2> QED
    BY <1>2, <2>1
<1>6. PICK g \in [0..L -> 0..a] : Good(g, L)
  BY <1>5
<1>7. g = [n \in 0..L |-> IF n = 0 THEN 0 ELSE Step(g[n - 1], n)]
  BY <1>6
<1> DEFINE given == CHOOSE f : f = [n \in 0..L |-> IF n = 0 THEN 0 ELSE Step(f[n - 1], n)]
<1>8. given = [n \in 0..L |-> IF n = 0 THEN 0 ELSE Step(given[n - 1], n)]
  BY <1>7
<1>9. AllocateReturnItemRefunds(s, gross, a) = Differences(s, given)
  BY DEF AllocateReturnItemRefunds, Differences, Step, L
<1> HIDE DEF given
<1> DEFINE In(k) == given[k] \in 0..a
           Q == {k \in 0..L : In(k)}
<1>10. \A k \in 0..L : given[k] \in 0..a
  <2>1. given[0] = 0
    BY <1>2, <1>8
  <2>2. 0 \in Q
    BY <2>1, <1>2
  <2>3. ASSUME NEW k \in Nat, k < L, k \in Q PROVE k + 1 \in Q
    <3>1. k + 1 \in 0..L /\ k + 1 \in 1..L /\ k + 1 # 0 /\ (k + 1) - 1 = k
      BY <1>2, <2>3
    <3>2. given[k] \in 0..a
      BY <2>3
    <3>3. given[k + 1] = Step(given[k], k + 1)
      BY <1>8, <3>1
    <3>4. given[k + 1] \in 0..a
      BY <1>1, <3>1, <3>2, <3>3
    <3> QED
      BY <3>1, <3>4
  <2> HIDE DEF Q
  <2>4. \A k \in 0..L : k \in Q
    BY <1>2, <2>2, <2>3, Upwards
  <2> QED
    BY <2>4 DEF Q
<1>11. given \in [0..L -> 0..a] /\ given[0] = 0
  BY <1>2, <1>8, <1>10
<1>12. \A n \in 1..L : given[n - 1] <= given[n] /\ (n = L => given[n] = a)
  <2> SUFFICES ASSUME NEW n \in 1..L
               PROVE  given[n - 1] <= given[n] /\ (n = L => given[n] = a)
    OBVIOUS
  <2>1. n \in 0..L /\ n - 1 \in 0..L /\ n # 0
    BY <1>2
  <2>2. given[n] = Step(given[n - 1], n) /\ given[n - 1] \in 0..a
    BY <1>8, <1>10, <2>1
  <2> QED
    BY <1>1, <2>2
<1>13. L > 0 => given[L] = a
  BY <1>2, <1>12
<1> QED
  BY <1>9, <1>11, <1>12, <1>13 DEF L

(* The refunds of the accepted items add up to the amount approved         *)
LEMMA AllocationAddsUp ==
    ASSUME Shape, NEW S \in SUBSET Items, NEW s \in Orders(S), NEW gross,
           \A i \in Items : gross[i] \in Nat, NEW a \in Nat, S = {} => a = 0
    PROVE  /\ AllocateReturnItemRefunds(s, gross, a) \in [Items -> Nat]
           /\ Total(AllocateReturnItemRefunds(s, gross, a), Items) = a
<1> DEFINE L == Len(s)
           f == AllocateReturnItemRefunds(s, gross, a)
<1>1. IsFiniteSet(S)
  BY FS_Subset, ItemsAssumption
<1>2. /\ L = Cardinality(S) /\ L \in Nat
      /\ \A n \in 1..L : s[n] \in S
      /\ Distinct(s, L)
      /\ \A i \in S : \E n \in 1..L : s[n] = i
  BY <1>1, ReadOnce
<1>3. \A n \in 1..L : gross[s[n]] \in Nat
  BY <1>2
<1>4. Len(s) \in Nat /\ \A n \in 1..Len(s) : gross[s[n]] \in Nat
  BY <1>2, <1>3
<1>5. PICK g \in [0..L -> 0..a] :
          /\ g[0] = 0
          /\ \A n \in 1..L : g[n - 1] <= g[n]
          /\ L > 0 => g[L] = a
          /\ f = Differences(s, g)
  BY <1>4, GivenInSteps
<1>6. f = [i \in Items |-> IF \E n \in 1..L : s[n] = i
                           THEN LET n == CHOOSE m \in 1..L : s[m] = i
                                IN g[n] - g[n - 1]
                           ELSE 0]
  BY <1>5 DEF Differences
<1> HIDE DEF L, f
<1>7. \A k \in 0..L : g[k] \in Nat
  OBVIOUS
<1>8. \A n \in 1..L : f[s[n]] = g[n] - g[n - 1] /\ f[s[n]] \in Nat
  <2> SUFFICES ASSUME NEW n \in 1..L PROVE f[s[n]] = g[n] - g[n - 1] /\ f[s[n]] \in Nat
    OBVIOUS
  <2> DEFINE c == CHOOSE m \in 1..L : s[m] = s[n]
  <2>1. c \in 1..L /\ s[c] = s[n]
    OBVIOUS
  <2>2. c = n
    BY <1>2, <2>1 DEF Distinct
  <2>3. s[n] \in Items /\ \E m \in 1..L : s[m] = s[n]
    BY <1>2
  <2>4. f[s[n]] = g[c] - g[c - 1]
    BY <1>6, <2>3
  <2> HIDE DEF c
  <2>5. g[n] \in Nat /\ g[n - 1] \in Nat /\ g[n - 1] <= g[n]
    BY <1>2, <1>5, <1>7
  <2> QED
    BY <2>2, <2>4, <2>5
<1>9. \A i \in Items \ S : f[i] = 0
  BY <1>2, <1>6
<1>10. \A i \in S : f[i] \in Nat
  BY <1>2, <1>8
<1>11. f \in [Items -> Nat]
  <2>1. \A i \in Items : f[i] \in Nat
    BY <1>9, <1>10
  <2>2. DOMAIN f = Items /\ f = [i \in Items |-> f[i]]
    BY <1>6
  <2> QED
    BY <2>1, <2>2
<1>12. Total(f, Items) = Total(f, S)
  BY <1>9, TotalOfNonzero
<1>13. Prefix(s, L) = S
  BY <1>2 DEF Prefix
<1>14. Total(f, Prefix(s, L)) = g[L]
  <2>1. Terms(f, s, L)
    BY <1>8 DEF Terms
  <2>2. Steps(f, s, g, L)
    BY <1>5, <1>7, <1>8 DEF Steps
  <2>3. L \in Nat /\ Distinct(s, L)
    BY <1>2
  <2> QED
    BY <2>1, <2>2, <2>3, Telescope
<1>15. Total(f, S) = a
  <2>1. CASE S = {}
    BY <2>1, TotalNothing
  <2>2. CASE S # {}
    <3>1. L > 0
      BY <1>2, <2>2
    <3> QED
      BY <1>5, <1>13, <1>14, <3>1
  <2> QED
    BY <2>1, <2>2
<1> QED
  BY <1>11, <1>12, <1>15 DEF f

-----------------------------------------------------------------------------
(* calculateReturnRefund rounds by half a unit of money at most            *)

LEMMA NothingRefunded ==
    ASSUME Shape
    PROVE  CalculateReturnRefund(Gross(None)) = 0
<1> DEFINE f == [i \in Items |-> Price[i] * None[i]]
           M == Merchandise
           T == Subtotal
<1>1. \A i \in Items : f[i] = 0
  BY ItemsAssumption DEF None
<1>2. Gross(None) = Total(f, Items)
  BY DEF Gross
<1> HIDE DEF f
<1>3. Total(f, Items) = 0
  BY <1>1, TotalZero
<1>4. M \in Nat /\ T \in Nat /\ T > 0
  BY MerchandiseType, SubtotalPositive
<1>5. CalculateReturnRefund(0) = (2 * 0 * M + T) \div (2 * T)
  BY DEF CalculateReturnRefund
<1> HIDE DEF M, T
<1>6. 2 * 0 * M + T = T
  BY <1>4
<1>7. T \div (2 * T) = 0
  BY <1>4
<1> QED
  BY <1>2, <1>3, <1>5, <1>6, <1>7

LEMMA DivAbove ==
    ASSUME NEW n \in Nat, NEW d \in Nat, d > 0
    PROVE  n < d * (n \div d + 1)
  OBVIOUS

LEMMA RefundRounded ==
    ASSUME Shape, NEW g \in Nat
    PROVE  2 * g * Merchandise <= Subtotal * (2 * CalculateReturnRefund(g) + 1)
<1> DEFINE M == Merchandise
           T == Subtotal
           c == CalculateReturnRefund(g)
           n == 2 * g * M + T
           d == 2 * T
<1>1. M \in Nat /\ T \in Nat /\ T > 0 /\ c \in Nat
  BY MerchandiseType, SubtotalPositive, RefundType
<1>2. c = n \div d
  BY DEF CalculateReturnRefund
<1> HIDE DEF M, T, c
<1>3. 2 * g * M \in Nat
  BY <1>1, ProductNat
<1>4. n \in Nat /\ d \in Nat /\ d > 0
  BY <1>1, <1>3
<1> HIDE DEF n, d
<1>5. n < d * (c + 1)
  BY <1>2, <1>4, DivAbove
<1>6. d * (c + 1) = T * (2 * c + 1) + T
  BY <1>1 DEF d
<1>7. T * (2 * c + 1) \in Nat
  BY <1>1, ProductNat
<1>8. 2 * g * M <= T * (2 * c + 1)
  BY <1>1, <1>3, <1>5, <1>6, <1>7 DEF n
<1> QED
  BY <1>8 DEF M, T, c

-----------------------------------------------------------------------------
(* Steps that neither create nor receive a request                         *)

Unreceived == {"pending", "approved"}

Steady(r) ==
    /\ req'[r].asked = req[r].asked
    /\ req'[r].taken = req[r].taken
    /\ req'[r].approved = req[r].approved
    /\ req'[r].itemRefund = req[r].itemRefund
    /\ RowFits(req'[r])
    /\ \/ req'[r].status = "rejected"
       \/ req'[r].status \in Unreceived /\ req[r].status \in Unreceived
       \/ /\ req'[r].status \notin Unreceived \cup {"rejected"}
          /\ req[r].status \notin Unreceived \cup {"rejected"}
    /\ ~Active(r) => req'[r].status = req[r].status /\ req'[r].refund = req[r].refund
    /\ req[r].run = "SUCCESS" => req'[r].run = "SUCCESS"
    /\ (req'[r].status = "completed" /\ req'[r].refund = "completed")
           => \/ req[r].status = "completed" /\ req[r].refund = "completed"
              \/ req'[r].run = "SUCCESS"
              \/ ProviderPaid >= Paid

Quiet ==
    /\ Shape'
    /\ DOMAIN req' = DOMAIN req
    /\ UNCHANGED <<discount, online, restocked>>
    /\ adminRefund' >= adminRefund
    /\ \A r \in Requests : Steady(r)
    /\ \/ orderStatus' = orderStatus
       \/ ProviderPaid >= Paid
       \/ Approved(RefundedBefore)' >= Merchandise

(* Sums of approved amounts only grow *)
LEMMA ApprovedGrows ==
    ASSUME Shape, Shape', NEW R \in SUBSET DOMAIN req, NEW T \in SUBSET DOMAIN req', R \subseteq T,
           \A r \in R : req'[r].approved = req[r].approved
    PROVE  /\ Approved(R) <= Total([r \in DOMAIN req' |-> req'[r].approved], T)
           /\ Approved(R) \in Nat
           /\ Total([r \in DOMAIN req' |-> req'[r].approved], T) \in Nat
<1> DEFINE f == [r \in DOMAIN req |-> req[r].approved]
           g == [r \in DOMAIN req' |-> req'[r].approved]
<1>1. IsFiniteSet(DOMAIN req') /\ \A r \in DOMAIN req' : IsRow(req'[r])
  BY RowsOf DEF Shape
<1>2. \A r \in DOMAIN req : IsRow(req[r])
  BY RowsOf DEF Shape
<1>3. \A r \in T : g[r] \in Nat
  BY <1>1, RowFields
<1>4. \A r \in R : f[r] \in Nat /\ f[r] <= g[r]
  BY <1>2, RowFields
<1>5. IsFiniteSet(T)
  BY <1>1, FS_Subset
<1>6. Approved(R) = Total(f, R)
  BY DEF Approved, Requests
<1> HIDE DEF f, g
<1>7. Total(f, R) <= Total(g, T) /\ Total(f, R) \in Nat /\ Total(g, T) \in Nat
  BY <1>3, <1>4, <1>5, TotalLess
<1> QED
  BY <1>6, <1>7 DEF g

LEMMA QuietProviderPaid ==
    ASSUME Shape, Quiet
    PROVE  ProviderPaid' >= ProviderPaid /\ ProviderPaid \in Nat /\ ProviderPaid' \in Nat
<1> DEFINE R == {r \in Requests : req[r].run = "SUCCESS"}
           T == {r \in DOMAIN req' : req'[r].run = "SUCCESS"}
<1>1. R \in SUBSET DOMAIN req /\ T \in SUBSET DOMAIN req' /\ R \subseteq T
  BY DEF Quiet, Steady, Requests
<1>2. \A r \in R : req'[r].approved = req[r].approved
  BY DEF Quiet, Steady
<1>3. ProviderPaid = adminRefund + Approved(R)
  BY DEF ProviderPaid
<1>4. ProviderPaid' = adminRefund' + Total([r \in DOMAIN req' |-> req'[r].approved], T)
  BY DEF ProviderPaid, Approved, Requests
<1> HIDE DEF R, T
<1>5. /\ Approved(R) <= Total([r \in DOMAIN req' |-> req'[r].approved], T)
      /\ Approved(R) \in Nat
      /\ Total([r \in DOMAIN req' |-> req'[r].approved], T) \in Nat
  BY <1>1, <1>2, ApprovedGrows DEF Quiet
<1>6. PICK a \in Nat, b \in Nat :
          a <= b /\ ProviderPaid = adminRefund + a /\ ProviderPaid' = adminRefund' + b
  BY <1>3, <1>4, <1>5
<1>7. PICK c \in Nat, d \in Nat : c = adminRefund /\ d = adminRefund' /\ d >= c
  BY DEF Shape, Quiet
<1>8. a <= b /\ c <= d
  <2>1. a <= b
    BY <1>6
  <2>2. c <= d
    BY <1>7
  <2> QED
    BY <2>1, <2>2
<1>9. d + b \in Nat
  OBVIOUS
<1>10. c + a \in Nat
  OBVIOUS
<1>11. c + a <= d + b
  BY <1>8
<1> QED
  BY <1>6, <1>7, <1>9, <1>10, <1>11

LEMMA QuietPaidSame ==
    ASSUME Quiet
    PROVE  Merchandise' = Merchandise /\ Paid' = Paid /\ Subtotal' = Subtotal
  BY DEF Quiet, Merchandise, Paid, Subtotal, Gross, Total

LEMMA QuietCompleted ==
    ASSUME ReturnInv, Quiet
    PROVE  CompletedWasPaid'
<1>1. ProviderPaid' >= ProviderPaid /\ ProviderPaid \in Nat /\ ProviderPaid' \in Nat
  BY QuietProviderPaid DEF ReturnInv
<1>2. Merchandise' = Merchandise /\ Paid' = Paid
  BY QuietPaidSame
<1>3. Merchandise \in Nat /\ Paid \in Nat
  BY MerchandiseType DEF ReturnInv
<1>4. ASSUME NEW r \in Requests', req'[r].status = "completed", req'[r].refund = "completed"
      PROVE  req'[r].run = "SUCCESS" \/ ProviderPaid' >= Paid'
  <2>1. r \in Requests /\ Steady(r)
    BY DEF Quiet, Requests
  <2>2. CASE req'[r].run = "SUCCESS"
    BY <2>2
  <2>3. CASE ProviderPaid >= Paid
    BY <2>3, <1>1, <1>2, <1>3
  <2>4. CASE req[r].status = "completed" /\ req[r].refund = "completed"
    <3>1. req[r].run = "SUCCESS" \/ ProviderPaid >= Paid
      BY <2>1, <2>4 DEF ReturnInv, CompletedWasPaid
    <3>2. CASE req[r].run = "SUCCESS"
      BY <3>2, <2>1 DEF Steady
    <3>3. CASE ProviderPaid >= Paid
      BY <3>3, <1>1, <1>2, <1>3
    <3> QED
      BY <3>1, <3>2, <3>3
  <2> QED
    BY <1>4, <2>1, <2>2, <2>3, <2>4 DEF Steady
<1>5. ASSUME orderStatus' = "refunded"
      PROVE  Approved(RefundedBefore)' >= Merchandise' \/ ProviderPaid' >= Paid'
  <2>1. CASE ProviderPaid >= Paid
    BY <2>1, <1>1, <1>2, <1>3
  <2>2. CASE Approved(RefundedBefore)' >= Merchandise
    BY <2>2, <1>2
  <2>3. CASE orderStatus' = orderStatus /\ ~(ProviderPaid >= Paid)
    <3>1. Approved(RefundedBefore) >= Merchandise
      BY <1>5, <2>3 DEF ReturnInv, CompletedWasPaid
    <3> DEFINE R == RefundedBefore
               T == RefundedBefore'
    <3>2. R \in SUBSET DOMAIN req /\ T \in SUBSET DOMAIN req'
      BY DEF RefundedBefore, Requests
    <3>3. R \subseteq T
      <4> SUFFICES ASSUME NEW r \in R PROVE r \in T
        OBVIOUS
      <4>1. /\ r \in Requests /\ req[r].status = "completed"
            /\ req[r].refund \in {"completed", "manual_completed"}
        BY DEF RefundedBefore
      <4>2. req'[r].status = req[r].status /\ req'[r].refund = req[r].refund
        BY <4>1 DEF Quiet, Steady, Active
      <4> QED
        BY <4>1, <4>2 DEF RefundedBefore, Quiet, Requests
    <3>4. \A r \in R : req'[r].approved = req[r].approved
      BY DEF Quiet, Steady, RefundedBefore
    <3>5. Approved(RefundedBefore)' = Total([r \in DOMAIN req' |-> req'[r].approved], T)
      BY DEF Approved, Requests
    <3> HIDE DEF T
    <3>6. /\ Approved(R) <= Total([r \in DOMAIN req' |-> req'[r].approved], T)
          /\ Approved(R) \in Nat
          /\ Total([r \in DOMAIN req' |-> req'[r].approved], T) \in Nat
      BY <3>2, <3>3, <3>4, ApprovedGrows DEF Quiet, ReturnInv
    <3>7. Approved(RefundedBefore)' >= Merchandise
      BY <3>1, <3>5, <3>6, <1>3
    <3> QED
      BY <3>7, <1>2
  <2> QED
    BY <2>1, <2>2, <2>3 DEF Quiet
<1> QED
  BY <1>4, <1>5 DEF CompletedWasPaid

LEMMA QuietRows ==
    ASSUME ReturnInv, Quiet
    PROVE  RowsFit' /\ OneActive'
<1>1. RowsFit'
  BY DEF RowsFit, Quiet, Steady, Requests, RowFits, None
<1>2. ASSUME NEW r1 \in DOMAIN req', NEW r2 \in DOMAIN req', Active(r1)', Active(r2)'
      PROVE  r1 = r2
  <2>1. r1 \in Requests /\ r2 \in Requests /\ Steady(r1) /\ Steady(r2)
    BY DEF Quiet, Requests
  <2>2. Active(r1)
    BY <1>2, <2>1 DEF Steady, Active
  <2>3. Active(r2)
    BY <1>2, <2>1 DEF Steady, Active
  <2> QED
    BY <2>1, <2>2, <2>3 DEF ReturnInv, OneActive
<1> QED
  BY <1>1, <1>2 DEF OneActive, Requests

LEMMA ClaimShrinks ==
    ASSUME Shape, RowsFit, Shape', NEW r \in DOMAIN req, r \in DOMAIN req', Steady(r), NEW i \in Items
    PROVE  /\ Claimed(r)[i] \in Nat /\ Claimed(r)'[i] \in Nat
           /\ Claimed(r)'[i] <= Claimed(r)[i]
<1>1. IsRow(req[r]) /\ IsRow(req'[r])
  BY RowsOf DEF Shape
<1>2. /\ req[r].asked[i] \in Nat /\ req[r].taken[i] \in Nat
      /\ req[r].status \in Status /\ req'[r].status \in Status
  BY <1>1, RowFields
<1>3. None[i] = 0
  BY DEF None
<1>4. Claimed(r)[i] = IF req[r].status = "rejected" THEN 0
                      ELSE IF req[r].status \in Unreceived THEN req[r].asked[i]
                      ELSE req[r].taken[i]
  BY <1>2, <1>3 DEF Claimed, Status, Unreceived
<1>5. Claimed(r)'[i] = IF req'[r].status = "rejected" THEN 0
                       ELSE IF req'[r].status \in Unreceived THEN req[r].asked[i]
                       ELSE req[r].taken[i]
  BY <1>2, <1>3 DEF Claimed, Status, Unreceived, Steady
<1> QED
  BY <1>2, <1>4, <1>5 DEF Steady, Unreceived

LEMMA QuietClaims ==
    ASSUME ReturnInv, Quiet
    PROVE  ClaimedWithinBought'
<1> SUFFICES ASSUME NEW i \in Items PROVE Previous(i)' <= Bought[i]
  BY DEF ClaimedWithinBought
<1> DEFINE f == [r \in DOMAIN req |-> Claimed(r)[i]]
           g == [r \in DOMAIN req' |-> Claimed(r)'[i]]
<1>1. \A r \in DOMAIN req : /\ f[r] \in Nat /\ g[r] \in Nat /\ g[r] <= f[r]
  <2> SUFFICES ASSUME NEW r \in DOMAIN req
               PROVE  f[r] \in Nat /\ g[r] \in Nat /\ g[r] <= f[r]
    OBVIOUS
  <2>1. r \in DOMAIN req' /\ Steady(r)
    BY DEF Quiet, Requests
  <2>2. /\ Claimed(r)[i] \in Nat /\ Claimed(r)'[i] \in Nat
        /\ Claimed(r)'[i] <= Claimed(r)[i]
    BY <2>1, ClaimShrinks DEF ReturnInv, Quiet
  <2>3. f[r] = Claimed(r)[i] /\ g[r] = Claimed(r)'[i]
    BY <2>1
  <2> HIDE DEF f, g
  <2> QED
    BY <2>2, <2>3
<1>2. Previous(i) = Total(f, DOMAIN req) /\ Previous(i)' = Total(g, DOMAIN req')
  BY DEF Previous, Requests
<1>3. DOMAIN req' = DOMAIN req
  BY DEF Quiet
<1>4. IsFiniteSet(DOMAIN req)
  BY RequestsFinite DEF ReturnInv, Requests
<1> HIDE DEF f, g
<1>5. Total(g, DOMAIN req) <= Total(f, DOMAIN req) /\ Total(g, DOMAIN req) \in Nat /\ Total(f, DOMAIN req) \in Nat
  BY <1>1, <1>4, TotalLess
<1>6. Previous(i) <= Bought[i] /\ Bought[i] \in Nat
  BY ItemsAssumption DEF ReturnInv, ClaimedWithinBought
<1> QED
  BY <1>2, <1>3, <1>5, <1>6

LEMMA QuietRestocked ==
    ASSUME ReturnInv, Quiet
    PROVE  RestockedWasTaken'
<1> SUFFICES ASSUME NEW i \in Items PROVE restocked'[i] <= Taken(i)'
  BY DEF RestockedWasTaken
<1>1. restocked' = restocked /\ restocked[i] <= Taken(i)
  BY DEF Quiet, ReturnInv, RestockedWasTaken
<1> DEFINE f == [r \in DOMAIN req |-> req[r].taken[i]]
           g == [r \in DOMAIN req' |-> req'[r].taken[i]]
<1>2. Taken(i) = Total(f, DOMAIN req) /\ Taken(i)' = Total(g, DOMAIN req')
  BY DEF Taken, Requests
<1>3. DOMAIN req' = DOMAIN req /\ \A r \in DOMAIN req : g[r] = f[r]
  BY DEF Quiet, Steady, Requests
<1> HIDE DEF f, g
<1>4. Total(g, DOMAIN req) = Total(f, DOMAIN req)
  BY <1>3, TotalSame
<1> QED
  BY <1>1, <1>2, <1>3, <1>4

LEMMA QuietApproved ==
    ASSUME ReturnInv, Quiet
    PROVE  ApprovedWithinTotal'
<1> DEFINE f == [r \in DOMAIN req |-> req[r].approved]
           g == [r \in DOMAIN req' |-> req'[r].approved]
<1>1. Approved(Requests) = Total(f, DOMAIN req) /\ Approved(Requests)' = Total(g, DOMAIN req')
  BY DEF Approved, Requests
<1>2. DOMAIN req' = DOMAIN req /\ \A r \in DOMAIN req : g[r] = f[r]
  BY DEF Quiet, Steady, Requests
<1> HIDE DEF f, g
<1>3. Total(g, DOMAIN req) = Total(f, DOMAIN req)
  BY <1>2, TotalSame
<1>4. Merchandise' = Merchandise
  BY QuietPaidSame
<1> QED
  BY <1>1, <1>2, <1>3, <1>4 DEF ReturnInv, ApprovedWithinTotal

LEMMA QuietStep ==
    ASSUME ReturnInv, Quiet
    PROVE  ReturnInv'
<1>1. Shape'
  BY DEF Quiet
<1> QED
  BY <1>1, QuietRows, QuietClaims, QuietRestocked, QuietApproved, QuietCompleted DEF ReturnInv

-----------------------------------------------------------------------------
(* One request changes                                                     *)

LEMMA RowsWiden ==
    ASSUME Shape, NEW p, IsRow(p), NEW r \in Requests
    PROVE  /\ \E X : [req EXCEPT ![r] = p] \in Seq(Row(X))
           /\ DOMAIN [req EXCEPT ![r] = p] = DOMAIN req
           /\ [req EXCEPT ![r] = p][r] = p
           /\ \A x \in Requests \ {r} : [req EXCEPT ![r] = p][x] = req[x]
<1>1. PICK X : req \in Seq(Row(X))
  BY DEF Shape
<1>2. PICK Y : p \in Row(Y)
  BY DEF IsRow
<1>3. p \in Row(X \cup Y) /\ Row(X) \subseteq Row(X \cup Y)
  BY <1>2 DEF Row
<1>4. \A x \in DOMAIN req : req[x] \in Row(X \cup Y)
  <2>1. \A x \in DOMAIN req : req[x] \in Row(X)
    BY <1>1
  <2> QED
    BY <1>3, <2>1, Zenon
<1>5. Len(req) \in Nat /\ req \in [1..Len(req) -> Row(X)] /\ DOMAIN req = 1..Len(req)
  BY <1>1
<1>6. [req EXCEPT ![r] = p] \in [1..Len(req) -> Row(X \cup Y)]
  BY <1>3, <1>4, <1>5 DEF Requests
<1>7. [req EXCEPT ![r] = p] \in Seq(Row(X \cup Y))
  BY <1>5, <1>6, SeqDef
<1> QED
  BY <1>5, <1>7 DEF Requests

(* A row that stays as it is is steady *)
LEMMA SameSteady ==
    ASSUME RowsFit, NEW r \in Requests, req'[r] = req[r]
    PROVE  Steady(r)
<1>1. RowFits(req'[r])
  BY DEF RowsFit
<1> QED
  BY <1>1 DEF Steady

LEMMA OneRowQuiet ==
    ASSUME ReturnInv, NEW r \in Requests, NEW p, IsRow(p), req' = [req EXCEPT ![r] = p],
           UNCHANGED <<discount, online, restocked, adminRefund>>,
           orderStatus' \in {"delivered", "refunded"},
           orderStatus' = orderStatus \/ Approved(RefundedBefore)' >= Merchandise,
           Steady(r)
    PROVE  Quiet
<1>1. /\ \E X : req' \in Seq(Row(X))
      /\ DOMAIN req' = DOMAIN req
      /\ \A x \in Requests \ {r} : req'[x] = req[x]
  BY RowsWiden DEF ReturnInv
<1>2. \A x \in Requests : Steady(x)
  BY <1>1, SameSteady DEF ReturnInv
<1>3. Shape'
  BY <1>1 DEF ReturnInv, Shape, Row
<1>4. adminRefund' >= adminRefund
  BY DEF ReturnInv, Shape
<1> QED
  BY <1>1, <1>2, <1>3, <1>4 DEF Quiet

LEMMA ReviewQuiet ==
    ASSUME ReturnInv, NEW r \in Requests, NEW d \in {"approved", "rejected"}, ReviewReturnRequest(r, d)
    PROVE  Quiet
<1> DEFINE p == [req[r] EXCEPT !.status = d]
<1>1. IsRow(req[r]) /\ req[r].status = "pending" /\ RowFits(req[r])
  BY RequestsFinite DEF ReturnInv, RowsFit, ReviewReturnRequest
<1>2. req' = [req EXCEPT ![r] = p]
  BY DEF ReviewReturnRequest
<1>3. /\ IsRow(p) /\ p.status = d /\ p.asked = req[r].asked /\ p.taken = req[r].taken
      /\ p.itemRefund = req[r].itemRefund
      /\ p.approved = req[r].approved /\ p.run = req[r].run /\ p.refund = req[r].refund
      /\ p.awaiting = req[r].awaiting
  BY <1>1 DEF IsRow, Row, Status
<1> HIDE DEF p
<1>4. req'[r] = p
  BY <1>2, <1>3, RowsWiden DEF ReturnInv
<1>5. Steady(r)
  BY <1>1, <1>3, <1>4 DEF Steady, RowFits, Unreceived, Active
<1> QED
  BY <1>2, <1>3, <1>5, OneRowQuiet DEF ReviewReturnRequest, ReturnInv, Shape

LEMMA ReceiveAgainQuiet ==
    ASSUME ReturnInv, NEW r \in Requests, ReceiveAfterFailure(r)
    PROVE  Quiet
<1> DEFINE p == [req[r] EXCEPT !.status = "manual_refund_pending",
                               !.refund = "awaiting_manual_confirmation"]
<1>1. IsRow(req[r]) /\ req[r].status = "refund_failed" /\ RowFits(req[r])
  BY RequestsFinite DEF ReturnInv, RowsFit, ReceiveAfterFailure
<1>2. req' = [req EXCEPT ![r] = p]
  BY DEF ReceiveAfterFailure
<1>3. /\ IsRow(p) /\ p.status = "manual_refund_pending" /\ p.asked = req[r].asked
      /\ p.taken = req[r].taken /\ p.itemRefund = req[r].itemRefund
      /\ p.approved = req[r].approved /\ p.run = req[r].run
      /\ p.awaiting = req[r].awaiting
  BY <1>1 DEF IsRow, Row, Status, RefundStatus
<1> HIDE DEF p
<1>4. req'[r] = p
  BY <1>2, <1>3, RowsWiden DEF ReturnInv
<1>5. Steady(r)
  BY <1>1, <1>3, <1>4 DEF Steady, RowFits, Unreceived, Active
<1> QED
  BY <1>2, <1>3, <1>5, OneRowQuiet DEF ReceiveAfterFailure, ReturnInv, Shape

(* Steps of the refund process change its state only *)
LEMMA RunQuiet ==
    ASSUME ReturnInv, NEW r \in Requests, NEW u \in Run \ {"none"}, req[r].run \notin {"none", "SUCCESS"},
           req' = [req EXCEPT ![r].run = u],
           UNCHANGED <<discount, online, orderStatus, restocked, adminRefund>>
    PROVE  Quiet
<1> DEFINE p == [req[r] EXCEPT !.run = u]
<1>1. IsRow(req[r]) /\ RowFits(req[r])
  BY RequestsFinite DEF ReturnInv, RowsFit
<1>2. req' = [req EXCEPT ![r] = p]
  OBVIOUS
<1>3. /\ IsRow(p) /\ p.status = req[r].status /\ p.asked = req[r].asked /\ p.refund = req[r].refund
      /\ p.taken = req[r].taken /\ p.itemRefund = req[r].itemRefund
      /\ p.approved = req[r].approved /\ p.run = u
      /\ p.awaiting = req[r].awaiting
  BY <1>1 DEF IsRow, Row
<1> HIDE DEF p
<1>4. req'[r] = p
  BY <1>2, <1>3, RowsWiden DEF ReturnInv
<1>5. Steady(r)
  BY <1>1, <1>3, <1>4 DEF Steady, RowFits, Unreceived, Active
<1> QED
  BY <1>2, <1>3, <1>5, OneRowQuiet DEF ReturnInv, Shape

LEMMA ProcessQuiet ==
    ASSUME ReturnInv, NEW r \in Requests, RefundProcess(r)
    PROVE  Quiet
<1>1. CASE StartReturnRefund(r)
  <2>1. PICK u \in Run \ {"none"} : req' = [req EXCEPT ![r].run = u]
    BY <1>1 DEF StartReturnRefund, Run
  <2> QED
    BY <1>1, <2>1, RunQuiet DEF StartReturnRefund
<1>2. CASE RecordReturnRefund(r)
  <2>1. PICK u \in Run \ {"none"} : req' = [req EXCEPT ![r].run = u]
    BY <1>2 DEF RecordReturnRefund, Run
  <2> QED
    BY <1>2, <2>1, RunQuiet DEF RecordReturnRefund
<1>3. CASE \E result \in {"SUCCESS", "FAILED"} : ProviderDecides(r, result)
  <2>1. PICK u \in Run \ {"none"} : req' = [req EXCEPT ![r].run = u]
    BY <1>3 DEF ProviderDecides, Run
  <2> QED
    BY <1>3, <2>1, RunQuiet DEF ProviderDecides
<1> QED
  BY <1>1, <1>2, <1>3 DEF RefundProcess

(* The answers do not touch a completed request *)
LEMMA AnswerQuiet ==
    ASSUME ReturnInv, NEW r \in Requests, NEW st, NEW rf,
           \/ st = "refund_pending" /\ rf = "processing"
           \/ st = "refund_failed" /\ rf = "dispatch_failed",
           req[r].awaiting,
           req' = [req EXCEPT ![r] =
                      IF req[r].status = "completed"
                      THEN [req[r] EXCEPT !.awaiting = FALSE]
                      ELSE [req[r] EXCEPT !.status = st, !.refund = rf, !.awaiting = FALSE]],
           UNCHANGED <<discount, online, orderStatus, restocked, adminRefund>>
    PROVE  Quiet
<1> DEFINE p == IF req[r].status = "completed"
                THEN [req[r] EXCEPT !.awaiting = FALSE]
                ELSE [req[r] EXCEPT !.status = st, !.refund = rf, !.awaiting = FALSE]
<1>1. IsRow(req[r]) /\ RowFits(req[r])
  BY RequestsFinite DEF ReturnInv, RowsFit
<1>2. req' = [req EXCEPT ![r] = p]
  OBVIOUS
<1>3. /\ IsRow(p) /\ p.asked = req[r].asked
      /\ p.taken = req[r].taken /\ p.itemRefund = req[r].itemRefund
      /\ p.approved = req[r].approved /\ p.run = req[r].run
      /\ IF req[r].status = "completed"
         THEN p.status = req[r].status /\ p.refund = req[r].refund
         ELSE p.status = st /\ p.refund = rf
      /\ p.awaiting = FALSE
  BY <1>1 DEF IsRow, Row, Status, RefundStatus
<1> HIDE DEF p
<1>4. req'[r] = p
  <2>1. [req EXCEPT ![r] = p][r] = p
    BY <1>3, RowsWiden DEF ReturnInv
  <2> QED
    BY <1>2, <2>1, Zenon
<1>5. Steady(r)
  <2>1. req[r].status \notin {"pending", "approved", "rejected"}
    BY <1>1 DEF RowFits
  <2> QED
    BY <1>1, <1>3, <1>4, <2>1 DEF Steady, RowFits, Unreceived, Active
<1> QED
  BY <1>2, <1>3, <1>5, OneRowQuiet DEF ReturnInv, Shape
LEMMA DispatchQuiet ==
    ASSUME ReturnInv, NEW r \in Requests, Dispatch(r)
    PROVE  Quiet
<1>1. CASE DispatchAnswered(r)
  <2>1. req' = [req EXCEPT ![r] =
                  IF req[r].status = "completed"
                  THEN [req[r] EXCEPT !.awaiting = FALSE]
                  ELSE [req[r] EXCEPT !.status = "refund_pending", !.refund = "processing",
                                      !.awaiting = FALSE]]
    BY <1>1 DEF DispatchAnswered
  <2>2. req[r].awaiting /\ UNCHANGED <<discount, online, orderStatus, restocked, adminRefund>>
    BY <1>1 DEF DispatchAnswered
  <2> QED
    BY <2>1, <2>2, AnswerQuiet, Zenon
<1>2. CASE DispatchError(r)
  <2>1. req' = [req EXCEPT ![r] =
                  IF req[r].status = "completed"
                  THEN [req[r] EXCEPT !.awaiting = FALSE]
                  ELSE [req[r] EXCEPT !.status = "refund_failed", !.refund = "dispatch_failed",
                                      !.awaiting = FALSE]]
    BY <1>2 DEF DispatchError
  <2>2. req[r].awaiting /\ UNCHANGED <<discount, online, orderStatus, restocked, adminRefund>>
    BY <1>2 DEF DispatchError
  <2> QED
    BY <2>1, <2>2, AnswerQuiet, Zenon
<1> QED
  BY <1>1, <1>2 DEF Dispatch

LEMMA StopsQuiet ==
    ASSUME ReturnInv, NEW r \in Requests, OrderServiceStops(r)
    PROVE  Quiet
<1> DEFINE p == [req[r] EXCEPT !.awaiting = FALSE]
<1>1. IsRow(req[r]) /\ RowFits(req[r])
  BY RequestsFinite DEF ReturnInv, RowsFit
<1>2. req' = [req EXCEPT ![r] = p]
  BY DEF OrderServiceStops
<1>3. /\ IsRow(p) /\ p.status = req[r].status /\ p.asked = req[r].asked /\ p.refund = req[r].refund
      /\ p.taken = req[r].taken /\ p.itemRefund = req[r].itemRefund
      /\ p.approved = req[r].approved /\ p.run = req[r].run
      /\ p.awaiting = FALSE
  BY <1>1 DEF IsRow, Row
<1> HIDE DEF p
<1>4. req'[r] = p
  BY <1>2, <1>3, RowsWiden DEF ReturnInv
<1>5. Steady(r)
  BY <1>1, <1>3, <1>4 DEF Steady, RowFits, Unreceived, Active
<1> QED
  BY <1>2, <1>3, <1>5, OneRowQuiet DEF OrderServiceStops, ReturnInv, Shape

LEMMA FailedQuiet ==
    ASSUME ReturnInv, NEW r \in Requests, ReturnRefundFailed(r)
    PROVE  Quiet
<1> DEFINE p == [req[r] EXCEPT !.status = "refund_failed", !.refund = "provider_failed"]
<1>1. IsRow(req[r]) /\ RowFits(req[r]) /\ req[r].status \in {"refund_pending", "refund_failed"}
  BY RequestsFinite DEF ReturnInv, RowsFit, ReturnRefundFailed
<1>2. req' = [req EXCEPT ![r] = p]
  BY DEF ReturnRefundFailed
<1>3. /\ IsRow(p) /\ p.status = "refund_failed" /\ p.asked = req[r].asked
      /\ p.taken = req[r].taken /\ p.itemRefund = req[r].itemRefund
      /\ p.approved = req[r].approved /\ p.run = req[r].run
      /\ p.awaiting = req[r].awaiting
  BY <1>1 DEF IsRow, Row, Status, RefundStatus
<1> HIDE DEF p
<1>4. req'[r] = p
  BY <1>2, <1>3, RowsWiden DEF ReturnInv
<1>5. Steady(r)
  BY <1>1, <1>3, <1>4 DEF Steady, RowFits, Unreceived, Active
<1> QED
  BY <1>2, <1>3, <1>5, OneRowQuiet DEF ReturnRefundFailed, ReturnInv, Shape

(* A request is completed: it joins those paid back before *)
LEMMA CompleteQuiet ==
    ASSUME ReturnInv, NEW r \in Requests, NEW rf \in {"completed", "manual_completed"},
           req[r].status \in {"manual_refund_pending", "refund_pending", "refund_failed"},
           rf = "completed" => req[r].run = "SUCCESS",
           Complete(r, rf), UNCHANGED <<discount, online, restocked, adminRefund>>
    PROVE  Quiet
<1> DEFINE p == [req[r] EXCEPT !.status = "completed", !.refund = rf]
<1>1. IsRow(req[r]) /\ RowFits(req[r])
  BY RequestsFinite DEF ReturnInv, RowsFit
<1>2. req' = [req EXCEPT ![r] = p]
  BY DEF Complete
<1>3. /\ IsRow(p) /\ p.status = "completed" /\ p.asked = req[r].asked /\ p.refund = rf
      /\ p.taken = req[r].taken /\ p.itemRefund = req[r].itemRefund
      /\ p.approved = req[r].approved /\ p.run = req[r].run
      /\ p.awaiting = req[r].awaiting
  BY <1>1 DEF IsRow, Row, Status, RefundStatus
<1> HIDE DEF p
<1>4. /\ req'[r] = p /\ DOMAIN req' = DOMAIN req
      /\ \A x \in Requests \ {r} : req'[x] = req[x]
  BY <1>2, <1>3, RowsWiden DEF ReturnInv
<1>5. Steady(r)
  BY <1>1, <1>3, <1>4 DEF Steady, RowFits, Unreceived, Active
<1>6. Approved(RefundedBefore)' = Approved(RefundedBefore \cup {r})
  <2>1. RefundedBefore' = RefundedBefore \cup {r}
    BY <1>3, <1>4 DEF RefundedBefore, Requests
  <2> DEFINE f == [x \in DOMAIN req |-> req[x].approved]
             g == [x \in DOMAIN req' |-> req'[x].approved]
             R == RefundedBefore \cup {r}
  <2>2. \A x \in R : g[x] = f[x]
    BY <1>3, <1>4 DEF RefundedBefore, Requests
  <2>3. Approved(RefundedBefore)' = Total(g, R) /\ Approved(R) = Total(f, R)
    BY <2>1 DEF Approved, Requests
  <2> HIDE DEF f, g, R
  <2>4. Total(g, R) = Total(f, R)
    BY <2>2, TotalSame
  <2> QED
    BY <2>3, <2>4 DEF R
<1>7. orderStatus' = orderStatus \/ (orderStatus' = "refunded" /\ Approved(RefundedBefore)' >= Merchandise)
  BY <1>6 DEF Complete
<1>8. orderStatus' \in {"delivered", "refunded"}
  BY <1>7 DEF ReturnInv, Shape
<1> QED
  BY <1>2, <1>3, <1>5, <1>7, <1>8, OneRowQuiet

LEMMA PaymentRefundedQuiet ==
    ASSUME ReturnInv, PaymentRefunded
    PROVE  Quiet
<1>0. ProviderPaid >= Paid /\ orderStatus' = "refunded"
  BY DEF PaymentRefunded
<1>1. req' = [r \in Requests |-> req'[r]] /\ DOMAIN req' = DOMAIN req
  BY DEF PaymentRefunded, Requests
<1>2. ASSUME NEW r \in Requests, NEW X, req[r] \in Row(X)
      PROVE  Steady(r) /\ req'[r] \in Row(X)
  <2>1. CASE req[r].status \in {"refund_pending", "refund_failed"}
    <3> DEFINE p == [req[r] EXCEPT !.status = "completed", !.refund = "completed"]
    <3>1. req'[r] = p
      BY <2>1 DEF PaymentRefunded
    <3>2. /\ p \in Row(X) /\ p.status = "completed" /\ p.asked = req[r].asked
          /\ p.refund = "completed"
          /\ p.taken = req[r].taken /\ p.itemRefund = req[r].itemRefund
          /\ p.approved = req[r].approved /\ p.run = req[r].run
          /\ p.awaiting = req[r].awaiting
      BY <1>2 DEF Row, Status, RefundStatus
    <3>3. RowFits(req[r])
      BY DEF ReturnInv, RowsFit
    <3> HIDE DEF p
    <3> QED
      BY <1>0, <2>1, <3>1, <3>2, <3>3 DEF Steady, RowFits, Unreceived, Active
  <2>2. CASE req[r].status \notin {"refund_pending", "refund_failed"}
    <3>1. req'[r] = req[r]
      BY <2>2 DEF PaymentRefunded
    <3> QED
      BY <1>2, <3>1, SameSteady DEF ReturnInv
  <2> QED
    BY <2>1, <2>2
<1>3. PICK X : req \in Seq(Row(X))
  BY DEF ReturnInv, Shape
<1>4. Len(req) \in Nat /\ DOMAIN req = 1..Len(req) /\ \A r \in Requests : req[r] \in Row(X)
  BY <1>3 DEF Requests
<1>5. \A r \in Requests : Steady(r) /\ req'[r] \in Row(X)
  BY <1>2, <1>4
<1>6. req' \in [1..Len(req) -> Row(X)]
  BY <1>1, <1>4, <1>5 DEF Requests
<1>7. req' \in Seq(Row(X))
  BY <1>4, <1>6, SeqDef
<1>8. Shape' /\ UNCHANGED <<discount, online, restocked, adminRefund>>
  BY <1>7, <1>0 DEF ReturnInv, Shape, PaymentRefunded, Row
<1>9. adminRefund' >= adminRefund
  BY <1>8 DEF ReturnInv, Shape
<1> QED
  BY <1>0, <1>1, <1>5, <1>8, <1>9 DEF Quiet

LEMMA AdminRefundQuiet ==
    ASSUME ReturnInv, NEW a \in AdminAmounts, AdminRefund(a)
    PROVE  Quiet
<1>1. a \in Nat /\ adminRefund = 0 /\ adminRefund' = a /\ req' = req
  BY MoneyAssumption DEF AdminRefund
<1>2. \A r \in Requests : Steady(r)
  BY <1>1, SameSteady DEF ReturnInv
<1>3. Shape' /\ UNCHANGED <<discount, online, restocked, orderStatus>>
  BY <1>1 DEF ReturnInv, Shape, AdminRefund, Row
<1>4. adminRefund' >= adminRefund
  BY <1>1
<1> QED
  BY <1>1, <1>2, <1>3, <1>4 DEF Quiet

-----------------------------------------------------------------------------
(* A request is created                                                    *)

LEMMA TotalAppended ==
    ASSUME NEW f, NEW g, NEW S, IsFiniteSet(S), NEW y, y \notin S, g[y] \in Nat,
           \A x \in S : f[x] \in Nat /\ g[x] = f[x]
    PROVE  Total(g, S \cup {y}) = Total(f, S) + g[y] /\ Total(f, S) \in Nat
<1>1. \A x \in S : g[x] \in Nat
  OBVIOUS
<1>2. Total(g, S \cup {y}) = Total(g, S) + g[y] /\ Total(g, S) \in Nat
  BY <1>1, TotalAdded
<1>3. Total(g, S) = Total(f, S)
  BY TotalSame
<1> QED
  BY <1>2, <1>3

NewRow(q) == [asked |-> q, taken |-> None, itemRefund |-> None,
              status |-> "pending", refund |-> "none",
              approved |-> 0, run |-> "none", awaiting |-> FALSE]

LEMMA NewRowFits ==
    ASSUME NEW q \in [Items -> Nat]
    PROVE  /\ NewRow(q) \in Row({None}) /\ RowFits(NewRow(q))
           /\ NewRow(q).asked = q /\ NewRow(q).taken = None /\ NewRow(q).status = "pending"
           /\ NewRow(q).approved = 0 /\ NewRow(q).run = "none"
<1>1. None \in [Items -> Nat]
  BY DEF None
<1> QED
  BY <1>1 DEF NewRow, Row, RowFits, Status, RefundStatus, Run

LEMMA CreateRows ==
    ASSUME Shape, NEW q \in Selections, CreateReturnRequest(q)
    PROVE  /\ q \in [Items -> Nat] /\ Shape'
           /\ DOMAIN req' = DOMAIN req \cup {Len(req) + 1} /\ Len(req) + 1 \notin DOMAIN req
           /\ req'[Len(req) + 1] = NewRow(q) /\ \A r \in DOMAIN req : req'[r] = req[r]
<1>1. q \in [Items -> Nat]
  <2>1. UNION {0..Bought[i] : i \in Items} \subseteq Nat
    BY ItemsAssumption
  <2> QED
    BY <2>1 DEF Selections
<1>2. NewRow(q) \in Row({None})
  BY <1>1, NewRowFits
<1>3. PICK X : req \in Seq(Row(X))
  BY DEF Shape
<1> DEFINE Y == X \cup {None}
           n == NewRow(q)
<1>4. Row(X) \subseteq Row(Y) /\ n \in Row(Y)
  BY <1>2 DEF Row
<1>5. Len(req) \in Nat /\ DOMAIN req = 1..Len(req) /\ \A r \in DOMAIN req : req[r] \in Row(X)
  BY <1>3
<1>6. req' = Append(req, n)
  BY DEF CreateReturnRequest, NewRow
<1> HIDE DEF n, Y
<1>7. req \in Seq(Row(Y))
  <2>1. req \in [1..Len(req) -> Row(X)]
    BY <1>3
  <2>2. req \in [1..Len(req) -> Row(Y)]
    BY <1>4, <2>1
  <2> QED
    BY <1>5, <2>2, SeqDef
<1>8. Append(req, n) \in Seq(Row(Y))
  BY <1>4, <1>7
<1>9. /\ DOMAIN req' = 1..(Len(req) + 1) /\ req'[Len(req) + 1] = n
      /\ \A r \in 1..Len(req) : req'[r] = req[r]
  BY <1>3, <1>6
<1>10. DOMAIN req' = DOMAIN req \cup {Len(req) + 1} /\ Len(req) + 1 \notin DOMAIN req
  BY <1>5, <1>9
<1>11. Shape'
  BY <1>6, <1>8 DEF Shape, CreateReturnRequest, Row
<1> QED
  BY <1>1, <1>5, <1>9, <1>10, <1>11 DEF n

(* A new request has nothing taken back and nothing approved *)
LEMMA CreateSums ==
    ASSUME ReturnInv, NEW q \in Selections, CreateReturnRequest(q)
    PROVE  /\ \A i \in Items : Taken(i)' = Taken(i)
           /\ Approved(Requests)' = Approved(Requests)
<1> DEFINE m == Len(req) + 1
           n == NewRow(q)
           D == DOMAIN req
<1>1. /\ q \in [Items -> Nat] /\ DOMAIN req' = D \cup {m} /\ m \notin D
      /\ req'[m] = n /\ \A r \in D : req'[r] = req[r]
  BY CreateRows DEF ReturnInv
<1>2. n.taken = None /\ n.approved = 0
  BY <1>1, NewRowFits
<1>3. IsFiniteSet(D) /\ \A r \in D : IsRow(req[r])
  BY RequestsFinite DEF ReturnInv, Requests
<1> HIDE DEF m, n, D
<1>4. ASSUME NEW i \in Items PROVE Taken(i)' = Taken(i)
  <2> DEFINE f == [r \in D |-> req[r].taken[i]]
             g == [r \in DOMAIN req' |-> req'[r].taken[i]]
  <2>1. \A r \in D : f[r] \in Nat /\ g[r] = f[r]
    BY <1>1, <1>3, RowFields
  <2>2. g[m] = 0 /\ g[m] \in Nat
    BY <1>1, <1>2 DEF None
  <2>3. Taken(i) = Total(f, D) /\ Taken(i)' = Total(g, D \cup {m})
    BY <1>1 DEF Taken, Requests, D
  <2> HIDE DEF f, g
  <2>4. Total(g, D \cup {m}) = Total(f, D) + g[m] /\ Total(f, D) \in Nat
    BY <1>1, <1>3, <2>1, <2>2, TotalAppended
  <2> QED
    BY <2>2, <2>3, <2>4
<1>5. Approved(Requests)' = Approved(Requests)
  <2> DEFINE f == [r \in D |-> req[r].approved]
             g == [r \in DOMAIN req' |-> req'[r].approved]
  <2>1. \A r \in D : f[r] \in Nat /\ g[r] = f[r]
    BY <1>1, <1>3, RowFields
  <2>2. g[m] = 0 /\ g[m] \in Nat
    BY <1>1, <1>2
  <2>3. Approved(Requests) = Total(f, D) /\ Approved(Requests)' = Total(g, D \cup {m})
    BY <1>1 DEF Approved, Requests, D
  <2> HIDE DEF f, g
  <2>4. Total(g, D \cup {m}) = Total(f, D) + g[m] /\ Total(f, D) \in Nat
    BY <1>1, <1>3, <2>1, <2>2, TotalAppended
  <2> QED
    BY <2>2, <2>3, <2>4
<1> QED
  BY <1>4, <1>5

LEMMA CreateStep ==
    ASSUME ReturnInv, NEW q \in Selections, CreateReturnRequest(q)
    PROVE  ReturnInv'
<1> DEFINE m == Len(req) + 1
           n == NewRow(q)
           D == DOMAIN req
<1>1. /\ q \in [Items -> Nat] /\ Shape' /\ DOMAIN req' = D \cup {m} /\ m \notin D
      /\ req'[m] = n /\ \A r \in D : req'[r] = req[r]
  BY CreateRows DEF ReturnInv
<1>2. /\ RowFits(n) /\ n.asked = q /\ n.taken = None /\ n.status = "pending"
      /\ n.approved = 0 /\ n.run = "none"
  BY <1>1, NewRowFits
<1>3. IsFiniteSet(D) /\ \A r \in D : IsRow(req[r])
  BY RequestsFinite DEF ReturnInv, Requests
<1>4. /\ UNCHANGED <<discount, online, orderStatus, restocked, adminRefund>>
      /\ \A r \in D : ~Active(r)
      /\ \A i \in Items : q[i] <= Available(i)
  BY DEF CreateReturnRequest, Acceptable, Requests
<1> HIDE DEF m, n, D
<1>5. RowsFit'
  BY <1>1, <1>2 DEF ReturnInv, RowsFit, Requests, RowFits, None, D
<1>6. OneActive'
  BY <1>1, <1>4 DEF OneActive, Requests, Active
<1>7. ClaimedWithinBought'
  <2> SUFFICES ASSUME NEW i \in Items PROVE Previous(i)' <= Bought[i]
    BY DEF ClaimedWithinBought
  <2> DEFINE f == [r \in D |-> Claimed(r)[i]]
             g == [r \in DOMAIN req' |-> Claimed(r)'[i]]
  <2>1. \A r \in D : f[r] \in Nat
    BY ClaimedType DEF D, Requests, ReturnInv
  <2>2. \A r \in D : g[r] = f[r]
    <3> SUFFICES ASSUME NEW r \in D PROVE Claimed(r)'[i] = Claimed(r)[i]
      BY <1>1
    <3> QED
      BY <1>1 DEF Claimed
  <2>3. g[m] = q[i] /\ q[i] \in Nat
    <3>1. \A r \in DOMAIN req' : req'[r].status = "pending" => Claimed(r)' = req'[r].asked
      BY DEF Claimed
    <3>2. m \in DOMAIN req' /\ req'[m].status = "pending" /\ req'[m].asked = q
      BY <1>1, <1>2
    <3> QED
      BY <3>1, <3>2, <1>1
  <2>4. Previous(i) = Total(f, D) /\ Previous(i)' = Total(g, D \cup {m})
    BY <1>1 DEF Previous, Requests, D
  <2> HIDE DEF f, g
  <2>5. Total(g, D \cup {m}) = Total(f, D) + g[m] /\ Total(f, D) \in Nat
    BY <1>1, <1>3, <2>1, <2>2, <2>3, TotalAppended
  <2>6. q[i] <= Bought[i] - Previous(i) /\ Bought[i] \in Nat
    BY <1>4, ItemsAssumption DEF Available
  <2> QED
    BY <2>3, <2>4, <2>5, <2>6
<1>8. RestockedWasTaken'
  <2>1. \A i \in Items : Taken(i)' = Taken(i)
    BY CreateSums
  <2> QED
    BY <1>4, <2>1 DEF ReturnInv, RestockedWasTaken
<1>9. Merchandise' = Merchandise /\ Paid' = Paid
  BY <1>4 DEF Merchandise, Paid, Subtotal, Gross, Total
<1> DEFINE f == [r \in D |-> req[r].approved]
           g == [r \in DOMAIN req' |-> req'[r].approved]
<1>10. \A r \in D : f[r] \in Nat /\ g[r] = f[r]
  BY <1>1, <1>3, RowFields
<1>11. ApprovedWithinTotal'
  BY <1>9, CreateSums DEF ReturnInv, ApprovedWithinTotal
<1>12. CompletedWasPaid'
  <2> DEFINE S == {r \in Requests : req[r].run = "SUCCESS"}
             R == RefundedBefore
  <2>1. S \subseteq D /\ R \subseteq D
    BY DEF D, Requests, RefundedBefore
  <2>2. {r \in DOMAIN req' : req'[r].run = "SUCCESS"} = S /\ RefundedBefore' = R
    BY <1>1, <1>2 DEF D, Requests, RefundedBefore
  <2>3. /\ Approved(S) = Total(f, S) /\ Approved(R) = Total(f, R)
        /\ ProviderPaid = adminRefund + Approved(S)
        /\ ProviderPaid' = adminRefund' + Total(g, S)
        /\ Approved(RefundedBefore)' = Total(g, R)
    BY <2>2 DEF Approved, ProviderPaid, Requests, D
  <2> HIDE DEF f, g, S, R
  <2>4. Total(g, S) = Total(f, S) /\ Total(g, R) = Total(f, R)
    BY <1>10, <2>1, TotalSame
  <2>5. ProviderPaid' = ProviderPaid /\ Approved(RefundedBefore)' = Approved(RefundedBefore)
    BY <1>4, <2>3, <2>4 DEF R
  <2>6. \A r \in DOMAIN req' : (req'[r].status = "completed" /\ req'[r].refund = "completed")
                               => req'[r].run = "SUCCESS" \/ ProviderPaid' >= Paid'
    BY <1>1, <1>2, <1>9, <2>5 DEF ReturnInv, CompletedWasPaid, Requests, D
  <2>7. orderStatus' = "refunded" => \/ Approved(RefundedBefore)' >= Merchandise'
                                     \/ ProviderPaid' >= Paid'
    BY <1>4, <1>9, <2>5 DEF ReturnInv, CompletedWasPaid
  <2> QED
    BY <2>6, <2>7 DEF CompletedWasPaid, Requests
<1> QED
  BY <1>1, <1>5, <1>6, <1>7, <1>8, <1>11, <1>12 DEF ReturnInv

-----------------------------------------------------------------------------
(* A request is received                                                   *)

(* What receiving makes of row r: p *)
ReceivedAs(r, p) ==
    /\ IsRow(p)
    /\ req[r].status = "approved"
    /\ req' = [req EXCEPT ![r] = p]
    /\ \A i \in Items : p.taken[i] <= req[r].asked[i]
    /\ \/ p.status \in {"refund_pending", "manual_refund_pending"}
       \/ p.status = "completed" /\ p.refund = "not_eligible" /\ p.approved = 0
    /\ p.run \in {"none", "sent"}
    /\ p.awaiting => p.run # "none"
    /\ p.approved = Min({CalculateReturnRefund(Gross(p.taken)), Remaining})
    /\ p.approved <= Remaining
    /\ p.itemRefund \in [Items -> Nat]
    /\ Total(p.itemRefund, Items) = p.approved
    /\ restocked' \in [Items -> Nat]
    /\ \A i \in Items : restocked'[i] <= restocked[i] + p.taken[i]
    /\ UNCHANGED <<discount, online, orderStatus, adminRefund>>

LEMMA ReceivedRows ==
    ASSUME ReturnInv, NEW r \in Requests, NEW p, ReceivedAs(r, p)
    PROVE  /\ Shape' /\ DOMAIN req' = DOMAIN req /\ req'[r] = p
           /\ \A x \in Requests \ {r} : req'[x] = req[x]
           /\ IsRow(req[r]) /\ IsRow(p)
           /\ req[r].taken = None /\ req[r].approved = 0 /\ req[r].run = "none"
<1>1. /\ \E X : req' \in Seq(Row(X)) /\ DOMAIN req' = DOMAIN req /\ req'[r] = p
      /\ \A x \in Requests \ {r} : req'[x] = req[x]
  BY RowsWiden DEF ReturnInv, ReceivedAs
<1>2. Shape'
  BY <1>1 DEF ReturnInv, Shape, Row, ReceivedAs
<1>3. IsRow(req[r]) /\ RowFits(req[r])
  BY RequestsFinite DEF ReturnInv, RowsFit
<1> QED
  BY <1>1, <1>2, <1>3 DEF RowFits, ReceivedAs

LEMMA ReceivedFits ==
    ASSUME ReturnInv, NEW r \in Requests, NEW p, ReceivedAs(r, p)
    PROVE  RowsFit' /\ OneActive'
<1>1. /\ DOMAIN req' = DOMAIN req /\ req'[r] = p
      /\ \A x \in Requests \ {r} : req'[x] = req[x]
  BY ReceivedRows
<1>2. RowFits(p)
  BY DEF ReceivedAs, RowFits
<1>3. RowsFit'
  <2>1. \A x \in DOMAIN req' : RowFits(req'[x])
    BY <1>1, <1>2 DEF ReturnInv, RowsFit, Requests
  <2> QED
    BY <2>1 DEF RowsFit, Requests, RowFits, None
<1>4. \A x \in Requests \ {r} : ~Active(x)
  BY DEF ReturnInv, OneActive, Active, ReceivedAs
<1>5. OneActive'
  BY <1>1, <1>4 DEF OneActive, Requests, Active
<1> QED
  BY <1>3, <1>5

LEMMA ReceivedClaims ==
    ASSUME ReturnInv, NEW r \in Requests, NEW p, ReceivedAs(r, p)
    PROVE  ClaimedWithinBought'
<1> SUFFICES ASSUME NEW i \in Items PROVE Previous(i)' <= Bought[i]
  BY DEF ClaimedWithinBought
<1>1. /\ DOMAIN req' = DOMAIN req /\ req'[r] = p
      /\ \A x \in Requests \ {r} : req'[x] = req[x]
      /\ IsRow(p) /\ IsRow(req[r])
  BY ReceivedRows
<1> DEFINE f == [x \in DOMAIN req |-> Claimed(x)[i]]
           g == [x \in DOMAIN req' |-> Claimed(x)'[i]]
<1>2. \A x \in DOMAIN req : f[x] \in Nat
  BY ClaimedType DEF Requests, ReturnInv
<1>3. \A x \in DOMAIN req : g[x] \in Nat /\ g[x] <= f[x]
  <2> SUFFICES ASSUME NEW x \in DOMAIN req PROVE g[x] \in Nat /\ g[x] <= f[x]
    OBVIOUS
  <2>1. f[x] = Claimed(x)[i] /\ g[x] = Claimed(x)'[i]
    BY <1>1
  <2>2. CASE x # r
    <3>1. Claimed(x)' = Claimed(x)
      BY <1>1, <2>2 DEF Claimed, Requests
    <3>2. g[x] = f[x] /\ f[x] \in Nat
      BY <1>2, <2>1, <3>1
    <3> HIDE DEF f, g
    <3> QED
      BY <3>2
  <2>3. CASE x = r
    <3>1. Claimed(x)' = p.taken
      BY <1>1, <2>3 DEF Claimed, ReceivedAs
    <3>2. Claimed(x) = req[r].asked
      BY <2>3 DEF Claimed, ReceivedAs
    <3>3. p.taken[i] <= req[r].asked[i] /\ p.taken[i] \in Nat
      BY <1>1, RowFields DEF ReceivedAs
    <3> HIDE DEF f, g
    <3> QED
      BY <2>1, <3>1, <3>2, <3>3
  <2> QED
    BY <2>2, <2>3
<1>4. Previous(i) = Total(f, DOMAIN req) /\ Previous(i)' = Total(g, DOMAIN req')
  BY DEF Previous, Requests
<1>5. IsFiniteSet(DOMAIN req)
  BY RequestsFinite DEF ReturnInv, Requests
<1> HIDE DEF f, g
<1>6. Total(g, DOMAIN req) <= Total(f, DOMAIN req) /\ Total(g, DOMAIN req) \in Nat /\ Total(f, DOMAIN req) \in Nat
  BY <1>2, <1>3, <1>5, TotalLess
<1>7. Previous(i) <= Bought[i] /\ Bought[i] \in Nat
  BY ItemsAssumption DEF ReturnInv, ClaimedWithinBought
<1> QED
  BY <1>1, <1>4, <1>6, <1>7

(* Its goods and its amount are added.  All other requests are closed:     *)
(* what they were approved for is what was paid back before                *)
LEMMA ReceivedSums ==
    ASSUME ReturnInv, NEW r \in Requests, NEW p, ReceivedAs(r, p)
    PROVE  /\ \A i \in Items : Taken(i)' = Taken(i) + p.taken[i] /\ Taken(i) \in Nat
           /\ Approved(Requests)' = Approved(Requests) + p.approved
           /\ Remaining = Merchandise - Approved(Requests)
<1>1. /\ DOMAIN req' = DOMAIN req /\ req'[r] = p
      /\ \A x \in Requests \ {r} : req'[x] = req[x]
      /\ IsRow(p) /\ req[r].taken = None /\ req[r].approved = 0
  BY ReceivedRows
<1> DEFINE D == DOMAIN req
<1>2. IsFiniteSet(D) /\ r \in D
  BY RequestsFinite DEF ReturnInv, Requests
<1>3. ASSUME NEW i \in Items PROVE Taken(i)' = Taken(i) + p.taken[i] /\ Taken(i) \in Nat
  <2> DEFINE f == [x \in D |-> req[x].taken[i]]
             g == [x \in DOMAIN req' |-> req'[x].taken[i]]
  <2>1. \A x \in D : f[x] \in Nat
    BY RequestsFinite, RowFields DEF Requests, ReturnInv
  <2>2. /\ f[r] = 0 /\ g[r] = p.taken[i] /\ g[r] \in Nat
        /\ \A x \in D \ {r} : g[x] = f[x]
    BY <1>1, <1>2, RowFields DEF None, Requests
  <2>3. Taken(i) = Total(f, D) /\ Taken(i)' = Total(g, D)
    BY <1>1 DEF Taken, Requests
  <2> HIDE DEF f, g, D
  <2>4. Total(g, D) = Total(f, D) - f[r] + g[r] /\ Total(f, D) \in Nat
    BY <1>2, <2>1, <2>2, TotalChanged
  <2> QED
    BY <2>2, <2>3, <2>4
<1> DEFINE f == [x \in D |-> req[x].approved]
           g == [x \in DOMAIN req' |-> req'[x].approved]
           R == RefundedBefore
<1>4. \A x \in D : f[x] \in Nat
  BY RequestsFinite, RowFields DEF Requests, ReturnInv
<1>5. /\ f[r] = 0 /\ g[r] = p.approved /\ g[r] \in Nat
      /\ \A x \in D \ {r} : g[x] = f[x]
  BY <1>1, <1>2, RowFields DEF Requests
<1>6. /\ Approved(Requests) = Total(f, D) /\ Approved(Requests)' = Total(g, D)
      /\ Approved(RefundedBefore) = Total(f, R)
  BY <1>1 DEF Approved, Requests
<1>7. R \subseteq D
  BY DEF Requests, RefundedBefore
<1>8. \A x \in D \ R : f[x] = 0
  <2> SUFFICES ASSUME NEW x \in D \ R, x # r PROVE req[x].approved = 0
    BY <1>5
  <2>1. ~Active(x)
    BY DEF ReturnInv, OneActive, Active, ReceivedAs, Requests
  <2>2. RowFits(req[x])
    BY DEF ReturnInv, RowsFit, Requests
  <2> QED
    BY <2>1, <2>2 DEF Active, RowFits, RefundedBefore, Requests
<1> HIDE DEF f, g, D, R
<1>9. Total(f, D) = Total(f, R)
  BY <1>7, <1>8, TotalOfNonzero
<1>10. Total(g, D) = Total(f, D) - f[r] + g[r] /\ Total(f, D) \in Nat
  BY <1>2, <1>4, <1>5, TotalChanged
<1>11. Remaining = Merchandise - Total(f, D)
  <2>1. Merchandise \in Nat /\ Total(f, D) <= Merchandise
    BY <1>6, MerchandiseType DEF ReturnInv, ApprovedWithinTotal
  <2>2. Remaining = Max({Merchandise - Total(f, D), 0})
    BY <1>6, <1>9 DEF Remaining
  <2>3. Merchandise - Total(f, D) \in Nat
    BY <1>10, <2>1
  <2> QED
    BY <2>2, <2>3, MaxOfTwo
<1> QED
  BY <1>3, <1>5, <1>6, <1>10, <1>11

LEMMA ReceivedRestocked ==
    ASSUME ReturnInv, NEW r \in Requests, NEW p, ReceivedAs(r, p)
    PROVE  RestockedWasTaken'
<1> SUFFICES ASSUME NEW i \in Items PROVE restocked'[i] <= Taken(i)'
  BY DEF RestockedWasTaken
<1>1. Taken(i)' = Taken(i) + p.taken[i] /\ Taken(i) \in Nat
  BY ReceivedSums
<1>2. /\ restocked'[i] <= restocked[i] + p.taken[i] /\ restocked[i] <= Taken(i)
      /\ restocked[i] \in Nat /\ restocked'[i] \in Nat
  BY DEF ReceivedAs, ReturnInv, RestockedWasTaken, Shape
<1>3. p.taken[i] \in Nat
  BY RowFields DEF ReceivedAs
<1> QED
  BY <1>1, <1>2, <1>3

LEMMA ReceivedApproved ==
    ASSUME ReturnInv, NEW r \in Requests, NEW p, ReceivedAs(r, p)
    PROVE  ApprovedWithinTotal'
<1>1. /\ Approved(Requests)' = Approved(Requests) + p.approved
      /\ p.approved <= Merchandise - Approved(Requests)
  BY ReceivedSums DEF ReceivedAs
<1>2. p.approved \in Nat /\ Merchandise \in Nat /\ Approved(Requests) \in Nat
  BY RowFields, MerchandiseType, ApprovedType DEF ReceivedAs, ReturnInv
<1>3. Merchandise' = Merchandise
  BY DEF ReceivedAs, Merchandise, Subtotal, Gross, Total
<1>4. Approved(Requests)' <= Merchandise
  BY <1>1, <1>2
<1> QED
  BY <1>3, <1>4 DEF ApprovedWithinTotal

LEMMA ReceivedCompleted ==
    ASSUME ReturnInv, NEW r \in Requests, NEW p, ReceivedAs(r, p)
    PROVE  CompletedWasPaid'
<1>1. /\ DOMAIN req' = DOMAIN req /\ req'[r] = p
      /\ \A x \in Requests \ {r} : req'[x] = req[x]
      /\ req[r].run = "none"
  BY ReceivedRows
<1>2. UNCHANGED <<discount, online, orderStatus, adminRefund>>
  BY DEF ReceivedAs
<1>3. Merchandise' = Merchandise /\ Paid' = Paid
  BY <1>2 DEF Merchandise, Paid, Subtotal, Gross, Total
<1> DEFINE f == [x \in DOMAIN req |-> req[x].approved]
           g == [x \in DOMAIN req' |-> req'[x].approved]
           S == {x \in Requests : req[x].run = "SUCCESS"}
           R == RefundedBefore
<1>4. {x \in DOMAIN req' : req'[x].run = "SUCCESS"} = S /\ RefundedBefore' = R
  BY <1>1 DEF Requests, RefundedBefore, ReceivedAs
<1>5. S \subseteq Requests \ {r} /\ R \subseteq Requests \ {r}
  BY <1>1 DEF RefundedBefore, ReceivedAs
<1>6. \A x \in Requests \ {r} : g[x] = f[x]
  BY <1>1 DEF Requests
<1>7. /\ Approved(R) = Total(f, R)
      /\ ProviderPaid = adminRefund + Total(f, S)
      /\ ProviderPaid' = adminRefund' + Total(g, S)
      /\ Approved(RefundedBefore)' = Total(g, R)
  BY <1>4 DEF Approved, ProviderPaid, Requests
<1> HIDE DEF f, g, S, R
<1>8. Total(g, S) = Total(f, S) /\ Total(g, R) = Total(f, R)
  BY <1>5, <1>6, TotalSame
<1>9. ProviderPaid' = ProviderPaid /\ Approved(RefundedBefore)' = Approved(RefundedBefore)
  BY <1>2, <1>7, <1>8 DEF R
<1>10. \A x \in DOMAIN req' : (req'[x].status = "completed" /\ req'[x].refund = "completed")
                             => req'[x].run = "SUCCESS" \/ ProviderPaid' >= Paid'
  BY <1>1, <1>3, <1>9 DEF ReturnInv, CompletedWasPaid, Requests, ReceivedAs
<1>11. orderStatus' = "refunded" => \/ Approved(RefundedBefore)' >= Merchandise'
                                    \/ ProviderPaid' >= Paid'
  BY <1>2, <1>3, <1>9 DEF ReturnInv, CompletedWasPaid
<1> QED
  BY <1>10, <1>11 DEF CompletedWasPaid, Requests

LEMMA ReceivedStep ==
    ASSUME ReturnInv, NEW r \in Requests, NEW p, ReceivedAs(r, p)
    PROVE  ReturnInv'
<1>1. Shape'
  BY ReceivedRows
<1> QED
  BY <1>1, ReceivedFits, ReceivedClaims, ReceivedRestocked, ReceivedApproved, ReceivedCompleted
     DEF ReturnInv

LEMMA RemainingType ==
    ASSUME ReturnInv
    PROVE  Remaining \in Nat
<1>1. Merchandise \in Nat
  BY MerchandiseType DEF ReturnInv
<1>2. Approved(RefundedBefore) \in Nat
  BY ApprovedType DEF ReturnInv, RefundedBefore
<1>3. Merchandise - Approved(RefundedBefore) \in Int
  BY <1>1, <1>2
<1> QED
  BY <1>3, MaxOfTwo DEF Remaining

LEMMA ReceiveIs ==
    ASSUME ReturnInv, NEW r \in Requests, NEW d \in Disposition, NEW s, ReceiveReturnRequest(r, d, s)
    PROVE  \E p : ReceivedAs(r, p)
<1> DEFINE accepted == {i \in Items : req[r].asked[i] > 0 /\ d[i] # "rejected"}
           taken == [i \in Items |-> IF i \in accepted THEN req[r].asked[i] ELSE 0]
           a == Min({CalculateReturnRefund(Gross(taken)), Remaining})
           shares == AllocateReturnItemRefunds(s, [i \in Items |-> Price[i] * taken[i]], a)
           st == IF a = 0 THEN "completed"
                 ELSE IF Provider THEN "refund_pending" ELSE "manual_refund_pending"
           rf == IF a = 0 THEN "not_eligible"
                 ELSE IF Provider THEN "dispatching" ELSE "awaiting_manual_confirmation"
           u == IF a > 0 /\ Provider THEN "sent" ELSE "none"
           w == a > 0 /\ Provider
           p == [req[r] EXCEPT !.taken = taken, !.approved = a, !.itemRefund = shares,
                               !.status = st, !.refund = rf, !.run = u, !.awaiting = w]
<1>1. IsRow(req[r])
  BY RequestsFinite DEF ReturnInv
<1>2. \A i \in Items : req[r].asked[i] \in Nat
  BY <1>1, RowFields
<1>3. taken \in [Items -> Nat] /\ \A i \in Items : taken[i] <= req[r].asked[i]
  BY <1>2
<1>4. /\ req[r].status = "approved"
      /\ req' = [req EXCEPT ![r] = p]
      /\ UNCHANGED <<discount, online, orderStatus, adminRefund>>
  BY DEF ReceiveReturnRequest
<1>5. restocked' = [i \in Items |-> restocked[i] + IF d[i] = "restock" THEN taken[i] ELSE 0]
  BY DEF ReceiveReturnRequest
<1>6. /\ accepted \in SUBSET Items /\ s \in Orders(accepted)
      /\ accepted = {} => taken = None
  BY DEF ReceiveReturnRequest, None
<1> HIDE DEF accepted, taken
<1>7. a \in Nat /\ a <= Remaining
  <2> DEFINE c == CalculateReturnRefund(Gross(taken))
  <2>1. Gross(taken) \in Nat
    BY <1>3, GrossType
  <2>2. c \in Nat /\ Remaining \in Nat
    BY <2>1, RefundType, RemainingType DEF ReturnInv
  <2>3. a = Min({c, Remaining})
    OBVIOUS
  <2> HIDE DEF c, a
  <2> QED
    BY <2>2, <2>3, MinOfTwo
<1>8. shares \in [Items -> Nat] /\ Total(shares, Items) = a
  <2> DEFINE gross == [i \in Items |-> Price[i] * taken[i]]
  <2>1. \A i \in Items : gross[i] \in Nat
    BY <1>3, ItemsAssumption, ProductNat
  <2>2. accepted = {} => a = 0
    <3>1. Remaining \in Nat
      BY RemainingType
    <3>2. Min({0, Remaining}) = 0
      BY <3>1, MinOfTwo
    <3> QED
      BY <1>6, <3>2, NothingRefunded DEF ReturnInv
  <2>3. Shape /\ a \in Nat
    BY <1>7 DEF ReturnInv
  <2> HIDE DEF gross, a
  <2>4. /\ AllocateReturnItemRefunds(s, gross, a) \in [Items -> Nat]
        /\ Total(AllocateReturnItemRefunds(s, gross, a), Items) = a
    BY <1>6, <2>1, <2>2, <2>3, AllocationAddsUp
  <2> QED
    BY <2>4 DEF gross
<1>9. a = Min({CalculateReturnRefund(Gross(taken)), Remaining})
  OBVIOUS
<1> HIDE DEF shares
<1>10. /\ \/ st \in {"refund_pending", "manual_refund_pending"}
          \/ st = "completed" /\ rf = "not_eligible" /\ a = 0
       /\ u \in {"none", "sent"} /\ w \in BOOLEAN /\ (w => u # "none")
       /\ st \in Status /\ rf \in RefundStatus /\ u \in Run
  BY DEF Status, RefundStatus, Run
<1> HIDE DEF a, st, rf, u, w
<1>11. /\ IsRow(p) /\ p.taken = taken /\ p.approved = a /\ p.status = st /\ p.refund = rf
       /\ p.run = u /\ p.awaiting = w /\ p.itemRefund = shares
  <2>1. PICK X : req[r] \in Row(X)
    BY <1>1 DEF IsRow
  <2>2. /\ p \in Row(X \cup {shares})
        /\ p.taken = taken /\ p.approved = a /\ p.status = st /\ p.refund = rf
        /\ p.run = u /\ p.awaiting = w /\ p.itemRefund = shares
    BY <1>3, <1>7, <1>10, <2>1 DEF Row
  <2> QED
    BY <2>2 DEF IsRow
<1>12. restocked' \in [Items -> Nat] /\ \A i \in Items : restocked'[i] <= restocked[i] + taken[i]
  <2>1. \A i \in Items : restocked[i] \in Nat /\ taken[i] \in Nat
    BY <1>3 DEF ReturnInv, Shape
  <2> QED
    BY <1>5, <2>1
<1> HIDE DEF p
<1>13. ReceivedAs(r, p)
  BY <1>3, <1>4, <1>7, <1>8, <1>9, <1>10, <1>11, <1>12 DEF ReceivedAs
<1> QED
  BY <1>13

-----------------------------------------------------------------------------
(* The invariant holds                                                     *)

LEMMA InitInv ==
    ASSUME Init
    PROVE  ReturnInv
<1>1. Shape
  <2>1. <<>> \in Seq(Row({}))
    OBVIOUS
  <2>2. None \in [Items -> Nat]
    BY DEF None
  <2> QED
    BY <2>1, <2>2 DEF Init, Shape
<1>2. Requests = {}
  BY DEF Init, Requests
<1>3. \A f : Total(f, {}) = 0
  BY TotalNothing
<1>4. RowsFit /\ OneActive
  BY <1>2 DEF RowsFit, OneActive
<1>5. ClaimedWithinBought /\ RestockedWasTaken
  <2>1. \A i \in Items : Previous(i) = 0 /\ Taken(i) = 0
    BY <1>2, <1>3 DEF Previous, Taken
  <2>2. \A i \in Items : restocked[i] = 0 /\ Bought[i] \in Nat
    BY ItemsAssumption DEF Init, None
  <2> QED
    BY <2>1, <2>2 DEF ClaimedWithinBought, RestockedWasTaken
<1>6. ApprovedWithinTotal
  <2>1. Approved(Requests) = 0
    BY <1>2, <1>3 DEF Approved
  <2>2. Merchandise \in Nat
    BY <1>1, MerchandiseType
  <2> QED
    BY <2>1, <2>2 DEF ApprovedWithinTotal
<1>7. CompletedWasPaid
  BY <1>2 DEF CompletedWasPaid, Init
<1> QED
  BY <1>1, <1>4, <1>5, <1>6, <1>7 DEF ReturnInv

(* Every step creates or receives a request or is quiet *)
LEMMA NextKinds ==
    ASSUME ReturnInv, Next
    PROVE  \/ \E q \in Selections : CreateReturnRequest(q)
           \/ \E r \in Requests : \E p : ReceivedAs(r, p)
           \/ Quiet
<1>1. CASE \E q \in Selections : CreateReturnRequest(q)
  BY <1>1
<1>2. CASE \E a \in AdminAmounts : AdminRefund(a)
  BY <1>2, AdminRefundQuiet
<1>3. CASE PaymentRefunded
  BY <1>3, PaymentRefundedQuiet
<1>4. ASSUME NEW r \in Requests, Receive(r)
      PROVE  \E p : ReceivedAs(r, p)
  BY <1>4, ReceiveIs DEF Receive
<1>5. ASSUME NEW r \in Requests,
             \/ \E decision \in {"approved", "rejected"} : ReviewReturnRequest(r, decision)
             \/ ReceiveAfterFailure(r)
             \/ CompleteManualReturnRefund(r)
             \/ RefundProcess(r)
             \/ Dispatch(r)
             \/ OrderServiceStops(r)
             \/ RefundResult(r)
      PROVE  Quiet
  <2>1. CASE \E decision \in {"approved", "rejected"} : ReviewReturnRequest(r, decision)
    BY <2>1, ReviewQuiet
  <2>2. CASE ReceiveAfterFailure(r)
    BY <2>2, ReceiveAgainQuiet
  <2>3. CASE CompleteManualReturnRefund(r)
    BY <2>3, CompleteQuiet DEF CompleteManualReturnRefund
  <2>4. CASE RefundProcess(r)
    BY <2>4, ProcessQuiet
  <2>5. CASE Dispatch(r)
    BY <2>5, DispatchQuiet
  <2>6. CASE OrderServiceStops(r)
    BY <2>6, StopsQuiet
  <2>7. CASE ReturnRefundCompleted(r)
    BY <2>7, CompleteQuiet DEF ReturnRefundCompleted
  <2>8. CASE ReturnRefundFailed(r)
    BY <2>8, FailedQuiet
  <2> QED
    BY <1>5, <2>1, <2>2, <2>3, <2>4, <2>5, <2>6, <2>7, <2>8 DEF RefundResult
<1> QED
  BY <1>1, <1>2, <1>3, <1>4, <1>5, Zenon DEF Next

LEMMA IdleQuiet ==
    ASSUME ReturnInv, UNCHANGED vars
    PROVE  Quiet
<1>1. /\ UNCHANGED <<discount, online, restocked, adminRefund, orderStatus>>
      /\ req' = req
  BY DEF vars
<1>2. \A r \in Requests : Steady(r)
  BY <1>1, SameSteady DEF ReturnInv
<1>3. Shape'
  BY <1>1 DEF ReturnInv, Shape, Row
<1>4. adminRefund' >= adminRefund
  BY <1>1 DEF ReturnInv, Shape
<1> QED
  BY <1>1, <1>2, <1>3, <1>4 DEF Quiet

LEMMA NextInv ==
    ASSUME ReturnInv, [Next]_vars
    PROVE  ReturnInv'
<1>1. CASE Next
  BY <1>1, NextKinds, CreateStep, ReceivedStep, QuietStep
<1>2. CASE UNCHANGED vars
  BY <1>2, IdleQuiet, QuietStep
<1> QED
  BY <1>1, <1>2

LEMMA Invariance == Spec => []ReturnInv
<1>1. Init => ReturnInv
  BY InitInv
<1>2. ReturnInv /\ [Next]_vars => ReturnInv'
  BY NextInv
<1> QED
  BY <1>1, <1>2, PTL DEF Spec

-----------------------------------------------------------------------------
(* What is paid back adds up                                               *)

RowsAddUp ==
    \A r \in Requests : /\ req[r].itemRefund \in [Items -> Nat]
                        /\ Total(req[r].itemRefund, Items) = req[r].approved

TakenBack == [i \in Items |-> Taken(i)]

(* The requests received so far, at least the ones that rounded an amount  *)
Outstanding == \E r \in Requests : req[r].status \in Unreceived
Roundings == IF Outstanding THEN Len(req) - 1 ELSE Len(req)

(* The share of the goods taken back was approved but for half a unit of   *)
(* money per rounding, unless nothing is left to approve                   *)
RoundedFairly ==
    \/ Approved(Requests) = Merchandise
    \/ 2 * Gross(TakenBack) * Merchandise <= Subtotal * (2 * Approved(Requests) + Roundings)

AddUpInv == ReturnInv /\ RowsAddUp /\ RoundedFairly

LEMMA AddUpTypes ==
    ASSUME ReturnInv
    PROVE  /\ TakenBack \in [Items -> Nat] /\ Gross(TakenBack) \in Nat
           /\ Roundings \in Nat /\ Roundings <= Len(req) /\ Len(req) \in Nat
           /\ Approved(Requests) \in Nat /\ Merchandise \in Nat
           /\ Subtotal \in Nat /\ Subtotal > 0
<1>1. ASSUME NEW i \in Items PROVE Taken(i) \in Nat
  <2> DEFINE f == [r \in Requests |-> req[r].taken[i]]
  <2>1. \A r \in Requests : f[r] \in Nat
    BY ClaimedType DEF ReturnInv
  <2>2. IsFiniteSet(Requests)
    BY RequestsFinite DEF ReturnInv
  <2> HIDE DEF f
  <2>3. Total(f, Requests) \in Nat
    BY <2>1, <2>2, TotalType
  <2> QED
    BY <2>3 DEF Taken, f
<1>2. TakenBack \in [Items -> Nat]
  BY <1>1 DEF TakenBack
<1>3. Requests = 1..Len(req) /\ Len(req) \in Nat
  BY RequestsFinite DEF ReturnInv
<1>4. Roundings \in Nat /\ Roundings <= Len(req)
  BY <1>3 DEF Roundings, Outstanding
<1> QED
  BY <1>2, <1>3, <1>4, GrossType, ApprovedType, MerchandiseType, SubtotalPositive DEF ReturnInv

LEMMA Scaled ==
    ASSUME NEW t \in Nat, NEW x \in Nat, NEW y \in Nat, x <= y
    PROVE  t * x <= t * y
  OBVIOUS

(* Neither the goods nor the amounts change, and no rounding is forgotten *)
LEMMA SameAmounts ==
    ASSUME ReturnInv, RoundedFairly, ReturnInv', \A i \in Items : Taken(i)' = Taken(i),
           Approved(Requests)' = Approved(Requests), Merchandise' = Merchandise,
           Roundings' >= Roundings
    PROVE  RoundedFairly'
<1> DEFINE T == Subtotal
           A == Approved(Requests)
           k == Roundings
           m == Roundings'
           G == 2 * Gross(TakenBack) * Merchandise
<1>1. Gross(TakenBack)' = Gross(TakenBack) /\ Subtotal' = Subtotal
  <2>1. TakenBack' = TakenBack
    BY DEF TakenBack
  <2> QED
    BY <2>1 DEF Gross, Subtotal, Total
<1>2. k \in Nat /\ A \in Nat /\ T \in Nat /\ G \in Nat
  <2>1. Gross(TakenBack) \in Nat /\ Merchandise \in Nat
    BY AddUpTypes
  <2>2. 2 * Gross(TakenBack) \in Nat
    BY <2>1
  <2> QED
    BY <2>1, <2>2, AddUpTypes, ProductNat
<1>3. m \in Nat
  <2>1. Requests' = 1..Len(req)' /\ Len(req)' \in Nat
    <3>1. Shape'
      BY DEF ReturnInv
    <3> QED
      BY <3>1, RowsOf DEF Shape, Requests, Row
  <2> QED
    BY <2>1 DEF Roundings, Outstanding
<1>4. /\ RoundedFairly <=> A = Merchandise \/ G <= T * (2 * A + k)
      /\ RoundedFairly' <=> A = Merchandise \/ G <= T * (2 * A + m)
  BY <1>1 DEF RoundedFairly
<1>5. k <= m
  BY <1>2, <1>3
<1> HIDE DEF T, A, k, m, G
<1>6. 2 * A + k \in Nat /\ 2 * A + m \in Nat /\ 2 * A + k <= 2 * A + m
  BY <1>2, <1>3, <1>5
<1>7. T * (2 * A + k) <= T * (2 * A + m)
  BY <1>2, <1>6, Scaled
<1>8. T * (2 * A + k) \in Nat /\ T * (2 * A + m) \in Nat
  BY <1>2, <1>6, ProductNat
<1> QED
  BY <1>2, <1>4, <1>7, <1>8

LEMMA QuietAddUp ==
    ASSUME AddUpInv, Quiet
    PROVE  AddUpInv'
<1>1. ReturnInv /\ ReturnInv'
  BY QuietStep DEF AddUpInv
<1>2. DOMAIN req' = DOMAIN req /\ \A r \in DOMAIN req : Steady(r)
  BY DEF Quiet, Requests
<1>3. RowsAddUp'
  BY <1>2 DEF AddUpInv, RowsAddUp, Requests, Steady, Total
<1>4. ASSUME NEW i \in Items PROVE Taken(i)' = Taken(i)
  <2> DEFINE f == [r \in DOMAIN req |-> req[r].taken[i]]
             g == [r \in DOMAIN req' |-> req'[r].taken[i]]
  <2>1. g = f
    BY <1>2 DEF Steady
  <2>2. Taken(i) = Total(f, DOMAIN req) /\ Taken(i)' = Total(g, DOMAIN req)
    BY <1>2 DEF Taken, Requests
  <2> QED
    BY <2>1, <2>2
<1>5. Approved(Requests)' = Approved(Requests)
  <2> DEFINE f == [r \in DOMAIN req |-> req[r].approved]
             g == [r \in DOMAIN req' |-> req'[r].approved]
  <2>1. g = f
    BY <1>2 DEF Steady
  <2>2. /\ Approved(Requests) = Total(f, DOMAIN req)
        /\ Approved(Requests)' = Total(g, DOMAIN req)
    BY <1>2 DEF Approved, Requests
  <2> QED
    BY <2>1, <2>2
<1>6. Merchandise' = Merchandise
  BY QuietPaidSame
<1>7. Roundings' >= Roundings
  <2>1. Len(req)' = Len(req) /\ Len(req) \in Nat
    <3>1. DOMAIN req = 1..Len(req) /\ Len(req) \in Nat
      BY <1>1, RequestsFinite DEF ReturnInv, Requests
    <3>2. DOMAIN req' = 1..Len(req') /\ Len(req') \in Nat
      BY <1>1, RowsOf DEF ReturnInv, Shape, Row
    <3> QED
      BY <1>2, <3>1, <3>2
  <2>2. Outstanding' => Outstanding
    BY <1>2 DEF Outstanding, Requests, Steady, Unreceived
  <2> QED
    BY <2>1, <2>2 DEF Roundings
<1>8. RoundedFairly'
  BY <1>1, <1>4, <1>5, <1>6, <1>7, SameAmounts DEF AddUpInv
<1> QED
  BY <1>1, <1>3, <1>8 DEF AddUpInv

LEMMA CreateAddUp ==
    ASSUME AddUpInv, NEW q \in Selections, CreateReturnRequest(q)
    PROVE  AddUpInv'
<1> DEFINE m == Len(req) + 1
           n == NewRow(q)
           D == DOMAIN req
<1>1. ReturnInv /\ ReturnInv'
  BY CreateStep DEF AddUpInv
<1>2. /\ q \in [Items -> Nat] /\ DOMAIN req' = D \cup {m} /\ m \notin D
      /\ req'[m] = n /\ \A r \in D : req'[r] = req[r]
  BY <1>1, CreateRows DEF ReturnInv
<1>3. n.itemRefund = None /\ n.approved = 0 /\ n.status = "pending"
  BY DEF NewRow
<1>4. Len(req) \in Nat /\ Len(req') \in Nat /\ D = 1..Len(req) /\ DOMAIN req' = 1..Len(req')
  BY <1>1, RequestsFinite, RowsOf DEF ReturnInv, Shape, Row, Requests
<1>5. Total(None, Items) = 0 /\ None \in [Items -> Nat]
  <2>1. \A i \in Items : None[i] = 0
    BY DEF None
  <2>2. Total(None, Items) = 0
    BY <2>1, TotalZero
  <2> QED
    BY <2>2 DEF None
<1> HIDE DEF m, n, D
<1>6. RowsAddUp'
  <2>1. \A r \in DOMAIN req' : /\ req'[r].itemRefund \in [Items -> Nat]
                               /\ Total(req'[r].itemRefund, Items) = req'[r].approved
    BY <1>2, <1>3, <1>5 DEF AddUpInv, RowsAddUp, Requests, D
  <2> QED
    BY <2>1 DEF RowsAddUp, Requests, Total
<1>7. Roundings' >= Roundings
  <2>1. m = Len(req) + 1 /\ Len(req') = Len(req) + 1
    BY <1>2, <1>4 DEF m
  <2>2. ~Outstanding
    BY DEF Outstanding, CreateReturnRequest, Acceptable, Active, Unreceived
  <2>3. Outstanding'
    BY <1>2, <1>3 DEF Outstanding, Requests, Unreceived
  <2> QED
    BY <1>4, <2>1, <2>2, <2>3 DEF Roundings
<1>8. Merchandise' = Merchandise
  BY DEF CreateReturnRequest, Merchandise, Subtotal, Gross, Total
<1>9. (\A i \in Items : Taken(i)' = Taken(i)) /\ Approved(Requests)' = Approved(Requests)
  BY <1>1, CreateSums
<1>10. RoundedFairly'
  BY <1>1, <1>7, <1>8, <1>9, SameAmounts DEF AddUpInv
<1> QED
  BY <1>1, <1>6, <1>10 DEF AddUpInv

LEMMA ReceivedAddUp ==
    ASSUME AddUpInv, NEW r \in Requests, NEW p, ReceivedAs(r, p)
    PROVE  AddUpInv'
<1>1. ReturnInv /\ ReturnInv'
  BY ReceivedStep DEF AddUpInv
<1>2. /\ DOMAIN req' = DOMAIN req /\ req'[r] = p /\ IsRow(p)
      /\ \A x \in Requests \ {r} : req'[x] = req[x]
  BY <1>1, ReceivedRows
<1>3. RowsAddUp'
  <2>1. \A x \in DOMAIN req' : /\ req'[x].itemRefund \in [Items -> Nat]
                               /\ Total(req'[x].itemRefund, Items) = req'[x].approved
    BY <1>2 DEF AddUpInv, RowsAddUp, Requests, ReceivedAs
  <2> QED
    BY <2>1 DEF RowsAddUp, Requests, Total
<1> DEFINE T == Subtotal
           M == Merchandise
           A == Approved(Requests)
           k == Roundings
           G == Gross(TakenBack)
           h == Gross(p.taken)
           c == CalculateReturnRefund(h)
           a == p.approved
<1>4. /\ \A i \in Items : Taken(i)' = Taken(i) + p.taken[i]
      /\ Approved(Requests)' = A + a /\ Remaining = M - A
  BY <1>1, ReceivedSums
<1>5. T \in Nat /\ M \in Nat /\ A \in Nat /\ k \in Nat /\ G \in Nat /\ A <= M
  BY <1>1, AddUpTypes DEF ReturnInv, ApprovedWithinTotal
<1>6. p.taken \in [Items -> Nat] /\ h \in Nat /\ a \in Nat
  BY <1>2, RowFields, GrossType
<1>7. c \in Nat /\ 2 * h * M <= T * (2 * c + 1)
  BY <1>1, <1>6, RefundType, RefundRounded DEF ReturnInv
<1>8. a = Min({c, M - A})
  BY <1>4 DEF ReceivedAs
<1>9. Gross(TakenBack)' = G + h
  <2> DEFINE e == [i \in Items |-> Price[i] * TakenBack[i]]
             f == [i \in Items |-> Price[i] * p.taken[i]]
             g == [i \in Items |-> Price[i] * (TakenBack')[i]]
  <2>1. ASSUME NEW i \in Items PROVE e[i] \in Nat /\ f[i] \in Nat /\ g[i] = e[i] + f[i]
    <3>1. Price[i] \in Nat /\ TakenBack[i] \in Nat /\ p.taken[i] \in Nat
      BY <1>1, <1>6, AddUpTypes, ItemsAssumption
    <3>2. (TakenBack')[i] = TakenBack[i] + p.taken[i]
      BY <1>4 DEF TakenBack
    <3>3. Price[i] * (TakenBack[i] + p.taken[i]) = Price[i] * TakenBack[i] + Price[i] * p.taken[i]
      BY <3>1
    <3> QED
      BY <3>1, <3>2, <3>3, ProductNat
  <2>2. G = Total(e, Items) /\ h = Total(f, Items) /\ Gross(TakenBack)' = Total(g, Items)
    BY DEF Gross, Total
  <2> HIDE DEF e, f, g
  <2>3. Total(g, Items) = Total(e, Items) + Total(f, Items)
    BY <2>1, TotalPlus, ItemsAssumption
  <2> QED
    BY <2>2, <2>3
<1>10. Roundings' = k + 1
  <2>1. Len(req)' = Len(req) /\ Len(req) \in Nat
    <3>1. DOMAIN req = 1..Len(req) /\ Len(req) \in Nat
      BY <1>1, RequestsFinite DEF ReturnInv, Requests
    <3>2. DOMAIN req' = 1..Len(req') /\ Len(req') \in Nat
      BY <1>1, RowsOf DEF ReturnInv, Shape, Row
    <3> QED
      BY <1>2, <3>1, <3>2
  <2>2. Outstanding
    BY DEF Outstanding, ReceivedAs, Unreceived
  <2>3. \A x \in Requests \ {r} : ~Active(x)
    BY <1>1 DEF ReturnInv, OneActive, Active, ReceivedAs
  <2>4. p.status \notin Unreceived
    BY DEF ReceivedAs, Unreceived
  <2>5. ~Outstanding'
    BY <1>2, <2>3, <2>4 DEF Outstanding, Requests, Active, Unreceived
  <2> QED
    BY <2>1, <2>2, <2>5 DEF Roundings
<1>11. Merchandise' = M /\ Subtotal' = T
  BY DEF ReceivedAs, Merchandise, Subtotal, Gross, Total
<1>12. /\ A = M \/ 2 * G * M <= T * (2 * A + k)
       /\ RoundedFairly' <=> A + a = M \/ 2 * (G + h) * M <= T * (2 * (A + a) + (k + 1))
  BY <1>4, <1>9, <1>10, <1>11 DEF AddUpInv, RoundedFairly
<1> HIDE DEF T, M, A, k, G, h, c, a
<1>13. M - A \in Nat /\ a = IF c <= M - A THEN c ELSE M - A
  BY <1>5, <1>7, <1>8, MinOfTwo
<1>14. ASSUME a = M - A PROVE RoundedFairly'
  <2>1. A + a = M
    BY <1>5, <1>14
  <2> QED
    BY <1>12, <2>1
<1>15. ASSUME a # M - A PROVE RoundedFairly'
  <2>1. a = c /\ A # M
    BY <1>5, <1>7, <1>13, <1>15
  <2>2. 2 * G * M <= T * (2 * A + k)
    BY <1>12, <2>1
  <2>3. G * M \in Nat /\ h * M \in Nat /\ T * A \in Nat /\ T * k \in Nat /\ T * c \in Nat
    BY <1>5, <1>6, <1>7, ProductNat
  <2>4. /\ 2 * G * M = 2 * (G * M) /\ 2 * h * M = 2 * (h * M)
        /\ 2 * (G + h) * M = 2 * (G * M) + 2 * (h * M)
    BY <1>5, <1>6
  <2>5. /\ T * (2 * A + k) = 2 * (T * A) + T * k
        /\ T * (2 * c + 1) = 2 * (T * c) + T
        /\ T * (2 * (A + c) + (k + 1)) = 2 * (T * A) + 2 * (T * c) + T * k + T
    BY <1>5, <1>7
  <2>6. 2 * (G + h) * M <= T * (2 * (A + c) + (k + 1))
    BY <1>5, <1>7, <2>2, <2>3, <2>4, <2>5
  <2> QED
    BY <1>12, <2>1, <2>6
<1> QED
  BY <1>1, <1>3, <1>14, <1>15 DEF AddUpInv

LEMMA AddUpInvariance == Spec => []AddUpInv
<1>1. Init => AddUpInv
  <2> SUFFICES ASSUME Init PROVE AddUpInv
    OBVIOUS
  <2>1. ReturnInv /\ Requests = {} /\ Len(req) = 0
    BY InitInv DEF Init, Requests
  <2>2. RowsAddUp
    BY <2>1 DEF RowsAddUp
  <2>3. \A i \in Items : Taken(i) = 0
    BY <2>1, TotalNothing DEF Taken
  <2>4. Gross(TakenBack) = 0
    <3> DEFINE f == [i \in Items |-> Price[i] * TakenBack[i]]
    <3>1. \A i \in Items : f[i] = 0
      BY <2>3, ItemsAssumption DEF TakenBack
    <3>2. Gross(TakenBack) = Total(f, Items)
      BY DEF Gross
    <3> HIDE DEF f
    <3> QED
      BY <3>1, <3>2, TotalZero
  <2>5. RoundedFairly
    <3> DEFINE M == Merchandise
               T == Subtotal
               b == 2 * Approved(Requests) + Roundings
    <3>1. M \in Nat /\ T \in Nat /\ b \in Nat
      BY <2>1, AddUpTypes
    <3> HIDE DEF M, T, b
    <3>2. T * b \in Nat /\ 2 * 0 * M = 0
      BY <3>1, ProductNat
    <3>3. 2 * 0 * M <= T * b
      BY <3>2
    <3> QED
      BY <2>4, <3>3 DEF RoundedFairly, M, T, b
  <2> QED
    BY <2>1, <2>2, <2>5 DEF AddUpInv
<1>2. AddUpInv /\ [Next]_vars => AddUpInv'
  <2> SUFFICES ASSUME AddUpInv, [Next]_vars PROVE AddUpInv'
    OBVIOUS
  <2>1. ReturnInv
    BY DEF AddUpInv
  <2>2. CASE Next
    BY <2>1, <2>2, NextKinds, CreateAddUp, ReceivedAddUp, QuietAddUp
  <2>3. CASE UNCHANGED vars
    BY <2>1, <2>3, IdleQuiet, QuietAddUp
  <2> QED
    BY <2>2, <2>3
<1> QED
  BY <1>1, <1>2, PTL DEF Spec

-----------------------------------------------------------------------------
(* Theorems                                                                *)

(* Over all requests of an order no more units are taken back than were    *)
(* bought (previousQuantity and the quantity check of createReturnRequest) *)
(* and none is put on the shelf twice, however often a failed refund has   *)
(* receiveReturnRequest called again.                                      *)
THEOREM ReturnedUnitsCorrect == Spec => []ReturnedUnits
<1>1. ReturnInv => ReturnedUnits
  <2> SUFFICES ASSUME ReturnInv, NEW i \in Items
               PROVE  restocked[i] <= Taken(i) /\ Taken(i) <= Bought[i]
    BY DEF ReturnedUnits
  <2> DEFINE f == [r \in DOMAIN req |-> req[r].taken[i]]
             g == [r \in DOMAIN req |-> Claimed(r)[i]]
  <2>1. \A r \in DOMAIN req : g[r] \in Nat
    BY ClaimedType DEF ReturnInv, Requests
  <2>2. \A r \in DOMAIN req : f[r] \in Nat /\ f[r] <= g[r]
    <3> SUFFICES ASSUME NEW r \in DOMAIN req
                 PROVE  req[r].taken[i] \in Nat /\ req[r].taken[i] <= Claimed(r)[i]
      OBVIOUS
    <3>1. IsRow(req[r]) /\ RowFits(req[r])
      BY RequestsFinite DEF ReturnInv, RowsFit, Requests
    <3>2. req[r].taken[i] \in Nat /\ req[r].asked[i] \in Nat /\ req[r].status \in Status
      BY <3>1, RowFields
    <3>3. None[i] = 0
      BY DEF None
    <3>4. Claimed(r)[i] = IF req[r].status = "rejected" THEN 0
                          ELSE IF req[r].status \in {"pending", "approved"} THEN req[r].asked[i]
                          ELSE req[r].taken[i]
      BY <3>2, <3>3 DEF Claimed, Status
    <3> QED
      BY <3>1, <3>2, <3>3, <3>4 DEF RowFits
  <2>3. Taken(i) = Total(f, DOMAIN req) /\ Previous(i) = Total(g, DOMAIN req)
    BY DEF Taken, Previous, Requests
  <2>4. IsFiniteSet(DOMAIN req)
    BY RequestsFinite DEF ReturnInv, Requests
  <2> HIDE DEF f, g
  <2>5. /\ Total(f, DOMAIN req) <= Total(g, DOMAIN req)
        /\ Total(f, DOMAIN req) \in Nat /\ Total(g, DOMAIN req) \in Nat
    BY <2>1, <2>2, <2>4, TotalLess
  <2>6. Previous(i) <= Bought[i] /\ Bought[i] \in Nat /\ restocked[i] <= Taken(i)
    BY ItemsAssumption DEF ReturnInv, ClaimedWithinBought, RestockedWasTaken
  <2> QED
    BY <2>3, <2>5, <2>6
<1> QED
  BY <1>1, Invariance, PTL

(* The amounts approved for all requests of an order stay within what was  *)
(* paid for the merchandise, although calculateReturnRefund rounds each up *)
(* on its own: each is cut to what the requests paid back before leave.    *)
THEOREM ApprovedWithinTotalCorrect == Spec => []ApprovedWithinTotal
<1>1. ReturnInv => ApprovedWithinTotal
  BY DEF ReturnInv
<1> QED
  BY <1>1, Invariance, PTL

(* A request is completed as refunded only if the provider paid for it or  *)
(* paid the whole payment back, and the order is refunded only if its      *)
(* completed returns cover the merchandise or the payment was paid back:   *)
(* updateReturnRefundResult, completeManualReturnRefund and                *)
(* updatePaymentStatus may report it in any order.                         *)
THEOREM CompletedWasPaidCorrect == Spec => []CompletedWasPaid
<1>1. ReturnInv => CompletedWasPaid
  BY DEF ReturnInv
<1> QED
  BY <1>1, Invariance, PTL

(* No late answer, error or result reopens a rejected or completed request *)
THEOREM ClosedRequestsFinalCorrect == Spec => ClosedRequestsFinal
<1>1. ASSUME ReturnInv, [Next]_vars, NEW r \in Requests, req[r].status \in {"rejected", "completed"}
      PROVE  req'[r].status = req[r].status /\ req'[r].refund = req[r].refund
  <2>1. CASE \E q \in Selections : CreateReturnRequest(q)
    <3>1. PICK q \in Selections : CreateReturnRequest(q)
      BY <2>1
    <3>2. \A x \in DOMAIN req : req'[x] = req[x]
      BY <1>1, <3>1, CreateRows DEF ReturnInv
    <3>3. req'[r] = req[r]
      BY <3>2 DEF Requests
    <3> QED
      BY <3>3
  <2>2. CASE \E x \in Requests : \E p : ReceivedAs(x, p)
    <3>1. PICK x \in Requests : \E p : ReceivedAs(x, p)
      BY <2>2
    <3>2. PICK p : ReceivedAs(x, p)
      BY <3>1
    <3>3. x # r
      BY <1>1, <3>2 DEF ReceivedAs
    <3> QED
      BY <3>2, <3>3, <1>1, ReceivedRows
  <2>3. CASE Quiet
    BY <1>1, <2>3 DEF Quiet, Steady, Active
  <2>4. CASE UNCHANGED vars
    BY <2>4 DEF vars
  <2> QED
    BY <1>1, <2>1, <2>2, <2>3, <2>4, NextKinds
<1>2. ReturnInv /\ [Next]_vars
        => [\A r \in Requests : req[r].status \in {"rejected", "completed"}
                                 => /\ req'[r].status = req[r].status
                                    /\ req'[r].refund = req[r].refund]_vars
  BY <1>1
<1> QED
  BY <1>2, Invariance, PTL DEF Spec, ClosedRequestsFinal

(* allocateReturnItemRefunds gives the items of a request, in whatever     *)
(* order they are read, refunds that add up to the amount approved, none   *)
(* below zero; and who returns all goods, in however many requests, gets   *)
(* the merchandise total but for half a unit of money per request, by      *)
(* which calculateReturnRefund rounds.                                     *)
THEOREM RefundsAddUpCorrect == Spec => []RefundsAddUp
<1>1. ASSUME AddUpInv, \A i \in Items : Taken(i) = Bought[i]
      PROVE  2 * (Merchandise - Approved(Requests)) <= Len(req)
  <2> DEFINE T == Subtotal
             M == Merchandise
             A == Approved(Requests)
             k == Roundings
  <2>1. /\ T \in Nat /\ T > 0 /\ M \in Nat /\ A \in Nat /\ k \in Nat
        /\ k <= Len(req) /\ Len(req) \in Nat
    BY <1>1, AddUpTypes DEF AddUpInv
  <2>2. Gross(TakenBack) = T
    <3>1. TakenBack = [i \in Items |-> Bought[i]]
      BY <1>1 DEF TakenBack
    <3>2. [i \in Items |-> Bought[i]] = Bought
      BY ItemsAssumption
    <3> QED
      BY <3>1, <3>2 DEF Subtotal
  <2>3. A = M \/ 2 * T * M <= T * (2 * A + k)
    BY <1>1, <2>2 DEF AddUpInv, RoundedFairly
  <2> HIDE DEF T, M, A, k
  <2>4. ASSUME A = M PROVE 2 * (M - A) <= Len(req)
    BY <2>1, <2>4
  <2>5. ASSUME 2 * T * M <= T * (2 * A + k) PROVE 2 * (M - A) <= Len(req)
    <3>1. 2 * T * M = T * (2 * M)
      BY <2>1
    <3>2. ~(2 * M > 2 * A + k)
      <4> SUFFICES ASSUME 2 * M > 2 * A + k PROVE FALSE
        OBVIOUS
      <4>1. 2 * A + k + 1 \in Nat /\ 2 * M \in Nat /\ 2 * A + k + 1 <= 2 * M
        BY <2>1
      <4>2. T * (2 * A + k + 1) <= T * (2 * M)
        BY <2>1, <4>1, Scaled
      <4>3. T * (2 * A + k + 1) = T * (2 * A + k) + T
        BY <2>1
      <4>4. 2 * A + k \in Nat
        BY <2>1
      <4>5. T * (2 * A + k) \in Nat /\ T * (2 * M) \in Nat
        BY <2>1, <4>1, <4>4, ProductNat
      <4> QED
        BY <2>1, <2>5, <3>1, <4>2, <4>3, <4>5
    <3> QED
      BY <2>1, <3>2
  <2> QED
    BY <2>3, <2>4, <2>5 DEF M, A
<1>2. AddUpInv => RefundsAddUp
  BY <1>1 DEF AddUpInv, RowsAddUp, RefundsAddUp
<1> QED
  BY <1>2, AddUpInvariance, PTL

(* Every variable keeps its type; for the item refunds this rests on what  *)
(* allocateReturnItemRefunds computes.                                     *)
THEOREM TypeCorrect == Spec => []TypeOK
<1>1. AddUpInv => TypeOK
  <2> SUFFICES ASSUME AddUpInv PROVE TypeOK
    OBVIOUS
  <2>1. PICK X : req \in Seq(Row(X))
    BY DEF AddUpInv, ReturnInv, Shape
  <2>2. Len(req) \in Nat /\ DOMAIN req = 1..Len(req) /\ \A r \in DOMAIN req : req[r] \in Row(X)
    BY <2>1
  <2>3. \A r \in DOMAIN req : req[r].itemRefund \in [Items -> Nat]
    BY DEF AddUpInv, RowsAddUp, Requests
  <2>4. \A r \in DOMAIN req : req[r] \in Request
    BY <2>2, <2>3 DEF Row, Request
  <2>5. req \in [1..Len(req) -> Row(X)]
    BY <2>1
  <2>6. req \in [1..Len(req) -> Request]
    BY <2>2, <2>4, <2>5
  <2>7. req \in Seq(Request)
    BY <2>2, <2>6, SeqDef
  <2> QED
    BY <2>7 DEF AddUpInv, ReturnInv, Shape, TypeOK
<1> QED
  BY <1>1, AddUpInvariance, PTL
=============================================================================
