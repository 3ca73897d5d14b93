--------------------------- MODULE CartLockProofs ---------------------------
(***************************************************************************)
(* Proofs about CartLock, for any number of requests, variants and         *)
(* quantities.                                                             *)
(***************************************************************************)
EXTENDS CartLock, FiniteSetTheorems, TLAPS

USE CartAssumption

-----------------------------------------------------------------------------
(* The shape of a job                                                      *)

(* The keys that an operation has to lock *)
Full(j) == IF j.op = "merge" THEN {User, Guest} ELSE {j.key}

(* Stages that are reached with all the locks taken *)
Inside == {"read", "read2", "check", "drop", "save", "delete"}

(* Locks are taken in order, all of them before the work starts; every     *)
(* stage belongs to some operations only                                   *)
Shape(j) ==
    /\ j.op = "merge" => j.key = User
    /\ j.held \in {{}, Full(j)} \/ (j.op = "merge" /\ j.held = {User})
    /\ j.stage \in {"new", "done", "dead"} => j.held = {}
    /\ j.stage = "lock" => j.held # Full(j)
    /\ j.stage \in Inside => j.held = Full(j)
    /\ j.stage \in {"read2", "drop"} => j.op = "merge"
    /\ j.stage = "delete" => j.op = "clear"
    /\ j.stage \in {"check", "save"} => j.op # "clear"
    /\ j.stage \notin {"release", "done"} => j.saved = 0

Shapes == \A p \in Requests : Shape(job[p])

LEMMA Cardinalities ==
    /\ Cardinality({}) = 0
    /\ Cardinality({User}) = 1
    /\ \A k \in Keys : Cardinality({k}) = 1
    /\ Cardinality({User, Guest}) = 2
<1>1. Cardinality({}) = 0
  BY FS_EmptySet
<1>2. IsFiniteSet({User}) /\ Cardinality({User}) = 1
  BY FS_Singleton
<1>3. \A k \in Keys : Cardinality({k}) = 1
  BY FS_Singleton
<1>4. Cardinality({User} \cup {Guest}) = Cardinality({User}) + 1
  BY <1>2, FS_AddElement
<1>5. {User} \cup {Guest} = {User, Guest}
  OBVIOUS
<1>6. Cardinality({User, Guest}) = 2
  BY <1>2, <1>4, <1>5
<1> QED
  BY <1>1, <1>2, <1>3, <1>6

LEMMA ItemsType ==
    /\ Empty \in Items /\ NoCart \in Cart
    /\ \A a, b \in Items : Plus(a, b) \in Items
  BY DEF Empty, Items, NoCart, Cart, Plus

LEMMA NewJobType == NewJob \in Job
<1>1. (CHOOSE v \in Variants : TRUE) \in Variants
  OBVIOUS
<1>2. (CHOOSE n \in Quantities : TRUE) \in Quantities
  OBVIOUS
<1> QED
  BY <1>1, <1>2, ItemsType DEF NewJob, Job, Op, Keys, Stage

LEMMA ApplyType ==
    ASSUME NEW j \in Job
    PROVE  Apply(j, j.mine) \in Items
<1>1. j.mine \in Items /\ j.theirs \in Items /\ j.quantity \in Nat /\ j.variant \in Variants
  BY DEF Job
<1>2. \A a \in Items, v \in Variants, n \in Nat : /\ [a EXCEPT ![v] = a[v] + n] \in Items
                                                /\ [a EXCEPT ![v] = n] \in Items
  BY DEF Items
<1> QED
  BY <1>1, <1>2, ItemsType DEF Apply

LEMMA EndedType ==
    ASSUME NEW j \in Job, NEW stage \in Stage
    PROVE  Ended(j, stage) \in Job
  BY NewJobType DEF Ended, Job, Op

(* The next key to lock, and the stage that follows *)
LEMMA NextKeyIs ==
    ASSUME TypeOK, NEW p \in Requests, Shape(job[p]), job[p].stage = "lock"
    PROVE  /\ NextKey(p) \in Keys /\ NextKey(p) \in Full(job[p])
           /\ \/ /\ Cardinality(job[p].held) + 1 = Len(LockKeys(p))
                 /\ job[p].held \cup {NextKey(p)} = Full(job[p])
              \/ /\ Cardinality(job[p].held) + 1 # Len(LockKeys(p))
                 /\ job[p].op = "merge" /\ job[p].held = {} /\ NextKey(p) = User
<1>1. job[p].key \in Keys /\ job[p].stage \notin {"new", "done", "dead"}
  BY DEF TypeOK, Job
<1>2. CASE job[p].op # "merge"
  <2>1. job[p].held = {} /\ Full(job[p]) = {job[p].key}
    BY <1>2 DEF Shape, Full
  <2>2. LockKeys(p) = <<job[p].key>> /\ Len(LockKeys(p)) = 1
    BY <1>2 DEF LockKeys
  <2>3. NextKey(p) = job[p].key
    BY <2>1, <2>2, Cardinalities DEF NextKey
  <2> QED
    BY <1>1, <2>1, <2>2, <2>3, Cardinalities
<1>3. CASE job[p].op = "merge"
  <2>1. LockKeys(p) = <<User, Guest>> /\ Len(LockKeys(p)) = 2
    BY <1>3 DEF LockKeys
  <2>2. job[p].held \in {{}, {User}} /\ Full(job[p]) = {User, Guest}
    BY <1>3 DEF Shape, Full
  <2>3. CASE job[p].held = {}
    <3>1. NextKey(p) = User
      BY <2>1, <2>3, Cardinalities DEF NextKey
    <3> QED
      BY <1>3, <2>1, <2>2, <2>3, <3>1, Cardinalities DEF Keys
  <2>4. CASE job[p].held = {User}
    <3>1. Cardinality(job[p].held) + 1 = 2
      BY <2>4, Cardinalities
    <3>2. NextKey(p) = Guest
      BY <2>1, <3>1 DEF NextKey
    <3> QED
      BY <2>1, <2>2, <2>4, <3>1, <3>2 DEF Keys
  <2> QED
    BY <2>2, <2>3, <2>4
<1> QED
  BY <1>2, <1>3

(* The key to release *)
LEMMA LastKeyIs ==
    ASSUME TypeOK, NEW p \in Requests, Shape(job[p]), job[p].held # {}
    PROVE  LET k == LockKeys(p)[Cardinality(job[p].held)] IN
           /\ k \in job[p].held /\ k \in Keys
           /\ job[p].held \ {k} = {} \/ (job[p].op = "merge" /\ job[p].held \ {k} = {User})
<1> DEFINE k == LockKeys(p)[Cardinality(job[p].held)]
<1>1. job[p].key \in Keys
  BY DEF TypeOK, Job
<1>2. CASE job[p].op # "merge"
  <2>1. job[p].held = {job[p].key}
    BY <1>2 DEF Shape, Full
  <2>2. LockKeys(p) = <<job[p].key>>
    BY <1>2 DEF LockKeys
  <2>3. Cardinality(job[p].held) = 1
    BY <1>1, <2>1, Cardinalities
  <2>4. k = job[p].key
    BY <2>2, <2>3
  <2> QED
    BY <1>1, <2>1, <2>4
<1>3. CASE job[p].op = "merge"
  <2>1. LockKeys(p) = <<User, Guest>>
    BY <1>3 DEF LockKeys
  <2>2. job[p].held \in {{User}, {User, Guest}}
    BY <1>3 DEF Shape, Full
  <2>3. CASE job[p].held = {User}
    <3>1. k = User
      BY <2>1, <2>3, Cardinalities
    <3> QED
      BY <2>3, <3>1 DEF Keys
  <2>4. CASE job[p].held = {User, Guest}
    <3>1. k = Guest
      BY <2>1, <2>4, Cardinalities
    <3> QED
      BY <1>3, <2>4, <3>1 DEF Keys
  <2> QED
    BY <2>2, <2>3, <2>4
<1> QED
  BY <1>2, <1>3

-----------------------------------------------------------------------------
(* What the steps do to the jobs                                           *)

(* Request p is the only one whose job changes, and it becomes j *)
Becomes(p, j) == job' = [job EXCEPT ![p] = j]

LEMMA BecomesEffect ==
    ASSUME TypeOK, Shapes, NEW p \in Requests, NEW j \in Job, Shape(j), Becomes(p, j)
    PROVE  /\ job' \in [Requests -> Job] /\ Shapes'
           /\ \A q \in Requests : job'[q] = IF q = p THEN j ELSE job[q]
<1>1. \A q \in Requests : job'[q] = IF q = p THEN j ELSE job[q]
  BY DEF TypeOK, Becomes
<1>2. job' \in [Requests -> Job]
  BY DEF TypeOK, Becomes
<1> QED
  BY <1>1, <1>2 DEF Shapes

LEMMA NewJobShape ==
    ASSUME NEW j \in Job, NEW stage \in {"done", "dead"}
    PROVE  Shape(Ended(j, stage)) /\ Ended(j, stage).held = {}
           /\ Ended(j, stage).stage = stage /\ Ended(j, stage).expected = 0
  BY DEF Ended, NewJob, Shape, Full, Inside

(* A change of the stage alone, where the new stage fits *)
LEMMA StageChange ==
    ASSUME TypeOK, Shapes, NEW p \in Requests, NEW s \in Stage, To(p, s),
           Shape([job[p] EXCEPT !.stage = s])
    PROVE  /\ job' \in [Requests -> Job] /\ Shapes'
           /\ \A q \in Requests : job'[q] = IF q = p THEN [job[p] EXCEPT !.stage = s]
                                                     ELSE job[q]
<1>1. [job[p] EXCEPT !.stage = s] \in Job
  BY DEF TypeOK, Job
<1>2. Becomes(p, [job[p] EXCEPT !.stage = s])
  BY DEF To, Becomes
<1> QED
  BY <1>1, <1>2, BecomesEffect

(* A request that waits for its first lock *)
LEMMA StartShape ==
    ASSUME NEW j, j.op = "merge" => j.key = User, j.stage = "lock", j.held = {}, j.saved = 0
    PROVE  Shape(j)
<1>1. Full(j) # {}
  BY DEF Full
<1> QED
  BY <1>1 DEF Shape, Inside

LEMMA BeginEffect ==
    ASSUME TypeOK, Shapes, NEW p \in Requests, NEW op \in Op, NEW k \in Keys,
           NEW v \in Variants, NEW n \in Quantities, Begin(p, op, k, v, n)
    PROVE  LET j == [job[p] EXCEPT !.op = op, !.key = k, !.variant = v,
                                   !.quantity = n, !.stage = "lock"]
           IN j \in Job /\ Shape(j) /\ Becomes(p, j)
<1> DEFINE j == [job[p] EXCEPT !.op = op, !.key = k, !.variant = v,
                               !.quantity = n, !.stage = "lock"]
<1>1. job[p] \in Job /\ Shape(job[p]) /\ job[p].stage = "new"
  BY DEF TypeOK, Shapes, Begin
<1>2. j \in Job
  BY <1>1 DEF Job, Stage
<1>3. /\ j.op = op /\ j.key = k /\ j.stage = "lock" /\ j.held = job[p].held
      /\ j.saved = job[p].saved
  BY <1>1 DEF Job
<1>5. Becomes(p, j)
  BY DEF Begin, Becomes
<1>6. op = "merge" => k = User
  BY DEF Begin
<1> HIDE DEF j
<1>7. j.held = {} /\ j.saved = 0
  BY <1>1, <1>3 DEF Shape
<1>4. Shape(j)
  BY <1>3, <1>6, <1>7, StartShape
<1> QED
  BY <1>2, <1>4, <1>5 DEF j

LEMMA BeginClearEffect ==
    ASSUME TypeOK, Shapes, NEW p \in Requests, BeginClearAfterCheckout(p)
    PROVE  LET j == [job[p] EXCEPT !.op = "clear", !.expected = job[p].saved,
                                   !.ordered = job[p].mine, !.saved = 0,
                                   !.mine = Empty, !.stage = "lock"]
           IN j \in Job /\ Shape(j) /\ Becomes(p, j)
<1> DEFINE j == [job[p] EXCEPT !.op = "clear", !.expected = job[p].saved,
                               !.ordered = job[p].mine, !.saved = 0,
                               !.mine = Empty, !.stage = "lock"]
<1>1. job[p] \in Job /\ Shape(job[p]) /\ job[p].stage = "done"
  BY DEF TypeOK, Shapes, BeginClearAfterCheckout
<1>2. j \in Job
  BY <1>1, ItemsType DEF Job, Stage, Op
<1>3. /\ j.op = "clear" /\ j.key = job[p].key /\ j.stage = "lock" /\ j.held = job[p].held
      /\ j.saved = 0
  BY <1>1 DEF Job
<1>5. Becomes(p, j)
  BY DEF BeginClearAfterCheckout, Becomes
<1>6. j.held = {}
  BY <1>1, <1>3 DEF Shape
<1> HIDE DEF j
<1>4. Shape(j)
  BY <1>3, <1>6, StartShape
<1> QED
  BY <1>2, <1>4, <1>5 DEF j

LEMMA AcquireEffect ==
    ASSUME TypeOK, Shapes, NEW p \in Requests, Acquire(p)
    PROVE  \E s \in {"read", "lock"} :
              LET j == [job[p] EXCEPT !.held = @ \cup {NextKey(p)}, !.stage = s]
              IN j \in Job /\ Shape(j) /\ Becomes(p, j)
<1> DEFINE s == IF Cardinality(job[p].held) + 1 = Len(LockKeys(p)) THEN "read" ELSE "lock"
           j == [job[p] EXCEPT !.held = @ \cup {NextKey(p)}, !.stage = s]
<1>1. job[p] \in Job /\ Shape(job[p]) /\ job[p].stage = "lock"
  BY DEF TypeOK, Shapes, Acquire
<1>2. /\ NextKey(p) \in Keys
      /\ \/ s = "read" /\ job[p].held \cup {NextKey(p)} = Full(job[p])
         \/ s = "lock" /\ job[p].op = "merge" /\ job[p].held = {} /\ NextKey(p) = User
  BY <1>1, NextKeyIs
<1>3. s \in {"read", "lock"}
  OBVIOUS
<1> HIDE DEF s
<1>4. j \in Job
  BY <1>1, <1>2, <1>3 DEF Job, Stage
<1>5. /\ j.op = job[p].op /\ j.key = job[p].key /\ j.stage = s
      /\ j.held = job[p].held \cup {NextKey(p)} /\ j.saved = job[p].saved
  BY <1>1 DEF Job
<1>6. Full(j) = Full(job[p])
  BY <1>5 DEF Full
<1>7. Shape(j)
  <2>1. CASE s = "read"
    BY <1>1, <1>2, <1>5, <1>6, <2>1 DEF Shape, Inside
  <2>2. CASE s = "lock"
    <3>1. j.held = {User} /\ j.op = "merge"
      BY <1>2, <1>5, <2>2
    <3>2. {User} # Full(j)
      BY <3>1 DEF Full
    <3>3. (j.op = "merge" => j.key = User) /\ j.saved = 0
      BY <1>1, <1>5 DEF Shape
    <3> HIDE DEF j
    <3> QED
      BY <1>5, <2>2, <3>1, <3>2, <3>3 DEF Shape, Inside
  <2> QED
    BY <1>3, <2>1, <2>2
<1>8. Becomes(p, j)
  BY DEF Acquire, Becomes, s
<1> QED
  BY <1>3, <1>4, <1>7, <1>8

(* A release ends the job, or gives up the key taken last *)
LEMMA ReleaseEffect ==
    ASSUME TypeOK, Shapes, NEW p \in Requests, Release(p)
    PROVE  \/ /\ job[p].held = {}
              /\ Becomes(p, Ended(job[p], "done"))
              /\ UNCHANGED lock
           \/ \E k \in job[p].held \cap Keys :
                 LET j == [job[p] EXCEPT !.held = @ \ {k}] IN
                 /\ j \in Job /\ Shape(j) /\ Becomes(p, j)
                 /\ lock' = [lock EXCEPT ![k] = IF @ = p THEN None ELSE @]
<1>1. job[p] \in Job /\ Shape(job[p]) /\ job[p].stage = "release"
  BY DEF TypeOK, Shapes, Release
<1>2. CASE job[p].held = {}
  BY <1>2 DEF Release, Becomes
<1>3. CASE job[p].held # {}
  <2> DEFINE k == LockKeys(p)[Cardinality(job[p].held)]
             j == [job[p] EXCEPT !.held = @ \ {k}]
  <2>1. /\ k \in job[p].held /\ k \in Keys
        /\ job[p].held \ {k} = {} \/ (job[p].op = "merge" /\ job[p].held \ {k} = {User})
    BY <1>1, <1>3, LastKeyIs
  <2>2. Becomes(p, j) /\ lock' = [lock EXCEPT ![k] = IF @ = p THEN None ELSE @]
    BY <1>3 DEF Release, Becomes
  <2> HIDE DEF k
  <2>3. j \in Job
    BY <1>1 DEF Job
  <2>4. /\ j.op = job[p].op /\ j.key = job[p].key /\ j.stage = "release"
        /\ j.held = job[p].held \ {k} /\ j.saved = job[p].saved
    BY <1>1 DEF Job
  <2>5. Shape(j)
    BY <1>1, <2>1, <2>4 DEF Shape, Full, Inside
  <2> QED
    BY <2>1, <2>2, <2>3, <2>5
<1> QED
  BY <1>2, <1>3

(* The stage of a working request changes within its operation *)
LEMMA InsideShape ==
    ASSUME NEW j \in Job, Shape(j), j.stage \in Inside \cup {"lock"}, NEW s \in Inside \cup {"release"},
           j.stage = "lock" => s = "release",
           s \in {"read2", "drop"} => j.op = "merge",
           s = "delete" => j.op = "clear",
           s \in {"check", "save"} => j.op # "clear"
    PROVE  Shape([j EXCEPT !.stage = s]) /\ s \in Stage
<1> DEFINE i == [j EXCEPT !.stage = s]
<1>1. /\ i.op = j.op /\ i.key = j.key /\ i.stage = s /\ i.held = j.held
      /\ i.saved = j.saved
  BY DEF Job
<1>2. Full(i) = Full(j)
  BY <1>1 DEF Full
<1>3. s \in Stage
  BY DEF Inside, Stage
<1>4. Shape(i)
  <2> HIDE DEF i
  <2> QED
    BY <1>1, <1>2 DEF Shape, Inside
<1> QED
  BY <1>3, <1>4

LEMMA ReadGuestEffect ==
    ASSUME TypeOK, Shapes, NEW p \in Requests, ReadGuest(p)
    PROVE  LET j == [job[p] EXCEPT !.theirs = cart[Guest].items, !.stage = "read2"]
           IN j \in Job /\ Shape(j) /\ Becomes(p, j)
<1> DEFINE i == [job[p] EXCEPT !.stage = "read2"]
           j == [job[p] EXCEPT !.theirs = cart[Guest].items, !.stage = "read2"]
<1>1. job[p] \in Job /\ Shape(job[p]) /\ job[p].stage = "read" /\ job[p].op = "merge"
  BY DEF TypeOK, Shapes, ReadGuest
<1>2. j \in Job
  BY <1>1 DEF Job, Stage, TypeOK, Cart, Keys
<1>3. Shape(i)
  BY <1>1, InsideShape DEF Inside
<1>4. Shape(j)
  BY <1>1, <1>3 DEF Shape, Full, Job
<1>5. Becomes(p, j)
  BY DEF ReadGuest, Becomes
<1> QED
  BY <1>2, <1>4, <1>5

LEMMA ReadCartEffect ==
    ASSUME TypeOK, Shapes, NEW p \in Requests, ReadCart(p)
    PROVE  LET j == [job[p] EXCEPT !.mine = cart[job[p].key].items, !.stage = "check"]
           IN j \in Job /\ Shape(j) /\ Becomes(p, j)
<1> DEFINE i == [job[p] EXCEPT !.stage = "check"]
           j == [job[p] EXCEPT !.mine = cart[job[p].key].items, !.stage = "check"]
<1>1. /\ job[p] \in Job /\ Shape(job[p]) /\ job[p].stage \in {"read", "read2"}
      /\ job[p].op # "clear" /\ job[p].key \in Keys
  BY DEF TypeOK, Shapes, ReadCart, Job, Shape
<1>2. j \in Job
  BY <1>1 DEF Job, Stage, TypeOK, Cart
<1>3. Shape(i)
  BY <1>1, InsideShape DEF Inside
<1>4. Shape(j)
  BY <1>1, <1>3 DEF Shape, Full, Job
<1>5. Becomes(p, j)
  BY DEF ReadCart, Becomes
<1> QED
  BY <1>2, <1>4, <1>5

LEMMA SaveCartEffect ==
    ASSUME TypeOK, Shapes, NEW p \in Requests, SaveCart(p)
    PROVE  LET j == [job[p] EXCEPT !.stage = "release", !.saved = clock + 1]
           IN j \in Job /\ Shape(j) /\ Becomes(p, j)
<1> DEFINE i == [job[p] EXCEPT !.stage = "release"]
           j == [job[p] EXCEPT !.stage = "release", !.saved = clock + 1]
<1>1. job[p] \in Job /\ Shape(job[p]) /\ job[p].stage = "save"
  BY DEF TypeOK, Shapes, SaveCart
<1>a. clock + 1 \in Nat
  BY DEF TypeOK
<1>2. j \in Job
  BY <1>1, <1>a DEF Job, Stage
<1>3. Shape(i)
  BY <1>1, InsideShape DEF Inside
<1>4. Shape(j)
  BY <1>1, <1>3 DEF Shape, Full, Job, Inside
<1>5. Becomes(p, j)
  BY DEF SaveCart, Becomes
<1> QED
  BY <1>2, <1>4, <1>5

(* The steps that only go on to another stage *)
Moves(p) == GiveUp(p) \/ ReadVersion(p) \/ DeleteCart(p) \/ Check(p) \/ Refuse(p) \/ DropGuest(p)

LEMMA MovesEffect ==
    ASSUME TypeOK, Shapes, NEW p \in Requests, Moves(p)
    PROVE  \E s \in {"release", "delete", "drop", "save"} :
              LET j == [job[p] EXCEPT !.stage = s]
              IN j \in Job /\ Shape(j) /\ Becomes(p, j)
<1>1. job[p] \in Job /\ Shape(job[p])
  BY DEF TypeOK, Shapes
<1>2. ASSUME NEW s \in {"release", "delete", "drop", "save"}, To(p, s),
             job[p].stage \in Inside \cup {"lock"},
             job[p].stage = "lock" => s = "release",
             s = "drop" => job[p].op = "merge",
             s = "delete" => job[p].op = "clear",
             s = "save" => job[p].op # "clear"
      PROVE  LET j == [job[p] EXCEPT !.stage = s]
             IN j \in Job /\ Shape(j) /\ Becomes(p, j)
  <2>1. s \in Inside \cup {"release"}
    BY <1>2 DEF Inside
  <2>2. Shape([job[p] EXCEPT !.stage = s]) /\ s \in Stage
    BY <1>1, <1>2, <2>1, InsideShape
  <2>3. [job[p] EXCEPT !.stage = s] \in Job
    BY <1>1, <2>2 DEF Job
  <2>4. Becomes(p, [job[p] EXCEPT !.stage = s])
    BY <1>2 DEF To, Becomes
  <2> QED
    BY <2>2, <2>3, <2>4
<1>3. CASE GiveUp(p)
  BY <1>2, <1>3 DEF GiveUp, Inside
<1>4. CASE ReadVersion(p)
  BY <1>2, <1>4 DEF ReadVersion, Inside
<1>5. CASE DeleteCart(p)
  BY <1>2, <1>5 DEF DeleteCart, Inside
<1>6. CASE Check(p)
  BY <1>1, <1>2, <1>6 DEF Check, Inside, Shape
<1>7. CASE Refuse(p)
  BY <1>2, <1>7 DEF Refuse, Inside
<1>8. CASE DropGuest(p)
  BY <1>1, <1>2, <1>8 DEF DropGuest, Inside, Shape
<1> QED
  BY <1>3, <1>4, <1>5, <1>6, <1>7, <1>8 DEF Moves

(* Every step of a request replaces its job by one of the right shape *)
LEMMA JobStep ==
    ASSUME TypeOK, Shapes, NEW p \in Requests,
           BeginAny(p) \/ Step(p) \/ GiveUp(p) \/ Crash(p)
    PROVE  \E j \in Job : Shape(j) /\ Becomes(p, j)
<1>1. job[p] \in Job /\ job[p].variant \in Variants /\ job[p].quantity \in Quantities
  BY DEF TypeOK, Job
<1>2. ASSUME NEW op \in Ops, NEW k \in Keys, NEW v \in Variants, NEW n \in Quantities,
             Begin(p, op, k, v, n)
      PROVE  \E j \in Job : Shape(j) /\ Becomes(p, j)
  BY <1>2, BeginEffect
<1>3. CASE BeginAny(p)
  BY <1>1, <1>2, <1>3, BeginClearEffect DEF BeginAny
<1>4. CASE Crash(p)
  <2>1. Ended(job[p], "dead") \in Job
    BY <1>1, EndedType DEF Stage
  <2>2. Becomes(p, Ended(job[p], "dead"))
    BY <1>4 DEF Crash, Becomes
  <2> QED
    BY <1>1, <2>1, <2>2, NewJobShape
<1>5. CASE Release(p)
  <2>1. Ended(job[p], "done") \in Job
    BY <1>1, EndedType DEF Stage
  <2> QED
    BY <1>1, <1>5, <2>1, ReleaseEffect, NewJobShape
<1>6. CASE Acquire(p)
  BY <1>6, AcquireEffect
<1>7. CASE ReadGuest(p) \/ ReadCart(p) \/ SaveCart(p)
  BY <1>7, ReadGuestEffect, ReadCartEffect, SaveCartEffect
<1>8. CASE Moves(p)
  BY <1>8, MovesEffect
<1> QED
  BY <1>3, <1>4, <1>5, <1>6, <1>7, <1>8 DEF Step, Moves

LEMMA TypeStep == TypeOK /\ Shapes /\ [Next]_vars => TypeOK' /\ Shapes'
<1> SUFFICES ASSUME TypeOK, Shapes, [Next]_vars PROVE TypeOK' /\ Shapes'
  OBVIOUS
<1>1. ASSUME NEW p \in Requests, BeginAny(p) \/ Step(p) \/ GiveUp(p) \/ Crash(p)
      PROVE  TypeOK' /\ Shapes'
  <2>1. job' \in [Requests -> Job] /\ Shapes'
    BY <1>1, JobStep, BecomesEffect
  <2>2. lock' \in [Keys -> Requests \cup {None}] /\ late' = late
    <3>1. CASE Acquire(p)
      BY <3>1 DEF Acquire, TypeOK
    <3>2. CASE Release(p)
      BY <3>2 DEF Release, TypeOK
    <3>3. CASE UNCHANGED locks
      BY <3>3 DEF locks, TypeOK
    <3> QED
      BY <1>1, <3>1, <3>2, <3>3 DEF BeginAny, Begin, BeginClearAfterCheckout, Step, ReadGuest,
         ReadCart, ReadVersion, DeleteCart, Check, Refuse, DropGuest, SaveCart, GiveUp, Crash
  <2>3. cart' \in [Keys -> Cart] /\ clock' \in Nat
    <3>1. CASE SaveCart(p)
      <4>1. clock + 1 \in Nat /\ job[p] \in Job
        BY DEF TypeOK
      <4>2. [items |-> Apply(job[p], job[p].mine), version |-> clock + 1] \in Cart
        BY <4>1, ApplyType DEF Cart
      <4> QED
        BY <3>1, <4>1, <4>2 DEF SaveCart, TypeOK
    <3>2. CASE DeleteCart(p) \/ DropGuest(p)
      BY <3>2, ItemsType DEF DeleteCart, DropGuest, TypeOK
    <3>3. CASE UNCHANGED <<cart, clock>>
      BY <3>3 DEF TypeOK
    <3> QED
      BY <1>1, <3>1, <3>2, <3>3 DEF BeginAny, Begin, BeginClearAfterCheckout, Step, ReadGuest,
         ReadCart, ReadVersion, Check, Refuse, GiveUp, Crash, Acquire, Release
  <2> QED
    BY <2>1, <2>2, <2>3 DEF TypeOK
<1>2. ASSUME NEW k \in Keys, LeaseEnds(k) PROVE TypeOK' /\ Shapes'
  BY <1>2 DEF LeaseEnds, TypeOK, Shapes
<1>3. CASE UNCHANGED vars
  BY <1>3 DEF vars, TypeOK, Shapes
<1> QED
  BY <1>1, <1>2, <1>3 DEF Next

LEMMA TypeInit == Init => TypeOK /\ Shapes
<1> SUFFICES ASSUME Init PROVE TypeOK /\ Shapes
  OBVIOUS
<1>1. cart \in [Keys -> Cart]
  BY ItemsType DEF Init, Cart, Items
<1>2. Shape(NewJob)
  BY DEF NewJob, Shape, Full, Inside
<1> QED
  BY <1>1, <1>2, NewJobType DEF Init, TypeOK, Shapes

(* Every variable of the cart service keeps its type in all its steps. *)
THEOREM TypeCorrect == Spec => []TypeOK
  BY TypeInit, TypeStep, PTL DEF Spec

-----------------------------------------------------------------------------
(* Locks                                                                   *)

(* Only the end of a lease makes a request late *)
LEMMA LateKept ==
    ASSUME NEW p, BeginAny(p) \/ Step(p) \/ GiveUp(p) \/ Crash(p)
    PROVE  late' = late
<1>1. CASE BeginAny(p)
  <2>1. ASSUME NEW op, NEW k, NEW v, NEW n, Begin(p, op, k, v, n) PROVE late' = late
    BY <2>1 DEF Begin, locks
  <2>2. CASE BeginClearAfterCheckout(p)
    BY <2>2 DEF BeginClearAfterCheckout, locks
  <2> QED
    BY <1>1, <2>1, <2>2 DEF BeginAny
<1>2. CASE Acquire(p) \/ Release(p)
  BY <1>2 DEF Acquire, Release
<1>3. CASE ReadGuest(p) \/ ReadCart(p) \/ ReadVersion(p) \/ DeleteCart(p) \/ Check(p)
  BY <1>3 DEF ReadGuest, ReadCart, ReadVersion, DeleteCart, Check, locks
<1>4. CASE Refuse(p) \/ DropGuest(p) \/ SaveCart(p) \/ GiveUp(p) \/ Crash(p)
  BY <1>4 DEF Refuse, DropGuest, SaveCart, GiveUp, Crash, locks
<1> QED
  BY <1>1, <1>2, <1>3, <1>4 DEF Step

LEMMA HoldersOwnLocksStep ==
    TypeOK /\ Shapes /\ HoldersOwnLocks /\ [Next]_vars => HoldersOwnLocks'
<1> SUFFICES ASSUME TypeOK, Shapes, HoldersOwnLocks, [Next]_vars,
                    NEW q \in Requests \ late', NEW x \in job'[q].held
             PROVE  lock'[x] = q
  BY DEF HoldersOwnLocks
<1>1. ASSUME NEW p \in Requests, BeginAny(p) \/ Step(p) \/ GiveUp(p) \/ Crash(p)
      PROVE  lock'[x] = q
  <2>1. late' = late
    BY <1>1, LateKept
  <2>2. CASE Acquire(p)
    <3>1. PICK s \in {"read", "lock"} :
             LET j == [job[p] EXCEPT !.held = @ \cup {NextKey(p)}, !.stage = s]
             IN j \in Job /\ Shape(j) /\ Becomes(p, j)
      BY <2>2, AcquireEffect
    <3>2. job[p] \in Job /\ NextKey(p) \in Keys
      BY <2>2, NextKeyIs DEF TypeOK, Shapes, Acquire
    <3>3. job'[q].held = IF q = p THEN job[p].held \cup {NextKey(p)} ELSE job[q].held
      BY <3>1, <3>2 DEF Becomes, TypeOK, Job
    <3>4. \A y \in job[q].held : lock[y] = q
      BY <2>1 DEF HoldersOwnLocks
    <3>5. x \in Keys
      BY TypeStep DEF TypeOK, Job
    <3> QED
      BY <2>2, <3>2, <3>3, <3>4, <3>5 DEF Acquire, TypeOK
  <2>3. CASE Release(p)
    <3>1. CASE job[p].held = {} /\ Becomes(p, Ended(job[p], "done")) /\ UNCHANGED lock
      <4>1. job[p] \in Job /\ Ended(job[p], "done").held = {}
        BY NewJobShape DEF TypeOK
      <4> QED
        BY <2>1, <3>1, <4>1 DEF Becomes, TypeOK, HoldersOwnLocks
    <3>2. ASSUME NEW k \in job[p].held \cap Keys,
                 Becomes(p, [job[p] EXCEPT !.held = @ \ {k}]),
                 lock' = [lock EXCEPT ![k] = IF @ = p THEN None ELSE @]
          PROVE  lock'[x] = q
      <4>1. job[p] \in Job
        BY DEF TypeOK
      <4>2. job'[q].held = IF q = p THEN job[p].held \ {k} ELSE job[q].held
        BY <3>2, <4>1 DEF Becomes, TypeOK, Job
      <4>3. \A y \in job[q].held : lock[y] = q
        BY <2>1 DEF HoldersOwnLocks
      <4>4. x \in Keys
        BY TypeStep DEF TypeOK, Job
      <4> QED
        BY <3>2, <4>2, <4>3, <4>4 DEF TypeOK
    <3> QED
      BY <2>3, <3>1, <3>2, ReleaseEffect
  <2>4. CASE UNCHANGED lock /\ ~Acquire(p) /\ ~Release(p)
    <3>1. job'[q].held \subseteq job[q].held
      <4>1. job[p] \in Job
        BY DEF TypeOK
      <4>2. CASE BeginAny(p)
        <5>1. ASSUME NEW op, NEW k, NEW v, NEW n, Begin(p, op, k, v, n)
              PROVE  job'[q].held = job[q].held
          BY <4>1, <5>1 DEF Begin, TypeOK, Job
        <5>2. CASE BeginClearAfterCheckout(p)
          BY <4>1, <5>2 DEF BeginClearAfterCheckout, TypeOK, Job
        <5> QED
          BY <4>2, <5>1, <5>2 DEF BeginAny
      <4>3. CASE Crash(p)
        <5>1. Ended(job[p], "dead").held = {}
          BY <4>1, NewJobShape
        <5> QED
          BY <4>1, <4>3, <5>1 DEF Crash, TypeOK
      <4>4. CASE ReadGuest(p) \/ ReadCart(p) \/ SaveCart(p)
        <5>1. CASE ReadGuest(p)
          BY <4>1, <5>1 DEF ReadGuest, TypeOK, Job
        <5>2. CASE ReadCart(p)
          BY <4>1, <5>2 DEF ReadCart, TypeOK, Job
        <5>3. CASE SaveCart(p)
          BY <4>1, <5>3 DEF SaveCart, TypeOK, Job
        <5> QED
          BY <4>4, <5>1, <5>2, <5>3
      <4>5. CASE Moves(p)
        <5>1. PICK s : Becomes(p, [job[p] EXCEPT !.stage = s])
          BY <4>5, MovesEffect
        <5> QED
          BY <4>1, <5>1 DEF Becomes, TypeOK, Job
      <4> QED
        BY <1>1, <2>4, <4>2, <4>3, <4>4, <4>5 DEF Step, Moves
    <3> QED
      BY <2>1, <2>4, <3>1 DEF HoldersOwnLocks
  <2> QED
    BY <1>1, <2>2, <2>3, <2>4 DEF BeginAny, Begin, BeginClearAfterCheckout, Step, ReadGuest,
       ReadCart, ReadVersion, DeleteCart, Check, Refuse, DropGuest, SaveCart, GiveUp, Crash, locks
<1>2. ASSUME NEW k \in Keys, LeaseEnds(k) PROVE lock'[x] = q
  <2>1. job' = job /\ q \notin late
    BY <1>2 DEF LeaseEnds
  <2>2. lock[x] = q
    BY <2>1 DEF HoldersOwnLocks
  <2>3. CASE x = k
    <3>1. job[q].stage = "dead"
      BY <1>2, <2>2, <2>3 DEF LeaseEnds
    <3> QED
      BY <2>1, <3>1 DEF Shapes, Shape
  <2>4. CASE x # k
    BY <1>2, <2>2, <2>4 DEF LeaseEnds, TypeOK
  <2> QED
    BY <2>3, <2>4
<1>3. CASE UNCHANGED vars
  BY <1>3 DEF vars, HoldersOwnLocks
<1> QED
  BY <1>1, <1>2, <1>3 DEF Next

LEMMA HoldersOwnLocksInit == Init => HoldersOwnLocks
  BY DEF Init, HoldersOwnLocks, NewJob

(* A request that has not outlived a lease owns every lock it took: no     *)
(* releaseLock of another request deletes it, however late that one is.    *)
THEOREM HoldersOwnLocksCorrect == Spec => []HoldersOwnLocks
<1>1. Init => TypeOK /\ Shapes /\ HoldersOwnLocks
  BY TypeInit, HoldersOwnLocksInit
<1>2. TypeOK /\ Shapes /\ HoldersOwnLocks /\ [Next]_vars
        => (TypeOK /\ Shapes /\ HoldersOwnLocks)'
  BY TypeStep, HoldersOwnLocksStep
<1> QED
  BY <1>1, <1>2, PTL DEF Spec

-----------------------------------------------------------------------------
(* What was read under the lock                                            *)

(* What j has read under its locks is what the carts c hold *)
Current(j, c) ==
    /\ j.stage \in {"check", "drop", "save"} => j.mine = c[j.key].items
    /\ (j.op = "merge" /\ j.stage \in {"read2", "check", "drop"}) => j.theirs = c[Guest].items
    /\ (j.stage = "delete" /\ j.expected > 0) => c[j.key].version = j.expected

(* While no request has outlived its lease, this is so for all of them *)
ReadIsCurrent == late = {} => \A p \in Requests : Current(job[p], cart)

(* A step of p leaves alone the carts that another request works on *)
LEMMA CartKept ==
    ASSUME TypeOK, Shapes, HoldersOwnLocks, late = {},
           NEW p \in Requests, NEW q \in Requests, p # q,
           BeginAny(p) \/ Step(p) \/ GiveUp(p) \/ Crash(p),
           job[q].stage \in Inside, NEW k \in Full(job[q]), k \in Keys
    PROVE  cart'[k] = cart[k]
<1>1. lock[k] = q
  BY DEF Shapes, Shape, HoldersOwnLocks
<1>2. job[p].stage \in Inside => k \notin Full(job[p])
  BY <1>1 DEF Shapes, Shape, HoldersOwnLocks
<1>3. CASE DeleteCart(p) \/ SaveCart(p)
  <2>1. job[p].stage \in {"delete", "save"} /\ job[p].key \in Full(job[p])
    BY <1>3 DEF DeleteCart, SaveCart, Full, Shapes, Shape
  <2>2. k # job[p].key
    BY <1>2, <2>1 DEF Inside
  <2> QED
    BY <1>3, <2>2 DEF DeleteCart, SaveCart, TypeOK
<1>4. CASE DropGuest(p)
  <2>1. job[p].stage = "drop" /\ Guest \in Full(job[p])
    BY <1>4 DEF DropGuest, Full, Shapes, Shape
  <2>2. k # Guest
    BY <1>2, <2>1 DEF Inside
  <2> QED
    BY <1>4, <2>2 DEF DropGuest, TypeOK
<1>5. CASE UNCHANGED cart
  BY <1>5
<1> QED
  BY <1>3, <1>4, <1>5 DEF BeginAny, Begin, BeginClearAfterCheckout, Step, ReadGuest,
     ReadCart, ReadVersion, Check, Refuse, GiveUp, Crash, Acquire, Release

(* Of a step of p, what p itself has read stays current *)
LEMMA OwnReadCurrent ==
    ASSUME TypeOK, Shapes, NEW p \in Requests, Current(job[p], cart),
           BeginAny(p) \/ Step(p) \/ GiveUp(p) \/ Crash(p)
    PROVE  Current(job'[p], cart')
<1>1. job[p] \in Job /\ Shape(job[p]) /\ job[p].key \in Keys
  BY DEF TypeOK, Shapes, Job
<1>2. CASE BeginAny(p)
  <2>1. job'[p].stage = "lock"
    <3>1. ASSUME NEW op, NEW k, NEW v, NEW n, Begin(p, op, k, v, n)
          PROVE  job'[p].stage = "lock"
      BY <1>1, <3>1 DEF Begin, TypeOK, Job
    <3>2. CASE BeginClearAfterCheckout(p)
      BY <1>1, <3>2 DEF BeginClearAfterCheckout, TypeOK, Job
    <3> QED
      BY <1>2, <3>1, <3>2 DEF BeginAny
  <2> QED
    BY <2>1 DEF Current
<1>3. CASE Acquire(p)
  <2>1. job'[p].stage \in {"read", "lock"}
    BY <1>1, <1>3 DEF Acquire, TypeOK, Job
  <2> QED
    BY <2>1 DEF Current
<1>4. CASE Release(p)
  <2>1. job'[p].stage \in {"release", "done"}
    <3>1. Ended(job[p], "done").stage = "done"
      BY <1>1, NewJobShape
    <3> QED
      BY <1>1, <1>4, <3>1 DEF Release, TypeOK, Job
  <2> QED
    BY <2>1 DEF Current
<1>5. CASE Crash(p)
  <2>1. Ended(job[p], "dead").stage = "dead"
    BY <1>1, NewJobShape
  <2>2. job'[p].stage = "dead"
    BY <1>5, <2>1 DEF Crash, TypeOK
  <2> QED
    BY <2>2 DEF Current
<1>6. CASE ReadGuest(p)
  <2>1. job'[p] = [job[p] EXCEPT !.theirs = cart[Guest].items, !.stage = "read2"] /\ cart' = cart
    BY <1>6 DEF ReadGuest, TypeOK
  <2>2. job'[p].theirs = cart[Guest].items /\ job'[p].stage = "read2"
    BY <1>1, <2>1 DEF Job
  <2> QED
    BY <2>1, <2>2 DEF Current
<1>7. CASE ReadCart(p)
  <2>1. /\ job'[p] = [job[p] EXCEPT !.mine = cart[job[p].key].items, !.stage = "check"]
        /\ cart' = cart
    BY <1>7 DEF ReadCart, TypeOK
  <2>2. /\ job'[p].mine = cart[job[p].key].items /\ job'[p].stage = "check"
        /\ job'[p].key = job[p].key /\ job'[p].op = job[p].op /\ job'[p].theirs = job[p].theirs
    BY <1>1, <2>1 DEF Job
  <2>3. job[p].op = "merge" => job[p].stage = "read2"
    BY <1>7 DEF ReadCart
  <2> QED
    BY <2>1, <2>2, <2>3 DEF Current
<1>8. CASE SaveCart(p) \/ DeleteCart(p) \/ Refuse(p) \/ GiveUp(p)
  <2>1. job'[p].stage = "release"
    BY <1>1, <1>8 DEF SaveCart, DeleteCart, Refuse, GiveUp, To, TypeOK, Job
  <2> QED
    BY <2>1 DEF Current
<1>9. CASE ReadVersion(p) \/ Check(p) \/ DropGuest(p)
  <2>1. PICK s \in {"release", "delete", "drop", "save"} : To(p, s)
    BY <1>9 DEF ReadVersion, Check, DropGuest
  <2>2. job'[p] = [job[p] EXCEPT !.stage = s]
    BY <2>1 DEF To, TypeOK
  <2>3. /\ job'[p].stage = s /\ job'[p].key = job[p].key /\ job'[p].op = job[p].op
        /\ job'[p].mine = job[p].mine /\ job'[p].theirs = job[p].theirs
        /\ job'[p].expected = job[p].expected
    BY <1>1, <2>2 DEF Job
  <2>4. CASE ReadVersion(p)
    <3>1. job[p].stage = "read" /\ cart' = cart
      BY <2>4 DEF ReadVersion
    <3>2. /\ job'[p].stage \in {"release", "delete"}
          /\ (job'[p].stage = "delete" /\ job[p].expected > 0)
                => cart[job[p].key].version = job[p].expected
      BY <1>1, <2>4 DEF ReadVersion, To, TypeOK, Job
    <3> QED
      BY <2>3, <3>1, <3>2 DEF Current
  <2>5. CASE Check(p)
    <3>1. job[p].stage = "check" /\ cart' = cart /\ job'[p].stage \in {"drop", "save"}
      BY <1>1, <2>5 DEF Check, To, TypeOK, Job
    <3> QED
      BY <2>3, <3>1 DEF Current
  <2>6. CASE DropGuest(p)
    <3>1. job[p].stage = "drop" /\ job'[p].stage = "save" /\ job[p].key = User
      BY <1>1, <2>6 DEF DropGuest, To, TypeOK, Job, Shape
    <3>2. cart'[User] = cart[User]
      BY <2>6 DEF DropGuest, TypeOK, Keys
    <3> QED
      BY <2>3, <3>1, <3>2 DEF Current
  <2> QED
    BY <1>9, <2>4, <2>5, <2>6
<1> QED
  BY <1>2, <1>3, <1>4, <1>5, <1>6, <1>7, <1>8, <1>9 DEF Step

LEMMA ReadIsCurrentStep ==
    TypeOK /\ Shapes /\ HoldersOwnLocks /\ ReadIsCurrent /\ [Next]_vars => ReadIsCurrent'
<1> SUFFICES ASSUME TypeOK, Shapes, HoldersOwnLocks, ReadIsCurrent, [Next]_vars,
                    late' = {}, NEW q \in Requests
             PROVE  Current(job'[q], cart')
  BY DEF ReadIsCurrent
<1>1. ASSUME NEW p \in Requests, BeginAny(p) \/ Step(p) \/ GiveUp(p) \/ Crash(p)
      PROVE  Current(job'[q], cart')
  <2>1. late = {} /\ Current(job[q], cart)
    BY <1>1, LateKept DEF ReadIsCurrent
  <2>2. CASE q = p
    BY <1>1, <2>1, <2>2, OwnReadCurrent
  <2>3. CASE q # p
    <3>1. job'[q] = job[q]
      BY <1>1, <2>3, JobStep, BecomesEffect
    <3>2. CASE job[q].stage \in Inside
      <4>1. job[q].key \in Full(job[q]) /\ job[q].key \in Keys
        BY DEF Shapes, Shape, Full, TypeOK, Job
      <4>2. cart'[job[q].key] = cart[job[q].key]
        BY <1>1, <2>1, <2>3, <3>2, <4>1, CartKept
      <4>3. job[q].op = "merge" => cart'[Guest] = cart[Guest]
        BY <1>1, <2>1, <2>3, <3>2, CartKept DEF Full, Keys
      <4> QED
        BY <2>1, <3>1, <4>2, <4>3 DEF Current
    <3>3. CASE job[q].stage \notin Inside
      BY <3>1, <3>3 DEF Current, Inside
    <3> QED
      BY <3>2, <3>3
  <2> QED
    BY <2>2, <2>3
<1>2. ASSUME NEW k \in Keys, LeaseEnds(k) PROVE Current(job'[q], cart')
  <2>1. late = {} /\ job' = job /\ cart' = cart
    BY <1>2 DEF LeaseEnds
  <2> QED
    BY <2>1 DEF ReadIsCurrent
<1>3. CASE UNCHANGED vars
  BY <1>3 DEF vars, ReadIsCurrent
<1> QED
  BY <1>1, <1>2, <1>3 DEF Next

LEMMA ReadIsCurrentInit == Init => ReadIsCurrent
  BY DEF Init, ReadIsCurrent, Current, NewJob

-----------------------------------------------------------------------------
(* Versions                                                                *)

(* The versions that j knows name the items it knows: those a validate     *)
(* answered with, and those that were ordered                              *)
Named(j, c, t) ==
    /\ (j.op = "validate" /\ j.saved > 0)
           => j.saved <= t /\ (c[j.key].version = j.saved => c[j.key].items = j.mine)
    /\ j.expected > 0
           => j.expected <= t /\ (c[j.key].version = j.expected => c[j.key].items = j.ordered)
    /\ j.stage \in {"new", "done", "dead"} => j.expected = 0

VersionsName ==
    /\ \A k \in Keys : cart[k].version <= clock
    /\ \A p \in Requests : Named(job[p], cart, clock)

(* What a step may do to the carts: nothing, delete one or write one with  *)
(* a new version                                                           *)
CartChange ==
    \/ cart' = cart /\ clock' = clock
    \/ \E k \in Keys : cart' = [cart EXCEPT ![k] = NoCart] /\ clock' = clock
    \/ \E k \in Keys, items \in Items :
          /\ cart' = [cart EXCEPT ![k] = [items |-> items, version |-> clock + 1]]
          /\ clock' = clock + 1

LEMMA StepCartChange ==
    ASSUME TypeOK, Shapes, [Next]_vars
    PROVE  CartChange
<1>1. ASSUME NEW p \in Requests, DeleteCart(p) PROVE CartChange
  BY <1>1 DEF DeleteCart, CartChange, TypeOK, Job
<1>2. ASSUME NEW p \in Requests, DropGuest(p) PROVE CartChange
  BY <1>2 DEF DropGuest, CartChange, Keys
<1>3. ASSUME NEW p \in Requests, SaveCart(p) PROVE CartChange
  <2>1. job[p] \in Job /\ job[p].key \in Keys
    BY DEF TypeOK, Job
  <2>2. Apply(job[p], job[p].mine) \in Items
    BY <2>1, ApplyType
  <2> QED
    BY <1>3, <2>1, <2>2 DEF SaveCart, CartChange
<1>4. ASSUME NEW p \in Requests, BeginAny(p) \/ Step(p) \/ GiveUp(p) \/ Crash(p)
      PROVE  CartChange
  <2>1. CASE BeginAny(p)
    <3>1. ASSUME NEW op, NEW k, NEW v, NEW n, Begin(p, op, k, v, n)
          PROVE  cart' = cart /\ clock' = clock
      BY <3>1 DEF Begin
    <3>2. CASE BeginClearAfterCheckout(p)
      BY <3>2 DEF BeginClearAfterCheckout, CartChange
    <3> QED
      BY <2>1, <3>1, <3>2 DEF BeginAny, CartChange
  <2>2. CASE Acquire(p) \/ Release(p) \/ ReadGuest(p) \/ ReadCart(p)
    BY <2>2 DEF Acquire, Release, ReadGuest, ReadCart, CartChange
  <2>3. CASE ReadVersion(p) \/ Check(p) \/ Refuse(p) \/ GiveUp(p) \/ Crash(p)
    BY <2>3 DEF ReadVersion, Check, Refuse, GiveUp, Crash, CartChange
  <2> QED
    BY <1>1, <1>2, <1>3, <1>4, <2>1, <2>2, <2>3 DEF Step
<1>5. ASSUME NEW k \in Keys, LeaseEnds(k) PROVE CartChange
  BY <1>5 DEF LeaseEnds, CartChange
<1>6. CASE UNCHANGED vars
  BY <1>6 DEF vars, CartChange
<1> QED
  BY <1>4, <1>5, <1>6 DEF Next

(* Deleting and writing carts leaves the names of a job as they were *)
LEMMA NamedKept ==
    ASSUME TypeOK, VersionsName, CartChange, NEW j \in Job, Named(j, cart, clock)
    PROVE  Named(j, cart', clock') /\ \A k \in Keys : cart'[k].version <= clock'
<1>1. /\ clock \in Nat /\ j.key \in Keys /\ j.saved \in Nat /\ j.expected \in Nat
      /\ \A k \in Keys : cart[k].version \in Nat /\ cart[k].version <= clock
  BY DEF TypeOK, Cart, Job, VersionsName
<1>2. CASE cart' = cart /\ clock' = clock
  BY <1>1, <1>2
<1>3. ASSUME NEW k \in Keys, cart' = [cart EXCEPT ![k] = NoCart], clock' = clock
      PROVE  Named(j, cart', clock') /\ \A x \in Keys : cart'[x].version <= clock'
  <2>1. \A x \in Keys : cart'[x] = IF x = k THEN NoCart ELSE cart[x]
    BY <1>3 DEF TypeOK
  <2>2. NoCart.version = 0
    BY DEF NoCart
  <2> QED
    BY <1>1, <1>3, <2>1, <2>2 DEF Named
<1>4. ASSUME NEW k \in Keys, NEW items \in Items,
             cart' = [cart EXCEPT ![k] = [items |-> items, version |-> clock + 1]],
             clock' = clock + 1
      PROVE  Named(j, cart', clock') /\ \A x \in Keys : cart'[x].version <= clock'
  <2> DEFINE c == [items |-> items, version |-> clock + 1]
  <2>1. c.version = clock + 1
    OBVIOUS
  <2>2. \A x \in Keys : cart'[x] = IF x = k THEN c ELSE cart[x]
    BY <1>4 DEF TypeOK
  <2> HIDE DEF c
  <2>3. \A x \in Keys : \/ x = k /\ cart'[x].version = clock + 1
                        \/ x # k /\ cart'[x] = cart[x]
    BY <2>1, <2>2
  <2> QED
    BY <1>1, <1>4, <2>3 DEF Named
<1> QED
  BY <1>2, <1>3, <1>4 DEF CartChange

LEMMA EndedIs ==
    ASSUME NEW j \in Job, NEW stage \in {"done", "dead"}
    PROVE  \/ Ended(j, stage).saved = 0
           \/ /\ stage = "done" /\ j.op = "validate" /\ Ended(j, stage).op = "validate"
              /\ Ended(j, stage).key = j.key /\ Ended(j, stage).mine = j.mine
              /\ Ended(j, stage).saved = j.saved
  BY DEF Ended, NewJob

(* A job without a version of its own and without an expected one *)
LEMMA NothingNamed ==
    ASSUME NEW j, NEW c, NEW t, j.saved = 0, j.expected = 0
    PROVE  Named(j, c, t)
  BY DEF Named

(* The same names under another stage of the same operation *)
LEMMA SameNames ==
    ASSUME NEW i, NEW j, NEW c, NEW t, Named(j, c, t),
           i.stage \in {"new", "done", "dead"} => i.expected = 0,
           i.expected = j.expected, i.ordered = j.ordered, i.key = j.key,
           i.saved = 0 \/ (i.saved = j.saved /\ i.op = j.op /\ i.mine = j.mine)
    PROVE  Named(i, c, t)
  BY DEF Named

LEMMA NewJobNamed == \A c, t : Named(NewJob, c, t)
  BY NothingNamed DEF NewJob

LEMMA OwnNames ==
    ASSUME TypeOK, Shapes, VersionsName, NEW p \in Requests,
           BeginAny(p) \/ Step(p) \/ GiveUp(p) \/ Crash(p)
    PROVE  Named(job'[p], cart', clock')
<1>1. job[p] \in Job /\ Shape(job[p]) /\ job[p].key \in Keys /\ Named(job[p], cart, clock)
  BY DEF TypeOK, Shapes, Job, VersionsName
<1>2. CartChange
  <2>1. Next
    BY DEF Next
  <2> QED
    BY <2>1, StepCartChange
<1>3. Named(job[p], cart', clock')
  BY <1>1, <1>2, NamedKept
<1>4. ASSUME NEW op, NEW k, NEW v, NEW n, Begin(p, op, k, v, n)
      PROVE  Named(job'[p], cart', clock')
  <2>1. /\ job'[p].saved = job[p].saved /\ job'[p].expected = job[p].expected
        /\ job[p].stage = "new"
    BY <1>1, <1>4 DEF Begin, TypeOK, Job
  <2>2. job[p].saved = 0 /\ job[p].expected = 0
    BY <1>1, <2>1 DEF Shape, Named
  <2> QED
    BY <2>1, <2>2, NothingNamed
<1>5. CASE BeginClearAfterCheckout(p)
  <2>1. job'[p] = [job[p] EXCEPT !.op = "clear", !.expected = job[p].saved,
                                 !.ordered = job[p].mine, !.saved = 0,
                                 !.mine = Empty, !.stage = "lock"]
    BY <1>5 DEF BeginClearAfterCheckout, TypeOK
  <2>2. /\ job'[p].op = "clear" /\ job'[p].expected = job[p].saved
        /\ job'[p].ordered = job[p].mine /\ job'[p].key = job[p].key
        /\ job'[p].stage = "lock" /\ job'[p].saved = 0
    BY <1>1, <2>1 DEF Job
  <2>3. job[p].op = "validate" /\ job[p].saved > 0
    BY <1>5 DEF BeginClearAfterCheckout
  <2> QED
    BY <1>3, <2>2, <2>3 DEF Named
<1>6. CASE Acquire(p)
  <2>1. PICK s \in {"read", "lock"} :
           Becomes(p, [job[p] EXCEPT !.held = @ \cup {NextKey(p)}, !.stage = s])
    BY <1>6, AcquireEffect
  <2>2. job'[p] = [job[p] EXCEPT !.held = @ \cup {NextKey(p)}, !.stage = s]
    BY <2>1 DEF Becomes, TypeOK
  <2>3. /\ job'[p].op = job[p].op /\ job'[p].expected = job[p].expected
        /\ job'[p].ordered = job[p].ordered /\ job'[p].key = job[p].key
        /\ job'[p].stage = s /\ job'[p].saved = job[p].saved /\ job'[p].mine = job[p].mine
    BY <1>1, <2>2 DEF Job
  <2> QED
    BY <1>3, <2>1, <2>3, SameNames
<1>7. CASE Release(p)
  <2>1. CASE Becomes(p, Ended(job[p], "done"))
    <3>1. job'[p] = Ended(job[p], "done")
      BY <2>1 DEF Becomes, TypeOK
    <3>2. job'[p].expected = 0
      BY <1>1, <3>1, NewJobShape
    <3>3. \/ job'[p].saved = 0
          \/ /\ job[p].op = "validate" /\ job'[p].op = "validate"
             /\ job'[p].key = job[p].key /\ job'[p].mine = job[p].mine
             /\ job'[p].saved = job[p].saved
      BY <1>1, <3>1, EndedIs
    <3> QED
      BY <1>3, <3>2, <3>3 DEF Named
  <2>2. ASSUME NEW k, Becomes(p, [job[p] EXCEPT !.held = @ \ {k}])
        PROVE  Named(job'[p], cart', clock')
    <3>1. job'[p] = [job[p] EXCEPT !.held = @ \ {k}] /\ job[p].stage = "release"
      BY <1>7, <2>2 DEF Becomes, TypeOK, Release
    <3>2. /\ job'[p].op = job[p].op /\ job'[p].expected = job[p].expected
          /\ job'[p].ordered = job[p].ordered /\ job'[p].key = job[p].key
          /\ job'[p].stage = "release" /\ job'[p].saved = job[p].saved
          /\ job'[p].mine = job[p].mine
      BY <1>1, <3>1 DEF Job
    <3> QED
      BY <1>3, <3>2, SameNames
  <2> QED
    BY <1>7, <2>1, <2>2, ReleaseEffect
<1>8. CASE Crash(p)
  <2>1. job'[p] = Ended(job[p], "dead")
    BY <1>8 DEF Crash, TypeOK
  <2>2. job'[p].expected = 0 /\ job'[p].saved = 0
    BY <1>1, <2>1, NewJobShape, EndedIs
  <2> QED
    BY <2>2, NothingNamed
<1>9. CASE ReadGuest(p)
  <2>1. job'[p] = [job[p] EXCEPT !.theirs = cart[Guest].items, !.stage = "read2"]
    BY <1>9 DEF ReadGuest, TypeOK
  <2>2. /\ job'[p].op = job[p].op /\ job'[p].expected = job[p].expected
        /\ job'[p].ordered = job[p].ordered /\ job'[p].key = job[p].key
        /\ job'[p].stage = "read2" /\ job'[p].saved = job[p].saved
        /\ job'[p].mine = job[p].mine
    BY <1>1, <2>1 DEF Job
  <2> QED
    BY <1>3, <2>2, SameNames
<1>10. CASE ReadCart(p)
  <2>1. job'[p] = [job[p] EXCEPT !.mine = cart[job[p].key].items, !.stage = "check"]
    BY <1>10 DEF ReadCart, TypeOK
  <2>2. /\ job'[p].expected = job[p].expected
        /\ job'[p].ordered = job[p].ordered /\ job'[p].key = job[p].key
        /\ job'[p].stage = "check" /\ job'[p].saved = job[p].saved
    BY <1>1, <2>1 DEF Job
  <2>3. job[p].saved = 0
    BY <1>1, <1>10 DEF ReadCart, Shape
  <2> QED
    BY <1>3, <2>2, <2>3, SameNames
<1>11. CASE SaveCart(p)
  <2>1. job'[p] = [job[p] EXCEPT !.stage = "release", !.saved = clock + 1] /\ clock' = clock + 1
    BY <1>11 DEF SaveCart, TypeOK
  <2>2. /\ job'[p].op = job[p].op /\ job'[p].expected = job[p].expected
        /\ job'[p].ordered = job[p].ordered /\ job'[p].key = job[p].key
        /\ job'[p].stage = "release" /\ job'[p].saved = clock + 1
        /\ job'[p].mine = job[p].mine
    BY <1>1, <2>1 DEF Job
  <2>3. job[p].op = "validate" => cart'[job[p].key].items = job[p].mine
    BY <1>1, <1>11 DEF SaveCart, TypeOK, Apply
  <2>4. clock \in Nat
    BY DEF TypeOK
  <2> QED
    BY <1>3, <2>1, <2>2, <2>3, <2>4 DEF Named
<1>12. CASE Moves(p)
  <2>1. PICK s \in {"release", "delete", "drop", "save"} :
           Becomes(p, [job[p] EXCEPT !.stage = s])
    BY <1>12, MovesEffect
  <2>2. job'[p] = [job[p] EXCEPT !.stage = s]
    BY <2>1 DEF Becomes, TypeOK
  <2>3. /\ job'[p].op = job[p].op /\ job'[p].expected = job[p].expected
        /\ job'[p].ordered = job[p].ordered /\ job'[p].key = job[p].key
        /\ job'[p].stage = s /\ job'[p].saved = job[p].saved /\ job'[p].mine = job[p].mine
    BY <1>1, <2>2 DEF Job
  <2> QED
    BY <1>3, <2>1, <2>3, SameNames
<1> QED
  BY <1>4, <1>5, <1>6, <1>7, <1>8, <1>9, <1>10, <1>11, <1>12 DEF BeginAny, Step, Moves

LEMMA VersionsNameStep ==
    TypeOK /\ Shapes /\ VersionsName /\ [Next]_vars => VersionsName'
<1> SUFFICES ASSUME TypeOK, Shapes, VersionsName, [Next]_vars PROVE VersionsName'
  OBVIOUS
<1>1. CartChange
  BY StepCartChange
<1>2. \A q \in Requests : job[q] \in Job /\ Named(job[q], cart, clock)
  BY DEF TypeOK, VersionsName
<1>3. \A q \in Requests : Named(job[q], cart', clock')
  BY <1>1, <1>2, NamedKept
<1>4. \A k \in Keys : cart'[k].version <= clock'
  BY <1>1, NewJobType, NewJobNamed, NamedKept
<1>5. ASSUME NEW p \in Requests, BeginAny(p) \/ Step(p) \/ GiveUp(p) \/ Crash(p),
             NEW q \in Requests
      PROVE  Named(job'[q], cart', clock')
  <2>1. CASE q = p
    BY <1>5, <2>1, OwnNames
  <2>2. CASE q # p
    <3>1. job'[q] = job[q]
      BY <1>5, <2>2, JobStep, BecomesEffect
    <3> QED
      BY <1>3, <3>1
  <2> QED
    BY <2>1, <2>2
<1>6. ASSUME job' = job, NEW q \in Requests PROVE Named(job'[q], cart', clock')
  BY <1>3, <1>6
<1>7. \A q \in Requests : Named(job'[q], cart', clock')
  BY <1>5, <1>6 DEF Next, LeaseEnds, vars
<1> QED
  BY <1>4, <1>7 DEF VersionsName

LEMMA VersionsNameInit == Init => VersionsName
<1> SUFFICES ASSUME Init PROVE VersionsName
  OBVIOUS
<1>1. \A k \in Keys : cart[k].version <= clock
  BY DEF Init, NoCart
<1>2. \A p \in Requests : Named(job[p], cart, clock)
  BY NewJobNamed DEF Init
<1> QED
  BY <1>1, <1>2 DEF VersionsName

-----------------------------------------------------------------------------
(* Writes and deletions                                                    *)

(* Types, shapes, locks and what was read, together inductive *)
CartInv == TypeOK /\ Shapes /\ HoldersOwnLocks /\ ReadIsCurrent /\ VersionsName

LEMMA CartInvInvariant == Spec => []CartInv
<1>1. Init => CartInv
  BY TypeInit, HoldersOwnLocksInit, ReadIsCurrentInit, VersionsNameInit DEF CartInv
<1>2. CartInv /\ [Next]_vars => CartInv'
  BY TypeStep, HoldersOwnLocksStep, ReadIsCurrentStep, VersionsNameStep DEF CartInv
<1> QED
  BY <1>1, <1>2, PTL DEF Spec

(* Of a request whose job is at the stage before its write, a step that    *)
(* changes the number of its save is the write                             *)
LEMMA SavesIsSaveCart ==
    ASSUME TypeOK, Shapes, [Next]_vars, NEW p \in Requests, Saves(p)
    PROVE  SaveCart(p)
<1>1. job[p] \in Job /\ job[p].stage = "save" /\ job'[p].saved # job[p].saved /\ job[p].saved = 0
  BY DEF TypeOK, Shapes, Shape, Saves
<1>2. ASSUME NEW q \in Requests, BeginAny(q) \/ Step(q) \/ GiveUp(q) \/ Crash(q)
      PROVE  q = p
  BY <1>1, <1>2, JobStep, BecomesEffect
<1>3. ASSUME BeginAny(p) PROVE FALSE
  BY <1>1, <1>3 DEF BeginAny, Begin, BeginClearAfterCheckout
<1>4. ASSUME Crash(p) PROVE FALSE
  <2>1. job'[p] = Ended(job[p], "dead")
    BY <1>4 DEF Crash, TypeOK
  <2> QED
    BY <1>1, <2>1, EndedIs
<1>5. ASSUME Refuse(p) PROVE FALSE
  BY <1>1, <1>5 DEF Refuse, To, TypeOK, Job
<1>6. Step(p)
  <2>1. job' # job
    BY <1>1
  <2> QED
    BY <1>1, <1>2, <1>3, <1>4, <2>1 DEF Next, LeaseEnds, vars, GiveUp
<1> QED
  BY <1>1, <1>5, <1>6 DEF Step, Acquire, Release, ReadGuest, ReadCart, ReadVersion, DeleteCart,
     Check, DropGuest

(* As long as no request outlives its lease, saveCart writes its operation *)
(* applied to the cart as it is at that moment: no change made since       *)
(* getRawCart read it is overwritten.                                      *)
THEOREM NoLostUpdateCorrect == Spec => NoLostUpdate
<1>1. ASSUME CartInv, [Next]_vars, NEW p \in Requests, late = {}, Saves(p)
      PROVE  cart'[job[p].key].items = Apply(job[p], cart[job[p].key].items)
  <2>1. SaveCart(p) /\ job[p].stage = "save" /\ job[p].key \in Keys
    BY <1>1, SavesIsSaveCart DEF CartInv, Saves, TypeOK, Job
  <2>2. job[p].mine = cart[job[p].key].items
    BY <1>1, <2>1 DEF CartInv, ReadIsCurrent, Current
  <2>3. cart'[job[p].key].items = Apply(job[p], job[p].mine)
    BY <1>1, <2>1 DEF SaveCart, CartInv, TypeOK
  <2> QED
    BY <2>2, <2>3
<1>2. CartInv /\ [Next]_vars
        => [\A p \in Requests : late = {} /\ Saves(p)
              => cart'[job[p].key].items = Apply(job[p], cart[job[p].key].items)]_vars
  BY <1>1
<1> QED
  BY <1>2, CartInvInvariant, PTL DEF Spec, NoLostUpdate

(* As long as no request outlives its lease, clearCart deletes a cart with *)
(* an expected version only as it was ordered, and                         *)
(* mergeGuestCartToUserCart deletes the guest's cart only as it was merged.*)
THEOREM DropsOnlyWhatWasReadCorrect == Spec => DropsOnlyWhatWasRead
<1>1. ASSUME CartInv, NEW p \in Requests, late = {}
      PROVE  /\ (job[p].stage = "delete" /\ job[p].expected > 0)
                   => cart[job[p].key].items = job[p].ordered
             /\ job[p].stage = "drop" => cart[Guest].items = job[p].theirs
  <2>1. Current(job[p], cart) /\ Named(job[p], cart, clock) /\ Shape(job[p])
    BY <1>1 DEF CartInv, ReadIsCurrent, VersionsName, Shapes
  <2> QED
    BY <2>1 DEF Current, Named, Shape
<1>2. CartInv /\ [Next]_vars
        => [\A p \in Requests : late = {} =>
              /\ (/\ job[p].stage = "delete" /\ job'[p].stage = "release"
                  /\ job[p].expected > 0)
                 => cart[job[p].key].items = job[p].ordered
              /\ (job[p].stage = "drop" /\ job'[p].stage = "save")
                 => cart[Guest].items = job[p].theirs]_vars
  BY <1>1
<1> QED
  BY <1>2, CartInvInvariant, PTL DEF Spec, DropsOnlyWhatWasRead
=============================================================================
