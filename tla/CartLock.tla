------------------------------ MODULE CartLock ------------------------------
(***************************************************************************)
(* Carts in Redis under leased locks.  A request to the cart service locks *)
(* its cart (a merge locks the user's and the guest's), reads it, asks the *)
(* product service about stock and prices, writes it back and releases the *)
(* lock.  Every Redis command and every wait for another service is a step *)
(* of its own.  A checkout is a validate request, whose answer is ordered, *)
(* and later a clear request with the version of that answer.              *)
(*                                                                         *)
(* The version of a cart is its updatedAt; two writes of one cart never    *)
(* fall into the same millisecond.  Prices, gifts and the time to live of  *)
(* seven days are left out.                                                *)
(***************************************************************************)
EXTENDS Naturals, Integers, Sequences, FiniteSets

CONSTANTS
    Requests,      \* requests to the cart service, each with its own token
    Variants,      \* variants of products
    Guest, User,   \* the keys of a guest's and of the user's cart
    InitialItems,  \* what the carts may hold at the beginning
    Ops,           \* operations the requests ask for
    Quantities,    \* quantities a customer may ask for
    MaxLines,      \* different variants in a cart (50 in the code)
    None           \* no request

Keys == {Guest, User}
Op == {"get", "add", "update", "remove", "validate", "clear", "merge"}

ASSUME CartAssumption == /\ IsFiniteSet(Variants) /\ Variants # {}
                         /\ Guest # User
                         /\ Ops \subseteq Op
                         /\ InitialItems \subseteq [Keys -> [Variants -> Nat]]
                         /\ Quantities \subseteq Nat \ {0} /\ Quantities # {}
                         /\ MaxLines \in Nat
                         /\ None \notin Requests

VARIABLES
    cart,   \* carts by key; version 0: there is none
    clock,  \* time of the last write
    lock,   \* lock[k]: the request whose token the lock of k holds
    late,   \* history: requests that were still at work when a lease of theirs ended
    job     \* what each request does and how far it is

vars == <<cart, clock, lock, late, job>>
locks == <<lock, late>>

Stage == {"new", "lock", "read", "read2", "check", "drop", "save", "delete",
          "release", "done", "dead"}
Empty == [v \in Variants |-> 0]
Items == [Variants -> Nat]

Cart == [items: Items, version: Nat]
NoCart == [items |-> Empty, version |-> 0]

(* mine, theirs: the items read from the own and from the guest's cart;    *)
(* ordered: for a clear after a checkout, the items of the order           *)
Job == [op: Op, key: Keys, variant: Variants, quantity: Quantities,
        stage: Stage, held: SUBSET Keys, mine: Items, theirs: Items,
        expected: Nat, ordered: Items, saved: Nat]

NewJob == [op |-> "get", key |-> User, variant |-> CHOOSE v \in Variants : TRUE,
           quantity |-> CHOOSE n \in Quantities : TRUE, stage |-> "new",
           held |-> {}, mine |-> Empty, theirs |-> Empty, expected |-> 0,
           ordered |-> Empty, saved |-> 0]

(* Of a request that has ended only the answer of a validate is kept       *)
Ended(j, stage) ==
    IF j.op = "validate" /\ j.saved > 0 /\ stage = "done"
    THEN [NewJob EXCEPT !.op = "validate", !.key = j.key, !.mine = j.mine,
                        !.saved = j.saved, !.stage = stage]
    ELSE [NewJob EXCEPT !.stage = stage]

Lines(items) == Cardinality({v \in Variants : items[v] > 0})

To(p, stage) == job' = [job EXCEPT ![p].stage = stage]

-----------------------------------------------------------------------------
(* What an operation makes of a cart                                       *)

Plus(a, b) == [v \in Variants |-> a[v] + b[v]]

Apply(j, items) ==
    CASE j.op = "add" -> [items EXCEPT ![j.variant] = @ + j.quantity]
      [] j.op = "update" -> [items EXCEPT ![j.variant] = j.quantity]
      [] j.op = "remove" -> [items EXCEPT ![j.variant] = 0]
      [] j.op = "merge" -> Plus(items, j.theirs)
      [] OTHER -> items

(* The refusals that depend on the cart alone                              *)
Allowed(j) ==
    /\ j.op = "add" => j.mine[j.variant] > 0 \/ Lines(j.mine) < MaxLines
    /\ j.op = "update" => j.mine[j.variant] > 0
    /\ j.op = "validate" => j.mine # Empty
    /\ j.op = "merge" => \/ Lines(Plus(j.mine, j.theirs)) <= MaxLines
                         \/ \A v \in Variants : j.theirs[v] > 0 => j.mine[v] > 0

-----------------------------------------------------------------------------
(* Requests and their locks                                                *)

Begin(p, op, k, v, n) ==
    /\ job[p].stage = "new"
    /\ op = "merge" => k = User
    /\ job' = [job EXCEPT ![p].op = op, ![p].key = k, ![p].variant = v,
                          ![p].quantity = n, ![p].stage = "lock"]
    /\ UNCHANGED <<cart, clock, locks>>

(* createOrder, after its commit: the client whose validate was answered   *)
(* clears with the version of that answer                                  *)
BeginClearAfterCheckout(p) ==
    /\ job[p].op = "validate"
    /\ job[p].saved > 0
    /\ job[p].stage = "done"
    /\ job' = [job EXCEPT ![p].op = "clear", ![p].expected = job[p].saved,
                          ![p].ordered = job[p].mine, ![p].saved = 0,
                          ![p].mine = Empty, ![p].stage = "lock"]
    /\ UNCHANGED <<cart, clock, locks>>

(* Keys in the order they are locked: a user's key sorts before a guest's  *)
LockKeys(p) == IF job[p].op = "merge" THEN <<User, Guest>> ELSE <<job[p].key>>

NextKey(p) == LockKeys(p)[Cardinality(job[p].held) + 1]

(* Mutant: adding to a cart does not wait for the lock *)
AcquireUnlessAdding(p) ==
    /\ job[p].stage = "lock"
    /\ job[p].op # "add" => lock[NextKey(p)] = None
    /\ IF job[p].op = "add"
       THEN job' = [job EXCEPT ![p].stage = "read"] /\ UNCHANGED lock
       ELSE /\ lock' = [lock EXCEPT ![NextKey(p)] = p]
            /\ job' = [job EXCEPT
                  ![p].held = @ \cup {NextKey(p)},
                  ![p].stage = IF Cardinality(job[p].held) + 1 = Len(LockKeys(p))
                               THEN "read" ELSE "lock"]
    /\ UNCHANGED <<cart, clock, late>>

(* acquireLock: SET key token PX 5000 NX                                   *)
Acquire(p) ==
    /\ job[p].stage = "lock"
    /\ lock[NextKey(p)] = None
    /\ lock' = [lock EXCEPT ![NextKey(p)] = p]
    /\ job' = [job EXCEPT
          ![p].held = @ \cup {NextKey(p)},
          ![p].stage = IF Cardinality(job[p].held) + 1 = Len(LockKeys(p))
                       THEN "read" ELSE "lock"]
    /\ UNCHANGED <<cart, clock, late>>

(* The lock was taken at each of 20 attempts                               *)
GiveUp(p) ==
    /\ job[p].stage = "lock"
    /\ To(p, "release")
    /\ UNCHANGED <<cart, clock, locks>>

(* Mutant: the lock is deleted whoever holds it *)
ReleaseAnyway(p) ==
    /\ job[p].stage = "release"
    /\ IF job[p].held = {}
       THEN job' = [job EXCEPT ![p] = Ended(@, "done")] /\ UNCHANGED lock
       ELSE LET k == LockKeys(p)[Cardinality(job[p].held)] IN
            /\ lock' = [lock EXCEPT ![k] = None]
            /\ job' = [job EXCEPT ![p].held = @ \ {k}]
    /\ UNCHANGED <<cart, clock, late>>

(* releaseLock of the lock taken last: deletes it if it holds the token    *)
Release(p) ==
    /\ job[p].stage = "release"
    /\ IF job[p].held = {}
       THEN job' = [job EXCEPT ![p] = Ended(@, "done")] /\ UNCHANGED lock
       ELSE LET k == LockKeys(p)[Cardinality(job[p].held)] IN
            /\ lock' = [lock EXCEPT ![k] = IF @ = p THEN None ELSE @]
            /\ job' = [job EXCEPT ![p].held = @ \ {k}]
    /\ UNCHANGED <<cart, clock, late>>

(* Mutant: the lock has no time to live *)
LeaseEndsNever(k) == FALSE /\ locks' = locks /\ UNCHANGED <<cart, clock, job>>

(* The lock's time to live ends, also while its holder is still at work    *)
LeaseEnds(k) ==
    /\ lock[k] # None
    /\ lock' = [lock EXCEPT ![k] = None]
    /\ late' = IF job[lock[k]].stage = "dead" THEN late ELSE late \cup {lock[k]}
    /\ UNCHANGED <<cart, clock, job>>

(* The cart service stops                                                  *)
Crash(p) ==
    /\ job[p].stage \notin {"new", "done", "dead"}
    /\ job' = [job EXCEPT ![p] = Ended(@, "dead")]
    /\ UNCHANGED <<cart, clock, locks>>

-----------------------------------------------------------------------------
(* Under the lock                                                          *)

(* getRawCart, for all but clear; a merge reads the guest's cart first     *)
ReadGuest(p) ==
    /\ job[p].stage = "read"
    /\ job[p].op = "merge"
    /\ job' = [job EXCEPT ![p].theirs = cart[Guest].items, ![p].stage = "read2"]
    /\ UNCHANGED <<cart, clock, locks>>

ReadCart(p) ==
    /\ \/ job[p].stage = "read" /\ job[p].op \notin {"merge", "clear"}
       \/ job[p].stage = "read2"
    /\ job' = [job EXCEPT ![p].mine = cart[job[p].key].items, ![p].stage = "check"]
    /\ UNCHANGED <<cart, clock, locks>>

(* Mutant: the version is not compared *)
ReadVersionIgnored(p) ==
    /\ job[p].stage = "read"
    /\ job[p].op = "clear"
    /\ To(p, "delete")
    /\ UNCHANGED <<cart, clock, locks>>

(* clearCart: a cart whose version is not the expected one is kept         *)
ReadVersion(p) ==
    /\ job[p].stage = "read"
    /\ job[p].op = "clear"
    /\ To(p, IF job[p].expected > 0 /\ cart[job[p].key].version # job[p].expected
             THEN "release" ELSE "delete")
    /\ UNCHANGED <<cart, clock, locks>>

DeleteCart(p) ==
    /\ job[p].stage = "delete"
    /\ cart' = [cart EXCEPT ![job[p].key] = NoCart]
    /\ To(p, "release")
    /\ UNCHANGED <<clock, locks>>

(* The cart's own checks and validateVariantStock                          *)
Check(p) ==
    /\ job[p].stage = "check"
    /\ Allowed(job[p])
    /\ To(p, IF job[p].op = "merge" THEN "drop" ELSE "save")
    /\ UNCHANGED <<cart, clock, locks>>

(* A check refuses, or the product service cannot be asked: the request    *)
(* fails with its cart unwritten                                           *)
Refuse(p) ==
    /\ job[p].stage = "check" => \/ ~Allowed(job[p])
                                 \/ job[p].op \notin {"get", "remove"}
    /\ job[p].stage \in {"check", "save"}
    /\ To(p, "release")
    /\ UNCHANGED <<cart, clock, locks>>

(* mergeGuestCartToUserCart deletes the guest's cart, then saves           *)
DropGuest(p) ==
    /\ job[p].stage = "drop"
    /\ cart' = [cart EXCEPT ![Guest] = NoCart]
    /\ To(p, "save")
    /\ UNCHANGED <<clock, locks>>

(* saveCart: calculateCart, which asks the product service again, and SET  *)
SaveCart(p) ==
    /\ job[p].stage = "save"
    /\ clock' = clock + 1
    /\ cart' = [cart EXCEPT ![job[p].key] =
                   [items |-> Apply(job[p], job[p].mine), version |-> clock']]
    /\ job' = [job EXCEPT ![p].stage = "release", ![p].saved = clock']
    /\ UNCHANGED locks

-----------------------------------------------------------------------------
Init ==
    /\ \E items \in InitialItems :
          cart = [k \in Keys |-> IF items[k] = Empty THEN NoCart
                                 ELSE [items |-> items[k], version |-> 1]]
    /\ clock = 1
    /\ lock = [k \in Keys |-> None]
    /\ late = {}
    /\ job = [p \in Requests |-> NewJob]

Step(p) ==
    \/ Acquire(p)
    \/ Release(p)
    \/ ReadGuest(p)
    \/ ReadCart(p)
    \/ ReadVersion(p)
    \/ DeleteCart(p)
    \/ Check(p)
    \/ Refuse(p)
    \/ DropGuest(p)
    \/ SaveCart(p)

BeginAny(p) ==
    \/ \E op \in Ops \ {"add", "update", "remove"}, k \in Keys :
          Begin(p, op, k, job[p].variant, job[p].quantity)
    \/ \E op \in Ops \cap {"add", "update"}, k \in Keys, v \in Variants, n \in Quantities :
          Begin(p, op, k, v, n)
    \/ \E op \in Ops \cap {"remove"}, k \in Keys, v \in Variants :
          Begin(p, op, k, v, job[p].quantity)
    \/ BeginClearAfterCheckout(p)

Next ==
    \/ \E p \in Requests : BeginAny(p) \/ Step(p) \/ GiveUp(p) \/ Crash(p)
    \/ \E k \in Keys : LeaseEnds(k)

Spec == Init /\ [][Next]_vars

(* A request goes on until it ends or its service stops, and every lease   *)
(* ends after its five seconds.  Giving up is never needed.                *)
Fairness == /\ \A p \in Requests : WF_vars(Step(p))
            /\ \A k \in Keys : WF_vars(LeaseEnds(k))

FairSpec == Spec /\ Fairness

-----------------------------------------------------------------------------
(* Properties                                                              *)

TypeOK ==
    /\ cart \in [Keys -> Cart]
    /\ clock \in Nat
    /\ lock \in [Keys -> Requests \cup {None}]
    /\ late \subseteq Requests
    /\ job \in [Requests -> Job]

(* A request that is not late owns every lock it took: what a late one     *)
(* releases is never the lock of its successor (releaseLock compares the   *)
(* token), so a late request endangers itself and those it raced with, not *)
(* the lock.                                                               *)
HoldersOwnLocks ==
    \A p \in Requests \ late : \A k \in job[p].held : lock[k] = p

Saves(p) == job[p].stage = "save" /\ job'[p].saved # job[p].saved

(* A write applies its operation to the cart as it is at that moment: no   *)
(* change made by another request since the cart was read is lost, as long *)
(* as no request outlives its lease.                                       *)
NoLostUpdate ==
    [][\A p \in Requests : late = {} /\ Saves(p)
          => cart'[job[p].key].items = Apply(job[p], cart[job[p].key].items)]_vars

(* A cart is deleted only as it was ordered or merged: what was put into   *)
(* it since the checkout read it, or since the merge did, does not         *)
(* disappear, as long as no request outlives its lease.                    *)
DropsOnlyWhatWasRead ==
    [][\A p \in Requests : late = {} =>
          /\ (/\ job[p].stage = "delete" /\ job'[p].stage = "release"
              /\ job[p].expected > 0)
             => cart[job[p].key].items = job[p].ordered
          /\ (job[p].stage = "drop" /\ job'[p].stage = "save")
             => cart[Guest].items = job[p].theirs]_vars

(* Every request ends, although requests stop while they hold locks that   *)
(* others wait for.                                                        *)
RequestsEnd ==
    \A p \in Requests : job[p].stage = "lock" ~> job[p].stage \in {"done", "dead"}
=============================================================================
