# Balii e-commerce platform: TLA+ specifications

This directory specifies and verifies the part of the Balii shop in which a
mistake costs money or goods: the path of an order from checkout through payment,
expiry, administration, refund and return, the outbox that announces payment
events, the carts that checkouts start from and the vouchers they use; and two parts
whose state lives in several stores at once, the images of the virtual try-on and the
chatbot's vector index. `PROJECT.json` lists runs, mutants, the correspondence of
every definition with source lines, findings, hazards and theorems.

    tlc -workers 2 -config OrderPayment_payments.cfg MCOrderPayment
    tlapm CheckoutProofs.tla

## 1. The system

Nine NestJS services behind an API gateway share one PostgreSQL database (one
schema per service, but order and payment service write to each other's tables),
Redis, Kafka and a Camunda 7 engine.

| Part | State | Operations | Interacts with |
|---|---|---|---|
| order-service | `orders` (status, `inventory_state`), `order_items`, `return_requests`; writes `product_variants.stock_quantity/reserved_quantity`, `vouchers.used_count`, `voucher_usages`, `payments` | `createOrder`, `updatePaymentStatus`, `updateOrderStatus`, return requests: create, review, receive, complete | product, voucher, cart over HTTP; called by payment |
| payment-service | `payments`, `payment_webhooks`, `refunds`, `outbox_events` | `createPayment`, `createOrReusePayment`, `persistPaymentResultTransaction`, `markExpiredTransaction`, reconciliation, refunds | calls order-service after its commits; Camunda external tasks; gateways' callbacks |
| Camunda processes | tokens and external tasks | payment process (wait for callback, 15 min timer, expire, release), refund process | worker in payment-service |
| outbox publisher | `outbox_events` | claim under a lease, send, mark | Kafka |
| cart-service | Redis carts | add, update, merge, conditional clear, under a leased lock | order-service clears after checkout |
| voucher-service | `vouchers`, `voucher_usages` | administration, validation, redeem | read and written by checkout |
| product-service | products, variants, stock | CRUD, stock correction | stock shared with order-service |
| virtual-tryon-service | `tryon_histories`, images at Cloudinary | create, poll, design, save, cleanup timer | the model's provider, Cloudinary |
| chatbot-service | collection at Qdrant; signature, wish to recreate and running synchronisation in memory | search, reindex, shared synchronisation | product-service, embedding model, Qdrant |
| user-service, api-gateway, market-analysis, frontend | accounts, none, reports, none | CRUD, proxying, scraping | HTTP |
| ai-service (Python), scripts | none | inference, a wrapper of a search script, production of documents | HTTP |

What is hard: several writers of one order (customer, administrator, gateway
callback, timer, reconciliation job, refund process) in two services; results that
are decided in one step and applied in a later one; an HTTP call after a commit
that can be lost; external tasks that run again after a failure; leases that end
under their holder; counters at their limit (last unit, last voucher use, last
retry); rows locked in different orders; entities read without a lock and saved
whole; changes in two stores of which the second may fail.

What makes the parts correct:

- **orders and stock**: units are neither lost nor invented; nothing is promised
  twice; the inventory state follows the order status; orders never move backwards;
- **payments**: a decided payment stays decided; a cancelled order has no money; goods
  leave only for money or cash on delivery; an expired payment releases its stock;
- **vouchers**: the count is the number of uses, within both quotas;
- **outbox**: at-least-once, nothing published that was not sent, duplicates only
  after faults, nothing left behind;
- **refunds**: the provider pays out no more than was paid; rows and payment follow
  what the provider did;
- **returns**: one active request per order, units within what was bought, refunds
  that add up to the merchandise total and follow the money;
- **carts**: no update of a cart is lost, a deleted cart holds what was ordered or
  merged and nothing more, a request that stops keeps nobody waiting;
- **voucher administration**: edits and uses at the same time leave counter, quotas
  and configuration within known limits;
- **checkout**: one order per visit of the checkout page, placed as a whole or not at
  all; every checkout ends;
- **try-on**: an image is named by a row or gone, a live result has its image, saved
  results are kept, expired ones deleted;
- **vector index**: the signature that saves a synchronisation is true, a reindex
  rebuilds, searches see the catalogue in the end.

## 2. Modules

### OrderPayment

Orders, stock, one voucher and payments. Every database transaction is one
action: each locks the order row first, or is a single UPDATE. Everything the
code does *outside* a transaction is a separate step:

| Variable | Code |
|---|---|
| `status`, `inv` | `orders.status_id` (by code), `orders.inventory_state` |
| `stock`, `reserved` | `product_variants.stock_quantity`, `reserved_quantity` |
| `supplied` | history: units put on the shelf from outside (initially, by corrections, by returns) |
| `usedCount`, `usages` | `vouchers.used_count`, rows of `voucher_usages` |
| `pay` | rows of `payments` in order of `created_at`; `paidAt`: `paid_at` is set; `checkoutKey`: inserted with the key `checkout:<order>:<method>` |
| `attempts` | requests of `createPayment`/`createOrReusePayment` between their reads and the INSERT |
| `waiting` | process instances at the message catch event |
| `expiring` | payments the timer or the reconciliation job decided to expire, before `markExpiredTransaction` |
| `calls` | `updateOrderPayment` HTTP calls after a commit, deliverable or lost |
| `releaseTasks` | open `order.cancel-release` tasks |

Data left out: prices and amounts (a refund is full or partial), signatures (a
callback verifies or does not), addresses, item details. `Qty` gives the units per
order and variant. The early return of `transitionInventoryInTransaction` for an order
already in its target state is not modelled because no caller reaches it: that is
what `StatusInventory` shows.

### Checkout

`createOrder` statement by statement: the lookup of the key, the snapshot of the
cart, BEGIN and the second lookup, the voucher `FOR UPDATE`, one conditional UPDATE per
line, the INSERT under the unique index, COMMIT, the recovery after 23505 and the
conditional clearing of the cart. It runs between other checkouts, cancellations
(also by statements), changes of the cart, and the product service's `update` and `remove` of
a variant. `OrderPayment` takes the transaction as one step; `PlacesAtomically` is what
justifies that.

| Variable | Code |
|---|---|
| `row` | committed `product_variants` rows: stock, reserved, active |
| `used`, `order` | `vouchers.used_count`; orders (named by the request that placed them) with `inventory_state`, lines, voucher usage |
| `cart` | lines and `updatedAt` of a user's cart |
| `lock`, `pend` | row locks of PostgreSQL and uncommitted changes of `reserved_quantity` |
| `req`, `cancel`, `removal` | how far each `createOrder`, cancellation and `remove` is |
| `stale` | history: variants whose quantities a `remove` has set back |

READ COMMITTED is modelled by what the statements rely on: a row written or read `FOR
UPDATE` stays locked to the end, others see its changes after the commit, a cycle of
waits costs one of its transactions (`DeadlockVictim`), the CHECK constraint of the
variants may refuse a write-back. Left out: prices, address, voucher dates (refusals are
`Fail`), the locks of the cart (`CartLock`).

### TryOnMedia

The image of a try-on or design at Cloudinary (`image`) and its row in
`tryon_histories` (`row`). Polls, designs, saves and the cleanup take one step per call of
Cloudinary or the database; each call may fail, an upload, UPDATE or INSERT may be done
although an error is reported, and a poll or design may stop. `now` counts periods in which retention is
measured. `promised`, `untracked`, `undone`, `shortened`, `savedLate` are histories that
name the exceptions of the properties. Left out: analysis of photos, warnings, the models.

### VectorIndex

The synchronisation of Qdrant's collection (`exists`, `points`) with the catalogue
(`corpus`): `synced`, `force` and `sync` are `syncedSignature`, `forceRecreateOnNextSync` and
`syncPromise` with the progress of `performSync`. A document is its own batch. `late` holds
uploads that timed out, or were under way when the process stopped, and may still be applied.
Two histories name the exceptions of the properties: `overwritten` has the documents
whose point a late upload has changed since they were uploaded, `behind` says that an
upload of other documents than those of the signature has failed since the signature was
stored. A signature is the documents it was
computed from. Left out: vectors, ranking, the keyword fallback.

### EventDelivery and PaymentOutbox

`EventDelivery` is the abstract promise: events are delivered after they are
recorded and each delivery beyond the first is covered by a fault.
`PaymentOutbox` is the publisher: claim, send, markPublished and markPublishFailed as
separate statements, any number of publishers, crashes, lost answers and leases
that end early. `ImplementsDelivery` is the refinement. Time is reduced to `due`
(`next_retry_at` is NULL or past).

### RefundLedger

The refunds of one paid payment. Every external task of the refund process is one
step; what a task puts into process variables for a later one is kept in `wf`.

| Variable | Code |
|---|---|
| `row` | rows of `refunds` by idempotency key (unique in the database) |
| `payStatus`, `refunded` | `payments.status`, `refunded_amount` |
| `orderStatus` | the order's status as far as the process reads it |
| `wf` | process instances: phase (task it stands at), amount, routing variables, correlated result |
| `asked`, `outcome` | external: what the provider was asked and decided |
| `completed` | `payment.refund.completed` events written to the outbox (counted up to `MaxEvents`) |
| `overruled` | history: keys whose row one process has failed while another process of the same key went on, before the provider had declined |

Nothing in the code keeps an administrator from starting a key again. What that does to the
reservations is the finding of section 6; the three properties of the passing run allow it
(`KeyStarts = 2`) and name the refunds it concerns through `overruled`. Amounts are sums over sets of units of money, so that
proofs can count with cardinalities.

### ReturnLifecycle

The return requests of one delivered order. Every handler is one transaction,
except `receiveReturnRequest`, whose call to the payment service and whose UPDATE after
it are steps of their own, so that answer, error, result and a stop of the order
service interleave.

| Variable | Code |
|---|---|
| `req` | `return_requests` with items (asked, taken back, refund per item), status, refund status, approved amount; the refund process of the request and whether the handler still awaits its answer |
| `orderStatus`, `restocked` | the order's status; units put back by `restock` dispositions |
| `discount`, `online` | `orders.discount_amount`; paid by a method with provider refunds enabled, not by COD |
| `adminRefund` | refunds of the payment outside of returns |

Money is counted in the smallest unit `roundMoney` keeps. Discounts, gift combo and the
bound of the requests may depend on the way of payment, so that one run can go deep where
each needs it. Left out: the return
window of seven days, evidence images, reasons, notifications.

### CartLock

A guest's and a user's cart in Redis. Every Redis command and every wait for
another service is a step. A merge takes both locks in the order of the keys.
A checkout is a `validate` followed by a `clear` with the version it was answered.

| Variable | Code |
|---|---|
| `cart` | items and `updatedAt` of each cart key |
| `clock` | source of `updatedAt`; two writes never get the same one |
| `lock` | token in each lock key (`SET NX PX 5000`, release by comparing the token) |
| `late` | history: requests at work when a lease of theirs ended |
| `job` | requests: operation, stage, held locks, what was read |

Left out: prices, gift lines, the time to live of carts.

### VoucherAdmin

One voucher between its administration and its use. An edit is three steps:
`findOne`, and the SELECT and the UPDATE that TypeORM's `save` consists of; the UPDATE writes
the columns in which the entity differs from the SELECTed row, changed by this
request or, since `findOne`, by somebody else. Checkout, `redeemVoucher` and cancellation
lock the row and are one step each.

| Variable | Code |
|---|---|
| `row` | the row of `vouchers` |
| `placed`, `cancelled`, `discount` | orders; rows of `voucher_usages` with `discount_amount` |
| `edit` | `update` and `remove` requests: entity, columns to write |
| `now` | the current period, compared with `start_date` and `end_date` |
| `overlaps` | history: uses and releases during an edit |

`redeemVoucher` is part of the service although no controller route calls it. Left
out: saved vouchers of users, listing, code and texts.

### MC modules and proof modules

Each `MC` module gives the constants of one specification their small values. A module
`XProofs` extends `X`; it holds the theorems about `X`, the inductive invariant and
the lemmas they rest on (section 5).

## 3. Runs

| Run | Instance | Shows |
|---|---|---|
| `payments` | 1 order, 1 variant, VNPay and COD, 2 payments, 1 open job | types, `StatusInventory`, `CancelledNotPaid`, `FulfilledWasPaid`, `StatusForward`, `DecidedOnce` under every interleaving of checkout, callbacks, expiry, administration, refunds |
| `stock` | 2 orders of one user wanting 2 + 1 of 2 units, one voucher use, stock corrections, one VNPay payment, fair tasks | `InventoryAccounting`, `NoOverselling`, `VoucherAccounting`, `ExpiryReleasesStock` |
| `checkout` | 2 requests with the same key, or of 2 customers who compete for stock or the voucher; carts that list 2 variants in opposite orders; a lowered stock, a removed variant, a changed cart; fair | `OncePerKey`, `InventoryExact`, `VoucherExact`, `ClearedWasRead`, `PlacesAtomically`, `CheckoutEnds` |
| `outbox` | 2 events, 2 publishers, batches of 2, 2 retries, 3 faults, fair | `PublishedWasSent`, `ImplementsDelivery` (duplicates never exceed faults), `EventuallySettled` |
| `refund_ledger` | a payment of 3, refunds of 3 keys (one of a return), 3 process instances, each key started up to twice | `PaidOutWithinPayment`, `RowsFollowProvider`, `LedgerAgrees` |
| `returns` | 2 items; paid online: 2 requests, a combo, refunds of 1 or 3 outside of returns; by hand: 3 requests, every discount from none to all | `ReturnedUnits`, `CompletedWasPaid`, `ApprovedWithinTotal`, `RefundsAddUp`, `ClosedRequestsFinal` |
| `carts` | 2 clients, 2 carts, 2 variants, every operation, fair | `HoldersOwnLocks`, `NoLostUpdate`, `DropsOnlyWhatWasRead`, `RequestsEnd` |
| `vouchers` | 2 edits, 3 orders of 2 users, 2 periods | `DriftBounded`, `UseWithinLimits` |
| `tryon` | 1 job, 1 design, 1 user and anonymous customers, 2 polls, cleanup of one row at a time, 4 periods, 1 fault, fair | `ImagesTracked`, `LiveResultHasImage`, `SavedKept`, `ExpiredDeleted` |
| `vector_index` | 2 documents of 2 contents, 2 callers, 3 changes, 2 faults, fair | `SignatureHolds`, `ReindexRebuilds`, `EventuallyFresh` |
| `reverted`, `refund_restarted` | as small as the scenario needs | violations, see section 6 |

**Bounds.** Two payments suffice for every race between payments of one order
(an old and a new one, two methods); two orders for competition over one unit and
over one voucher use; `MaxQty = 2` lets one order take several units. `MaxAttempts`,
`MaxJobs`, `MaxSupplied` only bound how much is under way at once. The theorems
of section 5 hold for all values of these constants. For the outbox, 3 faults allow a
crash, an expired lease and a lost answer in one behaviour. Three refunds are enough for
two that fit together and one that does not; two return requests for a late answer to
an old one while a new one is open; three for roundings that add up. Each race
for a cart lock, of a merge and of a clear after checkout, is between two
requests; `MaxLines = 1` makes the limit matter for additions and merges. Two edits are
needed for a stale copy that restores what another edit changed, three orders of two users
for both quotas. Two checkouts make every pairwise race of statements, and with
their cancellations up to four transactions for a circle of waits; `EditAt`,
`MaxRemovals` and `Edits` allow the disturbances where they matter. Two polls share an image,
retention times of 2 and 3 periods let an anonymous result expire before a saved one,
and one fault is what each exception of the properties needs; a batch of one makes the
cleanup leave rows behind. Three changes let the catalogue return to an earlier state,
two faults let a failed synchronisation meet a late upload.

**Fairness.** `OrderPayment!Fairness`: Camunda hands an external task out again
until it is completed (`handleFailure` always leaves three retries), so mark-expired
and cancel-release are eventually done; an HTTP call in flight ends, delivered or
lost (weak fairness of `DeliverCall` is met by `LoseCall` disabling it). Nothing
obliges customers, administrators or gateways to act. `PaymentOutbox!Fairness`: the
poll timer fires again, awaits end, time passes. No fairness on faults.
`CartLock!Fairness`: a request goes on (its awaits end) until it ends or its
service stops, and Redis ends every lease; giving up after the retries is allowed and
never needed. `Checkout!Fairness`: services and database answer, the database ends a
transaction of every circle of waits, and a statement that waits for a row gets it in
turn (strong fairness, since others may take the row in between; PostgreSQL queues
the waiters of a row). Failures are allowed at any step and never needed.
`TryOnMedia!Fairness`: the cleanup's interval timer goes off again and its calls return.
`VectorIndex!Fairness`: calls of a synchronisation return and customers go on asking;
`EventuallyFresh` also assumes that reindex requests end (`<>[](~force)`).
The other modules assert no liveness: after a failed or rejected refund
the code takes no further step by itself (section 6).

**History variables.** Some properties hold only while leases outlast their
requests (`NoLostUpdate`, `DropsOnlyWhatWasRead`), up to the number of overlaps
(`DriftBounded`, `UseWithinLimits`), or but for named exceptions (`InventoryExact`, the
properties of `RefundLedger`, `TryOnMedia` and `VectorIndex`). The histories `late`, `overlaps`, `stale`,
`overruled`, `untracked`, `undone`, `shortened`, `savedLate`, `overwritten` and `behind` say so exactly; the code can
leave these conditions, and section 6 says what happens then.

**Deadlock** is checked in `vector_index`. Elsewhere a shop where every order is final,
an outbox with nothing to publish, clients that are done or a clock at its bound are
proper ends; that nobody waits for ever is stated as `RequestsEnd` and `CheckoutEnds`.

## 4. Mutants

Each property of a passing run has a mutant definition, placed before the one it
replaces and marked `Mutant:`, that a plausible slip in the code would give
(a forgotten restock, a dropped status check, an ignored lease) and that the run
then rejects.

## 5. Proofs

Eight modules hold theorems; each is proved for every value of the constants, that is for
any number of orders, requests, publishers, keys and so on, under the assumptions named in
the module it extends. Theorem `XCorrect` states that property `X` of a run holds for the specification
(`Spec`; `IndexSpec` in `VectorIndex`, without its fairness). Every invariant and action
property of a passing run is proved; the liveness properties are not.
Each property was model-checked on its run's instance before it was proved.

### OrderPaymentProofs

For all finite sets of orders, any variants, quantities, quotas and bounds:

- `TypeCorrect`, `StatusInventoryCorrect`, `StatusForwardCorrect`, `DecidedOnceCorrect`;
- `InventoryAccountingCorrect`: the number of units held by reserved and committed
  orders is the cardinality of a set of (order, index) pairs, so that each step's
  effect is a disjoint union or a set difference; it needs `StatusInventory`, because
  an order that commits must still be in state `reserved`;
- `NoOversellingCorrect`, `VoucherAccountingCorrect`;
- `CancelledNotPaidCorrect`;
- `FulfilledWasPaidCorrect`: not inductive by itself. The strengthening
  `PaidEvidence` adds that a call with kind `paid` is in flight only for an order with a
  payment whose `paid_at` is set, and that a payment that is paid has it set.

### CheckoutProofs

`TypeCorrect`, `OncePerKeyCorrect`, `InventoryExactCorrect`, `VoucherExactCorrect`,
`ClearedWasReadCorrect` and the action property `PlacesAtomicallyCorrect`. None of them is
inductive: between two statements of a transaction its own changes are pending, and
what another transaction may do meanwhile depends on the locks held. `CheckoutInv`
therefore says of every request, by the stage it is at,

- `KeyInv`: its order does not exist before its commit, and when it is about to commit it
  holds the lock of its key and the key is unused;
- `HoldsVoucher`: from the check of the limits to the commit the voucher's row is locked;
- `CartInv`: as long as the cart has the version of the snapshot it has its lines, and
  only those are cleared;
- `LinesInv`: exactly the units of the lines done so far are pending, and their variants
  are locked, active and in stock;
- `CancelInv`: the same for a cancellation, of the variants of its plan;

and, of all together, `OneOrder` (one order per key), `VoucherExact` and `InventoryExact`. A
step of one transaction leaves the facts about another alone as long as it touches only
rows that the other has not locked: `Rely` and `Frame` name what must stay, and each
action has a lemma for itself and one for the others.

### PaymentOutboxProofs

- `TypeCorrect`;
- `PublishedWasSentCorrect`, with `LoopInv`: a publisher works on an event of its
  batch, and after `producer.send` the broker has it;
- `ImplementsDeliveryCorrect`: every step is a step of `EventDelivery` or a stutter. The abstract
  specification allows a duplicate only for a fault. `Covered` makes this inductive: for
  each event the deliveries, the publishers that may still send it and the right to claim its
  row without another fault do not exceed the faults by more than one.

### RefundLedgerProofs

`TypeCorrect`, `PaidOutWithinPaymentCorrect`, `RowsFollowProviderCorrect` and `LedgerAgreesCorrect`,
for any amounts and keys and any number of starts of each. The finding `refund_restarted` shows
that what is reserved is not bounded by the payment, so the argument rests on less: `LedgerInv` bounds
the reservations of keys that are not overruled (`HoldingWithinPayment`), and `Fits` says that
whatever a process is about to ask for or has asked for has a row that is `Sound` (it says
failed only if the provider has declined or the key is overruled), and that what a process persists is
the provider's result on that refund, although results are correlated by payment. The
payout is bounded because what the provider paid and is not overruled is part of what is held. `Agreement`
is the part of `LedgerAgrees` about announcements, `refunded_amount` and the status.

### ReturnLifecycleProofs

`ReturnedUnitsCorrect`, `ApprovedWithinTotalCorrect`, `CompletedWasPaidCorrect` and the action property
`ClosedRequestsFinalCorrect`, `RefundsAddUpCorrect` and `TypeCorrect`, for any order, prices, discount
and number of requests. Sums are cardinalities of sets of pairs (`Total`); lemmas say what a
term more, a changed term and smaller terms do to them. `ReturnInv` adds

- `RowsFit`: nothing is taken back, approved or started before a request is received; a
  completed request that was not paid back was approved for nothing; an answer is
  awaited only for a call that was sent;
- `OneActive`: at most one request is open. Without it two requests could be cut
  to the same remaining amount;
- `ClaimedWithinBought`: the units that `previousQuantity` counts stay within what was
  bought, from which the bound of the units taken back follows.

Every step either creates a request, receives one, or is `Quiet`: no amount, unit or closed
status changes, and what the provider has paid does not shrink.

`RefundsAddUp` is about what a loop computes: `allocateReturnItemRefunds` gives each item its
rounded share of the amount, cut to what is left, and the rest to the last one, in the order in
which the rows happen to be read. `Upwards` is induction on the natural numbers as the argument
by the least counterexample (the library's well-foundedness of `<`). From it follow that a
sum over a sequence of items telescopes (`Telescope`) and that after `n` items the rest is the
amount less what they were given (`GivenInSteps`), hence `AllocationAddsUp`. The other half is
an inductive statement about all requests, `RoundedFairly`: what is approved falls short of
the share of what was taken back by at most half a unit per received request, or is all of the
merchandise. `AddUpInv` is `ReturnInv` with it and with `RowsAddUp`.

### CartLockProofs

- `TypeCorrect`, with `Shapes`: which locks a request holds at which stage of which operation;
- `HoldersOwnLocksCorrect`;
- `NoLostUpdateCorrect`, `DropsOnlyWhatWasReadCorrect`: as long as no lease has ended early
  (`late`), `ReadIsCurrent` says that what a holder has read is what the cart still is, and
  `VersionsName` that a version names the contents of one write.

### TryOnMediaProofs

`TypeCorrect`, `ImagesTrackedCorrect`, `LiveResultHasImageCorrect` and `SavedKeptCorrect`, for any number of
try-ons, designs and polls, any bounds of time and faults. No call holds a lock, so the argument is about
time: a poll, a few calls long, ends before a retention counted in hours is over (the guard of
`Tick`), so a row cannot expire under it (`PollTimes`, `WorkInTime`), and what the cleanup or a read of an expired result deletes has
expired and stays so unless it is saved late (`HeadRemoved`, `ExpiredRows`, `QueueRemovals`). `IInv`
says besides which image each stage of a poll, a design, a save and the cleanup has in hand
(`PollRemovals`, `Holders`, `RecordImages`, `DesignImages`, `SaveRows`, `Claimed`), what the rows look like
(`RowShape`), that a live row has its image (`LiveImages`), and that a promise is at most the row's
expiry (`Promises`). The three properties follow from it for media that no call works on.

### VoucherAndIndexProofs

Two components that share neither state nor lemmas; each part of the module stands by itself.

*VoucherAdmin*: `TypeCorrect`, `DriftBoundedCorrect` and the action property `UseWithinLimitsCorrect`.
`DriftBounded` speaks of the row; an UPDATE may write back an old count, so `DriftInv` bounds the
drift of the copy in every open edit too.

*VectorIndex*: `IndexTypeCorrect`, `SignatureHoldsCorrect` and the action property `ReindexRebuildsCorrect`.
While an upload runs the index is right only for the documents that are no longer in the
queue (`QueueOfRead`, for whatever order the batches have). `SignatureKept` carries the old signature to
the moment the first batch is written, `Signed` says that there is a signature only while the collection
is there and may stay, and that it is not the one of the documents being uploaded, so that a failed
upload leaves it `behind`. `NoCollection` says that a collection that is created is empty,
and `ForceSeen` that a reindex in time finds `force` set or the collection recreated.

### Assumptions

Those named in the specifications, which TLC evaluates on the instances: finite sets of
orders, requests and publishers, constants of the obvious types, prices of which one is
positive, at least one variant and quantity to choose from (`CartAssumption`), values that the
DTO lets through (`VoucherAssumption`), at least one try-on, which is not a design (`TryOnAssumption`), a
catalogue that is not empty at the beginning (`IndexAssumption`), and markers such as `None` and `Null` that are different
from what they mark.

### Only model-checked

`ExpiryReleasesStock`, `EventuallySettled`, `RequestsEnd`, `CheckoutEnds`, `ExpiredDeleted` and
`EventuallyFresh`: liveness under fairness is outside the prover's reach.

## 6. Where documents and code disagree

The first two are runs that TLC must refute.

- `reverted`: a payment recorded as paid can be set back to `failed` by an expiry
  already decided (`markExpiredTransaction` has no condition on the status).
- `refund_restarted`: a second refund process with the same idempotency key is rejected
  because of the first one's reservation and turns the first one's row into a failed
  one; the balance is given to another refund while the first goes on, and the
  reservations exceed the payment.
- docs/deep-tech-explainer.vi.updated.md:258 says that refunds of returns are limited by
  what was refunded before. When the answer of the payment service is lost, the request
  counts as failed and can be paid back by hand while the provider's refund goes on, so
  that both are paid (behaviours of `ReturnLifecycle`, `DispatchError` before
  `CompleteManualReturnRefund`).
- docs/DEMO-GUIDE.md:69 says that a reindex rebuilds the vector index. One that comes when
  a running synchronisation has already looked at the collection is answered with
  success although nothing was rebuilt, and the wish is reset (the exception `inTime` of
  `ReindexRebuilds`).

- order-service.service.ts:1133 says, in the error that a partly returned gift combo causes,
  that products outside of the combo are not affected. The check is made for every gift
  campaign of the order, whatever the request names: as long as units of the combo can be
  returned, a request for other products only is refused (last conjunct of
  `Acceptable` in `ReturnLifecycle`).

Other behaviours that the models contain and that a maintainer may want to know,
without a statement in the repository that they contradict:

- An order may have pending payments of two methods, and both can be paid.
- After a complete refund an unshipped order cannot be cancelled, because `refunded`
  counts as a settled payment.
- When the one HTTP call after the commit is lost, the order of a paid payment stays
  `pending` until somebody acts.
- Two publishers of one event (after a lease that ended early) can count
  `retry_count` past its limit.
- A persistence task that runs again after its commit writes a second completion event.
- Refund results are correlated by payment: with two waiting refunds a result can reach
  the other's process, or none.
- A failed refund is never retried and never reviewed: the variable its gateway tests
  is set only behind it. A rejected refund of a return is never reported to the
  order service, and the request stays `refund_pending`.
- A cart request that outlives its lease overwrites what its successor wrote. A merge
  that fails after it deleted the guest's cart loses those items. Looking at the cart
  between checkout and clear changes its version, and the ordered items stay in the
  cart.
- Overlapping voucher edits can undo `used_count`, reactivate a removed voucher and
  leave a percentage above 100; `UseWithinLimits` shows that even then no
  order gets a discount above its amount.
- `remove` of a variant writes back the quantities it read if they changed between its two
  reads: reservations made meanwhile are forgotten, after which cancelling such an
  order is refused as inconsistent (`stale` in `Checkout`).
- A second request of a visit that finds the order inside its transaction clears the
  cart it has read, also if it differs from what was ordered; one that finds it before, or
  after 23505, leaves the cart alone. An old page keeps its key, and is answered with
  its old order.
- Checkouts lock the voucher first, cancellations last, both lock variants in different
  orders: PostgreSQL ends one of them in a circle of waits, and the customer sees an
  error that a retry with the same key resolves.
- A poll of a try-on whose UPDATE was done but reported as failed deletes the image it
  has recorded, and so does a design whose INSERT was done but reported as failed
  (`saveHistorySafely` returns null for both): the history of its owner then shows a
  completed design without an image (the exception `undone` of `LiveResultHasImage`). Of two overlapping polls one can delete the image of the other. A late
  anonymous poll shortens the time a saved result was promised. Saving does not look at
  the expiry: a result saved while it is cleaned up loses its image. A stop between
  upload and record, or an upload that was done although its answer was lost, leaves an
  image behind that no row names: of a design for ever, of a try-on until a later poll uploads it again.
- A failed synchronisation of the vector index keeps the signature of the last success.
  If the catalogue returns to the state of that signature, the points of the failed upload
  stay until the next change or reindex (the exception `behind`). An upload that is applied
  after its client has given up stays until its document is uploaded again (`overwritten`). Points of removed products stay until the collection
  is recreated.

## 7. Not modelled

Pricing, promotions, gift campaigns and shipping fees (data of the steps modelled);
user accounts and the catalogue's administration but for variants (reads and writes of
single rows); the gateway's rate limit (one atomic Lua script); retrieval, prompts and
image models; market analysis (scraping, reports); notifications (best-effort I/O); the
frontend.

The platform is written in TypeScript. Its Python code is small and apart from the core:
the Lens worker and the gender and age service keep no state between requests, the
scripts produce documents. `.tmp_paramiko` is a temporary copy of third-party Python
packages (paramiko, cryptography, cffi, pycparser, invoke) that nothing in the platform
imports; by size it is most of the repository's Python, and it is left out as vendored
code, as is generated code.

## 8. Plan

Done: `OrderPayment`, `Checkout`, `EventDelivery`, `PaymentOutbox`, `RefundLedger`,
`ReturnLifecycle`, `CartLock`, `VoucherAdmin`, `TryOnMedia` and `VectorIndex`, each with its proofs.
Left: the composition of `ReturnLifecycle` with `RefundLedger`, which see each other
through a request's `run` and `ReturnKeys`.
