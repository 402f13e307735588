# Verification of the StarPay payment gateway

StarPay (Go, `src/cmd`, `src/internal`, schemas in `src/ent/schema`) sits between merchants and
Alipay, WeChat Pay and PayPal. It creates orders, starts payments at a provider, learns what became
of them from notices, PayPal returns and queries, and tells the merchant by webhooks. This directory
holds TLA+ models of its core, the TLC configurations that check them and TLAPS proofs about them.

## 1. Inventory

One Go process holds the HTTP server and, as goroutines (`cmd/server/main.go`), one worker and one
scanner each for webhooks, refunds and reconciliation, one order expiration scanner and a
configurable number of order expiration workers. Several processes may share the database and Redis.
State is in SQL tables; work is handed over by Redis streams. A worker reads with
`XREADGROUP ... >`: it sees new entries only, so a message read by a process that dies is never
delivered again. The scanners (a 30 s ticker) repeat what is still due.

| Component | State | Operations | What makes it hard | What makes it correct |
|---|---|---|---|---|
| Payment orders (`orders/service`, `orders/repository`) | `payment_orders` | create, `ApplyPaymentResult`, `MarkPaid`, `MarkFailed`, close by administrator or merchant, edit | every operation reads, decides and writes in separate calls; results come repeated, late, out of order | the events a merchant sees agree with the row; a closed order is never paid, a paid one never closes; money taken is announced |
| Checkout (`orders/handler/checkout_handler.go`) | - | start a payment and bind the order, PayPal return, ask for a query | the row is read before the provider is called and written after | the locks of channel and account; no capture for an order that ended |
| Order expiration (`orders/service/worker.go`, `enqueuer.go`) | `expires_at`, stream `order:expirations` | scan, close | messages repeat and get lost; a payment may be bound meanwhile | an unbound order does not stay pending; a bound one is left to reconciliation |
| Refunds (`refunds/*`) | `refunds`, stream `refund:processing` | reserve, call, apply the answer, retry schedule, administrative retry | request and worker call the provider at once; answers get lost; stale writes | never more paid back than was paid; no amount released while money may leave; announced as settled |
| Reconciliation (`reconciliations/*`) | `payment_reconciliations`, stream | ensure, claim, query, apply, close the trade, expire, resolve, reschedule, recover stale, active query, retry | slow workers taken for dead, answers that are old when applied, crashes | a record ends; a bound order is decided, as the provider decided |
| Webhooks (`webhooks/*`) | `webhook_events`, `webhook_deliveries`, stream | record an event, ensure its delivery, post, retry schedule, administrative retry | two recorders, two workers, repeated messages, lost answers | one event and one delivery; succeeded means accepted; failed means tried; every delivery settles |
| Provider adapters (`payments/*`) | - | start, query, close, capture, refund, parse notices | providers differ: PayPal cannot close, Alipay has no trade before the page is used | callers see one vocabulary of statuses |
| Order creation (`orders/service`, `open_handler.go`) | `payment_orders`, unique `(app_id, merchant_order_no)`, `checkout_token_hash` | create, repeat, conflict, rotate the checkout token | look-up, check of the app, second look-up and insert are separate calls; equal requests at once; the answer is lost; the request is compared with a row that was changed since | one order per number; all who are answered get it; a conflict has a reason; one of them holds a link that works |
| Routing (`routing/*`) | `routing_rules`, `routing_targets` | save, enable, resolve for the payment methods of a page | accounts, rules and targets are read in calls of their own while administrators save | an account is offered only if it was enabled, covered and a target; none that is covered is lost |
| Open API authentication, rate limit (`platform/httpx`) | Redis keys | check signature window, replay, count | a counter whose lifetime every request renews | never more than the limit in a window; an app that kept quiet is served |
| PayPal checkout (`checkout_handler.go`, `provider/paypal`) | `provider_order_no` | start, return and capture, notice, query | every start creates another order at PayPal; the row is read before and written after | captured only for a number the row held, once; paid only by a capture |
| Migration of webhooks (`platform/database`) | tables and indexes of webhooks | look, add columns, fill, require, drop the old index, create the schema | statements commit one by one; crashes, other servers, rows the old version writes late | a server serves only over migrated tables; no event twice; it comes up |
| Apps, users, roles, configuration, monitoring, console, SDK | single rows | administration | two first readers of the configuration create it twice | - |

Interactions: checkout calls a provider and binds the order; notices, PayPal returns and
reconciliation all end in `ApplyPaymentResult`; orders and refunds call the webhook service to record
events (in their transaction for closes and expiries, afterwards for payments and refunds); the
webhook worker posts. `PROJECT.json` lists the hazards with their lines.

## 2. Modules

| Module | Models | Composes |
|---|---|---|
| `OrderLifecycle` | what a merchant may rely on about one order: its statuses and the events announced | abstract |
| `PaymentOrders` | one order row and every call that races on it, database call by database call, down to the event and its delivery row | implements `OrderLifecycle` |
| `Refunds` | the refunds of one paid order: requests, workers, scanner, provider, administrator | |
| `Reconciliation` | the record of one bound order and the workers that decide the order | its order *is* `OrderLifecycle`: the abstract module stands for all of `PaymentOrders` |
| `WebhookDeliveries` | deliveries from the insertion of their row to their end | starts where `PaymentOrders` inserts the row |
| `OrderCreation` | the create requests of one number, and what changes the order or the app meanwhile | its orders are the initial states of `PaymentOrders` |
| `PaypalCheckout` | one order paid with PayPal: starts, approvals, returns, captures, notices | the PayPal side of a trade of `PaymentOrders` |
| `Routing` | rules, targets, accounts, and one request for the payment methods | |
| `RateLimiter` | the counter of one app on one route, over time | |
| `WebhookMigration` | servers of this version that start over the tables of the old one | prepares the tables `WebhookDeliveries` uses |
| `MC*` | the small instances; `MCLiveness` and `MCPlatform` put components side by side | |
| `*Proofs` | theorems, one module for each component; `PlatformProofs` for `RateLimiter`, `Routing` and `WebhookMigration` | extend what they are about |
| `SumLemmas` | sums over finite sets | used by `RefundsProofs` and `PlatformProofs` |

How state and actions correspond to the code (every definition has its lines in `PROJECT.json`, "map"):

**PaymentOrders.** `order` is the row; accounts stand for provider numbers and trade numbers, since
one trade exists for each account. `call[h]` is a request in a handler: the result or the account it
is about, the row it read (`seen`), and the next database call (`pc`). `ApplyPaymentResult` is
`ApplyAccepted`/`ApplyRejected` (the read and its checks), `ApplySelect` (the binding), then
`MarkPaidRead`, `MarkPaidUpdate` or `MarkPaidLost` (the conditional update and its failure),
`RecordEvent`, `EnsureDelivery`, `InsertDelivery`, `Reply`; the failed and the closed result alike. Closes and
expiry with their event and delivery are one transaction and one action. The provider is external: it
decides a trade, may fail and then pay, and repeats a result until it is acknowledged. A result
`mispaid` is a payment of another amount or currency. The order of the results is free.

**Refunds.** `refund` is the table, `provider` what the provider holds under each `refund_no` (the
idempotency key of every adapter), `call` requests and workers. `Outcome` is the mapping of
`applyResult`, `ApplyResult` the unconditional write of `ApplyProviderResult`. The reservation is one
action: the transaction locks the order row (`FOR UPDATE`, or SQLite's single writer).

**Reconciliation.** One attempt is `Claim`, `FindOrder`, `Query`, then `Apply`/`Record` or
`CloseTrade`/`Expire`, then `Resolve` or `Reschedule`. `CloseTrade` has the differences between the
providers. `RecoverStale` may hit a worker that is merely slow. `OtherRequests` is what
happens to the order elsewhere: notices, closes by merchant or administrator, and, where the scanner had
written its message before a slow start bound the order (`scanned`), the expiration worker.

**WebhookDeliveries.** `Deliver` takes a message and reads the row, `Post` is the HTTP request (the
merchant may accept and the answer be lost), `UpdateDeliveryAttempt` writes the count read before plus
one. `tries` and `accepted` are history variables.

**OrderCreation.** `attempt[c].at` is the next database call of the request of client `c`, `order` the
order it is about. `FindExisting` is the look-up of `CreateOpenOrderWithCheckoutToken`, `CheckApp` each of
the two checks of the app, `FindAgain` the second look-up of `CreateOrderWithCheckoutToken` (an error of
which the code takes for "no order"), `InsertOrder` the insert under the unique index, `RotateToken` and
`AnswerClient` the end. `DoorFails` is a database or Redis error in `AppAuthMiddleware`, answered with a
401 that no client repeats; `CreationFails` a failure behind it. `ErrDuplicateOrder` and the failed insert are a 500, after which a client repeats.
`request` holds the spelling, `Normalize` is what the service makes of it. The token in the row is
named by the call that made it; `Nobody` is a token whose call was lost.

**PaypalCheckout.** `bill` is the row, `paypal` what became of each order at PayPal, `visit[v]` a request of
a browser with the number it read (`saw`) and the one it is about. `StartVisit`, `CreatePaypalOrder`,
`StoreNumber`, `AnswerLink` are `StartPayment`; `ReturnFromPaypal`, `Capture`, `ApplyCapture` are
`CompletePaypalPayment`. `everStored` and `overlapped` are history.

**Routing.** `page` is the request: `ListAccounts`, `ListRules`, then for each account `ResolveRules`,
`TargetsForRule` for each rule and `OfferCandidate` for each target found (its account is read again).
`entered` is what the administrator typed, `rules`
what `normalizeInput` made of it. `during` collects the configurations of the time of the request: without
a transaction no more can be asked than that each fact was true at some time of it.

**RateLimiter.** A clock of ticks, the counter and its lifetime; `arrived` and `served` remember the last
window. **WebhookMigration.** `boot[i].next` is the statement server `i` is at (0: not running), `saw` what
the catalog told it under MySQL. Postgres and MySQL have the same statements in the same order; the three
columns are added and filled alike and are one, `resource_id`, the one that is required.

Time is abstracted to what the code compares: a deadline has passed or not, a next attempt is later or
due. Streams hold counts (or sets) of messages, not their order: the consumers do not depend on it.
`Claim` (an update and a read of the same row by its new owner) is one action. Signatures, payloads,
tokens, pay modes and pages are left out.

## 3. Runs

| Run | Bounds | Shows |
|---|---|---|
| `PaymentOrdersRaces` | 2 handlers, 2 accounts of 2 channels, 3 results at once, no faults | `AnnouncementsAgree`, `ClosedIsAnnouncedOnce`, `PaidMeansTaken`, `PayingTradeIsFinal`; the order follows `OrderLifecycle` |
| `PaymentOrdersFaults` | 2 handlers, 1 account, orders created with any channel and method, 1 fault, 1 edit | types; an acknowledged result left its event and delivery (`AcknowledgedIsAnnounced`) |
| `PaymentOrdersLiveness` | 2 handlers, 1 account, 1 fault | `PaymentIsAnnounced`, `ExpiredIsClosed` |
| `RefundsSafety` | 2 handlers, 2 refunds of 2 on an order of 3, 3 attempts, 2 faults, 1 retry | types, `ExecutedIsReserved`, `RefundedWithinPaid`, `AnnouncedAsSettled` |
| `Liveness` | the record: 2 workers, 2 attempts, 1 message, 1 fault; the refund: 2 handlers, 1 refund, 4 attempts, 2 faults, 1 retry | `RecordIsEnded` and `OrderIsDecided` (`RecordEnds` and `BoundOrderIsDecided` of `Reconciliation`), `SuccessIsLearned` of `Refunds` |
| `ReconciliationSafety` | 2 workers, 2 attempts, 2 messages, 2 faults, 1 retry | types, `ResolvedIsDecided`, `DecidedLikeProvider`, `ClaimIsExclusive` |
| `Platform`, deliveries | 2 workers, 1 delivery, 3 attempts, 2 messages, 2 faults, 1 retry | `TypeOK`, `SucceededIsAccepted`, `FailedWasTried`, `SucceededIsOver`, `PendingSettles` |
| `Platform`, creation | 2 clients, 5 requests, 1 fault, one selection, one edit, one disabling | `AnsweredAlike`, `ConflictHasReason`, `LinkIsHeld`, `CreationAnswers` (`EveryRequestIsAnswered`) |
| `Platform`, rate | limit 2, window of 3 ticks, at most 3 requests in a tick | `AtMostLimitPerWindow`, `QuietAppIsServed` |
| `Platform`, paypal | 2 visits, 3 orders at PayPal, 2 faults | `PaypalTypeOK`, `CapturedWasStored`, `ChargedOnce`, `PaidByCapture` |
| `Platform`, routing | 2 rules of 6 forms, 3 apps, 2 accounts, 2 changes | `OffersOnlyConfigured`, `OffersAllRouted` |
| `Platform`, migration | both drivers, 2 servers, 2 rows, 1 fault, 1 late row | `ServesMigrated`, `OneEventEach`, `ServerComesUp` (`InstanceServes`) |

Why the bounds are enough: the hazards are races of two calls on one row, so two handlers or workers
meet all of them; a third adds repetitions of what two do. Two refunds of 2 on an order of 3 make the
second fit only after the first failed. The attempt limits (8 and 3 in the code) are constants: 2, 3 or
4 reach the limit within the bound of faults. A fault is a failed call, a crash or a lost message
at any step; the safety theorems of section 5 hold for every number. The results a provider reports and
the messages in a stream are bounded by the number not yet handled, not by their total.

`Liveness` and `Platform` each check components that share no state in one run: a variable `part`,
chosen in the first state and never changed, says which one takes the steps, and the others rest in one of
their initial states. That is the sum of their state spaces, not the product, and each property is checked
on the component it is about; the fairness of each is stated for the case that it takes the steps.

Why these bounds: two clients meet the unique index, and the second one every state the first one left;
a third order at PayPal lets one more start overlap two visits; two rules and two changes are what a torn
read needs (a rule read, then saved with other conditions and targets); a limit of 2 over 3 ticks has bursts
on each side of every border of a window; two servers and one late row meet at every statement.

Symmetry (handlers, workers) is used in runs without liveness properties only. `CHECK_DEADLOCK FALSE`
is set throughout: an order that is paid or closed, and a delivery or refund that is settled, really
are at an end.

Five runs check a sentence of the repository's documents that the code does not keep:

| Run | Sentence | What happens |
|---|---|---|
| `PaymentOrdersExpiredBound` | bound orders are not closed by the expiration worker | `CloseExpiredPending` does not look at the binding; an order bound after the scan is closed while its payment is open |
| `RefundsUnannounced` | `succeeded` emits `refund.succeeded` | the row is committed first; after a crash in between, `Process` leaves the settled refund alone and the event is never recorded |
| `ReconciliationCapture` | capture is rejected for an order that expired | `CompletePaypalPayment` captures first, the status is looked at only afterwards |
| `WebhookDeliveriesAttempts` | at most 3 automatic attempts | the scanner adds a message in every round and `DeliverWebhook` leaves only succeeded deliveries alone: the messages left post a failed delivery again |
| `RoutingIncludedApp` | a rule may name the apps it is for | `normalizeInput` stores `app_ids` in lower case, `matchesRule` compares exactly, and generated app ids have upper case letters: the rule matches none of their orders |

Other places where the models behave in a way a document does not describe; they have no run yet:

- The binding is checked when the row is read, the update of `MarkPaid` asks for the status only, and
  `SetPaymentSelection` overwrites: an order can be paid by an account it is not bound to.
- `Refunds.Retry` (`ResetForRetry`) does not add up the reservations again, so a failed refund may be
  pending beside another one that took its amount. The provider still does not pay twice
  (`RefundedWithinPaid`): it remembers the first refund as failed.
- A stale answer takes a succeeded refund back to pending; `SuccessIsLearned` says it recovers.
- Every answer sets `attempt_count` to 1, so a refund that stays in process is asked about without end.
- Reconciliation resolves a paid record without restoring `payment.succeeded`; the repeated notice does.
- The same create request, repeated after the payer chose a channel or the administrator edited the
  order, is answered with a conflict: `sameOpenOrder` compares with the row as it is now
  (`ConflictHasReason` has this as its exception). The documents promise the same order.
- The rate limit has no fixed windows: every request, refused ones included, renews the lifetime of the
  counter. It never lets more through than promised (`AtMostLimitPerWindow`), but an app that
  never pauses for a window is refused, however slowly it sends, once its requests add up to the limit,
  and until it keeps quiet for a window (`QuietAppIsServed`).
- A worker that writes the attempt it made before the administrator reset the delivery takes the reset back;
  the posts made before count for `FailedWasTried`.
- A second trade of a paid order may be paid as well: its result is acknowledged and nothing is stored of it.
- Two starts of a PayPal payment that both read a row without a number each store theirs; a payer who
  approves both links may be charged twice (`ChargedOnce` has this as its exception). A start that finds a
  number gives the payer a link whose return is refused.
- Priorities and weights of routing decide neither which payment methods are offered nor their order,
  and `StartPayment` does not ask the rules; no terminal is ever `wechat_browser`.
- The migration drops the old unique index of events before the new one exists. While instances of both
  versions run, `OneEventEach` still holds: `resource_id` is required by then, so the old version cannot
  insert, and the new one writes only once its index is there.

## 4. Fairness

Fairness is assumed of what the code runs by itself, and of nothing else.

- A handler or worker that took a request goes on (weak): a goroutine with no wait but I/O, whose
  failure is a fault of its own.
- Scanners and clocks (weak): tickers of 30 s, restarted with the process.
- Taking messages and notices (strong, of the action "some worker takes it"): the server takes requests
  without a limit and the streams are read in order, so a message gets its turn; the small number of
  handlers is the model's.
- A server that ended is started again (weak): `restart: unless-stopped` in the compose files.
- A merchant repeats a create request that failed with a 5xx or was not answered (weak): the documents
  ask for it, and without it nothing of the service would finish the request.
- Providers repeat a notice until it is acknowledged: that is the set `notices`, and the strong fairness
  of `Receive`. Providers owe no decision, payers no payment, merchants no acceptance.

Faults are finite in every run, so liveness says: once failures stop, this is reached.

## 5. Theorems

Every safety invariant and every action property that a passing run checks is stated by a theorem, for
every set of handlers, workers, refunds, deliveries, rules and every value of the bounds, from the
assumptions named in the modules (`ConstantsAssumption`, `RefundsAssumption`,
`ReconciliationAssumption`, `WebhookAssumption`, `CreationAssumption`, `PaypalAssumption`,
`RateAssumption`, `RoutingAssumption`, `MigrationAssumption`). They type the constants, say that limits
are positive, and that an order has finitely many refunds; TLC evaluates them in the runs. Each inductive
invariant below was checked by TLC before it was proved.

**PaymentOrdersProofs.** `AnnouncementsAgree` is not inductive: a handler about to record an event holds
a fact about a row that others write. `IInv` adds `HandlerInv`: at `record` and after, the order *is* paid
(or *was* failed, `failed_at`), at `reply` the event and the delivery exist. The facts are stable
(`Grows`: paid stays paid, `failed_at` stays, events and deliveries only grow), so lemma `Stable` settles
every handler that does not move, and each step has only its own handler to look at. From `IInv`:
`TypeCorrect`, `Announcements`, `Acknowledged` (an action property: only `Reply` removes a notice), and
`Refinement`: every step is a step of `OrderLifecycle` or leaves it alone.
The money needs more: `MoneyIInv` adds that every result on its way or in the hands of a handler is backed by
its trade (`ResultsBacked`), and that a handler past the check of the amount holds no `mispaid` one. Trades
only go on (`TradesGoOn`: money taken stays taken, a closed trade stays closed), so a result may be as late as
it likes: `PaidWasTaken`, `ClosedOnce`, and the action property `PayingTrade`.
`BoundInTimeIsNotExpired` is what holds in place of the sentence that `PaymentOrdersExpiredBound` refutes: a
binding is never undone and the scanner leaves a bound order alone, so only a message written before the
binding can expire it.

**RefundsProofs.** `IInv` adds that a handler's answer `succeeded` or `failed` is what the provider holds
for good (a settled refund stays settled), hence a write, however stale, never writes a failure over money
that may leave: `ExecutedReserved`, `AnnouncedSettled`.
`WithinPaid` cannot rest on the reservations, which `Retry` overcommits. What is inductive is that the amounts
of the refunds that are *alive*, the rows the provider has not failed for good, are within what was paid
(`AliveWithinPaid`): only `Reserve` brings one to life, and it counts every one that lives, since the row of a
refund failed here is failed at the provider too; the provider only ever executes one that is alive.
`UnannouncedByFaultOnly` gives the extent of the run `RefundsUnannounced`: without faults every settled
refund is announced, or a handler stands at the call that announces it.

**SumLemmas.** The sum of a function over a finite set exists, is unique, and does not depend on the order in
which elements are taken; with it what adding, removing or changing an element does to it. Induction over data
is out of the prover's reach as a rule with a predicate; here it is replaced by a minimal set among the
counterexamples (the strict subsets of a finite set are well-founded), which is first-order.

**ReconciliationProofs.** `IInv` adds that an open record has attempts left, that a worker holds an attempt below
the limit, and that a worker about to resolve stands for a decided order, which never becomes undecided:
`TypeCorrect`, `ResolvedDecided`. `Decisions` says that what a worker carries stays true however late it is
used (`Carries`, with `Lasts`: the last words of the provider and of the row): `LikeProvider`. Its second half
is about the expiries of reconciliation: an order bound while the message of the expiration worker was on its
way (`scanned`) may be expired by that worker while its trade is open, which `PaymentOrdersExpiredBound` shows. `OwnsRecord`
says that while nobody is given up the worker at work is the one in the row: `ClaimExclusive`.
`FollowsLifecycle` is the refinement: whatever `Reconciliation` does to its order, and `OtherRequests` do
beside it, is a behaviour of `OrderLifecycle`; `ReconciledAgrees` carries the invariant of that abstract module
(`LifecycleAgrees` there) over to reconciled orders without another induction.

**WebhookDeliveriesProofs.** Counts are written back by workers that read them before. `IInv` says that a
count is never above the posts made, whoever wrote it (`RowInv`, `WorkerInv`), which is what makes
`FailedTried` true with workers that overwrite each other; also `TypeCorrect`, `SucceededAccepted` and
`SucceededOver`. `TriesBounded` is what holds in place of the sentence that `WebhookDeliveriesAttempts`
refutes: one worker (a server has one goroutine that delivers) counts every post (`Counts`, `ReadsTrue`), and
after the last attempt a post uses up one of the messages left, to which the scanner adds none. Its
hypotheses matter: a second worker or a crash after the post loses a count.

**OrderCreationProofs.** `IInv` has that there is one order (`OneOrder`), that it is what its creator wanted
until it is changed (`Untouched`), that a call past the look-up holds an existing order with its own terms
(`ClientInv`), and `TokenInv`: while nothing was changed, the order's token belongs to a call that answers it
or has answered it, or some call that wants the order is still after a token. The last is what makes
`LinkHeld` inductive: a rotation that dies leaves its caller at the start again. A call that is refused at
the door wants nothing any more, so `LinkIsHeld` is about the case that none is. Also `TypeCorrect`,
`AnsweredSame`, `ConflictReason`.

**PaypalCheckoutProofs.** `IInv` says that a link is given out only when the row has a number (`RowInv`), so a
payer who comes back meets a row with a number and is compared with it; that a capture under way is for a
number the row held; and that without an overlap a start that will still store is alone and nothing was
stored yet (`VisitInv`): `CapturedStored`, `Charged`, `PaidCaptured`, and `TypeCorrect`.

**PlatformProofs, rate limit.** `RateIInv` says that a counter has a lifetime, and that a lifetime is that of a
request of the last window; so after a quiet window there is no counter and the next request is counted as the
first: `QuietServed`. For `WithinLimit`, `ServedIsCounted` says that the counter outlives what it counts:
as long as a served request is within the window, the counter that counted it lives, so the sum of the last
window is at most the counter, and a request is served only while that is within the limit.

**PlatformProofs, routing.** The page reads accounts, rules and targets at different times. `RoutingIInv` says of
each step that what was read was the configuration at some time of the request (`AccountsRead`, `RowsRead`,
`FoundRead`, `OfferedRead`; `during` has it all, `Recorded`), which gives `OffersConfigured`: each condition of
the rule, its app scope included, held at some time. The app is compared up to its spelling, since the stored
names are in lower case and the order's is not; what the exact comparison loses is `IncludedAppIsRouted`.
`RoutingIInv` also says that, unless something changed, each routed account is offered or still in reach of the
two loops (`NothingLost`), which gives `OffersRouted`. `LowerCaseAppRouted` is the exact extent of the run `RoutingIncludedApp`: for an app whose
id is in lower case, the property that run violates is proved.

**PlatformProofs, migration.** `MigrationIInv` says what a server that has reached statement n finds done (`Passed`), though
other servers may have done it or may be repeating it: nothing is undone (`Grows`). `Schema` adds that a
required column is filled and that the old index only goes after the column is required; therefore nobody
writes an event while there is no index: `Served`, `OneEvent`.

Model-checked only: the liveness properties, since fairness is out of the prover's reach: `PaymentIsAnnounced`,
`ExpiredIsClosed`, `RecordIsEnded`, `OrderIsDecided`, `SuccessIsLearned`, `PendingSettles`, `CreationAnswers`
and `ServerComesUp`. That the five sentences of the documents fail is shown by TLC's counterexamples.

## 6. What the models leave out

- `PaymentOrders` has no reconciliation record; `Reconciliation` starts with a bound order, and has
  no provider that closes a trade after it was paid (which `PaymentOrders` has).
- A trade that does not exist at Alipay yet counts as closed, and the page can be paid afterwards:
  modelled (`unstarted`), which is why `DecidedLikeProvider` speaks of expiry on WeChat only.
- A failed order resolves its record; a success that follows reaches the order by its notice only.
- The limits of the scanners' queries. `ListEligibleOrders` has no order and no filter on existing
  records; with more bound pending orders than the limit some may be left out for long.
- Answers to the merchant other than those of a create request, signatures, pay modes of a terminal.
- `PaypalCheckout` looks at one order of one account; `Settle` keeps what `ApplyPaymentResult` does to the
  status, the races on it are those of `PaymentOrders`. Requests with an empty number go on with the stored one.
- `Routing`: the targets of a rule may be newer than its conditions, as in the code; `OffersOnlyConfigured` asks
  that each was configured at some time of the request, not both at once. Two rules of one account offer it twice, as the code does; weights and priorities are left out.

Not modelled, and why:

- The client under `src/ent` (64,000 of the 78,000 lines of Go counted here) is generated by ent from
  the schemas; the models take it as the database. The shares of hand-written code that remain are below.
- Signatures, timestamps and the store of request ids: pure functions, and one `SETNX` for each key.
- Encryption of secrets, tokens of the console, roles: library calls around single rows.
- The gateway configuration: one row, read with defaults. Two first readers may each create one, and the
  creator may overwrite an edit in between (listed as a hazard); the models have its values as constants.
- Monitoring reads only. The console and the SDKs are clients.
- Requests to the providers and the parsing of their answers: I/O and conversions around the results the
  models enumerate.

## 7. Plan

Done: `PaymentOrders` and `OrderLifecycle`, `Refunds`, `Reconciliation`, `WebhookDeliveries`,
`OrderCreation`, `PaypalCheckout`, `Routing`, `RateLimiter`, `WebhookMigration`. The theorems of section 5 cover
every safety property of the runs. Left:

1. A composition of `PaymentOrders` and `WebhookDeliveries` (an acknowledged payment reaches the
   merchant), and a scanner with a limit over several orders (starvation).
2. What holds in place of the fifth sentence of section 3 (`ReconciliationCapture`); the other four have it.
3. That `Refunds`, `WebhookDeliveries` and `OrderCreation` implement abstract modules of their own.
