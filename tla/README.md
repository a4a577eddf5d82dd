# A TLA+ model of NovaPay

NovaPay is a self-hosted payment gateway. A merchant's server creates payment
orders, NovaPay opens a trade at a payment channel (Alipay, WeChat Pay, a USDT
address, a personal collection code watched by a phone), learns of the payment
by webhook, polling, on-chain scan or captured bill, notifies the merchant, books
the money in a ledger and settles it. It is a set of Next.js route handlers and
of worker loops over one Postgres database, through Prisma, at READ COMMITTED.
Almost every operation is a read, an `await` on a provider or on another
statement, and a write; what the code promises therefore depends on which other
handlers run between the two. That is what these modules are about.

## Inventory

State is the Postgres tables unless said otherwise; "hard" names the behaviours a
test hardly reaches.

| component | state and operations | interacts with | hard | correct when |
|---|---|---|---|---|
| payment orders (`lib/orders`) | `PaymentOrder` rows: create, query with synchronisation, close, expire, `applyPaymentNotification` | providers (calls and webhooks), callbacks, ledger, workers | stale read then unconditional write; late create answer; expiry racing a payment; crash after SUCCEEDED | no success without a payment; a paid order succeeds; a terminal order stays so |
| payment monitor | none of its own: polls open orders, expires due ones | payment orders | overlap with webhooks and requests | payments whose webhook was lost are found |
| merchant callbacks (`lib/callbacks`) | callback columns of the order, `CallbackAttempt` rows: queue, claim a lease, deliver, retry | payment orders, merchant's endpoint | two dispatchers, lease expiry, status changed while the HTTP call is in flight | the merchant finally learns the final status |
| refunds (`lib/refunds`) | `PaymentRefund` rows: create, retry a failed one, query, notification | providers, ledger | two creations against one balance; timeout of a refund that was made | sum of refunds at most the order amount |
| idempotency (`lib/idempotency`) | `MerchantIdempotencyRecord`: begin, finish | wraps create, close, refund requests | lease takeover, late finish of the first holder | one execution, one answer per key |
| ledger, settlements (`lib/finance`) | `MerchantLedgerEntry`, `MerchantSettlement`: upsert entries, backfill, daily sums, mark paid | orders, refunds, finance worker, admin | recomputation racing mark-paid; entries late for a paid day | what is paid out is what was captured |
| CTF bill capture (`lib/ctf-bill-capture`) | `CtfBillCaptureEvent` rows: ingest, match to one order by amount | Android agent, orders | two orders with one amount, crash between apply and MATCHED | a bill credits at most one order |
| on-chain deposits (`lib/onchain`) | `OnchainDeposit`, scan cursors: scan, match, confirm | chain RPCs, orders | overlapping scans, cursor lost or advanced too far | a transfer credits at most one order, and none is skipped |
| provider adapters (`lib/payments`) | channel accounts; create, query, close, refund, webhook verification | Alipay, WeChat Pay | a call that times out after it took effect | statuses of the gateway map to NovaPay's |
| rates (`lib/rates`) | in-memory quote cache | price sources | stale or partial sources | quotes are fresh |
| plugins, licences (`lib/plugins`) | installed plugins, licence state | registry | revalidation and grace period (not modelled) | an unlicensed plugin does not run |
| EasyPay compatibility (`lib/easypay`) | none: translates requests and callbacks | orders, callbacks | retried form posts | same as orders |
| sessions, signatures, RBAC | nonces, sessions | all routes | nonce replay | a signed request is accepted once |
| plugin registry (`apps/registry`) | purchases, licences, developer balances, payouts, reviews, signing keys | a NovaPay instance | payment callback racing a query; payout overdraft | one licence and one credit per purchase |
| pages, i18n, OpenAPI text, Android app, deployment | - | - | - | - |

## Plan

1. `OrderStatus`, `PaymentOrders`, `PaymentOrdersProofs`: the heart of the system. *Done.*
2. `MerchantCallbacks`, `MerchantCallbacksProofs`: queue, lease and delivery, with the
   re-queue that `applyPaymentNotification` makes; a module of its own, because the
   callback columns never influence the payment columns. *Done.*
3. `Refunds`, `RefundsProofs`: the balance check, its lock, the retry path without it.
   *Done.*
4. `SingleResult`, `Idempotency`, `IdempotencyProofs`: leases and late finishes; the
   abstract promise of one answer per key and the condition under which the code
   implements it. *Done.*
5. `Settlements`, `SettlementsProofs`: ledger entries by day, recomputation of a day, mark
   paid, balance snapshots. *Done.*
6. `BillCapture` and `OnchainDeposits` with their proofs: the choice of amounts and the
   matching of evidence to orders by amount and time, which is where the notifications that
   `PaymentOrders` takes in (`Deliver`) come from. *Done.*
7. `RegistryOrders`, `RegistryPayouts`, `RegistryProofs`: purchases of plugins, and payouts
   composed with them. *Done.* The revalidation of licences on the gateway's side is left.
8. `Payments`: the abstract promise about payment orders, with `PaymentOrders` refining it
   as far as its stale writes allow. *Done.*

## How the modules are built

Every request handler or worker iteration is a *task*: a record with a program
counter, which names the `await` the code stands at, and the values the code holds
across that await (`snap` is a row it has read). Between two awaits any other task
may run. `tasks` holds a fixed pool of them; an idle task may begin any operation
its module allows. A fault is a statement or provider call that throws, an answer
that is lost, or the death of the process (`Crash`): a crash loses the task and
keeps what was committed. Faults are bounded by `MaxFaults`; a provider that refuses
for reasons of its own needs no fault.

Properties stand at the end of the component's module; inductive invariants after
them. `MC*` modules hold only sets for the configurations. A definition whose comment
begins with "Mutant:" is a plausible mistake that no specification uses; it is there
to show that a property would notice it.

## Modules

### OrderStatus

The status functions of `lib/orders/status.ts` as operators: which statuses are
terminal, the status a creation leaves, and `ResolveStatus`, the status a
provider's notification leaves.

### PaymentOrders

`rows` is the table, `ledger` the ledger entries of orders, `trade` and `outbox` the
provider's side (the state of the trade and the notifications it may deliver, in any
order and any number of times), `acked` the orders whose success webhook was answered,
`expired` the orders whose `expireAt` has passed. A task holds the operation, the
order, the notification in hand and `snap`.

| code | actions |
|---|---|
| `createPaymentOrder` | `CreateInsert`, `CreateProviderReturns`, `CreateProviderThrows`, `CreateWrite`, `CreateWriteThrows`, `CreateFail` |
| webhook routes, matched bills and deposits | `Deliver` |
| `getMerchantPaymentOrder`, payment monitor | `StartLookup`, `Query`, `QueryFails`, `Reload` |
| `expirePaymentOrderIfNeeded`, `closeExpiredPaymentOrders` | `StartExpire`, the same, `ShutTrade`, `ShutFails`, `ShutUnsupported` |
| `closeMerchantPaymentOrder` | `StartClose`, the same |
| `applyPaymentNotification` | `ApplyRead`, `ApplyWrite`, `DispatchReturns`, `ApplyThrows` |
| `syncPaymentOrderLedgerEntries`, `backfillMerchantLedgerEntries` | `LedgerRead`, `UpsertCapture`, `UpsertFee`, `StartBackfill` |
| process death | `Crash` |
| payer, gateway, clock | `Pay`, `Mispay`, `FailUpstream`, `CloseUpstream`, `PassExpiry` |

Amounts are abstracted to the distinctions the code makes: the order's amount, a payable
amount that differs from it, any other, none. Amounts that differ by less than the tolerance
of a cent are one amount, and the check that is modelled is that of a production build,
which demands an amount of a success (`NOVAPAY_REQUIRE_NOTIFICATION_AMOUNT`). An order has a
fee or has none (`fee`): `UpsertFee` upserts the one and deletes the entry of the other.

### Payments

The abstract specification of payment orders: what a reader sees of an order (`status`),
what the provider has reported (`reported`) and the ledger (`booked`). An order is there for
good, becomes SUCCEEDED and is booked only after its payment was reported, and its fee is
never booked before its capture. That a success stays is deliberately missing, because the
code does not keep it. `PaymentOrders` implements it (`PaymentsKept`) with `status` = the
status column (`Shown`), `reported` = the orders with a notification of the right amount
(`Reported`) and `booked` = `ledger`.

### MerchantCallbacks

One order; orders do not interact here. `row` holds its status and callback columns.
Time is kept as timers: `nextCallbackAt` is the ticks left until it, `age` the ticks
since the `now` a dispatch took when it read the row. A tick waits for a dispatch that
has used up `MaxAge`, so `MaxAge < Lease` states that no dispatch outlives its lease,
and `MaxAge >= Lease` that one may. Two history variables say that the row was written over:
`raced`, by a notification, or by a dispatch that found nothing to send, while another
dispatch stood between its read and its last write; `overtaken`, by the creation of the
order, whose last write changes a status that was final and leaves the callback columns as
they are. `creating` says that this write is still to come.

| code | actions |
|---|---|
| `createPaymentOrder` after the call of the provider | `CreationEnds` |
| `applyPaymentNotification` (callback columns) | `ApplyRead`, `ApplyWrite` |
| `runDueMerchantCallbackDispatches` | `SelectDue` |
| `retryCallbackAction`, the retry-callback route | `RequestRetry` |
| `dispatchMerchantCallback` | `Load`, `Drop`, `Claim` (`claimMerchantCallbackDispatch`), `SendAccepted`, `SendRejected`, `Record` |
| process death, a statement that throws | `Crash` |
| merchant settings, clock | `SwitchCallbacks`, `Tick` |

### Refunds

The refunds of one paid order. `refunds` is the table, `booked` the refunds with a
ledger entry, `provider` what the provider has made of each. Amounts are cents; the
comparisons of floating point numbers with a tolerance of 0.01 are a choice, the
`slip`, of whether one cent passes. `returned` is a history variable: a refund that had
failed has got another status, or one was marked FAILED although the provider had taken it
over (`Taken`). A submission whose client gave up may reach the provider later (`"late"`), or
for the second time after another one (`"again"`). The ledger upsert follows a read of the row
and depends on nothing a concurrent step changes, so that read and upsert are one action.

| code | actions |
|---|---|
| `createMerchantPaymentRefund`: the look-up of an existing refund | `Create`, `Query`, `Reload` |
| its transaction for a new refund | `Reserve` |
| its retry of a failed refund | `Check`, `Reset` |
| its try block and catch block | `Send`, `SendFails`, `StatementFails`, `Catch` |
| `getMerchantPaymentRefund`, `syncPaymentRefundFromProvider` | `Get`, `Query` |
| `applyPaymentRefundNotificationById` | `Read`, `Write` |
| `syncPaymentRefundLedgerEntries`, `backfillMerchantLedgerEntries` | `Book`, `Backfill` |
| process death; provider | `Crash`; `Arrive`, `Settle` |

### Idempotency and SingleResult

The requests with one key of one merchant in one scope. `record` is the row,
`executed` and `answers` what a client or an auditor sees: the payloads the command ran
for, and the results clients were given. The command itself is only that it runs and
returns, throws an `AppError` or throws something else. `lease` and `age` are timers as in
`MerchantCallbacks`: `leaseExpiresAt` is compared with the `now` a request took when it
arrived.

| code | actions |
|---|---|
| `beginMerchantIdempotencyCommand` | `Arrive`, `Look`, `Insert`, `Replay`, `Claim` |
| the route around it (`app/api/payments/refunds/route.ts`) | `Run`, `FinishFails` |
| `finishMerchantIdempotencySuccess`, `...FinalError`, `...RetryableError` | `Finish` |
| process death; clock | `Crash`; `Tick` |

`SingleResult` is the abstract specification: an answer is decided once and clients are
told that one. `Idempotency` implements it with the mapping `decided` = what a final
record holds and `told` = `answers` (`SingleResultKept`).

### Settlements

One merchant and one currency. `occurred` and `booked` say on which day a payment or refund
happened and whether its ledger entry is written, `rows` is the settlement of each day,
`payouts` the ledger entry that pays it, `snaps` the balance snapshots. The amounts of a
settlement are sums over entries of its day; the model keeps the set of entries. `raced` are
the days whose settlement was written by a task that had looked at it before another wrote.

| code | actions |
|---|---|
| `runFinanceMaintenance` (backfill included) | `Maintain` |
| `syncMerchantSettlements` | `ReadEntries`, `Find`, `Upsert` |
| `syncMerchantBalanceSnapshots` | `ReadClosings`, `Snap` |
| `markMerchantSettlementPaid` | `MarkPaid`, `Pay`, then the two above |
| ledger writes of other services; calendar; error or crash | `Book`, `Occur`; `Tick`; `Fail` |

### RegistryOrders and RegistryPayouts

`RegistryOrders` is a purchase of a plugin in `apps/registry`: `gateway` is the payment of
each order there and `acked` what the registry has acknowledged of it, `orders` and
`licences` are tables, `credited` the developer's credits, `held` what licence the buyer was
handed. The gateway may undo a payment, as `PaymentOrders` shows that it does; `paid` are the
orders it has had a payment of. `broken` are the orders a request left half-way because of an
error, `spoilt` these and the ones written by a request that had read them before a write of
another one. `RegistryPayouts` EXTENDS it: every step is a step
of an order or of a payout, and what orders credit is what payouts may draw on once its hold
is over (`Mature`). `desks` are the requests about payouts, `overrun` the payouts whose
submission or decision raced another, or whose approval failed before its debit.

| code | actions |
|---|---|
| `POST plugins/[slug]/orders` | `Create`, `Ask`, `Attach` |
| the payment callback | `Callback`, `Look`, `Overwrite`, `Reply` |
| `markOrderPaidAndIssueLicense` | `Mark`, `Write`, `Save`, `Credit`, `Book` |
| `GET orders/[orderId]` | `Poll`, `Fetch` |
| `submitPayout` and `computeBalance` | `Submit`, `Check`, `Request` |
| `approvePayout`, `rejectPayout` | `Decide`, `Approve`, `Debit`, `Reject` |
| gateway; hold; error or crash | `Pay`, `Undo`; `Mature`; `Fail`, `Abandon` |

### BillCapture

Orders of one channel account whose payer is known by the amount alone. `rows` is the order
table with the payable amount in cents, `paidAt` the time of each payment, `events` the
captured bills, `credited` the pairs of a bill and the order it credited. A tick is an
interval, so an order and its payment may share one. `undone` are the orders a sweep has
closed over a payment: it had read them while they were open, and writes CANCELLED whatever
has become of them. The bill is MATCHED then and is not tried again.

| code | actions |
|---|---|
| `allocateCtfPayableAmount`, the insertion in `createPaymentOrder` | `Allocate`, `Insert` |
| `expirePaymentOrderIfNeeded`, `closeExpiredPaymentOrders` | `StartExpire`, `Expire` |
| `ingestCtfBillCaptureEvent` | `Report` |
| `runDueCtfBillCaptureMatches` | `Claim`, `Miss`, `Fail` |
| `matchCtfBillCaptureEvent`, `findMatchingPaymentOrder` | `Look`, `Apply`, `Mark` |
| payer; clock | `Pay`; `Tick` |

Why a bill finds the right order, although nothing but an amount links them: amounts of open
orders differ; an order takes an amount only when the one that had it is closed, so it is
stored after that one's time or after the payments for it; and a bill looks only at orders
that were there when it was paid, of the expired ones only at those that were open then. The
argument breaks where two creations choose at once (`raced`): the code reads the open orders
and inserts later, without a constraint.

### OnchainDeposits

USDT transfers to one address of an EVM chain. `head` is the height of the chain, which is
the clock as well; `blocks` says in which block each transfer is; `deposits` and `cursor`
are the tables `OnchainDeposit` and the scan cursor; `tasks` are the scan and the rematch,
which one iteration of the worker starts side by side.

| code | actions |
|---|---|
| `createPaymentOrder`, `allocateUsdtTailAmount` | `Place`, `Choose`, `Store` |
| `runOnchainMaintenance` | `Begin` |
| `scanEvmChain` | `Range`, `Take` (`upsertDeposit`), `Finish` |
| `rematchConfirmedDeposits` | `List`, `Take`, `Finish` |
| `matchDepositToOrder` | `Look`, `Apply`, `Mark` |
| `safeChainScan`'s catch, a crash of the worker | `Fail`, `Crash` |
| payer; chain | `Transfer`; `NewBlock` |

An order has the height of the block before it, and a transfer goes into the next one. USDT
orders are never closed, so an amount is free again when its order is paid or its quote is
over. What the properties leave out: transfers that come late, second transfers for one
order, and orders whose amount was not chosen and stored at once (`straddled`).

## Runs

Type invariants and inductive invariants are not properties of these runs: they are proved
(below), for instances of any size.

| run | instance | shows |
|---|---|---|
| `orders_races` | 1 order of any channel kind, 3 tasks, 1 fault | `PaymentsKept`, `TerminalIsStamped`, `OnlyStaleWritesUndo` |
| `orders_live` | 1 order of any channel kind, with or without a fee, 2 tasks, 1 fault | `PaidBecomesSucceeded`, `ExpiredIsSettled`, `SuccessIsBooked`, `MissedNotificationIsReconciled` |
| `callbacks_races` | a plain and an EasyPay order, 2 tasks, 2 attempts, callbacks switched once, 1 fault | `DeliveriesOverlapOnlyByRequeue`, `RetryIsScheduled`, `DeliveredIsCurrent` |
| `callbacks_live` | every form of order with a callback URL, 2 tasks, 2 attempts, 1 fault | `MerchantLearnsOfSuccess` |
| `refunds_races` | 3 cents, 2 refunds of 2 or 3, 2 tasks, 1 fault | `RefundedUnlessReturned`, `SuccessIsReal` |
| `refunds_live` | 1 refund, 2 tasks, 1 fault | `RefundIsBooked` |
| `idempotency_retries` | 3 requests, 2 payloads, 3 executions, 1 fault, lease longer than a request | `OnePayloadRuns`, `SingleResultKept`, `KeyIsResolved` |
| `settlements` | a payment and its refund over 3 days, a worker, an administrator, 1 fault | `PaidOutAsShown`, `PaidIsFrozen`, `EntriesAreSettled`, `SnapshotsConverge` |
| `registry_orders` | a purchase through the gateway and one paid at once without a cut for the developer, 2 requests, 1 fault, 6 licence numbers | `DeliveredIsPaid`, `PaidIsFulfilled`, `PaidIsKept`, `HandedOutIsStored`, `PaymentIsDelivered` |
| `registry_payouts` | 2 sales with shares 2 and 1, payouts of 2 and 1, 2 requests, 1 fault, 4 licence numbers | `BalanceCovers`, `LedgerFollowsDecisions` |
| `bill_capture` | 2 orders of 100 cents, 2 tails, 2 bills, 2 attempts, 2 tasks, 3 intervals, 1 fault | `AmountsDiffer`, `RightOrderIsCredited`, `OneOrderPerBill`, `MatchedIsCredited`, `PaidIsCredited`, `BillsAreSettled`, `AmountsAreReleased` |
| `onchain_deposits` | 2 orders of one amount, 2 tails, 2 deposits, 2 confirmations, overlap 1, 4 blocks, 1 fault | `NoDepositIsMissed`, `RightOrderIsCredited`, `MatchedIsCredited`, `PaidIsCredited` |

Why these bounds are enough to meet the interesting cases. Payment orders share no state, so
one suffices; three tasks are a stale writer, the writer it overwrites and a worker. Two
dispatches are what a lease has to keep apart; with `MaxAttempts` 2 there is a first, a
last and a forgotten attempt, and `Lease` 2 with `MaxAge` 1 is the smallest lease that a
dispatch cannot outlive but a crash lets expire. Two refunds of an order of three cents,
of two or three cents, give a sum that fits, one that exceeds the balance by the cent of
the tolerance, and sums that exceed it by more. Three requests for one key are the holder
of the lease, a request that takes over, and one that is answered by either. Three days are
one that is paid, one on which its refund comes, and one after the hold. Two payouts fit
the balance together only when both sales are credited. With `Lifetime` 0 and three
intervals an amount is chosen, paid late, expired and chosen again while the first bill is
still to be reported; the second bill has a remark that fits no order and counts because it
comes from a listener. With two confirmations and four blocks the chain is first too short,
then scanned from the block it ends with, then behind the cursor with its overlap, and one
order's amount is used again after a block. One fault is the crash, the lost answer or the
failed write at any single step, in `bill_capture` also a lease that is outlasted or a creation
that overlaps another one, in `registry_orders` a payment the gateway undoes; the loops that heal them (redelivery, sweep, backfill,
take-over, rematch) need to outlast one.

`orders_*`, `registry_*`, `bill_capture` and `onchain_deposits` do not check for deadlock:
when every order is settled, no role of the pool can begin anything, or the clock, the
chain or the licence numbers have reached their bound, the system rightly stops. In the
other runs a step is always possible.

## Fairness

A task that runs goes on: an `await` settles or throws. The workers loop for ever over
what their queries select (`scripts/*-worker.ts`), so the start of a backfill, of a poll, of a
due delivery and of the claim of a captured bill is strongly fair: a row selected again and
again, by a pool whose tasks are sometimes busy, is at some time taken. The bound on the pool
is the model's, not the system's. Maintenance of the finances, an iteration of the chain
worker, the clock and new blocks are weakly fair. The gateway's callbacks to the registry are
fair because `MerchantLearnsOfSuccess` says so. About payouts nothing is assumed.

The sweep that expires orders is not fair. It takes the 50 orders that expired first
(`closeExpiredPaymentOrders`, `lib/orders/service.ts:463-475`), and those it cannot close stay
at the head of that list: 50 of them, and it comes to no other order. Hence `ExpiredIsSettled`,
`MissedNotificationIsReconciled` and `AmountsAreReleased` have as a premise that the sweep
comes to the order they speak of (`Swept`).

Nor is anything obliged of a provider, payer, merchant or administrator: the properties that
need one say so as a premise (`Redeliver` in `PaidBecomesSucceeded`: gateways repeat a
notification until it is answered; a client that asks again in `RefundIsBooked` and
`KeyIsResolved`).

## What is proved

The theorems hold for any sets of orders, tasks, refunds, payloads, bills and deposits, and
any bounds that satisfy the `ASSUME`s of the modules.

- `PaymentOrdersProofs`: `Invariance` (`IInv` is inductive), `TypeCorrect`,
  `EvidenceTheorem` (`MoneyFollowsEvidence`), `StampedTheorem` (`TerminalIsStamped`),
  `StaleTheorem` (`OnlyStaleWritesUndo`). The properties speak of rows, but a row is
  written from a snapshot that may be arbitrarily old; `IInv` therefore adds that every
  task is *founded*: a snapshot that says SUCCEEDED, or a success in hand, was paid for,
  and that stays true because the provider's reports are never withdrawn. `PromiseTheorem`
  (`Spec => PaymentsKept`) maps every step to one of `Payments` or to a stutter. Besides
  `IInv` it needs `OrdersAreThere`: whatever the provider or a task works on is in the table,
  and who is about to book a fee has booked the capture.
- `MerchantCallbacksProofs`: `TypeCorrect`, `RetryTheorem` (`RetryIsScheduled`),
  `LeaseTheorem` (`DeliveriesOverlapOnlyByRequeue`), `CurrentTheorem`
  (`DeliveredIsCurrent`). The first needs that a snapshot never counts more attempts than
  the row and was scheduled itself, so what a stale writer copies is still a schedule. The
  second needs that the row shows the lease of its one holder, with the timer that belongs
  to the holder's age; with `MaxAge < Lease` it has not run out. The third needs that,
  while the row was not written over, what a dispatch sends is what the row still says when
  its result is recorded; a status that is not final leaves nothing to deliver, so that the
  end of a creation does no harm unless it comes after a final one.
- `RefundsProofs`: `TypeCorrect`, `RealTheorem` (`SuccessIsReal`). What a request has learnt
  of a success, in the answer it holds or in the row it read, is true for good, because the
  provider never takes a success back. `RefundedTheorem` (`RefundedUnlessReturned`) bounds a
  sum over the refunds: as long as none returned, every refund that counts has been admitted
  by the check of the balance. `BudgetInv` adds that a refund is submitted by one request,
  once, before the provider knows of it; that a refund marked FAILED is one the provider does
  not have, so that it is rightly left out of the sum; and that nobody holds a failure that
  is not one.
- `IdempotencyProofs`: `TypeCorrect`, `ReuseTheorem` (`ReusedWithinLease`),
  `OnePayloadTheorem` (`OnePayloadRuns`, with no assumption on the lease), `PromiseTheorem`
  (`Spec => SingleResultKept`, assuming `MaxAge < Lease`). The invariant says that the
  record shows the lease of the only request that executes, that whoever stands beyond
  the look-up has the record's payload, and that an answer that was given is the final one
  of the record. The refinement needs it to see that `Finish` never meets a final record.
- `SettlementsProofs`: `PaidOutAsShownAlways`, `PaidStaysPaid` (`PaidIsFrozen`) and
  `PaidFromItsDayAlways` (whatever races, a payout is made of booked entries of its day).
  The invariant says that a task that has looked at a settlement still knows it, unless it
  is stale, and a stale one marks its day as `raced` when it writes.
- `RegistryProofs`, about both registry modules: `OnlyPaidIsDelivered`,
  `PaidIsFulfilledAlways`, `PaidStaysPaid`, `HandedOutIsStoredAlways`,
  `LedgerFollowsDecisionsAlways`, `DecisionStays` (`DecisionIsFinal`), and
  `PayoutsKeepOrders`: a behaviour of the composition is one of `RegistryOrders`, so what
  was proved of orders holds of it. The invariant of orders counts, for each one that
  no write raced on, the single request between its update and its credit; `FollowedUp` says
  of all that are not broken that what one statement has done another one follows up,
  whichever request gets there. `BalanceCoversAlways` (`BalanceCovers`) says
  that the matured credits cover all payouts requested and not refused, as long as none was
  overrun. Its invariant `CoverInv` adds that a submission that has read the balance and is
  not stale has seen every debit there is, because any write to a payout makes it stale.
  `PayoutsAreFundedAlways` follows the money from end to end: what covers those payouts are
  shares of purchases that the gateway has payments for.
- `BillCaptureProofs`: `AmountsDifferAlways`, `RightOrderIsCreditedAlways`,
  `OneOrderPerBillAlways`, `MatchedIsCreditedAlways`. `IInv` says that an amount a task has
  chosen stays free until another order is stored. `CreditInv` makes the argument above
  precise: of two stored orders of one amount, one is `Before` the other, which means it is
  closed, and its time (if it expired) and its credited bills precede the creation of the
  other. `Before` is kept because a closed order is found again only by bills of its own
  time.
- `OnchainProofs`: `NoDepositIsMissedAlways`, `RightOrderIsCreditedAlways`,
  `MatchedIsCreditedAlways`. `IInv` says that the running scan starts at most one block
  behind the cursor and holds what it has not stored. `CreditInv` is the counterpart of the
  one above: two stored orders of one amount are `Apart`. An order that is paid or whose
  quote is over when its amount is chosen again stays apart from the new one, since what
  finds it later was mined before.

Both sums fold a finite set. That they do not depend on the order of
their elements, and what adding or removing one does to them, is proved by taking a smallest
counterexample among the subsets (`FS_StrictSubsetOrderingWellFounded`, `WFMin`): the
induction theorems of the library take an operator as a parameter, which the installed
provers cannot instantiate. The theorems about them assume that the tables are finite, and
the modules say so in an `ASSUME`.

Only model-checked: the liveness properties and the `SF` premises in them; fairness and
`ENABLED` are beyond the prover. Every safety property of the runs is proved.

## Where code and text differ

The properties are stated so that they hold of the code; where the code keeps less than a
text promises, the property has an exception, and the exception is reached in its run.

- **A success may be undone** (the stale writes in `OnlyStaleWritesUndo`).
  `applyPaymentNotification` writes a status computed from a row it read before; a close or
  an expiry whose read preceded the success leaves CANCELLED.
  `docs/sub2apipay-to-novapay.md:43` draws SUCCEEDED as an end state.
- **A USDT order cannot be closed** (`~quoted` in `ExpiredIsSettled`): the answer
  of `closePayment` carries the order amount, the check expects the quoted one.
  `lib/openapi.ts:675`. For the same reason a captured order with a tail of two cents or
  more never expires and keeps its amount (`~Passes` in `AmountsAreReleased`). Such orders
  stay among the 50 the sweep takes (`Swept`), so that enough of them stop the expiry of all
  others.
- **A rejected success may never be retried** (`raced` in `DeliveredIsCurrent`): the late
  result of an earlier delivery overwrites its FAILED with DELIVERED. Or it is never sent
  (`overtaken`): the last write of the creation reopens an order whose CANCELLED was DELIVERED,
  and the success that follows counts as delivered too (`lib/orders/service.ts:813`, `:869`).
  `docs/merchant-integration-examples.md:211`.
- **Refunds may exceed the order** (`returned` in `RefundedUnlessReturned`): a failed refund
  returns to a reserving status without the lock (`lib/refunds/service.ts:353-357`), or the
  catch block marks a refund FAILED whose answer was lost on the way (`:461`).
- **Two answers for one key** (`MaxAge < Lease` in the assumption of `SingleResultKept`): an
  execution longer than its lease is executed again. `lib/openapi.ts:86`.

Exceptions of the other modules that no text denies, but a maintainer should know:

- A settlement may be recomputed by a worker that read it before it was paid, and is then
  PENDING again (`raced`, `lib/finance/settlements.ts:159`). A day whose refunds exceed its
  captures is refused for ever and netted against no other (`settlements.ts:317`).
- In the registry, the checkout address or an older failure may overwrite a PAID order
  (`apps/registry/.../orders/route.ts:126`, `callback/registry/route.ts:103`), and an error
  between the update and the credit is healed by nothing (`order-service.ts:293`). An order
  that is paid by two requests at once names the licence of one and may have stored that of
  the other (`spoilt` in `PaidIsFulfilled`).
- A sweep that read a captured order before its bill was matched closes it over the payment,
  and no later attempt repairs it (`undone`, `lib/orders/service.ts:834`, `:881`).
  `markOrderRefunded` is called by no route.
- Two creations may choose one amount (`raced`, `lib/orders/service.ts:227`; `straddled`,
  `lib/rates/usdt-quote.ts:270`). Two USDT orders that overlap so leave a deposit ambiguous.
- A bill reported without a time gets the time of the request, hence a new fingerprint when
  it is repeated (`lib/ctf-bill-capture/service.ts:228`); a payment time in whole seconds may
  precede the `createdAt` of its order (`:300`); `MATCHED` is written over a DEAD_LETTER an
  operator may have handled (`:418`).
- `USDT_EVM_LOOKBACK_BLOCKS` is configured and never read by the scan, so the first scan
  begins at the last safe block (`lib/onchain/service.ts:602`); the Solana scan has no cursor
  (`:742`); the cursor passes blocks of an account that is disabled (`:312`); the branch for
  CANCELLED orders is unreachable for USDT (`:441`).

Others, met while reading: deliveries are retried at a constant interval
(`lib/callbacks/service.ts:409`) where `docs/merchant-integration-examples.md:203` speaks of
exponential backoff; the same page announces `payment.refund.updated` callbacks (line 249)
that no code sends; an EasyPay order of a merchant without `callbackBase` is marked
NOT_REQUIRED and not announced (`lib/orders/service.ts:157`); a refund that failed before it
reached the provider cannot be retried, because the retry asks the provider first
(`lib/refunds/service.ts:324`); `expiresAt` of an idempotency record is stored and never
acted upon; the timeout of `safe-fetch.ts:186` bounds the idle time of a socket, not a
request; the revalidation of licences looks at the newest purchase of a plugin only
(`lib/plugins/marketplace.ts:1718`), and enabling a plugin checks none (`:2109`).

## Not modelled

- **Plugins and licences on the gateway's side** (`lib/plugins`): installation is a chain of
  remote calls and single writes of one request, revalidation rewrites one column from an
  answer. Their purchases are `RegistryOrders`.
- **The Solana scan and several addresses on one chain**: what the first misses depends on
  the traffic of an address, not on the order of its steps; the accounts of one chain share
  a cursor that an error of any of them holds back, as in the model.
- **Changes of the registry's settings**: raising `payoutHoldDays` holds credits again that
  payouts may have drawn on already; in the model a credit matures once.
- **Exchange rates**: which rate an order is quoted at enters no property.
- **The gateways' protocols and cryptography, the plugin sandbox, sessions and roles,
  configuration, review and signing in the registry, storage and scanning of bundles**:
  single statements, pure functions, or third-party code behind one message and a timeout.
- **Pages, forms, texts, the OpenAPI document, the Android app, deployment**: most of
  the lines of the repository. The map's share of all lines is small for that reason; of
  the services that change orders, refunds, callbacks, settlements, deposits, bills,
  purchases and payouts it covers the state-changing code.

`PROJECT.json` lists every component with its reason.
