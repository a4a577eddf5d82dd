--------------------------- MODULE PaymentOrders ---------------------------
(***************************************************************************)
(* The life of payment orders: lib/orders/service.ts with the two           *)
(* functions of lib/finance/ledger.ts it calls, the webhook routes, the      *)
(* payment monitor and the finance worker's sweep and backfill.             *)
(*                                                                         *)
(* Every request handler and worker iteration is a task.  A task awaits one  *)
(* database statement or one provider call at a time, and between two        *)
(* awaits any other task may run: each await is an action here.  Postgres    *)
(* runs at READ COMMITTED and none of these functions locks the order row    *)
(* or makes its update conditional, so a write may rest on a stale read.     *)
(*                                                                         *)
(* The callback columns of the order are written by these functions too;     *)
(* they never influence the columns below, and are the subject of            *)
(* MerchantCallbacks.  Of dispatchMerchantCallback only the fact that it is  *)
(* awaited before the ledger is written, and may throw, matters here.        *)
(***************************************************************************)
EXTENDS OrderStatus, Naturals

CONSTANTS
    Orders,          \* the merchant's order references (unique per merchant)
    NoOrder,         \* the order of an idle task
    Tasks,           \* concurrent handlers and worker loops
    Roles,           \* Roles[t]: the operations task t may run
    Channels,        \* the kinds of channel orders are placed on
    UpstreamCloses,  \* orders whose trade the gateway may fail or close on its own
    MaxFaults        \* bound on crashes, failed statements and failed calls

Operations == {"create", "notify", "lookup", "expire", "close", "backfill"}

\* "gateway": Alipay and WeChat Pay.  "usdt": an on-chain address.
\* "ctf": a personal collection code watched by the bill-capture agent.
ChannelKinds == {"gateway", "usdt", "ctf"}

ASSUME OrdersAssumption == NoOrder \notin Orders
ASSUME RolesAssumption == Roles \in [Tasks -> SUBSET Operations]
ASSUME ChannelAssumption == Channels \subseteq ChannelKinds
ASSUME FaultsAssumption == MaxFaults \in Nat /\ UpstreamCloses \subseteq Orders

VARIABLES
    rows,      \* the payment_order row of each order
    ledger,    \* the ledger entries, as pairs <<order, entry type>>
    tasks,     \* what every task is doing
    trade,     \* the state of the trade at the provider
    outbox,    \* notifications the provider has issued and may (re)deliver
    acked,     \* orders whose success notification was answered with success
    expired,   \* orders whose expireAt has passed
    faults

vars == <<rows, ledger, tasks, trade, outbox, acked, expired, faults>>

env == <<trade, outbox, acked, expired, faults>>

-----------------------------------------------------------------------------
(* Amounts are told apart only by which of the order's two amounts they are: *)
(* "base" is order.amount, "quoted" a payableAmount that differs from it     *)
(* (a USDT quote, or a CTF amount with a tail), "other" neither.  Amounts    *)
(* within the tolerance of 0.01 are one amount.                              *)

Amounts == {"base", "quoted", "other", "absent"}

Notes == [kind : NoteKinds, amount : Amounts]

Row == [status : Statuses \cup {"ABSENT"}, channel : ChannelKinds \cup {"none"},
        paidAt : BOOLEAN, completedAt : BOOLEAN, quoted : BOOLEAN, fee : BOOLEAN,
        checkoutUrl : BOOLEAN]

\* An order just inserted; quoted: payableAmount differs from amount; fee: the fee, fixed
\* here for good, is not zero.
Inserted(status, channel, quoted, fee) ==
    [status |-> status, channel |-> channel, paidAt |-> FALSE,
     completedAt |-> FALSE, quoted |-> quoted, fee |-> fee, checkoutUrl |-> FALSE]

NoRow == Inserted("ABSENT", "none", FALSE, FALSE)

NoNote == [kind |-> "pending", amount |-> "absent"]

\* buildExpiredPaymentNotification: the amount is order.amount, whatever is payable.
ExpiredNote == [kind |-> "closed", amount |-> "base"]

TradeStates == {"none", "open", "paid", "mispaid", "failed", "closed"}

Entries == Orders \X {"capture", "fee"}

PCs == {"idle", "provider", "createWrite", "createFail", "query", "reload", "shut",
        "read", "write", "dispatch", "ledger", "capture", "fee"}

\* "sync": inside syncPaymentOrderFromProvider; "close": applying the answer of
\* closePayment; "final": a last apply, after which the task is over.
Phases == {"sync", "close", "final"}

Task == [op : Operations, pc : PCs, order : Orders \cup {NoOrder},
         phase : Phases, note : Notes, snap : Row]

Idle == [op |-> "notify", pc |-> "idle", order |-> NoOrder,
         phase |-> "final", note |-> NoNote, snap |-> NoRow]

Holding(op, pc, o, phase, note) ==
    [op |-> op, pc |-> pc, order |-> o, phase |-> phase, note |-> note, snap |-> NoRow]

Run(op, pc, o, phase) == Holding(op, pc, o, phase, NoNote)

Exists(o) == rows[o].status # "ABSENT"

HasQuery(o) == rows[o].channel \in {"gateway", "ctf"}

HasClose(o) == rows[o].channel \in {"gateway", "usdt"}

\* order.payableAmount ?? order.amount
Expected(row) == IF row.quoted THEN "quoted" ELSE "base"

\* assertPaymentNotificationAmountMatches, as production runs it: a success must carry an
\* amount.  (NOVAPAY_REQUIRE_NOTIFICATION_AMOUNT=0 and development builds let one without
\* pass unchecked; no property below is claimed of them.)
AmountMatches(row, note) ==
    \/ note.amount = Expected(row)
    \/ note.amount = "absent" /\ note.kind # "success"

Init ==
    /\ rows = [o \in Orders |-> NoRow]
    /\ ledger = {}
    /\ tasks = [t \in Tasks |-> Idle]
    /\ trade = [o \in Orders |-> "none"]
    /\ outbox = [o \in Orders |-> {}]
    /\ acked = {}
    /\ expired = {}
    /\ faults = 0

-----------------------------------------------------------------------------
(* What a task does when the apply (or the call before it) it awaited has    *)
(* returned, or has thrown.                                                  *)

Returned(task) ==
    CASE task.phase = "sync" -> [task EXCEPT !.pc = "reload", !.note = NoNote, !.snap = NoRow]
      [] task.phase \in {"close", "final"} -> Idle

\* Mutant: an expiry whose closePayment failed is given up.
ThrewSilently(task) ==
    IF task.op = "expire" /\ task.phase = "sync"
    THEN [task EXCEPT !.pc = "reload", !.note = NoNote, !.snap = NoRow]
    ELSE Idle

Threw(task) ==
    CASE task.op = "expire" /\ task.phase = "sync" ->
            [task EXCEPT !.pc = "reload", !.note = NoNote, !.snap = NoRow]
      [] task.op = "expire" /\ task.phase = "close" ->
            Holding("expire", "read", task.order, "final", ExpiredNote)
      [] ~(task.op = "expire" /\ task.phase \in {"sync", "close"}) -> Idle

\* The provider stops redelivering a success once the route has answered it.
AckedAfter(task) ==
    IF task.op = "notify" /\ task.note.kind = "success"
    THEN acked \cup {task.order} ELSE acked

Continue(t) ==
    /\ tasks' = [tasks EXCEPT ![t] = Returned(tasks[t])]
    /\ acked' = AckedAfter(tasks[t])

Abort(t) == tasks' = [tasks EXCEPT ![t] = Threw(tasks[t])]

GoTo(t, pc) == tasks' = [tasks EXCEPT ![t].pc = pc]

Start(t, op) == tasks[t].pc = "idle" /\ op \in Roles[t]

At(t, pc) == tasks[t].pc = pc

Fault == faults < MaxFaults /\ faults' = faults + 1

-----------------------------------------------------------------------------
(* createPaymentOrder                                                        *)

\* The look-up by (merchantId, externalOrderId) and the insert: the unique key makes a
\* second creator of the same reference return, or throw, without any effect.  Only
\* a CTF order may get a payable amount different from its amount at this point.
CreateInsert(t, o) ==
    /\ Start(t, "create")
    /\ ~Exists(o)
    /\ \E channel \in Channels, quoted \in BOOLEAN, fee \in BOOLEAN :
          /\ quoted => channel = "ctf"
          /\ rows' = [rows EXCEPT ![o] = Inserted("PENDING", channel, quoted, fee)]
    /\ tasks' = [tasks EXCEPT ![t] = Run("create", "provider", o, "final")]
    /\ UNCHANGED <<ledger, env>>

\* provider.createPayment answers; a gateway has opened the trade.
CreateProviderReturns(t) ==
    LET o == tasks[t].order IN
    /\ At(t, "provider")
    /\ trade' = [trade EXCEPT ![o] = "open"]
    /\ GoTo(t, "createWrite")
    /\ UNCHANGED <<rows, ledger, outbox, acked, expired, faults>>

\* It throws.  A gateway call that timed out may have opened the trade.
CreateProviderThrows(t) ==
    LET o == tasks[t].order IN
    /\ At(t, "provider")
    /\ \E s \in (IF rows[o].channel = "gateway" THEN {"none", "open"} ELSE {"none"}) :
          trade' = [trade EXCEPT ![o] = s]
    /\ GoTo(t, "createFail")
    /\ UNCHANGED <<rows, ledger, outbox, acked, expired, faults>>

\* The row after the update with the provider's answer; a USDT quote becomes the payable
\* amount here.
Created(row, result) ==
    [row EXCEPT !.status = StatusFromCreatePayment(result),
                !.quoted = row.quoted \/ row.channel = "usdt",
                !.checkoutUrl = TRUE]

\* That update is unconditional, whatever happened to the row during the call.
CreateWrite(t) ==
    LET o == tasks[t].order IN
    /\ At(t, "createWrite")
    /\ \E result \in CreateResults :
          rows' = [rows EXCEPT ![o] = Created(rows[o], result)]
    /\ tasks' = [tasks EXCEPT ![t] = Idle]
    /\ UNCHANGED <<ledger, env>>

\* That update throws inside the try block.
CreateWriteThrows(t) ==
    /\ At(t, "createWrite")
    /\ Fault
    /\ GoTo(t, "createFail")
    /\ UNCHANGED <<rows, ledger, trade, outbox, acked, expired>>

\* The catch block: an unconditional FAILED.
CreateFail(t) ==
    LET o == tasks[t].order IN
    /\ At(t, "createFail")
    /\ rows' = [rows EXCEPT ![o].status = "FAILED"]
    /\ tasks' = [tasks EXCEPT ![t] = Idle]
    /\ UNCHANGED <<ledger, env>>

-----------------------------------------------------------------------------
(* Tasks that end in applyPaymentNotification                                *)

\* Mutant: the route answers before it applies the notification.
DeliverAckedFirst(t, o, note) ==
    /\ Start(t, "notify")
    /\ note \in outbox[o]
    /\ tasks' = [tasks EXCEPT ![t] = Holding("notify", "read", o, "final", note)]
    /\ acked' = acked \cup {o}
    /\ UNCHANGED <<rows, ledger, trade, outbox, expired, faults>>

\* A webhook of the gateway, or a bill or deposit that the capture and on-chain workers
\* matched to an order that is still active or was cancelled.
Deliver(t, o, note) ==
    /\ Start(t, "notify")
    /\ note \in outbox[o]
    /\ rows[o].channel # "gateway" =>
          o \notin acked /\ rows[o].status \in Active \cup {"CANCELLED"}
    /\ tasks' = [tasks EXCEPT ![t] = Holding("notify", "read", o, "final", note)]
    /\ UNCHANGED <<rows, ledger, env>>

\* getMerchantPaymentOrder with syncWithProvider, from a merchant's query or from the
\* payment monitor.  Without queryPayment it is only the expiry check below.
StartLookup(t, o) ==
    /\ Start(t, "lookup")
    /\ Exists(o) /\ HasQuery(o)
    /\ tasks' = [tasks EXCEPT ![t] = Run("lookup", "query", o, "sync")]
    /\ UNCHANGED <<rows, ledger, env>>

\* Mutant: the trade is closed without having asked the provider about it.
ExpireUnasked(o) == Run("expire", "shut", o, "close")

\* expirePaymentOrderIfNeeded, from a look-up or from the sweep of the finance worker.
ExpireTask(o) ==
    IF HasQuery(o) THEN Run("expire", "query", o, "sync") ELSE Run("expire", "shut", o, "close")

StartExpire(t, o) ==
    /\ Start(t, "expire")
    /\ rows[o].status \in Active
    /\ o \in expired
    /\ tasks' = [tasks EXCEPT ![t] = ExpireTask(o)]
    /\ UNCHANGED <<rows, ledger, env>>

\* closeMerchantPaymentOrder: a terminal order is refused or returned as it is.
StartClose(t, o) ==
    /\ Start(t, "close")
    /\ rows[o].status \in Active
    /\ tasks' = [tasks EXCEPT ![t] = IF HasQuery(o) THEN Run("close", "query", o, "sync")
                                                    ELSE Run("close", "shut", o, "close")]
    /\ UNCHANGED <<rows, ledger, env>>

\* What queryPayment answers now; a gateway without the trade answers with an error.
QueryAnswers(o) ==
    IF rows[o].channel = "ctf" THEN {[kind |-> "pending", amount |-> "base"]}
    ELSE CASE trade[o] = "paid"    -> {[kind |-> "success", amount |-> "base"]}
           [] trade[o] = "mispaid" -> {[kind |-> "success", amount |-> "other"]}
           [] trade[o] = "closed"  -> {[kind |-> "closed", amount |-> "absent"]}
           [] trade[o] = "failed"  -> {[kind |-> "failure", amount |-> "absent"]}
           [] trade[o] = "open"    -> {[kind |-> "pending", amount |-> "absent"]}
           [] trade[o] = "none"    -> {}

Query(t) ==
    /\ At(t, "query")
    /\ \E note \in QueryAnswers(tasks[t].order) :
          tasks' = [tasks EXCEPT ![t].note = note, ![t].pc = "read"]
    /\ UNCHANGED <<rows, ledger, env>>

QueryFails(t) ==
    /\ At(t, "query")
    /\ \/ QueryAnswers(tasks[t].order) = {} /\ UNCHANGED faults
       \/ Fault
    /\ Abort(t)
    /\ UNCHANGED <<rows, ledger, trade, outbox, acked, expired>>

\* loadPaymentOrderById after the synchronisation, and the decision taken on it.
Reload(t) ==
    LET task == tasks[t]
        o == task.order
        next == IF rows[o].status \notin Active \/ (task.op = "lookup" /\ o \notin expired)
                THEN Idle
                ELSE IF task.op = "lookup" THEN ExpireTask(o)
                ELSE Run(task.op, "shut", o, "close")
    IN
    /\ At(t, "reload")
    /\ tasks' = [tasks EXCEPT ![t] = next]
    /\ UNCHANGED <<rows, ledger, env>>

\* provider.closePayment succeeds.  The USDT provider has nobody to ask and answers
\* with order.amount; a gateway closes an open trade.
ShutTrade(t) ==
    LET o == tasks[t].order
        amount == IF rows[o].channel = "usdt" THEN "base" ELSE "absent"
    IN
    /\ At(t, "shut") /\ HasClose(o)
    /\ \/ rows[o].channel = "usdt" /\ UNCHANGED trade
       \/ /\ rows[o].channel = "gateway" /\ trade[o] \in {"open", "failed", "closed"}
          /\ trade' = [trade EXCEPT ![o] = "closed"]
    /\ tasks' = [tasks EXCEPT ![t].pc = "read",
                              ![t].note = [kind |-> "closed", amount |-> amount]]
    /\ UNCHANGED <<rows, ledger, outbox, acked, expired, faults>>

\* It throws: there is no such trade, it is paid, or the call failed (and may
\* nevertheless have closed the trade).
ShutFails(t) ==
    LET o == tasks[t].order IN
    /\ At(t, "shut") /\ HasClose(o)
    /\ \/ rows[o].channel = "gateway" /\ trade[o] # "open" /\ UNCHANGED <<trade, faults>>
       \/ Fault /\ UNCHANGED trade
       \/ Fault /\ trade[o] = "open" /\ trade' = [trade EXCEPT ![o] = "closed"]
    /\ Abort(t)
    /\ UNCHANGED <<rows, ledger, outbox, acked, expired>>

\* The channel cannot close: an expiry is applied locally, a close request is refused.
ShutUnsupported(t) ==
    /\ At(t, "shut") /\ ~HasClose(tasks[t].order)
    /\ Abort(t)
    /\ UNCHANGED <<rows, ledger, env>>

-----------------------------------------------------------------------------
(* applyPaymentNotification                                                  *)

ApplyRead(t) ==
    LET o == tasks[t].order IN
    /\ At(t, "read")
    /\ IF AmountMatches(rows[o], tasks[t].note)
       THEN tasks' = [tasks EXCEPT ![t].pc = "write", ![t].snap = rows[o]]
       ELSE Abort(t)
    /\ UNCHANGED <<rows, ledger, env>>

\* Mutant: the date of an earlier payment is forgotten.
AppliedForgetting(current, read, kind) ==
    LET next == ResolveStatus(read.status, kind) IN
    [current EXCEPT !.status = next,
                    !.paidAt = kind = "success",
                    !.completedAt = IsTerminal(next) \/ read.completedAt]

\* The row the update leaves: computed from the row read before, not the current one.
Applied(current, read, kind) ==
    LET next == ResolveStatus(read.status, kind) IN
    [current EXCEPT !.status = next,
                    !.paidAt = kind = "success" \/ read.paidAt,
                    !.completedAt = IsTerminal(next) \/ read.completedAt]

ApplyWrite(t) ==
    LET o == tasks[t].order
        row == Applied(rows[o], tasks[t].snap, tasks[t].note.kind)
    IN
    /\ At(t, "write")
    /\ rows' = [rows EXCEPT ![o] = row]
    /\ IF IsTerminal(row.status)
       THEN /\ tasks' = [tasks EXCEPT ![t].pc = "dispatch", ![t].snap = row]
            /\ UNCHANGED acked
       ELSE Continue(t)
    /\ UNCHANGED <<ledger, trade, outbox, expired, faults>>

\* dispatchMerchantCallback (when a callback is queued) has returned.
DispatchReturns(t) ==
    /\ At(t, "dispatch")
    /\ IF tasks[t].snap.status = "SUCCEEDED"
       THEN GoTo(t, "ledger") /\ UNCHANGED acked
       ELSE Continue(t)
    /\ UNCHANGED <<rows, ledger, trade, outbox, expired, faults>>

\* syncPaymentOrderLedgerEntries reads the order again ...
LedgerRead(t) ==
    /\ At(t, "ledger")
    /\ IF rows[tasks[t].order].status = "SUCCEEDED"
       THEN GoTo(t, "capture") /\ UNCHANGED acked
       ELSE Continue(t)
    /\ UNCHANGED <<rows, ledger, trade, outbox, expired, faults>>

\* Mutant: the fee is upserted before the capture.
UpsertFeeFirst(t) ==
    /\ At(t, "capture")
    /\ ledger' = ledger \cup {<<tasks[t].order, "fee">>}
    /\ GoTo(t, "fee")
    /\ UNCHANGED <<rows, env>>

\* ... and upserts the capture ...
UpsertCapture(t) ==
    /\ At(t, "capture")
    /\ ledger' = ledger \cup {<<tasks[t].order, "capture">>}
    /\ GoTo(t, "fee")
    /\ UNCHANGED <<rows, env>>

\* ... then the fee, if there is one; the entry of a fee of zero is deleted.
UpsertFee(t) ==
    LET o == tasks[t].order
        entry == {<<o, "fee">>}
    IN
    /\ At(t, "fee")
    /\ ledger' = IF rows[o].fee THEN ledger \cup entry ELSE ledger \ entry
    /\ Continue(t)
    /\ UNCHANGED <<rows, trade, outbox, expired, faults>>

\* A statement of apply, or the dispatch it awaits, throws.
ApplyThrows(t) ==
    /\ tasks[t].pc \in {"read", "write", "dispatch", "ledger", "capture", "fee"}
    /\ Fault
    /\ Abort(t)
    /\ UNCHANGED <<rows, ledger, trade, outbox, acked, expired>>

\* Mutant: the backfill selects orders that are still open.
StartBackfillOfOpen(t, o) ==
    /\ Start(t, "backfill")
    /\ rows[o].status \in Active
    /\ tasks' = [tasks EXCEPT ![t] = Run("backfill", "ledger", o, "final")]
    /\ UNCHANGED <<rows, ledger, env>>

\* backfillMerchantLedgerEntries, for one order of its list.
StartBackfill(t, o) ==
    /\ Start(t, "backfill")
    /\ rows[o].status = "SUCCEEDED"
    /\ tasks' = [tasks EXCEPT ![t] = Run("backfill", "ledger", o, "final")]
    /\ UNCHANGED <<rows, ledger, env>>

\* The process that runs the task dies; what it committed stays.
Crash(t) ==
    /\ ~At(t, "idle")
    /\ Fault
    /\ tasks' = [tasks EXCEPT ![t] = Idle]
    /\ UNCHANGED <<rows, ledger, trade, outbox, acked, expired>>

-----------------------------------------------------------------------------
(* The payer, the provider and the clock                                     *)

\* The payer pays what the checkout page asks for, once there is one.  A transfer on
\* a capture channel counts only if it was made before the order expired.
Pay(o) ==
    /\ trade[o] = "open" /\ rows[o].checkoutUrl
    /\ rows[o].channel # "gateway" => o \notin expired
    /\ trade' = [trade EXCEPT ![o] = "paid"]
    /\ outbox' = [outbox EXCEPT ![o] =
                    @ \cup {[kind |-> "success", amount |-> Expected(rows[o])]}]
    /\ UNCHANGED <<rows, ledger, tasks, acked, expired, faults>>

\* The trade is settled for an amount that is not the order's.
Mispay(o) ==
    /\ trade[o] = "open" /\ rows[o].channel = "gateway" /\ rows[o].checkoutUrl
    /\ trade' = [trade EXCEPT ![o] = "mispaid"]
    /\ outbox' = [outbox EXCEPT ![o] = @ \cup {[kind |-> "success", amount |-> "other"]}]
    /\ UNCHANGED <<rows, ledger, tasks, acked, expired, faults>>

\* The gateway reports that the payment failed.
FailUpstream(o) ==
    /\ o \in UpstreamCloses /\ rows[o].channel = "gateway"
    /\ trade[o] = "open"
    /\ trade' = [trade EXCEPT ![o] = "failed"]
    /\ outbox' = [outbox EXCEPT ![o] = @ \cup {[kind |-> "failure", amount |-> "absent"]}]
    /\ UNCHANGED <<rows, ledger, tasks, acked, expired, faults>>

\* The gateway closes the trade: unpaid for too long, or refunded in full.
CloseUpstream(o) ==
    /\ o \in UpstreamCloses /\ rows[o].channel = "gateway"
    /\ trade[o] \in {"open", "paid"}
    /\ trade' = [trade EXCEPT ![o] = "closed"]
    /\ outbox' = [outbox EXCEPT ![o] = @ \cup {[kind |-> "closed", amount |-> "absent"]}]
    /\ UNCHANGED <<rows, ledger, tasks, acked, expired, faults>>

\* expireAt lies minutes ahead; the calls of a creation time out within seconds.
PassExpiry(o) ==
    /\ Exists(o) /\ o \notin expired
    /\ \A t \in Tasks : tasks[t].op = "create" => tasks[t].order # o
    /\ expired' = expired \cup {o}
    /\ UNCHANGED <<rows, ledger, tasks, trade, outbox, acked, faults>>

-----------------------------------------------------------------------------

\* A running task takes its next step, without a fault.
Step(t) ==
    \/ CreateProviderReturns(t) \/ CreateWrite(t) \/ CreateFail(t)
    \/ Query(t) \/ Reload(t) \/ ShutTrade(t) \/ ShutUnsupported(t)
    \/ ApplyRead(t) \/ ApplyWrite(t) \/ DispatchReturns(t)
    \/ LedgerRead(t) \/ UpsertCapture(t) \/ UpsertFee(t)

Fail(t) ==
    \/ CreateProviderThrows(t) \/ CreateWriteThrows(t)
    \/ QueryFails(t) \/ ShutFails(t) \/ ApplyThrows(t) \/ Crash(t)

Begin(t, o) ==
    \/ CreateInsert(t, o) \/ StartLookup(t, o) \/ StartExpire(t, o)
    \/ StartClose(t, o) \/ StartBackfill(t, o)
    \/ \E note \in outbox[o] : Deliver(t, o, note)

World(o) ==
    Pay(o) \/ Mispay(o) \/ FailUpstream(o) \/ CloseUpstream(o) \/ PassExpiry(o)

Next ==
    \/ \E t \in Tasks : Step(t) \/ Fail(t)
    \/ \E t \in Tasks, o \in Orders : Begin(t, o)
    \/ \E o \in Orders : World(o)

Spec == Init /\ [][Next]_vars

-----------------------------------------------------------------------------
(* Fairness.  A task that runs goes on (an await settles or throws).  The    *)
(* backfill loops for ever over every SUCCEEDED order; the monitor polls the  *)
(* open orders next to expire, which leave its batch by expiring: hence       *)
(* strong fairness of their starts.  The expiry sweep is not fair to every    *)
(* order (see Swept).  Nothing obliges a provider, a payer, a merchant or     *)
(* the clock.                                                                 *)

\* listDuePaymentOrderRefs: the monitor polls active orders that have not expired.
MonitorPoll(o) ==
    /\ rows[o].status \in Active /\ o \notin expired
    /\ \E t \in Tasks : StartLookup(t, o)

Fairness ==
    /\ \A t \in Tasks : WF_vars(Step(t) \/ QueryFails(t) \/ ShutFails(t))
    /\ \A o \in Orders :
          /\ SF_vars(\E t \in Tasks : StartBackfill(t, o))
          /\ SF_vars(MonitorPoll(o))

FairSpec == Spec /\ Fairness

-----------------------------------------------------------------------------
(* Properties                                                                *)

TypeOK ==
    /\ rows \in [Orders -> Row]
    /\ ledger \subseteq Entries
    /\ tasks \in [Tasks -> Task]
    /\ trade \in [Orders -> TradeStates]
    /\ outbox \in [Orders -> SUBSET Notes]
    /\ acked \subseteq Orders
    /\ expired \subseteq Orders
    /\ faults \in 0 .. MaxFaults

\* The provider has at some time reported a payment of the amount asked for.
Paid(o) == \E note \in outbox[o] : note.kind = "success" /\ note.amount # "other"

\* No interleaving of stale reads and late writes makes an order SUCCEEDED, or books it
\* in the ledger, unless the payer paid the amount asked for (the amount check of
\* applyPaymentNotification, service.ts:858, and the status guard of ledger.ts:31).
MoneyFollowsEvidence ==
    \A o \in Orders :
        rows[o].status = "SUCCEEDED" \/ <<o, "capture">> \in ledger => Paid(o)

\* What a reader sees of the orders, and those whose payment was reported.
Shown == [o \in Orders |-> rows[o].status]

Reported == {o \in Orders : Paid(o)}

Promise == INSTANCE Payments
    WITH status <- Shown, reported <- Reported, booked <- ledger

\* Stale reads, late writes, repeated notifications, crashes and the backfill of the finance
\* worker keep the promise of Payments: no order vanishes (service.ts:743), none succeeds or is
\* booked without its payment, no entry is withdrawn, and the fee never precedes its capture,
\* although a handler may die between the two upserts (ledger.ts:35, 81).
PaymentsKept == Promise!Spec

Stamped(row) ==
    /\ row.status = "SUCCEEDED" => row.paidAt /\ row.completedAt
    /\ row.status = "CANCELLED" => row.completedAt

\* paidAt and completedAt are copied from the row read before (service.ts:889-895), so a
\* stale writer may erase them; it never does so on an order it leaves SUCCEEDED, nor
\* erases completedAt on one it leaves CANCELLED.  The ledger dates entries by them.
TerminalIsStamped == \A o \in Orders : Stamped(rows[o])

\* The changes resolvePaymentStatusFromNotification allows to a terminal order.
MayBecome(old, new) ==
    new \in {old, "SUCCEEDED"} \/ (old = "FAILED" /\ new = "CANCELLED")

\* A write to o is in flight that rests on a status the order no longer has.
StaleWriter(o) ==
    \E t \in Tasks :
        /\ tasks[t].order = o
        /\ \/ tasks[t].pc = "write" /\ tasks[t].snap.status # rows[o].status
           \/ tasks[t].pc \in {"createWrite", "createFail"}

\* A terminal order is reopened, or loses its success, only by a write resting on a stale
\* read (service.ts:834 to 881) or by the late writes of its own creation (787, 813): run
\* one after the other, the handlers respect the status machine of status.ts.
OnlyStaleWritesUndo ==
    [][\A o \in Orders :
          IsTerminal(rows[o].status) /\ ~MayBecome(rows[o].status, rows'[o].status)
             => StaleWriter(o)]_vars

\* The provider repeats the notification of a success until the route has answered it.
Redeliver(o) ==
    \E t \in Tasks, note \in outbox[o] :
        note.kind = "success" /\ o \notin acked /\ Deliver(t, o, note)

\* An order whose payer paid becomes SUCCEEDED, however webhooks are lost, repeated and
\* interleaved with closings and expiries, if the provider redelivers until it is answered.
PaidBecomesSucceeded ==
    \A o \in Orders :
        SF_vars(Redeliver(o)) /\ <>Paid(o) => <>(rows[o].status = "SUCCEEDED")

\* The sweep takes up the order.  It selects the 50 orders longest expired, and those it
\* cannot close stay among them, so that only an order with fewer than 50 of these ahead of
\* it is sure to be selected again and again (closeExpiredPaymentOrders, service.ts:463-475):
\* a premise of what follows, not a fairness of the code.
Swept(o) == \E t \in Tasks : StartExpire(t, o)

\* An order whose expireAt has passed, if the sweep takes it up again and again, does not
\* stay open, whatever the queries and the closings at the provider answer or throw; but for
\* one with a payable amount of its own, which no closing notification gets past the amount
\* check (service.ts:453).
ExpiredIsSettled ==
    \A o \in Orders :
        SF_vars(Swept(o))
            => ((o \in expired /\ rows[o].status \in Active /\ ~rows[o].quoted)
                   ~> IsTerminal(rows[o].status))

\* The entries of a payment: the capture, and the fee if it is not zero.
Due(o) ==
    {<<o, "capture">>} \cup {entry \in {<<o, "fee">>} : rows[o].fee}

\* An order that remains SUCCEEDED ends with the ledger entries due for it, no more and no
\* fewer, although the handler that made it so may die before it writes them
\* (backfillMerchantLedgerEntries, ledger.ts:210, heals it).
SuccessIsBooked ==
    \A o \in Orders :
        <>[](rows[o].status = "SUCCEEDED")
            => <>[]({entry \in ledger : entry[1] = o} = Due(o))

\* A payment made before the order expired is noticed even if every webhook is lost: the
\* monitor polls until expireAt, and the sweep asks the gateway once more before it closes
\* (payment-monitor.ts:66), if it comes to the order (Swept).  Only a failed call at that very
\* moment can prevent it.
MissedNotificationIsReconciled ==
    \A o \in Orders, n \in 0 .. MaxFaults :
        SF_vars(Swept(o))
            => ((/\ Paid(o) /\ rows[o].status \in Active /\ rows[o].channel = "gateway"
                 /\ o \notin expired /\ faults = n)
                   ~> (rows[o].status = "SUCCEEDED" \/ faults > n))

-----------------------------------------------------------------------------
(* The inductive invariant behind the safety properties: what a task carries *)
(* from its earlier reads is as well founded as what the rows hold.          *)

\* A stale snapshot that says SUCCEEDED, or a success in hand, was paid for.
Founded(task) ==
    /\ IF task.pc = "idle" THEN task.note = NoNote /\ task.snap = NoRow
                           ELSE task.order \in Orders
    /\ Stamped(task.snap)
    /\ task.snap.status = "SUCCEEDED" => Paid(task.order)
    /\ task.note.kind = "success" /\ task.note.amount # "other" => Paid(task.order)
    /\ task.pc = "write" /\ task.note.kind = "success" => task.note.amount # "other"
    /\ task.pc = "capture" => Paid(task.order)

\* What the provider knows of, and what a task works on, is in the table; a fee is booked
\* only for an order that has one, and is about to be booked only after its capture.
OrdersAreThere ==
    /\ \A o \in Orders :
          /\ trade[o] # "none" \/ outbox[o] # {} \/ rows[o].checkoutUrl => Exists(o)
          /\ <<o, "fee">> \in ledger => Exists(o) /\ rows[o].fee
    /\ \A t \in Tasks :
          /\ ~At(t, "idle") => Exists(tasks[t].order)
          /\ At(t, "fee") => <<tasks[t].order, "capture">> \in ledger

TradeIsFounded == \A o \in Orders : trade[o] = "paid" => Paid(o)

IInv ==
    /\ TypeOK
    /\ MoneyFollowsEvidence
    /\ TerminalIsStamped
    /\ TradeIsFounded
    /\ \A t \in Tasks : Founded(tasks[t])

=============================================================================
