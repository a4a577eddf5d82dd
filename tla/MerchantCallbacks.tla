------------------------- MODULE MerchantCallbacks -------------------------
(***************************************************************************)
(* The business callback of one payment order: lib/callbacks/service.ts,     *)
(* the callback columns applyPaymentNotification writes, the late writes of  *)
(* createPaymentOrder to the status, the retry worker and the administrator's *)
(* forced retry.                                                             *)
(*                                                                         *)
(* A delivery is claimed by one conditional update that leases the order to  *)
(* the claimer until nextCallbackAt; everything around that update reads     *)
(* and writes the row without a condition.  Orders do not interact here, so  *)
(* one order is modelled.                                                    *)
(*                                                                         *)
(* Time is kept as timers: nextCallbackAt is the number of ticks left until  *)
(* it, 0 once it has passed and Never when it is null.                       *)
(***************************************************************************)
EXTENDS OrderStatus, Integers

CONSTANTS
    Tasks,          \* concurrent handlers and worker loops
    Kinds,          \* the kinds of notification the order may receive
    Forms,          \* the forms of order considered, a subset of OrderForms
    Endings,        \* the statuses the creation may end with
    Retries,        \* administrators force retries
    MaxSwitches,    \* bound on changes of the merchant's callbackEnabled
    MaxAttempts,    \* CALLBACK_MAX_ATTEMPTS
    Lease,          \* max(timeout + 5 s, 15 s), in ticks
    Retry,          \* CALLBACK_RETRY_INTERVAL_SECONDS, in ticks
    MaxAge,         \* the longest a dispatch takes from its "now" to its last write
    MaxFaults       \* bound on crashes and on answers other than 2xx

\* easypay: placed through the EasyPay protocol, with a notify_url of its own; credential:
\* and its EasyPay credential is found; url: order.callbackUrl or merchant.callbackBase is set.
OrderForms == [easypay : BOOLEAN, credential : BOOLEAN, url : BOOLEAN]

ASSUME CallbacksAssumption ==
    /\ Kinds \subseteq NoteKinds
    /\ Forms \subseteq OrderForms
    /\ Endings \subseteq {"PENDING", "PROCESSING", "FAILED"}
    /\ Retries \in BOOLEAN
    /\ {MaxAttempts, Lease, Retry, MaxAge} \subseteq Nat \ {0}
    /\ {MaxSwitches, MaxFaults} \subseteq Nat

VARIABLES
    form,          \* the form of the order, which does not change
    row,           \* the status and the callback columns of the order
    creating,      \* createPaymentOrder awaits the provider or its own last write
    tasks,         \* what every task is doing
    enabled,       \* merchant.callbackEnabled
    switches,      \* how often it has changed
    acknowledged,  \* the statuses the merchant has answered 2xx for
    raced,         \* history: the row was written while another task was dispatching
    overtaken,     \* history: the creation's last write replaced a final status
    faults

vars == <<form, row, creating, tasks, enabled, switches, acknowledged, raced, overtaken,
          faults>>

creation == <<creating, overtaken>>

-----------------------------------------------------------------------------

Never == -1

Timers == {Never} \cup 0 .. (IF Lease > Retry THEN Lease ELSE Retry)

Due(timer) == timer = 0

Running(timer) == timer > 0

Elapsed(timer) == IF Running(timer) THEN timer - 1 ELSE timer

CallbackStatuses == {"NOT_REQUIRED", "PENDING", "PROCESSING", "DELIVERED", "FAILED"}

\* attempts is callbackAttemptsCount, which is only ever compared with MaxAttempts and
\* therefore not counted beyond it.
Row == [status : Statuses, callback : CallbackStatuses,
        attempts : 0 .. MaxAttempts, next : Timers]

Counted(n) == IF n < MaxAttempts THEN n + 1 ELSE n

\* A row as createPaymentOrder leaves it.
NewRow == [status |-> "PENDING", callback |-> "NOT_REQUIRED", attempts |-> 0, next |-> Never]

PCs == {"idle", "write", "load", "drop", "claim", "send", "record"}

\* "retry" is dispatchMerchantCallback with force = true.
Operations == {"apply", "worker", "retry"}

Task == [op : Operations, pc : PCs, kind : NoteKinds, snap : Row,
         ok : BOOLEAN, age : 0 .. MaxAge]

At(t, pc) == tasks[t].pc = pc

Holding(op, pc, kind, snap) ==
    [op |-> op, pc |-> pc, kind |-> kind, snap |-> snap, ok |-> FALSE, age |-> 0]

Idle == Holding("worker", "idle", "pending", NewRow)

Become(t, task) == tasks' = [tasks EXCEPT ![t] = task]

GoTo(t, pc) == Become(t, [tasks[t] EXCEPT !.pc = pc])

Forced(t) == tasks[t].op = "retry"

\* The task has read the row for its request and passed the early returns.
Claimed(task) == IsTerminal(task.snap.status)

\* A dispatch whose "now" is taken and whose result is not recorded.
Dispatching(task) ==
    task.pc \in {"claim", "send", "record"} \/ (task.pc = "drop" /\ Claimed(task))

\* Another task is between the read its request is built from and its last write.
Interferes(t) == \E u \in Tasks \ {t} : Dispatching(tasks[u])

Fault == faults < MaxFaults /\ faults' = faults + 1

Init ==
    /\ form \in Forms
    /\ row = NewRow
    /\ creating = TRUE
    /\ tasks = [t \in Tasks |-> Idle]
    /\ enabled \in BOOLEAN
    /\ switches = 0
    /\ acknowledged = {}
    /\ raced = FALSE
    /\ overtaken = FALSE
    /\ faults = 0

-----------------------------------------------------------------------------
(* createPaymentOrder                                                        *)

\* Its last write: the provider's answer, or FAILED in the catch block.  It sets the status
\* whatever became of the order during the call, and no callback column.
CreationEnds ==
    /\ creating
    /\ \E status \in Endings :
          /\ row' = [row EXCEPT !.status = status]
          /\ overtaken' = (overtaken \/ (IsTerminal(row.status) /\ row.status # status))
    /\ creating' = FALSE
    /\ UNCHANGED <<form, tasks, enabled, switches, acknowledged, raced, faults>>

-----------------------------------------------------------------------------
(* applyPaymentNotification                                                  *)

\* getCallbackTarget of lib/orders/service.ts does not know of EasyPay ...
ApplyTarget == enabled /\ form.url

\* ... while resolveCallbackTarget of lib/callbacks/service.ts takes the notify_url of
\* the EasyPay request.
DispatchTarget == enabled /\ (form.easypay \/ form.url)

\* Mutant: a delivered order is never queued again.
QueuesOnce(snap, status) == IsTerminal(status) /\ snap.callback # "DELIVERED"

\* shouldQueueCallback, from the row read before.
Queues(snap, status) ==
    /\ IsTerminal(status)
    /\ snap.callback = "DELIVERED" => IsTerminal(snap.status) /\ snap.status # status

\* The read at the start of applyPaymentNotification; merchant is read along with it.
ApplyRead(t, kind) ==
    /\ At(t, "idle")
    /\ Become(t, [Holding("apply", "write", kind, row) EXCEPT !.ok = ApplyTarget])
    /\ UNCHANGED <<creation, form, row, enabled, switches, acknowledged, raced, faults>>

\* Its update; "ok" of the task tells whether there is a callback target.
ApplyWrite(t) ==
    LET snap == tasks[t].snap
        status == ResolveStatus(snap.status, tasks[t].kind)
        queue == tasks[t].ok /\ Queues(snap, status)
    IN
    /\ At(t, "write")
    /\ row' = [status |-> status,
               callback |-> IF queue THEN "PENDING"
                            ELSE IF tasks[t].ok THEN snap.callback ELSE "NOT_REQUIRED",
               attempts |-> row.attempts,
               next |-> IF queue THEN 0 ELSE snap.next]
    /\ raced' = (raced \/ Interferes(t))
    /\ Become(t, IF queue THEN Holding("apply", "load", "pending", NewRow) ELSE Idle)
    /\ UNCHANGED <<creation, form, enabled, switches, acknowledged, faults>>

-----------------------------------------------------------------------------
(* dispatchMerchantCallback                                                  *)

\* Mutant: a lease is never taken over.
DueUnclaimed ==
    row.attempts < MaxAttempts /\ row.callback \in {"PENDING", "FAILED"} /\ Due(row.next)

\* listDueMerchantCallbackOrderIds and buildAutomaticClaimWhere.
AutomaticallyDue ==
    /\ row.attempts < MaxAttempts
    /\ \/ row.callback \in {"PENDING", "FAILED"} /\ Due(row.next)
       \/ row.callback = "PROCESSING" /\ row.next \in {Never, 0}

\* runDueMerchantCallbackDispatches selects the order.
SelectDue(t) ==
    /\ At(t, "idle")
    /\ IsTerminal(row.status) /\ AutomaticallyDue
    /\ Become(t, Holding("worker", "load", "pending", NewRow))
    /\ UNCHANGED <<creation, form, row, enabled, switches, acknowledged, raced, faults>>

\* retryCallbackAction and the retry-callback route.
RequestRetry(t) ==
    /\ Retries /\ At(t, "idle")
    /\ Become(t, Holding("retry", "load", "pending", NewRow))
    /\ UNCHANGED <<creation, form, row, enabled, switches, acknowledged, raced, faults>>

\* The reasons to skip, judged on the row just read.
Skips(force) ==
    \/ ~IsTerminal(row.status)
    \/ row.callback = "PROCESSING" /\ Running(row.next)
    \/ ~force /\ \/ row.callback \in {"DELIVERED", "NOT_REQUIRED"}
                 \/ row.attempts >= MaxAttempts

\* findUnique, the early returns, and the "now" that the lease is counted from.
Load(t) ==
    /\ At(t, "load")
    /\ IF ~DispatchTarget THEN GoTo(t, "drop")
       ELSE IF Skips(Forced(t)) THEN Become(t, Idle)
       ELSE Become(t, [tasks[t] EXCEPT !.pc = "claim", !.snap = row])
    /\ UNCHANGED <<creation, form, row, enabled, switches, acknowledged, raced, faults>>

\* callbackStatus becomes NOT_REQUIRED: there is no target, or no EasyPay message to send.
Drop(t) ==
    /\ At(t, "drop")
    /\ row' = [row EXCEPT !.callback = "NOT_REQUIRED", !.next = Never]
    /\ raced' = (raced \/ Interferes(t))
    /\ Become(t, Idle)
    /\ UNCHANGED <<creation, form, enabled, switches, acknowledged, faults>>

\* Mutant: a forced retry needs no claim.
ClaimableAlways(force) == force \/ AutomaticallyDue

\* buildForcedClaimWhere, or buildAutomaticClaimWhere.
Claimable(force) ==
    IF force THEN row.callback = "PROCESSING" => row.next \in {Never, 0}
             ELSE AutomaticallyDue

\* buildEasyPayCallbackRequest: EasyPay announces successes only, signed with the credential.
HasRequest(status) == form.easypay => status = "SUCCEEDED" /\ form.credential

\* The conditional update that leases the order, and the choice of the request.
Claim(t) ==
    /\ At(t, "claim")
    /\ IF Claimable(Forced(t))
       THEN /\ row' = [row EXCEPT !.callback = "PROCESSING",
                                  !.next = IF Lease > tasks[t].age THEN Lease - tasks[t].age ELSE 0]
            /\ GoTo(t, IF HasRequest(tasks[t].snap.status) THEN "send" ELSE "drop")
       ELSE Become(t, Idle) /\ UNCHANGED row
    /\ UNCHANGED <<creation, form, enabled, switches, acknowledged, raced, faults>>

\* The merchant processes the message, built from the row read, and answers 2xx.
SendAccepted(t) ==
    /\ At(t, "send")
    /\ acknowledged' = acknowledged \cup {tasks[t].snap.status}
    /\ Become(t, [tasks[t] EXCEPT !.pc = "record", !.ok = TRUE])
    /\ UNCHANGED <<creation, form, row, enabled, switches, raced, faults>>

\* Another answer, a timeout or a connection that fails.
SendRejected(t) ==
    /\ At(t, "send")
    /\ Fault
    /\ GoTo(t, "record")
    /\ UNCHANGED <<creation, form, row, enabled, switches, acknowledged, raced>>

\* Mutant: the last attempt but one is not retried.
NextAfterFailureEarly(attempts) == IF attempts + 2 >= MaxAttempts THEN Never ELSE Retry

\* nextCallbackAt after a failed attempt, from the count read at the start.
NextAfterFailure(attempts) == IF attempts + 1 >= MaxAttempts THEN Never ELSE Retry

\* The transaction that ends a delivery; it asks for no lease.
Record(t) ==
    /\ At(t, "record")
    /\ row' = [row EXCEPT
                 !.callback = IF tasks[t].ok THEN "DELIVERED" ELSE "FAILED",
                 !.attempts = Counted(row.attempts),
                 !.next = IF tasks[t].ok THEN Never ELSE NextAfterFailure(tasks[t].snap.attempts)]
    /\ Become(t, Idle)
    /\ UNCHANGED <<creation, form, enabled, switches, acknowledged, raced, faults>>

\* A statement throws, or the process dies: what was committed stays.
Crash(t) ==
    /\ ~At(t, "idle")
    /\ Fault
    /\ Become(t, Idle)
    /\ UNCHANGED <<creation, form, row, enabled, switches, acknowledged, raced>>

-----------------------------------------------------------------------------
(* The merchant's settings and the clock                                     *)

SwitchCallbacks ==
    /\ switches < MaxSwitches
    /\ switches' = switches + 1
    /\ enabled' = ~enabled
    /\ UNCHANGED <<creation, form, row, tasks, acknowledged, raced, faults>>

Later(r) == [r EXCEPT !.next = Elapsed(@)]

Aged(task) ==
    [task EXCEPT !.snap = Later(@), !.age = IF Dispatching(task) THEN @ + 1 ELSE @]

\* Time passes, unless a dispatch has used up the time it may take.
Tick ==
    /\ \A t \in Tasks : Dispatching(tasks[t]) => tasks[t].age < MaxAge
    /\ row' = Later(row)
    /\ tasks' = [t \in Tasks |-> Aged(tasks[t])]
    /\ UNCHANGED <<creation, form, enabled, switches, acknowledged, raced, faults>>

-----------------------------------------------------------------------------

Step(t) ==
    ApplyWrite(t) \/ Load(t) \/ Drop(t) \/ Claim(t) \/ SendAccepted(t) \/ Record(t)

Next ==
    \/ \E t \in Tasks : Step(t) \/ SendRejected(t) \/ Crash(t)
    \/ \E t \in Tasks : SelectDue(t) \/ RequestRetry(t)
    \/ \E t \in Tasks, kind \in Kinds : ApplyRead(t, kind)
    \/ CreationEnds
    \/ SwitchCallbacks
    \/ Tick

Spec == Init /\ [][Next]_vars

\* A task that runs goes on, the clock advances, and the retry worker selects the order
\* again and again while it is due.  Nothing obliges a provider or an administrator.
Fairness ==
    /\ \A t \in Tasks : WF_vars(Step(t))
    /\ WF_vars(Tick)
    /\ SF_vars(\E t \in Tasks : SelectDue(t))

FairSpec == Spec /\ Fairness

-----------------------------------------------------------------------------
(* Properties                                                                *)

TypeOK ==
    /\ form \in OrderForms
    /\ row \in Row
    /\ tasks \in [Tasks -> Task]
    /\ creating \in BOOLEAN
    /\ enabled \in BOOLEAN
    /\ switches \in 0 .. MaxSwitches
    /\ acknowledged \subseteq Statuses
    /\ raced \in BOOLEAN
    /\ overtaken \in BOOLEAN
    /\ faults \in 0 .. MaxFaults

\* A request to the merchant is under way.
InFlight(t) == tasks[t].pc \in {"send", "record"}

\* Two requests for one order are under way at once only if applyPaymentNotification, or a
\* dispatch that found no target, wrote the row meanwhile (orders/service.ts:904): the claim
\* (callbacks/service.ts:128) excludes retry worker, requests and forced retries, provided
\* that a dispatch ends before its lease does.
DeliveriesOverlapOnlyByRequeue ==
    MaxAge < Lease /\ (\E t, u \in Tasks : t # u /\ InFlight(t) /\ InFlight(u)) => raced

\* An order whose delivery is pending, failed with attempts left, or claimed by a task that
\* died, always has a time at which the worker selects it again, although nextCallbackAt
\* is computed from stale counts (callbacks/service.ts:407) and copied from stale rows.
Scheduled(r) ==
    r.callback \in {"PENDING", "FAILED", "PROCESSING"} /\ r.attempts < MaxAttempts
        => r.next # Never

RetryIsScheduled == Scheduled(row)

\* The row was written over: during a dispatch, or by the end of its creation after it had
\* a final status (orders/service.ts:787, 813), which leaves the callback columns as they were.
WrittenOver == raced \/ overtaken

\* As long as the row was not written over, DELIVERED means that the merchant has acknowledged
\* the status the order has now: a later change of a terminal status is queued again
\* (orders/service.ts:869), whatever crashes and rejections come in between, and although the
\* creation may end after the first notifications.
DeliveredIsCurrent ==
    row.callback = "DELIVERED" /\ IsTerminal(row.status) /\ ~WrittenOver
        => row.status \in acknowledged

\* An order that stays SUCCEEDED, with attempts left, the callbacks of its merchant enabled and
\* a message to send, is announced until the merchant has acknowledged the success, even if
\* handlers die between claim and result (docs/merchant-integration-examples.md:211), unless
\* its row was written over.
MerchantLearnsOfSuccess ==
    (/\ <>[](row.status = "SUCCEEDED" /\ row.attempts < MaxAttempts)
     /\ [](enabled /\ HasRequest("SUCCEEDED") /\ ~WrittenOver))
        => <>("SUCCEEDED" \in acknowledged)

-----------------------------------------------------------------------------
(* The inductive invariants behind the safety properties.                    *)

\* What a task has read is older than the row, and was scheduled when it was read.
SnapshotsAreScheduled ==
    \A t \in Tasks :
        tasks[t].snap.attempts <= row.attempts /\ Scheduled(tasks[t].snap)

ScheduleInv == TypeOK /\ RetryIsScheduled /\ SnapshotsAreScheduled

\* Between a claim and the write that ends the dispatch.
HoldsLease(task) ==
    task.pc \in {"send", "record"} \/ (task.pc = "drop" /\ Claimed(task))

\* The row still shows the lease of its holder, and there is one holder.
LeaseIsIntact ==
    \A t \in Tasks :
        HoldsLease(tasks[t]) =>
            /\ row.callback = "PROCESSING" /\ row.next = Lease - tasks[t].age
            /\ \A u \in Tasks \ {t} : ~HoldsLease(tasks[u])

ClaimedInTime ==
    \A t \in Tasks :
        /\ tasks[t].pc = "load" => ~Claimed(tasks[t])
        /\ tasks[t].pc \in {"claim", "send", "record"} => Claimed(tasks[t])

LeaseInv == TypeOK /\ ClaimedInTime /\ (MaxAge < Lease /\ ~raced => LeaseIsIntact)

\* A row that says DELIVERED has a final status the merchant has acknowledged.
DeliveryHolds(r) == r.callback = "DELIVERED" => IsTerminal(r.status) /\ r.status \in acknowledged

\* What a task sends is what the row says, as long as no row was written over; what an update
\* copies from the row it read was delivered then.
TaskIsCurrent(task) ==
    /\ task.pc \in {"load", "claim", "send"} => ~task.ok
    /\ task.pc = "record" /\ task.ok => task.snap.status \in acknowledged
    /\ ~WrittenOver /\ task.pc \in {"claim", "send", "record"} => row.status = task.snap.status
    /\ ~WrittenOver /\ task.pc = "write" => DeliveryHolds(task.snap)

\* The inductive invariant behind DeliveredIsCurrent.
CurrentInv == (~WrittenOver => DeliveryHolds(row)) /\ \A t \in Tasks : TaskIsCurrent(tasks[t])

IInv == ScheduleInv /\ LeaseInv /\ CurrentInv

=============================================================================
