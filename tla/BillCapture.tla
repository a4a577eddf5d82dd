---------------------------- MODULE BillCapture ----------------------------
(***************************************************************************)
(* Bills of a personal collection code: the amounts that tell the orders of   *)
(* one channel account apart (allocateCtfPayableAmount, lib/orders/service.ts) *)
(* and the bills that are matched to them by amount                           *)
(* (lib/ctf-bill-capture/service.ts).                                         *)
(*                                                                         *)
(* Nothing links a bill to an order but its amount, its time and sometimes a  *)
(* remark, so what the matcher may conclude depends on when amounts are free  *)
(* again.  Of applyPaymentNotification, whose races are the subject of        *)
(* PaymentOrders, the expiry sweep has the read and the write apart.          *)
(***************************************************************************)
EXTENDS Integers, FiniteSets

CONSTANTS
    Orders,       \* orders of one channel account, numbered as they are created
    Base,         \* the amount of each order, in cents
    Slots,        \* the tails that are tried: 100 in the code
    Tolerance,    \* the tails that pass for the amount of the order: a difference of a cent
                  \* passes or not, as floating point has it
    Lifetime,     \* the time an order is open
    Window,       \* matchWindowMinutes
    Bills,        \* payments, as reported
    For,          \* the order each one is made for
    Remark,       \* the remark of each bill: "none", of its "own" order or an "other" one
    Listener,     \* the bills a notification listener reports
    MaxAttempts,
    Tasks,        \* requests, worker iterations and sweeps at one time, numbered
    None,
    Horizon,      \* bound on the clock
    MaxFaults     \* bound on errors, crashes, leases that are outlasted and creations that overlap

ASSUME BillsAssumption ==
    /\ Orders \cup Tasks \subseteq Nat /\ Base \in [Orders -> Nat] /\ For \in [Bills -> Orders] /\ Remark \in [Bills -> {"none", "own", "other"}]
    /\ Listener \subseteq Bills
    /\ {Slots, Lifetime, Window, Horizon, MaxFaults} \subseteq Nat /\ MaxAttempts \in Nat \ {0}
    /\ 0 \in Tolerance /\ Tolerance \subseteq Nat
    /\ None \notin Orders \cup Bills

VARIABLES
    now,
    rows,      \* the payment_order row of each order
    paidAt,    \* the time of each payment
    events,    \* the ctf_bill_capture_event of each bill
    credited,  \* history: the pairs of a bill and the order it credited
    raced,     \* history: the orders whose amount was chosen before another one was stored
    spoilt,    \* history: the bills that had credited when an error or a crash came
    undone,    \* history: the orders a sweep closed that had been paid since it read them
    tasks,
    faults

vars == <<now, rows, paidAt, events, credited, raced, spoilt, undone, tasks, faults>>

-----------------------------------------------------------------------------

\* OPEN stands for PENDING and PROCESSING, EXPIRED for CANCELLED with ORDER_EXPIRED.
RowStatuses == {"none", "OPEN", "SUCCEEDED", "EXPIRED"}

Row == [status : RowStatuses, cents : Nat, created : 0 .. Horizon]

\* When it was paid; Horizon + 1: not yet.
Times == 0 .. Horizon + 1

Made(b) == paidAt[b] <= Horizon

Cents(b) == rows[For[b]].cents

\* The attempts count while an event is RECEIVED.
EventStatuses == {"none", "RECEIVED", "MATCHED", "DEAD_LETTER"}

Event == [status : EventStatuses, attempts : 0 .. MaxAttempts, order : Orders \cup {None}]

NoEvent == [status |-> "none", attempts |-> 0, order |-> None]

PCs == {"idle", "insert", "expire", "look", "apply", "mark", "miss"}

\* A task: the order it creates, expires or has found, the bill it matches, whether it is the
\* matching worker's;
\* "stale": another order was stored since it chose an amount.
Task == [pc : PCs, order : Orders \cup {None}, cents : Nat, bill : Bills \cup {None},
         worker : BOOLEAN, attempts : 0 .. MaxAttempts - 1, stale : BOOLEAN]

Idle == [pc |-> "idle", order |-> None, cents |-> 0, bill |-> None, worker |-> FALSE,
         attempts |-> 0, stale |-> FALSE]

At(t, pc) == tasks[t].pc = pc

\* A new task takes the first number that is free.
Free(t) == At(t, "idle") /\ \A u \in Tasks : u < t => ~At(u, "idle")

Become(t, task) == tasks' = [tasks EXCEPT ![t] = task]

Goto(t, pc) == Become(t, [tasks[t] EXCEPT !.pc = pc])

Init ==
    /\ now = 0
    /\ rows = [o \in Orders |-> [status |-> "none", cents |-> 0, created |-> 0]]
    /\ paidAt = [b \in Bills |-> Horizon + 1]
    /\ events = [b \in Bills |-> NoEvent]
    /\ credited = {}
    /\ raced = {}
    /\ spoilt = {}
    /\ undone = {}
    /\ tasks = [t \in Tasks |-> Idle]
    /\ faults = 0

\* A tick is an interval of time: an order's is over at the end of this one.
ExpireAt(o) == rows[o].created + Lifetime

Tick ==
    /\ now < Horizon
    /\ now' = now + 1
    /\ UNCHANGED <<rows, paidAt, events, credited, raced, spoilt, undone, tasks, faults>>

-----------------------------------------------------------------------------
(* Amounts                                                                   *)

\* Mutant: the amount of an order is free as soon as its time is over.
UsedInTime == {rows[o].cents : o \in {x \in Orders : rows[x].status = "OPEN" /\ now <= ExpireAt(x)}}

\* The amounts of the open orders.
Used == {rows[o].cents : o \in {x \in Orders : rows[x].status = "OPEN"}}

\* allocateCtfPayableAmount takes the first tail that is free; if there is none, no order is
\* created.  A creation that overlaps another one counts as a fault.
Allocate(t, o) ==
    LET overlaps == \E u \in Tasks : At(u, "insert")
    IN
    /\ Free(t)
    /\ rows[o].status = "none"
    /\ \A x \in Orders : x < o => rows[x].status # "none" \/ \E u \in Tasks : tasks[u].order = x
    /\ \A u \in Tasks : tasks[u].order # o
    /\ \E tail \in 0 .. Slots - 1 :
        /\ Base[o] + tail \notin Used
        /\ \A less \in 0 .. tail - 1 : Base[o] + less \in Used
        /\ Become(t, [Idle EXCEPT !.pc = "insert", !.order = o, !.cents = Base[o] + tail])
    /\ overlaps => faults < MaxFaults
    /\ faults' = IF overlaps THEN faults + 1 ELSE faults
    /\ UNCHANGED <<now, rows, paidAt, events, credited, raced, spoilt, undone>>

\* createPaymentOrder stores the order with that amount.  A payment made before has an earlier
\* time: no order is created in the tick of one.
Insert(t) ==
    LET o == tasks[t].order
    IN
    /\ At(t, "insert")
    /\ \A b \in Bills : Made(b) => paidAt[b] < now
    /\ rows' = [rows EXCEPT ![o] = [status |-> "OPEN", cents |-> tasks[t].cents, created |-> now]]
    /\ raced' = IF tasks[t].stale THEN raced \cup {o} ELSE raced
    /\ tasks' = [u \in Tasks |-> IF u = t THEN Idle
                                 ELSE [tasks[u] EXCEPT !.stale = tasks[u].pc = "insert"]]
    /\ UNCHANGED <<now, paidAt, events, credited, spoilt, undone, faults>>

\* The notification that expires an order carries its amount, not what is payable.
Passes(o) == rows[o].cents - Base[o] \in Tolerance

\* Mutant: the sweep looks at the orders whose time has just ended.
StartExpireOnce(t, o) ==
    /\ Free(t)
    /\ rows[o].status = "OPEN"
    /\ now = ExpireAt(o) + 1
    /\ Passes(o)
    /\ Become(t, [Idle EXCEPT !.pc = "expire", !.order = o])
    /\ UNCHANGED <<now, rows, paidAt, events, credited, raced, spoilt, undone, faults>>

\* A sweep, or a request that looks it up, comes to an order whose time is over, and
\* applyPaymentNotification reads it.  One that is paid then stays as it is, and one that does
\* not pass makes it throw.
StartExpire(t, o) ==
    /\ Free(t)
    /\ rows[o].status = "OPEN"
    /\ now > ExpireAt(o)
    /\ Passes(o)
    /\ Become(t, [Idle EXCEPT !.pc = "expire", !.order = o])
    /\ UNCHANGED <<now, rows, paidAt, events, credited, raced, spoilt, undone, faults>>

\* It is CANCELLED, whatever has become of it since.
Expire(t) ==
    LET o == tasks[t].order
    IN
    /\ At(t, "expire")
    /\ rows' = [rows EXCEPT ![o].status = "EXPIRED"]
    /\ undone' = IF rows[o].status = "SUCCEEDED" THEN undone \cup {o} ELSE undone
    /\ Become(t, Idle)
    /\ UNCHANGED <<now, paidAt, events, credited, raced, spoilt, faults>>

-----------------------------------------------------------------------------
(* Bills                                                                     *)

\* A payer pays what the page of the order shows, perhaps late or for the second time.
Pay(b) ==
    /\ ~Made(b)
    /\ rows[For[b]].status # "none"
    /\ paidAt' = [paidAt EXCEPT ![b] = now]
    /\ UNCHANGED <<now, rows, events, credited, raced, spoilt, undone, tasks, faults>>

\* The agent reports a payment, at any time and as often as it likes: the fingerprint makes
\* one event of it.  ingestCtfBillCaptureEvent matches at once; that matchCtfBillCaptureEvent
\* reads the event once more and leaves it if it is no longer RECEIVED changes nothing.  Two
\* reports of one bill at a time match it as a report and the worker do.
Report(t, b) ==
    /\ Free(t)
    /\ Made(b)
    /\ events[b].status \in {"none", "RECEIVED"}
    /\ \A u \in Tasks : tasks[u].bill = b => tasks[u].worker
    /\ events' = [events EXCEPT ![b] = IF @ = NoEvent THEN [@ EXCEPT !.status = "RECEIVED"]
                                       ELSE @]
    /\ Become(t, [Idle EXCEPT !.pc = "look", !.bill = b])
    /\ UNCHANGED <<now, rows, paidAt, credited, raced, spoilt, undone, faults>>

\* The worker claims an event once the lease of the one before and the time to the next attempt
\* are over, which may be at any time; a match that outlasts its lease counts as a fault.
Claim(t, b) ==
    LET held == \E u \in Tasks : tasks[u].worker /\ tasks[u].bill = b
    IN
    /\ Free(t)
    /\ events[b].status = "RECEIVED"
    /\ held => faults < MaxFaults
    /\ faults' = IF held THEN faults + 1 ELSE faults
    /\ Become(t, [Idle EXCEPT !.pc = "look", !.bill = b, !.worker = TRUE,
                    !.attempts = events[b].attempts])
    /\ UNCHANGED <<now, rows, paidAt, events, credited, raced, spoilt, undone>>

-----------------------------------------------------------------------------
(* matchCtfBillCaptureEvent                                                  *)

\* b is matched to o already.
Matched(b, o) == events[b].status = "MATCHED" /\ events[b].order = o

\* Mutant: a bill is for orders of before and after.
CandidatesAnyTime(b) ==
    {o \in Orders :
        /\ rows[o].cents = Cents(b)
        /\ \/ rows[o].status = "OPEN" /\ ExpireAt(o) + Window >= paidAt[b]
           \/ rows[o].status = "EXPIRED" /\ ExpireAt(o) >= paidAt[b]
        /\ \A x \in Bills : ~Matched(x, o)}

\* Mutant: the window holds for orders that have expired.
CandidatesLate(b) ==
    {o \in Orders :
        /\ rows[o].cents = Cents(b)
        /\ rows[o].status \in {"OPEN", "EXPIRED"}
        /\ rows[o].created <= paidAt[b]
        /\ ExpireAt(o) + Window >= paidAt[b]
        /\ \A x \in Bills : ~Matched(x, o)}

\* Mutant: a report that comes too late is lost.
CandidatesOpen(b) ==
    {o \in Orders :
        /\ rows[o].cents = Cents(b)
        /\ rows[o].created <= paidAt[b]
        /\ rows[o].status = "OPEN" /\ ExpireAt(o) + Window >= paidAt[b]
        /\ \A x \in Bills : ~Matched(x, o)}

\* The orders a bill of this amount and time may be for: those that are open, and those that
\* expired before the bill was reported.
Candidates(b) ==
    {o \in Orders :
        /\ rows[o].cents = Cents(b)
        /\ rows[o].created <= paidAt[b]
        /\ \/ rows[o].status = "OPEN" /\ ExpireAt(o) + Window >= paidAt[b]
           \/ rows[o].status = "EXPIRED" /\ ExpireAt(o) >= paidAt[b]
        /\ \A x \in Bills : ~Matched(x, o)}

Fits(b, o) == Remark[b] = "none" \/ (Remark[b] = "own" /\ For[b] = o)

\* The first one its remark fits, or the only one there is for a listener.
Found(b) ==
    LET fitting == {o \in Candidates(b) : Fits(b, o)}
    IN
    IF fitting # {} THEN {o \in fitting : \A x \in fitting : rows[o].created <= rows[x].created}
    ELSE IF b \in Listener /\ Cardinality(Candidates(b)) = 1 THEN Candidates(b)
    ELSE {}

Look(t) ==
    LET found == Found(tasks[t].bill)
    IN
    /\ At(t, "look")
    /\ \/ \E o \in found : Become(t, [tasks[t] EXCEPT !.pc = "apply", !.order = o])
       \/ found = {} /\ Become(t, IF tasks[t].worker THEN [tasks[t] EXCEPT !.pc = "miss"] ELSE Idle)
    /\ UNCHANGED <<now, rows, paidAt, events, credited, raced, spoilt, undone, faults>>

\* Mutant: the event is marked before the order is paid.
ApplyMarked(t) ==
    /\ At(t, "apply")
    /\ events' = [events EXCEPT ![tasks[t].bill] =
                    [status |-> "MATCHED", attempts |-> 0, order |-> tasks[t].order]]
    /\ Goto(t, "mark")
    /\ UNCHANGED <<now, rows, paidAt, credited, raced, spoilt, undone, faults>>

\* applyPaymentNotification: the order is paid, whatever it was when it was read ...
Apply(t) ==
    LET o == tasks[t].order
    IN
    /\ At(t, "apply")
    /\ rows' = [rows EXCEPT ![o].status = "SUCCEEDED"]
    /\ credited' = credited \cup {<<tasks[t].bill, o>>}
    /\ undone' = undone \ {o}
    /\ Goto(t, "mark")
    /\ UNCHANGED <<now, paidAt, events, raced, spoilt, faults>>

\* ... and the event is MATCHED, whatever has become of it.
Mark(t) ==
    /\ At(t, "mark")
    /\ events' = [events EXCEPT ![tasks[t].bill] =
                    [status |-> "MATCHED", attempts |-> 0, order |-> tasks[t].order]]
    /\ spoilt' = spoilt \ {tasks[t].bill}
    /\ Become(t, Idle)
    /\ UNCHANGED <<now, rows, paidAt, credited, raced, undone, faults>>

\* Mutant: only errors count as attempts.
MissUncounted(t) ==
    /\ At(t, "miss")
    /\ Become(t, Idle)
    /\ UNCHANGED <<now, rows, paidAt, events, credited, raced, spoilt, undone, faults>>

\* Without a match, or after an error, the worker counts the attempt if the event is still
\* RECEIVED, and gives up after the last one.
Miss(t) ==
    LET b == tasks[t].bill
        attempts == tasks[t].attempts + 1
        status == IF attempts >= MaxAttempts THEN "DEAD_LETTER" ELSE "RECEIVED"
    IN
    /\ At(t, "miss")
    /\ events' = IF events[b].status = "RECEIVED"
                 THEN [events EXCEPT ![b].status = status, ![b].attempts = attempts]
                 ELSE events
    /\ Become(t, Idle)
    /\ UNCHANGED <<now, rows, paidAt, credited, raced, spoilt, undone, faults>>

\* A crash after the order is paid, or an error, which the worker counts.  A task that ends
\* before has changed nothing, as if it had not begun.
Fail(t) ==
    /\ faults < MaxFaults
    /\ faults' = faults + 1
    /\ \/ At(t, "mark") /\ Become(t, Idle)
       \/ tasks[t].worker /\ ~At(t, "miss") /\ Goto(t, "miss")
    /\ spoilt' = IF At(t, "mark") THEN spoilt \cup {tasks[t].bill} ELSE spoilt
    /\ UNCHANGED <<now, rows, paidAt, events, credited, raced, undone>>

-----------------------------------------------------------------------------

Step(t) == Insert(t) \/ Expire(t) \/ Look(t) \/ Apply(t) \/ Mark(t) \/ Miss(t)

Next ==
    \/ Tick
    \/ \E b \in Bills : Pay(b)
    \/ \E t \in Tasks, o \in Orders : Allocate(t, o) \/ StartExpire(t, o)
    \/ \E t \in Tasks, b \in Bills : Report(t, b) \/ Claim(t, b)
    \/ \E t \in Tasks : Step(t) \/ Fail(t)

Spec == Init /\ [][Next]_vars

\* Time passes, what has started goes on, and the matching worker comes round again.  The bound
\* on tasks is the model's: the worker finds room however often bills are reported.
Fairness ==
    /\ WF_vars(Tick)
    /\ \A t \in Tasks : WF_vars(Step(t))
    /\ \A b \in Bills : SF_vars(\E t \in Tasks : Claim(t, b))

FairSpec == Spec /\ Fairness

-----------------------------------------------------------------------------
(* Properties                                                                *)

TypeOK ==
    /\ now \in 0 .. Horizon
    /\ rows \in [Orders -> Row]
    /\ paidAt \in [Bills -> Times]
    /\ events \in [Bills -> Event]
    /\ credited \subseteq Bills \X Orders
    /\ raced \subseteq Orders
    /\ spoilt \subseteq Bills
    /\ undone \subseteq Orders
    /\ tasks \in [Tasks -> Task]
    /\ faults \in 0 .. MaxFaults

\* Orders that are open have different amounts, whatever their own amounts and tails, unless
\* one was created while another one chose (orders/service.ts:227, 743).
AmountsDiffer ==
    \A o, x \in Orders \ raced :
        rows[o].status = "OPEN" /\ rows[x].status = "OPEN" /\ rows[o].cents = rows[x].cents => o = x

\* A task knows what it has chosen or found.
TaskKnows(task) ==
    /\ task.pc \in {"insert", "expire", "apply", "mark"} => task.order \in Orders
    /\ task.pc \in {"look", "apply", "mark", "miss"} \/ task.worker => task.bill \in Bills

\* The inductive invariant behind AmountsDiffer: an amount that was chosen stays free until
\* another order is stored.  An event that is RECEIVED has an attempt left
\* (orders/service.ts:227, ctf-bill-capture/service.ts:572).
IInv ==
    /\ TypeOK
    /\ AmountsDiffer
    /\ \A t \in Tasks :
           /\ TaskKnows(tasks[t])
           /\ At(t, "insert") /\ ~tasks[t].stale => tasks[t].cents \notin Used
    /\ \A b \in Bills : events[b].status = "RECEIVED" => events[b].attempts < MaxAttempts

\* b was paid while the order it was meant for could be paid.
InTime(b) == Made(b) /\ paidAt[b] <= ExpireAt(For[b])

\* Another bill has credited the order of b.
Again(b) == \E x \in Bills \ {b} : <<x, For[b]>> \in credited

\* A bill credits the order it was paid for, although only the amount links them and amounts
\* are used again: unless it was paid late or for the second time, or amounts raced
\* (ctf-bill-capture/service.ts:279-370).
RightOrderIsCredited ==
    raced = {} =>
        \A pair \in credited :
            pair[2] = For[pair[1]] \/ ~InTime(pair[1]) \/ Again(pair[1])

\* A bill credits one order, even if it is matched twice at a time or after a crash that left
\* it RECEIVED, unless amounts raced (ctf-bill-capture/service.ts:382, 400).
OneOrderPerBill ==
    raced = {} =>
        \A first, second \in credited : first[1] = second[1] => first = second

\* A bill that is MATCHED has credited that order, which a sweep may have closed since, and one that has credited an order is
\* MATCHED to it or about to be, unless an error came between (ctf-bill-capture/service.ts:400,
\* 419).
MatchedIsCredited ==
    /\ \A b \in Bills : events[b].status = "MATCHED" => <<b, events[b].order>> \in credited
    /\ raced = {} =>
        \A pair \in credited :
            \/ pair[1] \in spoilt
            \/ Matched(pair[1], pair[2])
            \/ \E t \in Tasks : At(t, "mark") /\ tasks[t].bill = pair[1] /\ tasks[t].order = pair[2]

\* The order of a bill that was paid in time is SUCCEEDED in the end although the report came
\* late, unless the bill has a remark that fits no order, or a sweep that had read the order
\* while it was open closed it after it was paid: the bill is MATCHED then and not tried again
\* (ctf-bill-capture/service.ts:304, 358, orders/service.ts:834, 881).
PaidIsCredited ==
    \A b \in Bills :
        <>[](/\ events[b].status # "none" /\ InTime(b) /\ raced = {} /\ For[b] \notin undone
             /\ Remark[b] # "other" \/ b \in Listener
             => rows[For[b]].status = "SUCCEEDED")

\* Every bill that was reported is MATCHED or given up in the end
\* (ctf-bill-capture/service.ts:581).
BillsAreSettled == \A b \in Bills : <>[](events[b].status # "RECEIVED")

\* A sweep, or a request that looks the order up, comes to o if it stays open.  A sweep takes the
\* 50 orders that expired first: one is reached unless 50 that never pass are before it
\* (orders/service.ts:463-475, 597).
Swept(o) == WF_vars(\E t \in Tasks : StartExpire(t, o))

\* The amount of an order is free again in the end if the sweep reaches it, unless its tail is
\* too large for the notification that expires it (orders/service.ts:395, 208).
AmountsAreReleased ==
    \A o \in Orders :
        Swept(o) => <>[](rows[o].status = "OPEN" => ExpireAt(o) >= Horizon \/ ~Passes(o))

-----------------------------------------------------------------------------
(* The inductive invariant behind RightOrderIsCredited, OneOrderPerBill and   *)
(* MatchedIsCredited.                                                        *)

Stored(o) == rows[o].status # "none"

\* b has credited o, or a task is about to credit it.
Credits(b, o) ==
    \/ <<b, o>> \in credited
    \/ \E t \in Tasks : tasks[t].pc \in {"apply", "mark"} /\ tasks[t].bill = b /\ tasks[t].order = o

\* o has expired, or a sweep that read it while it was open is about to say so.
Expires(o) == rows[o].status = "EXPIRED" \/ \E t \in Tasks : At(t, "expire") /\ tasks[t].order = o

\* An order is created once.
CreatedOnce ==
    \A t \in Tasks : At(t, "insert") =>
        /\ ~Stored(tasks[t].order)
        /\ \A u \in Tasks : At(u, "insert") /\ tasks[u].order = tasks[t].order => u = t

\* A bill is paid after its order is created, and reported after it is paid; it credits orders of
\* its amount that were there.
BillsFit ==
    /\ \A o \in Orders :
           /\ Stored(o) => rows[o].created <= now
           /\ Expires(o) => Stored(o) /\ ExpireAt(o) < now
    /\ \A b \in Bills : Made(b) =>
           Stored(For[b]) /\ rows[For[b]].created <= paidAt[b] /\ paidAt[b] <= now
    /\ \A b \in Bills : events[b].status # "none" => Made(b)
    /\ \A t \in Tasks : tasks[t].bill \in Bills => Made(tasks[t].bill)
    /\ \A b \in Bills, o \in Orders : Credits(b, o) =>
           Made(b) /\ Stored(o) /\ rows[o].cents = Cents(b) /\ rows[o].created <= paidAt[b]

\* x was created when o was closed, after the payments for it.
Before(o, x) ==
    /\ rows[o].status # "OPEN"
    /\ Expires(o) => ExpireAt(o) < rows[x].created
    /\ \A b \in Bills : Credits(b, o) => paidAt[b] < rows[x].created

\* Orders of one amount follow each other.
AmountsFollow ==
    raced = {} =>
        \A o, x \in Orders :
            o # x /\ Stored(o) /\ Stored(x) /\ rows[o].cents = rows[x].cents
            => Before(o, x) \/ Before(x, o)

\* Orders are paid by bills, and bills are marked after they have paid.
CreditsComeFirst ==
    /\ \A o \in Orders : rows[o].status = "SUCCEEDED" => \E b \in Bills : <<b, o>> \in credited
    /\ \A t \in Tasks : At(t, "mark") => <<tasks[t].bill, tasks[t].order>> \in credited

CreditInv == CreatedOnce /\ BillsFit /\ AmountsFollow /\ CreditsComeFirst /\ MatchedIsCredited

=============================================================================
