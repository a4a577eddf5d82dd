--------------------------- MODULE RegistryOrders ---------------------------
(***************************************************************************)
(* Purchases of plugins in the registry (apps/registry): POST                 *)
(* plugins/[slug]/orders, the payment callback of the gateway, the poll of    *)
(* the buyer, and lib/payments/order-service.ts.                              *)
(*                                                                         *)
(* Every statement is a step of its own, nothing is done in a transaction,    *)
(* and what a handler has read decides what it writes.  The gateway is        *)
(* modelled by what PaymentOrders and MerchantCallbacks let it do: a status   *)
(* that changes, and callbacks until the current one is acknowledged.         *)
(***************************************************************************)
EXTENDS Integers, FiniteSets

CONSTANTS
    Orders,       \* purchases
    AutoPaid,     \* those made while no gateway is configured
    Share,        \* the developer's cut of each order, rounded down: it may be nothing
    Tasks,        \* requests the registry handles at one time
    None,
    MaxLicences,  \* bound on the licences that are signed
    MaxFaults     \* bound on errors, crashes, lost answers and payments that are undone

ASSUME OrdersAssumption ==
    /\ AutoPaid \subseteq Orders
    /\ Share \in [Orders -> Nat]
    /\ None \notin Orders
    /\ MaxLicences \in Nat
    /\ MaxFaults \in Nat

VARIABLES
    gateway,   \* the status of each order's payment at the gateway
    paid,      \* history: the orders whose payment the gateway has had
    acked,     \* the status the registry has acknowledged
    orders,    \* RegistryOrder
    licences,  \* the licence that is stored for an order, 0 for none: orderId is unique
    issued,    \* the number of licences that have been signed
    credited,  \* the orders whose sale is in the ledger: externalRef is unique
    held,      \* what the buyer has installed
    tasks,
    spoilt,    \* history: the orders that were written by a request they had changed
               \* under, or that a request left half-way
    broken,    \* history: the latter ones
    faults

orderVars == <<gateway, paid, acked, orders, licences, issued, credited, held, tasks, spoilt, broken,
               faults>>

-----------------------------------------------------------------------------

Announced == {"SUCCEEDED", "FAILED", "CANCELLED"}

GatewayStatuses == {"none", "PROCESSING"} \cup Announced

OrderStates == {"none", "PENDING", "PAID", "FAILED", "CANCELLED"}

Order == [state : OrderStates, licence : 0 .. MaxLicences]

PCs == {"idle", "ask", "attach", "look", "mark", "write", "save", "credit", "book", "overwrite",
        "reply", "fetch"}

\* A request: the order it is about, the status the gateway announced (none for the route
\* that creates the order), the licence it has signed or read; "stale" is history: the order
\* has changed since the request read it.
Task == [pc : PCs, order : Orders \cup {None}, status : {"none"} \cup Announced,
         licence : 0 .. MaxLicences, stale : BOOLEAN]

Idle == [pc |-> "idle", order |-> None, status |-> "none", licence |-> 0, stale |-> FALSE]

At(t, pc) == tasks[t].pc = pc

Become(t, task) == tasks' = [tasks EXCEPT ![t] = task]

Goto(t, pc) == Become(t, [tasks[t] EXCEPT !.pc = pc])

Init ==
    /\ gateway = [o \in Orders |-> "none"]
    /\ paid = {}
    /\ acked = [o \in Orders |-> "none"]
    /\ orders = [o \in Orders |-> [state |-> "none", licence |-> 0]]
    /\ licences = [o \in Orders |-> 0]
    /\ issued = 0
    /\ credited = {}
    /\ held = [o \in Orders |-> "none"]
    /\ tasks = [t \in Tasks |-> Idle]
    /\ spoilt = {}
    /\ broken = {}
    /\ faults = 0

\* t writes the order o and becomes "task".
WriteOrder(t, o, order, task) ==
    /\ orders' = [orders EXCEPT ![o] = order]
    /\ spoilt' = IF tasks[t].stale THEN spoilt \cup {o} ELSE spoilt
    /\ tasks' = [u \in Tasks |->
                   IF u = t THEN task
                   ELSE IF tasks[u].order = o /\ order # orders[o]
                        THEN [tasks[u] EXCEPT !.stale = TRUE]
                   ELSE tasks[u]]

-----------------------------------------------------------------------------
(* The gateway                                                               *)

\* The payment of o becomes "status", which is announced whatever was announced before.
Becomes(o, status) ==
    /\ gateway' = [gateway EXCEPT ![o] = status]
    /\ paid' = IF status = "SUCCEEDED" THEN paid \cup {o} ELSE paid
    /\ acked' = [acked EXCEPT ![o] = "none"]
    /\ UNCHANGED <<orders, licences, issued, credited, held, tasks, spoilt, broken>>

\* A payment is made, fails or is cancelled; a late payment revives one that is not
\* SUCCEEDED (OrderStatus, PaymentOrders).
Pay(o) ==
    /\ gateway[o] \in {"PROCESSING", "FAILED", "CANCELLED"}
    /\ \E status \in Announced :
        /\ status = "SUCCEEDED" \/ gateway[o] = "PROCESSING"
        /\ Becomes(o, status)
    /\ UNCHANGED faults

\* A notification the gateway read an order for before its payment is written over it
\* (OnlyStaleWritesUndo in PaymentOrders).
Undo(o) ==
    /\ gateway[o] = "SUCCEEDED"
    /\ faults < MaxFaults
    /\ faults' = faults + 1
    /\ \E status \in {"PROCESSING", "FAILED", "CANCELLED"} : Becomes(o, status)

\* It announces its status until that is acknowledged (MerchantCallbacks); a delivery that
\* timed out may still be handled when the next one comes.
Callback(t, o) ==
    /\ At(t, "idle")
    /\ gateway[o] \in Announced
    /\ acked[o] # gateway[o]
    /\ Become(t, [Idle EXCEPT !.pc = "look", !.order = o, !.status = gateway[o]])
    /\ UNCHANGED <<gateway, paid, acked, orders, licences, issued, credited, held, spoilt, broken, faults>>

-----------------------------------------------------------------------------
(* POST plugins/[slug]/orders                                                *)

\* createPluginOrder.
Create(t, o) ==
    /\ At(t, "idle")
    /\ orders[o].state = "none"
    /\ WriteOrder(t, o, [state |-> "PENDING", licence |-> 0],
                  [Idle EXCEPT !.pc = IF o \in AutoPaid THEN "mark" ELSE "ask", !.order = o])
    /\ UNCHANGED <<gateway, paid, acked, licences, issued, credited, held, broken, faults>>

\* createPaymentOrder, which the gateway answers with the payment that exists, if one does.
Ask(t) ==
    /\ At(t, "ask")
    /\ gateway' = [gateway EXCEPT ![tasks[t].order] = IF @ = "none" THEN "PROCESSING" ELSE @]
    /\ Goto(t, "attach")
    /\ UNCHANGED <<paid, acked, orders, licences, issued, credited, held, spoilt, broken, faults>>

\* The address of the checkout is stored, and the state with it.
Attach(t) ==
    /\ At(t, "attach")
    /\ WriteOrder(t, tasks[t].order, [orders[tasks[t].order] EXCEPT !.state = "PENDING"], Idle)
    /\ UNCHANGED <<gateway, paid, acked, licences, issued, credited, held, broken, faults>>

-----------------------------------------------------------------------------
(* The payment callback                                                      *)

\* Mutant: every callback is taken for a payment.
LookPaid(t) ==
    /\ At(t, "look")
    /\ Become(t, [tasks[t] EXCEPT !.stale = FALSE,
                    !.pc = IF orders[tasks[t].order].state = "PAID" THEN "reply" ELSE "mark"])
    /\ UNCHANGED <<gateway, paid, acked, orders, licences, issued, credited, held, spoilt, broken, faults>>

\* Mutant: a failure is written whatever has been read.
LookUnpaid(t) ==
    /\ At(t, "look")
    /\ Become(t, [tasks[t] EXCEPT !.stale = FALSE,
                    !.pc = IF tasks[t].status # "SUCCEEDED" THEN "overwrite"
                           ELSE IF orders[tasks[t].order].state = "PAID" THEN "reply" ELSE "mark"])
    /\ UNCHANGED <<gateway, paid, acked, orders, licences, issued, credited, held, spoilt, broken, faults>>

\* The order is read.
Look(t) ==
    LET next == IF orders[tasks[t].order].state = "PAID" THEN "reply"
                ELSE IF tasks[t].status = "SUCCEEDED" THEN "mark" ELSE "overwrite"
    IN
    /\ At(t, "look")
    /\ Become(t, [tasks[t] EXCEPT !.pc = next, !.stale = FALSE])
    /\ UNCHANGED <<gateway, paid, acked, orders, licences, issued, credited, held, spoilt, broken, faults>>

\* A failure is written over whatever the order has become.
Overwrite(t) ==
    LET o == tasks[t].order
    IN
    /\ At(t, "overwrite")
    /\ WriteOrder(t, o, [orders[o] EXCEPT !.state = tasks[t].status],
                  [tasks[t] EXCEPT !.pc = "reply"])
    /\ UNCHANGED <<gateway, paid, acked, licences, issued, credited, held, broken, faults>>

\* The request is answered; an answer to the gateway is an acknowledgement.
Reply(t) ==
    /\ At(t, "reply")
    /\ acked' = IF tasks[t].status = "none" THEN acked
                ELSE [acked EXCEPT ![tasks[t].order] = tasks[t].status]
    /\ Become(t, Idle)
    /\ UNCHANGED <<gateway, paid, orders, licences, issued, credited, held, spoilt, broken, faults>>

-----------------------------------------------------------------------------
(* markOrderPaidAndIssueLicense                                              *)

\* Mutant: only an order that is PENDING can be paid.
MarkPending(t) ==
    /\ At(t, "mark")
    /\ IF orders[tasks[t].order].state = "PENDING"
       THEN /\ issued < MaxLicences
            /\ issued' = issued + 1
            /\ Become(t, [tasks[t] EXCEPT !.pc = "write", !.licence = issued + 1, !.stale = FALSE])
       ELSE Become(t, Idle) /\ UNCHANGED issued
    /\ UNCHANGED <<gateway, paid, acked, orders, licences, credited, held, spoilt, broken, faults>>

\* It reads the order again: one that is PAID is an error, otherwise a licence is signed.
Mark(t) ==
    /\ At(t, "mark")
    /\ \/ /\ orders[tasks[t].order].state = "PAID"
          /\ Become(t, Idle)
          /\ UNCHANGED issued
       \/ /\ orders[tasks[t].order].state # "PAID"
          /\ issued < MaxLicences
          /\ issued' = issued + 1
          /\ Become(t, [tasks[t] EXCEPT !.pc = "write", !.licence = issued + 1, !.stale = FALSE])
    /\ UNCHANGED <<gateway, paid, acked, orders, licences, credited, held, spoilt, broken, faults>>

\* Mutant: the order does not get the number of its licence.
WriteUnreferenced(t) ==
    /\ At(t, "write")
    /\ WriteOrder(t, tasks[t].order, [orders[tasks[t].order] EXCEPT !.state = "PAID"],
                  [tasks[t] EXCEPT !.pc = "save"])
    /\ UNCHANGED <<gateway, paid, acked, licences, issued, credited, held, broken, faults>>

\* The order becomes PAID ...
Write(t) ==
    /\ At(t, "write")
    /\ WriteOrder(t, tasks[t].order, [state |-> "PAID", licence |-> tasks[t].licence],
                  [tasks[t] EXCEPT !.pc = "save"])
    /\ UNCHANGED <<gateway, paid, acked, licences, issued, credited, held, broken, faults>>

\* ... then the licence is stored, an error if there is one for the order ...
Save(t) ==
    LET o == tasks[t].order
    IN
    /\ At(t, "save")
    /\ IF licences[o] = 0
       THEN licences' = [licences EXCEPT ![o] = tasks[t].licence] /\ Goto(t, "credit")
       ELSE Become(t, Idle) /\ UNCHANGED licences
    /\ UNCHANGED <<gateway, paid, acked, orders, issued, credited, held, spoilt, broken, faults>>

\* Mutant: a request whose licence the order does not name leaves the sale to another one.
CreditOwn(t) ==
    LET o == tasks[t].order
        others == orders[o].licence # tasks[t].licence
    IN
    /\ At(t, "credit")
    /\ Goto(t, IF Share[o] = 0 \/ o \in credited \/ others THEN "reply" ELSE "book")
    /\ UNCHANGED <<gateway, paid, acked, orders, licences, issued, credited, held, spoilt, broken, faults>>

\* There is nothing to enter in the ledger, or it is there.
Booked(o) == Share[o] = 0 \/ o \in credited

\* ... then the sale, if the developer has a cut of it, is looked for in the ledger ...
Credit(t) ==
    /\ At(t, "credit")
    /\ Goto(t, IF Booked(tasks[t].order) THEN "reply" ELSE "book")
    /\ UNCHANGED <<gateway, paid, acked, orders, licences, issued, credited, held, spoilt, broken, faults>>

\* ... and entered.
Book(t) ==
    /\ At(t, "book")
    /\ IF tasks[t].order \in credited
       THEN Become(t, Idle) /\ UNCHANGED credited
       ELSE credited' = credited \cup {tasks[t].order} /\ Goto(t, "reply")
    /\ UNCHANGED <<gateway, paid, acked, orders, licences, issued, held, spoilt, broken, faults>>

-----------------------------------------------------------------------------
(* GET orders/[orderId]                                                      *)

\* The buyer polls until it is given a licence; the order is read ...
Poll(t, o) ==
    /\ At(t, "idle")
    /\ held[o] = "none"
    /\ orders[o].state = "PAID"
    /\ Become(t, [Idle EXCEPT !.pc = "fetch", !.order = o, !.licence = orders[o].licence])
    /\ UNCHANGED <<gateway, paid, acked, orders, licences, issued, credited, held, spoilt, broken, faults>>

\* ... and its licence, for want of which one is signed that is stored nowhere.
Fetch(t) ==
    LET o == tasks[t].order
    IN
    /\ At(t, "fetch")
    /\ held' = [held EXCEPT ![o] = IF @ # "none" THEN @
                                   ELSE IF licences[o] = tasks[t].licence THEN "stored"
                                   ELSE "unknown"]
    /\ Become(t, Idle)
    /\ UNCHANGED <<gateway, paid, acked, orders, licences, issued, credited, spoilt, broken, faults>>

-----------------------------------------------------------------------------

\* An error, a crash or a lost answer.
Fail(t) ==
    LET left == IF tasks[t].pc \in {"save", "credit", "book"} THEN {tasks[t].order} ELSE {}
    IN
    /\ ~At(t, "idle")
    /\ faults < MaxFaults
    /\ faults' = faults + 1
    /\ spoilt' = spoilt \cup left
    /\ broken' = broken \cup left
    /\ Become(t, Idle)
    /\ UNCHANGED <<gateway, paid, acked, orders, licences, issued, credited, held>>

OrderStep(t) ==
    \/ Ask(t) \/ Attach(t)
    \/ Look(t) \/ Overwrite(t) \/ Reply(t)
    \/ Mark(t) \/ Write(t) \/ Save(t) \/ Credit(t) \/ Book(t)
    \/ Fetch(t)

OrderNext ==
    \/ \E o \in Orders : Pay(o) \/ Undo(o)
    \/ \E t \in Tasks : OrderStep(t) \/ Fail(t)
    \/ \E t \in Tasks, o \in Orders : Create(t, o) \/ Callback(t, o) \/ Poll(t, o)

OrderSpec == Init /\ [][OrderNext]_orderVars

\* Requests go on, and the gateway announces its status again and again.  The bound on
\* requests is the model's, not the server's: a callback finds room.
OrderFairness ==
    /\ \A t \in Tasks : WF_orderVars(OrderStep(t))
    /\ \A o \in Orders : SF_orderVars(\E t \in Tasks : Callback(t, o))

FairOrderSpec == OrderSpec /\ OrderFairness

-----------------------------------------------------------------------------
(* Properties                                                                *)

OrderTypeOK ==
    /\ gateway \in [Orders -> GatewayStatuses]
    /\ paid \subseteq Orders
    /\ acked \in [Orders -> {"none"} \cup Announced]
    /\ orders \in [Orders -> Order]
    /\ licences \in [Orders -> 0 .. MaxLicences]
    /\ issued \in 0 .. MaxLicences
    /\ credited \subseteq Orders
    /\ held \in [Orders -> {"none", "stored", "unknown"}]
    /\ tasks \in [Tasks -> Task]
    /\ spoilt \subseteq Orders
    /\ broken \subseteq Orders
    /\ faults \in 0 .. MaxFaults

PaidFor(o) == o \in paid \cup AutoPaid

\* Whatever races or fails, an order is PAID, licensed or credited only if the gateway has
\* had its payment, and credited only if its licence is stored (callback/registry/route.ts:78,
\* order-service.ts:315-352).
DeliveredIsPaid ==
    \A o \in Orders :
        /\ orders[o].state = "PAID" \/ licences[o] # 0 => PaidFor(o)
        /\ o \in credited => licences[o] # 0

\* t is between the update of the order o and the credit.
Fulfils(t, o) == tasks[t].pc \in {"save", "credit", "book"} /\ tasks[t].order = o

\* An order that is PAID has a licence stored and its developer credited, or a request is
\* still about it, although callbacks race and each of them signs a licence, unless a request
\* failed half-way: the retries that follow find it PAID and do nothing.  The licence is the
\* one the order names, unless a write raced (order-service.ts:293, 315-352,
\* callback/registry/route.ts:79).
PaidIsFulfilled ==
    \A o \in Orders \ broken :
        orders[o].state = "PAID" =>
            \/ /\ licences[o] # 0 /\ Booked(o)
               /\ o \in spoilt \/ licences[o] = orders[o].licence
            \/ \E t \in Tasks : Fulfils(t, o)

\* An order that is PAID stays so, with its licence, unless it is written by a request that
\* read it before: a failure announced earlier, the checkout address, a second payment
\* (callback/registry/route.ts:103, orders/route.ts:126).
PaidIsKept ==
    [][\A o \in Orders \ spoilt' : orders[o].state = "PAID" => orders'[o] = orders[o]]_orderVars

\* The buyer is handed a licence the registry knows, unless it polls between the update of
\* the order and the insertion of the licence (orders/[orderId]/route.ts:36-58).
HandedOutIsStored ==
    [][\A o \in Orders \ spoilt :
         held[o] = "none" /\ held'[o] = "unknown" =>
            \E t \in Tasks : Fulfils(t, o) /\ tasks[t].pc = "save"]_orderVars

\* Every order that is paid for is delivered in the end, although callbacks fail, come twice
\* or announce a failure first, unless a write raced or a request failed half-way, or the
\* gateway itself undoes the payment (callback/registry/route.ts:78-98).  That a payment is
\* announced until it is acknowledged is MerchantLearnsOfSuccess, with the exceptions it has.
PaymentIsDelivered ==
    \A o \in Orders :
        <>[](gateway[o] = "SUCCEEDED" /\ o \notin spoilt =>
               orders[o].state = "PAID" /\ licences[o] = orders[o].licence /\ Booked(o))

-----------------------------------------------------------------------------
(* The inductive invariant behind the safety properties.                     *)

\* What a request has learnt of its order is still true, or the order is spoilt by the time
\* it matters.
TaskKnows(task) ==
    /\ task.pc # "idle" => task.order \in Orders
    /\ task.pc = "look" => task.status # "none"
    /\ task.pc = "look" /\ task.status = "SUCCEEDED" => PaidFor(task.order)
    /\ task.pc = "overwrite" => task.status \in {"FAILED", "CANCELLED"}
    /\ task.pc \in {"mark", "write", "save", "credit", "book"} => PaidFor(task.order)
    /\ task.pc \in {"write", "save"} => task.licence # 0
    /\ task.pc \in {"credit", "book"} => licences[task.order] # 0
    /\ task.pc \in {"ask", "attach", "overwrite", "write"} /\ ~task.stale
           => orders[task.order].state # "PAID"
    /\ task.pc = "fetch" /\ task.order \notin spoilt
           => orders[task.order] = [state |-> "PAID", licence |-> task.licence]

\* One request at most fulfils an order, once it has become PAID, and stores its licence.
OrderInStep(o) ==
    IF orders[o].state = "PAID"
    THEN /\ \A t \in Tasks :
              Fulfils(t, o) /\ tasks[t].pc = "save" =>
                  licences[o] = 0 /\ o \notin credited /\ tasks[t].licence = orders[o].licence
         /\ \A t, u \in Tasks : Fulfils(t, o) /\ Fulfils(u, o) => t = u
         /\ licences[o] = orders[o].licence
                \/ \E t \in Tasks : Fulfils(t, o) /\ tasks[t].pc = "save"
         /\ Booked(o) \/ \E t \in Tasks : Fulfils(t, o)
    ELSE licences[o] = 0 /\ o \notin credited /\ \A t \in Tasks : ~Fulfils(t, o)

\* What one statement has done, the next one is about to follow up, however many requests
\* are about an order.
FollowedUp(o) ==
    /\ orders[o].state = "PAID" =>
           licences[o] # 0 \/ \E t \in Tasks : Fulfils(t, o) /\ tasks[t].pc = "save"
    /\ licences[o] # 0 =>
           Booked(o) \/ \E t \in Tasks : Fulfils(t, o) /\ tasks[t].pc # "save"

OrderIInv ==
    /\ OrderTypeOK
    /\ DeliveredIsPaid
    /\ \A o \in Orders : gateway[o] = "SUCCEEDED" => o \in paid
    /\ \A o \in Orders \ broken : FollowedUp(o)
    /\ \A t \in Tasks : TaskKnows(tasks[t])
    /\ \A o \in Orders \ spoilt : OrderInStep(o)

=============================================================================
