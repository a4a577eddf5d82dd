--------------------------- MODULE RegistryProofs ---------------------------
(***************************************************************************)
(* Theorems about RegistryOrders and RegistryPayouts, for any orders, payouts, *)
(* shares, requests, licences and faults.  Of the orders: who is delivered has *)
(* paid, and who has paid is delivered unless a write raced or a request      *)
(* failed half-way.  Of the payouts: they do not disturb orders, and the      *)
(* ledger follows the decisions unless two of them raced or an approval       *)
(* failed half-way.                                                          *)
(***************************************************************************)
EXTENDS RegistryPayouts, FiniteSetTheorems, WellFoundedInduction, TLAPS

-----------------------------------------------------------------------------
(* Requests                                                                  *)

Fulfilling == {"save", "credit", "book"}

LEMMA IdleTask ==
    /\ Idle \in Task /\ TaskKnows(Idle) /\ Idle.pc = "idle" /\ Idle.stale = FALSE
    /\ Idle.order = None /\ Idle.status = "none"
    BY OrdersAssumption DEF Idle, Task, PCs, TaskKnows

LEMMA Known ==
    ASSUME OrderIInv, NEW t \in Tasks
    PROVE  /\ tasks[t] \in Task /\ TaskKnows(tasks[t]) /\ tasks \in [Tasks -> Task]
           /\ tasks[t].pc # "idle" => tasks[t].order \in Orders
           /\ orders \in [Orders -> Order] /\ licences \in [Orders -> 0 .. MaxLicences]
           /\ spoilt \subseteq Orders /\ credited \subseteq Orders /\ faults \in 0 .. MaxFaults
           /\ paid \subseteq Orders /\ broken \subseteq Orders
    BY DEF OrderIInv, OrderTypeOK, TaskKnows

\* An order nobody has touched stays in step.
LEMMA StaysInStep ==
    ASSUME NEW x \in Orders, OrderInStep(x),
           orders'[x] = orders[x], licences'[x] = licences[x], x \in credited' <=> x \in credited,
           \A u \in Tasks : /\ Fulfils(u, x)' <=> Fulfils(u, x)
                            /\ Fulfils(u, x) =>
                                   /\ tasks'[u].pc = "save" <=> tasks[u].pc = "save"
                                   /\ tasks'[u].pc # "save"
                                          \/ tasks'[u].licence = tasks[u].licence
    PROVE  OrderInStep(x)'
  <1>1. CASE orders[x].state = "PAID"
    <2>1. \A u \in Tasks : Fulfils(u, x)' /\ tasks'[u].pc = "save" =>
              licences'[x] = 0 /\ x \notin credited' /\ tasks'[u].licence = orders'[x].licence
      BY <1>1 DEF OrderInStep
    <2>2. \A u, v \in Tasks : Fulfils(u, x)' /\ Fulfils(v, x)' => u = v
      BY <1>1 DEF OrderInStep
    <2>3. licences'[x] = orders'[x].licence
              \/ \E u \in Tasks : Fulfils(u, x)' /\ tasks'[u].pc = "save"
      BY <1>1 DEF OrderInStep
    <2>4. Booked(x)' \/ \E u \in Tasks : Fulfils(u, x)'
      BY <1>1 DEF OrderInStep, Booked
    <2>5. QED
      BY <1>1, <2>1, <2>2, <2>3, <2>4 DEF OrderInStep
  <1>2. CASE orders[x].state # "PAID"
    BY <1>2 DEF OrderInStep
  <1>3. QED
    BY <1>1, <1>2

\* An order nobody has touched stays followed up.
LEMMA StaysFollowedUp ==
    ASSUME NEW x \in Orders, FollowedUp(x),
           orders'[x].state = "PAID" => orders[x].state = "PAID",
           licences'[x] = licences[x], x \in credited => x \in credited',
           \A u \in Tasks : Fulfils(u, x) =>
                              Fulfils(u, x)' /\ (tasks'[u].pc = "save" <=> tasks[u].pc = "save")
    PROVE  FollowedUp(x)'
    BY DEF FollowedUp, Booked

-----------------------------------------------------------------------------
(* Steps that leave the orders, the licences and the credits alone           *)

LEMMA TaskStep ==
    ASSUME OrderIInv,
           NEW t \in Tasks, NEW task \in Task, TaskKnows(task), Become(t, task),
           task.pc \in Fulfilling \/ tasks[t].pc \in Fulfilling =>
               /\ task.pc \in Fulfilling /\ tasks[t].pc \in Fulfilling
               /\ task.pc # "save" /\ tasks[t].pc # "save" /\ task.order = tasks[t].order,
           UNCHANGED <<gateway, paid, orders, licences, credited, spoilt, broken>>,
           acked' \in [Orders -> {"none"} \cup Announced],
           issued' \in 0 .. MaxLicences,
           held' \in [Orders -> {"none", "stored", "unknown"}],
           faults' \in 0 .. MaxFaults
    PROVE  OrderIInv'
  <1>1. tasks' \in [Tasks -> Task] /\ tasks'[t] = task /\ \A u \in Tasks \ {t} : tasks'[u] = tasks[u]
    BY Known DEF Become
  <1>2. OrderTypeOK'
    BY <1>1 DEF OrderIInv, OrderTypeOK
  <1>3. DeliveredIsPaid'
    BY DEF OrderIInv, DeliveredIsPaid, PaidFor
  <1>4. \A u \in Tasks : TaskKnows(tasks[u])'
    BY <1>1 DEF OrderIInv, TaskKnows, PaidFor
  <1>5. ASSUME NEW x \in Orders, x \notin spoilt'
        PROVE  OrderInStep(x)'
    <2>1. OrderInStep(x)
      BY <1>5 DEF OrderIInv
    <2>2. ASSUME NEW u \in Tasks
          PROVE  /\ Fulfils(u, x)' <=> Fulfils(u, x)
                 /\ Fulfils(u, x) => /\ tasks'[u].pc = "save" <=> tasks[u].pc = "save"
                                     /\ tasks'[u].pc # "save" \/ tasks'[u].licence = tasks[u].licence
      BY <1>1 DEF Fulfils, Fulfilling
    <2>3. QED
      BY <2>1, <2>2, StaysInStep
  <1>6. ASSUME NEW x \in Orders, x \notin broken'
        PROVE  FollowedUp(x)'
    <2>1. FollowedUp(x)
      BY <1>6 DEF OrderIInv
    <2>2. ASSUME NEW u \in Tasks, Fulfils(u, x)
          PROVE  Fulfils(u, x)' /\ (tasks'[u].pc = "save" <=> tasks[u].pc = "save")
      BY <1>1, <2>2 DEF Fulfils, Fulfilling
    <2>3. QED
      BY <2>1, <2>2, StaysFollowedUp
  <1>7. QED
    BY <1>2, <1>3, <1>4, <1>5, <1>6 DEF OrderIInv

LEMMA Types ==
    ASSUME OrderIInv
    PROVE  /\ acked \in [Orders -> {"none"} \cup Announced]
           /\ issued \in 0 .. MaxLicences
           /\ held \in [Orders -> {"none", "stored", "unknown"}]
           /\ faults \in 0 .. MaxFaults
    BY DEF OrderIInv, OrderTypeOK

LEMMA CallbackInvariant ==
    ASSUME OrderIInv, NEW t \in Tasks, NEW o \in Orders, Callback(t, o)
    PROVE  OrderIInv'
  <1> DEFINE task == [Idle EXCEPT !.pc = "look", !.order = o, !.status = gateway[o]]
  <1>1. /\ task \in Task /\ task.pc = "look" /\ task.order = o /\ task.status = gateway[o]
        /\ gateway[o] # "none"
    BY IdleTask DEF Callback, Task, PCs, Announced
  <1>2. TaskKnows(task)
    <2>1. gateway[o] = "SUCCEEDED" => PaidFor(o)
      BY DEF OrderIInv, PaidFor
    <2>2. QED
      BY <1>1, <2>1 DEF TaskKnows
  <1>3. tasks[t].pc = "idle" /\ Become(t, task)
    BY DEF Callback, At
  <1> HIDE DEF task
  <1>4. QED
    BY <1>1, <1>2, <1>3, TaskStep, Types DEF Callback, Fulfilling

LEMMA LookInvariant ==
    ASSUME OrderIInv, NEW t \in Tasks, Look(t)
    PROVE  OrderIInv'
  <1> DEFINE o == tasks[t].order
             next == IF orders[o].state = "PAID" THEN "reply"
                     ELSE IF tasks[t].status = "SUCCEEDED" THEN "mark" ELSE "overwrite"
             task == [tasks[t] EXCEPT !.pc = next, !.stale = FALSE]
  <1>1. tasks[t].pc = "look" /\ tasks[t] \in Task /\ TaskKnows(tasks[t])
    BY Known DEF Look, At
  <1>2. next \in PCs
    BY DEF PCs
  <1>3. /\ task \in Task /\ task.pc = next /\ task.order = o /\ task.status = tasks[t].status
        /\ task.stale = FALSE
    <2> HIDE DEF next
    <2>1. QED
      BY <1>1, <1>2 DEF Task
  <1>4. TaskKnows(task)
    BY <1>1, <1>3 DEF TaskKnows, Task, Announced
  <1>5. Become(t, task)
    BY DEF Look
  <1>6. next \notin Fulfilling
    BY DEF Fulfilling
  <1> HIDE DEF task, next
  <1>7. QED
    BY <1>1, <1>3, <1>4, <1>5, <1>6, TaskStep, Types DEF Look, Fulfilling

LEMMA ReplyInvariant ==
    ASSUME OrderIInv, NEW t \in Tasks, Reply(t)
    PROVE  OrderIInv'
  <1>1. tasks[t].pc = "reply" /\ tasks[t] \in Task /\ tasks[t].order \in Orders
    BY Known DEF Reply, At
  <1>2. acked' \in [Orders -> {"none"} \cup Announced]
    BY <1>1, Types DEF Reply, Task
  <1>3. QED
    BY <1>1, <1>2, IdleTask, TaskStep, Types DEF Reply, Fulfilling

LEMMA MarkInvariant ==
    ASSUME OrderIInv, NEW t \in Tasks, Mark(t)
    PROVE  OrderIInv'
  <1>1. tasks[t].pc = "mark" /\ tasks[t] \in Task /\ TaskKnows(tasks[t])
    BY Known DEF Mark, At
  <1>2. CASE Become(t, Idle) /\ UNCHANGED issued
    BY <1>1, <1>2, IdleTask, TaskStep, Types DEF Mark, Fulfilling
  <1>3. CASE /\ orders[tasks[t].order].state # "PAID"
             /\ issued < MaxLicences
             /\ issued' = issued + 1
             /\ Become(t, [tasks[t] EXCEPT !.pc = "write", !.licence = issued + 1, !.stale = FALSE])
    <2> DEFINE task == [tasks[t] EXCEPT !.pc = "write", !.licence = issued + 1, !.stale = FALSE]
    <2>1. issued' \in 0 .. MaxLicences /\ issued + 1 \in 0 .. MaxLicences /\ issued + 1 # 0
      BY <1>3, Types, OrdersAssumption
    <2>2. "write" \in PCs
      BY DEF PCs
    <2>3. /\ task \in Task /\ task.pc = "write" /\ task.order = tasks[t].order
          /\ task.licence = issued + 1 /\ task.stale = FALSE
      BY <1>1, <2>1, <2>2 DEF Task
    <2>4. TaskKnows(task)
      BY <1>1, <1>3, <2>1, <2>3 DEF TaskKnows
    <2>5. Become(t, task)
      BY <1>3
    <2> HIDE DEF task
    <2>6. QED
      BY <1>1, <2>1, <2>3, <2>4, <2>5, TaskStep, Types DEF Mark, Fulfilling
  <1>4. QED
    BY <1>2, <1>3 DEF Mark

LEMMA PollInvariant ==
    ASSUME OrderIInv, NEW t \in Tasks, NEW o \in Orders, Poll(t, o)
    PROVE  OrderIInv'
  <1> DEFINE task == [Idle EXCEPT !.pc = "fetch", !.order = o, !.licence = orders[o].licence]
  <1>1. orders[o] \in Order /\ orders[o].state = "PAID"
    BY Known DEF Poll
  <1>2. task \in Task /\ task.pc = "fetch" /\ task.order = o /\ task.licence = orders[o].licence
    BY <1>1, IdleTask DEF Task, PCs, Order
  <1>3. TaskKnows(task)
    BY <1>1, <1>2 DEF TaskKnows, Order
  <1>4. tasks[t].pc = "idle" /\ Become(t, task)
    BY DEF Poll, At
  <1> HIDE DEF task
  <1>5. QED
    BY <1>2, <1>3, <1>4, TaskStep, Types DEF Poll, Fulfilling

LEMMA FetchInvariant ==
    ASSUME OrderIInv, NEW t \in Tasks, Fetch(t)
    PROVE  OrderIInv'
  <1>1. tasks[t].pc = "fetch" /\ Become(t, Idle)
    BY DEF Fetch, At
  <1>2. held' \in [Orders -> {"none", "stored", "unknown"}]
    BY Types DEF Fetch
  <1>3. QED
    BY <1>1, <1>2, IdleTask, TaskStep, Types DEF Fetch, Fulfilling

-----------------------------------------------------------------------------
(* Steps of the gateway                                                      *)

\* What has been paid for stays paid for, whatever its status becomes.
LEMMA BecomesInvariant ==
    ASSUME OrderIInv, NEW o \in Orders, NEW status \in GatewayStatuses, Becomes(o, status),
           faults' \in 0 .. MaxFaults
    PROVE  OrderIInv'
  <1>1. /\ gateway' = [gateway EXCEPT ![o] = status] /\ acked' = [acked EXCEPT ![o] = "none"]
        /\ paid' = (IF status = "SUCCEEDED" THEN paid \cup {o} ELSE paid)
        /\ UNCHANGED <<orders, licences, issued, credited, held, tasks, spoilt, broken>>
    BY DEF Becomes
  <1>2. \A x \in Orders : PaidFor(x) => PaidFor(x)'
    BY <1>1 DEF PaidFor
  <1>3. OrderTypeOK'
    BY <1>1 DEF OrderIInv, OrderTypeOK
  <1>4. DeliveredIsPaid'
    BY <1>1, <1>2 DEF OrderIInv, DeliveredIsPaid
  <1>5. \A x \in Orders : gateway'[x] = "SUCCEEDED" => x \in paid'
    BY <1>1 DEF OrderIInv, OrderTypeOK
  <1>6. \A u \in Tasks : TaskKnows(tasks[u])'
    <2>1. \A u \in Tasks : tasks[u].pc # "idle" => tasks[u].order \in Orders
      BY Known
    <2>2. QED
      BY <1>1, <1>2, <2>1 DEF OrderIInv, TaskKnows
  <1>7. \A x \in Orders \ spoilt' : OrderInStep(x)'
    BY <1>1 DEF OrderIInv, OrderInStep, Fulfils, Booked
  <1>8. \A x \in Orders \ broken' : FollowedUp(x)'
    BY <1>1 DEF OrderIInv, FollowedUp, Fulfils, Booked
  <1>9. QED
    BY <1>3, <1>4, <1>5, <1>6, <1>7, <1>8 DEF OrderIInv

LEMMA PayInvariant ==
    ASSUME OrderIInv, NEW o \in Orders, Pay(o) \/ Undo(o)
    PROVE  OrderIInv'
  <1>1. PICK status \in GatewayStatuses : Becomes(o, status)
    BY DEF Pay, Undo, GatewayStatuses, Announced
  <1>2. faults' \in 0 .. MaxFaults
    BY Types, OrdersAssumption DEF Pay, Undo
  <1>3. QED
    BY <1>1, <1>2, BecomesInvariant

\* The step of the route that asks for the payment is one of the gateway and one of the task.
LEMMA AskInvariant ==
    ASSUME OrderIInv, NEW t \in Tasks, Ask(t)
    PROVE  OrderIInv'
  <1> DEFINE o == tasks[t].order
             task == [tasks[t] EXCEPT !.pc = "attach"]
  <1>1. tasks[t].pc = "ask" /\ tasks[t] \in Task /\ TaskKnows(tasks[t]) /\ o \in Orders
    BY Known DEF Ask, At
  <1>2. /\ gateway' \in [Orders -> GatewayStatuses]
        /\ \A x \in Orders : gateway'[x] = "SUCCEEDED" => gateway[x] = "SUCCEEDED"
    BY <1>1 DEF Ask, OrderIInv, OrderTypeOK, GatewayStatuses
  <1>3. "attach" \in PCs
    BY DEF PCs
  <1>4. /\ task \in Task /\ task.pc = "attach" /\ task.order = o /\ task.stale = tasks[t].stale
    BY <1>1, <1>3 DEF Task
  <1>5. Become(t, task)
    BY DEF Ask, Goto
  <1>6. UNCHANGED <<paid, acked, orders, licences, issued, credited, held, spoilt, broken, faults>>
    BY DEF Ask
  <1> HIDE DEF task, o
  <1>7. tasks' \in [Tasks -> Task] /\ tasks'[t] = task /\ \A u \in Tasks \ {t} : tasks'[u] = tasks[u]
    BY <1>4, <1>5, Known DEF Become
  <1>8. \A x \in Orders : PaidFor(x) => PaidFor(x)'
    BY <1>6 DEF PaidFor
  <1>9. OrderTypeOK' /\ DeliveredIsPaid'
    BY <1>2, <1>6, <1>7, <1>8 DEF OrderIInv, OrderTypeOK, DeliveredIsPaid
  <1>10. ASSUME NEW u \in Tasks
         PROVE  TaskKnows(tasks[u])'
    <2>1. CASE u = t
      BY <1>1, <1>4, <1>6, <1>7, <2>1 DEF TaskKnows, o
    <2>2. CASE u # t
      <3>1. tasks'[u] = tasks[u] /\ TaskKnows(tasks[u])
        BY <1>7, <2>2, Known
      <3>2. QED
        BY <1>6, <1>8, <3>1 DEF TaskKnows
    <2>3. QED
      BY <2>1, <2>2
  <1>11. \A u \in Tasks, x \in Orders :
             /\ Fulfils(u, x)' <=> Fulfils(u, x)
             /\ Fulfils(u, x) => tasks'[u] = tasks[u]
    BY <1>1, <1>4, <1>7 DEF Fulfils
  <1>12. \A x \in Orders \ spoilt' : OrderInStep(x)'
    BY <1>6, <1>11, StaysInStep DEF OrderIInv
  <1>13. \A x \in Orders \ broken' : FollowedUp(x)'
    BY <1>6, <1>11, StaysFollowedUp DEF OrderIInv
  <1>14. \A x \in Orders : gateway'[x] = "SUCCEEDED" => x \in paid'
    BY <1>2, <1>6 DEF OrderIInv
  <1>15. QED
    BY <1>9, <1>10, <1>12, <1>13, <1>14 DEF OrderIInv

-----------------------------------------------------------------------------
(* Steps that write an order                                                 *)

LEMMA WriteOrderEffect ==
    ASSUME OrderIInv, NEW t \in Tasks, NEW o \in Orders, NEW order \in Order, NEW task \in Task,
           WriteOrder(t, o, order, task)
    PROVE  /\ tasks' \in [Tasks -> Task] /\ tasks'[t] = task
           /\ orders' \in [Orders -> Order] /\ orders'[o] = order
           /\ \A x \in Orders \ {o} : orders'[x] = orders[x]
           /\ spoilt' \subseteq Orders /\ spoilt \subseteq spoilt'
           /\ tasks[t].stale => o \in spoilt'
           /\ \A u \in Tasks \ {t} :
                /\ tasks'[u].pc = tasks[u].pc /\ tasks'[u].order = tasks[u].order
                /\ tasks'[u].status = tasks[u].status /\ tasks'[u].licence = tasks[u].licence
                /\ ~tasks'[u].stale =>
                       ~tasks[u].stale /\ (tasks[u].order = o => order = orders[o])
  <1> USE DEF WriteOrder
  <1>1. ASSUME NEW u \in Tasks \ {t}
        PROVE  /\ tasks'[u] \in Task
               /\ tasks'[u].pc = tasks[u].pc /\ tasks'[u].order = tasks[u].order
               /\ tasks'[u].status = tasks[u].status /\ tasks'[u].licence = tasks[u].licence
               /\ ~tasks'[u].stale => ~tasks[u].stale /\ (tasks[u].order = o => order = orders[o])
    <2>1. tasks[u] \in Task
      BY Known
    <2>2. CASE tasks[u].order = o /\ order # orders[o]
      <3>1. tasks'[u] = [tasks[u] EXCEPT !.stale = TRUE]
        BY <2>2
      <3>2. QED
        BY <2>1, <3>1 DEF Task
    <2>3. CASE ~(tasks[u].order = o /\ order # orders[o])
      <3>1. tasks'[u] = tasks[u]
        BY <2>3
      <3>2. QED
        BY <2>1, <2>3, <3>1
    <2>4. QED
      BY <2>2, <2>3
  <1>2. tasks'[t] = task /\ tasks' = [u \in Tasks |-> tasks'[u]]
    OBVIOUS
  <1>3. tasks' \in [Tasks -> Task]
    BY <1>1, <1>2
  <1>4. /\ orders' \in [Orders -> Order] /\ orders'[o] = order
        /\ \A x \in Orders \ {o} : orders'[x] = orders[x]
    BY Known
  <1>5. spoilt' \subseteq Orders /\ spoilt \subseteq spoilt' /\ (tasks[t].stale => o \in spoilt')
    BY Known
  <1>6. QED
    BY <1>1, <1>2, <1>3, <1>4, <1>5

\* A write that keeps an order that is PAID, or spoils it, disturbs no one else.
LEMMA WriteStep ==
    ASSUME OrderIInv, NEW t \in Tasks, NEW o \in Orders, NEW order \in Order, NEW task \in Task,
           WriteOrder(t, o, order, task),
           UNCHANGED <<gateway, paid, acked, licences, issued, credited, held, broken, faults>>,
           orders[o].state = "PAID" => o \in spoilt',
           order.state = "PAID" => PaidFor(o),
           TaskKnows(task)',
           tasks[t].pc \notin Fulfilling,
           task.pc \in Fulfilling => task.order = o,
           order.state = "PAID" => task.pc = "save" /\ task.order = o,
           o \notin spoilt' => OrderInStep(o)'
    PROVE  OrderIInv'
  <1>1. /\ tasks' \in [Tasks -> Task] /\ tasks'[t] = task
        /\ orders' \in [Orders -> Order] /\ orders'[o] = order
        /\ \A x \in Orders \ {o} : orders'[x] = orders[x]
        /\ spoilt' \subseteq Orders /\ spoilt \subseteq spoilt'
    BY WriteOrderEffect
  <1>2. \A u \in Tasks \ {t} :
            /\ tasks'[u].pc = tasks[u].pc /\ tasks'[u].order = tasks[u].order
            /\ tasks'[u].status = tasks[u].status /\ tasks'[u].licence = tasks[u].licence
            /\ ~tasks'[u].stale => ~tasks[u].stale /\ (tasks[u].order = o => order = orders[o])
    BY WriteOrderEffect
  <1>3. OrderTypeOK'
    BY <1>1 DEF OrderIInv, OrderTypeOK
  <1>4. \A x \in Orders : PaidFor(x)' <=> PaidFor(x)
    BY DEF PaidFor
  <1>5. DeliveredIsPaid'
    <2>1. \A x \in Orders : orders'[x].state = "PAID" => PaidFor(x)
      BY <1>1 DEF OrderIInv, DeliveredIsPaid
    <2>2. QED
      BY <1>4, <2>1 DEF OrderIInv, DeliveredIsPaid
  <1>6. ASSUME NEW u \in Tasks \ {t}
        PROVE  TaskKnows(tasks[u])'
    <2>1. TaskKnows(tasks[u])
      BY Known
    <2>2. tasks[u].pc = "idle" \/ tasks[u].order \in Orders
      BY <2>1 DEF TaskKnows
    <2>3. tasks[u].pc # "idle" /\ ~tasks'[u].stale =>
              ~tasks[u].stale /\ orders'[tasks[u].order] = orders[tasks[u].order]
      BY <1>1, <1>2, <2>2
    <2>4. tasks[u].pc = "fetch" /\ tasks[u].order \notin spoilt' =>
              orders'[tasks[u].order] = orders[tasks[u].order] /\ tasks[u].order \notin spoilt
      BY <1>1, <2>1, <2>2 DEF TaskKnows
    <2>5. QED
      BY <1>2, <2>1, <2>2, <2>3, <2>4 DEF TaskKnows, PaidFor
  <1>7. \A u \in Tasks : TaskKnows(tasks[u])'
    BY <1>1, <1>6
  <1>8. ASSUME NEW x \in Orders \ {o}, x \notin spoilt'
        PROVE  OrderInStep(x)'
    <2>1. OrderInStep(x) /\ orders'[x] = orders[x]
      BY <1>1, <1>8 DEF OrderIInv
    <2>2. ASSUME NEW u \in Tasks
          PROVE  /\ Fulfils(u, x)' <=> Fulfils(u, x)
                 /\ Fulfils(u, x) => /\ tasks'[u].pc = "save" <=> tasks[u].pc = "save"
                                     /\ tasks'[u].licence = tasks[u].licence
      BY <1>1, <1>2, <1>8 DEF Fulfils, Fulfilling
    <2>3. QED
      BY <2>1, <2>2, StaysInStep
  <1>9. ASSUME NEW x \in Orders, x \notin broken'
        PROVE  FollowedUp(x)'
    <2>1. FollowedUp(x) /\ licences'[x] = licences[x]
      BY <1>9 DEF OrderIInv
    <2>2. ASSUME NEW u \in Tasks, Fulfils(u, x)
          PROVE  Fulfils(u, x)' /\ (tasks'[u].pc = "save" <=> tasks[u].pc = "save")
      BY <1>2, <2>2 DEF Fulfils, Fulfilling
    <2>3. CASE x = o /\ order.state = "PAID"
      <3>1. Fulfils(t, x)' /\ tasks'[t].pc = "save"
        BY <1>1, <2>3 DEF Fulfils
      <3>2. QED
        BY <2>1, <2>2, <3>1 DEF FollowedUp, Booked
    <2>4. CASE ~(x = o /\ order.state = "PAID")
      BY <1>1, <2>1, <2>2, <2>4, StaysFollowedUp
    <2>5. QED
      BY <2>3, <2>4
  <1>10. QED
    BY <1>3, <1>5, <1>7, <1>8, <1>9 DEF OrderIInv

\* An order that was not PAID, and still is not, stays in step.
LEMMA UnpaidWrite ==
    ASSUME OrderIInv, NEW t \in Tasks, NEW o \in Orders, NEW order \in Order, NEW task \in Task,
           WriteOrder(t, o, order, task),
           UNCHANGED <<licences, credited>>,
           orders[o].state # "PAID", order.state # "PAID",
           tasks[t].pc \notin Fulfilling, task.pc \notin Fulfilling, o \notin spoilt'
    PROVE  OrderInStep(o)'
  <1>1. OrderInStep(o)
    BY WriteOrderEffect DEF OrderIInv
  <1>2. orders'[o] = order /\ \A u \in Tasks : ~Fulfils(u, o)'
    <2>1. \A u \in Tasks : ~Fulfils(u, o)
      BY <1>1 DEF OrderInStep
    <2>2. QED
      BY <2>1, WriteOrderEffect DEF Fulfils, Fulfilling
  <1>3. QED
    BY <1>1, <1>2 DEF OrderInStep, Booked

LEMMA CreateInvariant ==
    ASSUME OrderIInv, NEW t \in Tasks, NEW o \in Orders, Create(t, o)
    PROVE  OrderIInv' /\ orders[o].state # "PAID" /\ \A x \in Orders \ {o} : orders'[x] = orders[x]
  <1>b. PICK order : order = [state |-> "PENDING", licence |-> 0]
    OBVIOUS
  <1>c. PICK task : task = [Idle EXCEPT !.pc = IF o \in AutoPaid THEN "mark" ELSE "ask", !.order = o]
    OBVIOUS
  <1>1. order \in Order /\ order.state = "PENDING"
    BY <1>b, <1>c, OrdersAssumption DEF Order, OrderStates
  <1>2. /\ task \in Task /\ task.pc \in {"ask", "mark"} /\ task.order = o
        /\ task.pc = "mark" => o \in AutoPaid
    BY <1>b, <1>c, IdleTask DEF Task, PCs
  <1>3. WriteOrder(t, o, order, task)
    BY <1>b, <1>c DEF Create
  <1>4. tasks[t].pc = "idle" /\ orders[o].state = "none"
    BY DEF Create, At
  <1>5. UNCHANGED <<gateway, paid, acked, licences, issued, credited, held, broken, faults>>
    BY DEF Create
  <1>6. orders'[o] = order
    BY <1>1, <1>2, <1>3, WriteOrderEffect
  <1>7. TaskKnows(task)'
    BY <1>1, <1>2, <1>6 DEF TaskKnows, PaidFor
  <1>8. o \notin spoilt' => OrderInStep(o)'
    BY <1>1, <1>2, <1>3, <1>4, <1>5, UnpaidWrite DEF Fulfilling
  <1>9. OrderIInv'
    BY <1>1, <1>2, <1>3, <1>4, <1>5, <1>7, <1>8, WriteStep DEF Fulfilling
  <1>10. QED
    BY <1>1, <1>2, <1>3, <1>4, <1>9, WriteOrderEffect

LEMMA AttachInvariant ==
    ASSUME OrderIInv, NEW t \in Tasks, Attach(t)
    PROVE  /\ OrderIInv'
           /\ orders[tasks[t].order].state = "PAID" => tasks[t].order \in spoilt'
           /\ \A x \in Orders \ {tasks[t].order} : orders'[x] = orders[x]
  <1>a. PICK o : o = tasks[t].order
    OBVIOUS
  <1>b. PICK order : order = [orders[o] EXCEPT !.state = "PENDING"]
    OBVIOUS
  <1>1. tasks[t].pc = "attach" /\ TaskKnows(tasks[t]) /\ o \in Orders
    BY <1>a, <1>b, Known DEF Attach, At
  <1>2. order \in Order /\ order.state = "PENDING"
    BY <1>a, <1>b, <1>1, Known DEF Order, OrderStates
  <1>3. WriteOrder(t, o, order, Idle)
    BY <1>a, <1>b DEF Attach
  <1>4. UNCHANGED <<gateway, paid, acked, licences, issued, credited, held, broken, faults>>
    BY DEF Attach
  <1>6. orders[o].state = "PAID" => o \in spoilt'
    BY <1>a, <1>1, <1>2, <1>3, <1>a, IdleTask, WriteOrderEffect DEF TaskKnows
  <1>7. TaskKnows(Idle)'
    BY <1>a, IdleTask DEF TaskKnows
  <1>8. o \notin spoilt' => OrderInStep(o)'
    BY <1>a, <1>1, <1>2, <1>3, <1>4, <1>6, IdleTask, UnpaidWrite DEF Fulfilling
  <1>9. OrderIInv'
    BY <1>a, <1>1, <1>2, <1>3, <1>4, <1>6, <1>7, <1>8, IdleTask, WriteStep DEF Fulfilling
  <1>10. QED
    BY <1>a, <1>1, <1>2, <1>3, <1>a, <1>6, <1>9, IdleTask, WriteOrderEffect

LEMMA OverwriteInvariant ==
    ASSUME OrderIInv, NEW t \in Tasks, Overwrite(t)
    PROVE  /\ OrderIInv'
           /\ orders[tasks[t].order].state = "PAID" => tasks[t].order \in spoilt'
           /\ \A x \in Orders \ {tasks[t].order} : orders'[x] = orders[x]
  <1>a. PICK o : o = tasks[t].order
    OBVIOUS
  <1>b. PICK order : order = [orders[o] EXCEPT !.state = tasks[t].status]
    OBVIOUS
  <1>c. PICK task : task = [tasks[t] EXCEPT !.pc = "reply"]
    OBVIOUS
  <1>1. tasks[t].pc = "overwrite" /\ tasks[t] \in Task /\ TaskKnows(tasks[t]) /\ o \in Orders
    BY <1>a, <1>b, <1>c, Known DEF Overwrite, At
  <1>2. order \in Order /\ order.state \in {"FAILED", "CANCELLED"}
    BY <1>a, <1>b, <1>c, <1>1, Known DEF Order, OrderStates, TaskKnows
  <1>3. "reply" \in PCs
    BY DEF PCs
  <1>4. task \in Task /\ task.pc = "reply" /\ task.order = o
    BY <1>a, <1>b, <1>c, <1>1, <1>3 DEF Task
  <1>5. WriteOrder(t, o, order, task)
    BY <1>a, <1>b, <1>c DEF Overwrite
  <1>6. UNCHANGED <<gateway, paid, acked, licences, issued, credited, held, broken, faults>>
    BY DEF Overwrite
  <1>8. orders[o].state = "PAID" => o \in spoilt'
    BY <1>a, <1>1, <1>2, <1>4, <1>5, <1>a, WriteOrderEffect DEF TaskKnows
  <1>9. TaskKnows(task)'
    BY <1>a, <1>1, <1>4 DEF TaskKnows
  <1>10. o \notin spoilt' => OrderInStep(o)'
    BY <1>a, <1>1, <1>2, <1>4, <1>5, <1>6, <1>8, UnpaidWrite DEF Fulfilling
  <1>11. OrderIInv'
    BY <1>a, <1>1, <1>2, <1>4, <1>5, <1>6, <1>8, <1>9, <1>10, WriteStep DEF Fulfilling
  <1>12. QED
    BY <1>a, <1>1, <1>2, <1>4, <1>5, <1>a, <1>8, <1>11, WriteOrderEffect

LEMMA WriteInvariant ==
    ASSUME OrderIInv, NEW t \in Tasks, Write(t)
    PROVE  /\ OrderIInv'
           /\ orders[tasks[t].order].state = "PAID" => tasks[t].order \in spoilt'
           /\ \A x \in Orders \ {tasks[t].order} : orders'[x] = orders[x]
  <1>a. PICK o : o = tasks[t].order
    OBVIOUS
  <1>b. PICK order : order = [state |-> "PAID", licence |-> tasks[t].licence]
    OBVIOUS
  <1>c. PICK task : task = [tasks[t] EXCEPT !.pc = "save"]
    OBVIOUS
  <1>1. tasks[t].pc = "write" /\ tasks[t] \in Task /\ TaskKnows(tasks[t]) /\ o \in Orders
    BY <1>a, <1>b, <1>c, Known DEF Write, At
  <1>2. order \in Order /\ order.state = "PAID" /\ order.licence = tasks[t].licence
    BY <1>a, <1>b, <1>c, <1>1 DEF Order, OrderStates, Task
  <1>3. "save" \in PCs
    BY DEF PCs
  <1>4. task \in Task /\ task.pc = "save" /\ task.order = o /\ task.licence = tasks[t].licence
    BY <1>a, <1>b, <1>c, <1>1, <1>3 DEF Task
  <1>5. WriteOrder(t, o, order, task)
    BY <1>a, <1>b, <1>c DEF Write
  <1>6. UNCHANGED <<gateway, paid, acked, licences, issued, credited, held, broken, faults>>
    BY DEF Write
  <1>8. orders[o].state = "PAID" => o \in spoilt'
    BY <1>a, <1>1, <1>2, <1>4, <1>5, <1>a, WriteOrderEffect DEF TaskKnows
  <1>9. PaidFor(o) /\ TaskKnows(task)'
    BY <1>a, <1>1, <1>4, <1>6, <1>a DEF TaskKnows, PaidFor
  <1>10. ASSUME o \notin spoilt'
         PROVE  OrderInStep(o)'
    <2>1. orders[o].state # "PAID" /\ o \notin spoilt
      BY <1>a, <1>1, <1>2, <1>4, <1>5, <1>8, <1>10, WriteOrderEffect
    <2>2. licences[o] = 0 /\ o \notin credited /\ \A u \in Tasks : ~Fulfils(u, o)
      BY <1>a, <1>1, <2>1 DEF OrderIInv, OrderInStep
    <2>3. orders'[o] = order /\ tasks'[t] = task
      BY <1>a, <1>1, <1>2, <1>4, <1>5, WriteOrderEffect
    <2>4. \A u \in Tasks : Fulfils(u, o)' <=> u = t
      BY <1>a, <1>1, <1>2, <1>4, <1>5, <2>2, <2>3, WriteOrderEffect DEF Fulfils
    <2>5. QED
      BY <1>a, <1>2, <1>4, <1>6, <2>2, <2>3, <2>4 DEF OrderInStep, Booked
  <1>11. OrderIInv'
    BY <1>a, <1>1, <1>2, <1>4, <1>5, <1>6, <1>8, <1>9, <1>10, WriteStep DEF Fulfilling
  <1>12. QED
    BY <1>a, <1>1, <1>2, <1>4, <1>5, <1>a, <1>8, <1>11, WriteOrderEffect

-----------------------------------------------------------------------------
(* Steps that fulfil an order                                                *)

\* A step of the request t, which fulfils the order o, and writes nothing of another order.
LEMMA FulfilStep ==
    ASSUME OrderIInv, NEW t \in Tasks, NEW o \in Orders, NEW task \in Task,
           tasks[t].order = o, tasks[t].pc \in Fulfilling,
           task.pc \in Fulfilling => task.order = o,
           Become(t, task), TaskKnows(task)',
           UNCHANGED <<gateway, paid, orders, issued, held>>,
           acked' = acked, faults' \in 0 .. MaxFaults,
           licences' \in [Orders -> 0 .. MaxLicences],
           \A x \in Orders \ {o} : licences'[x] = licences[x],
           licences[o] # 0 => licences'[o] = licences[o],
           licences'[o] # licences[o] => PaidFor(o),
           credited' \subseteq credited \cup {o}, credited \subseteq credited',
           o \in credited' => licences'[o] # 0,
           spoilt' \subseteq spoilt \cup {o}, spoilt \subseteq spoilt',
           broken' \subseteq broken \cup {o}, broken \subseteq broken',
           o \notin spoilt' => OrderInStep(o)',
           o \notin broken' => FollowedUp(o)'
    PROVE  OrderIInv'
  <1>1. tasks' \in [Tasks -> Task] /\ tasks'[t] = task /\ \A u \in Tasks \ {t} : tasks'[u] = tasks[u]
    BY Known DEF Become
  <1>2. OrderTypeOK'
    BY <1>1 DEF OrderIInv, OrderTypeOK
  <1>3. DeliveredIsPaid'
    BY Known DEF OrderIInv, DeliveredIsPaid, PaidFor
  <1>4. ASSUME NEW u \in Tasks \ {t}
        PROVE  TaskKnows(tasks[u])'
    <2>1. TaskKnows(tasks[u]) /\ tasks'[u] = tasks[u]
      BY <1>1, Known
    <2>2. tasks[u].pc \in {"credit", "book"} => licences'[tasks[u].order] # 0
      BY <2>1 DEF TaskKnows
    <2>3. QED
      BY <2>1, <2>2 DEF TaskKnows, PaidFor
  <1>5. \A u \in Tasks : TaskKnows(tasks[u])'
    BY <1>1, <1>4
  <1>6. \A u \in Tasks, x \in Orders \ {o} :
            /\ Fulfils(u, x)' <=> Fulfils(u, x)
            /\ Fulfils(u, x) => tasks'[u] = tasks[u]
    BY <1>1 DEF Fulfils, Fulfilling
  <1>7. ASSUME NEW x \in Orders \ {o}, x \notin spoilt'
        PROVE  OrderInStep(x)'
    <2>1. OrderInStep(x) /\ (x \in credited' <=> x \in credited)
      BY <1>7 DEF OrderIInv
    <2>2. QED
      BY <1>6, <1>7, <2>1, StaysInStep
  <1>8. ASSUME NEW x \in Orders \ {o}, x \notin broken'
        PROVE  FollowedUp(x)'
    <2>1. FollowedUp(x)
      BY <1>8 DEF OrderIInv
    <2>2. QED
      BY <1>6, <1>8, <2>1, StaysFollowedUp
  <1>9. QED
    BY <1>2, <1>3, <1>5, <1>7, <1>8 DEF OrderIInv

\* What a request that leaves the order o alone is about to do to it, it is still about to.
LEMMA FollowedBy ==
    ASSUME OrderIInv, NEW t \in Tasks, NEW o \in Orders, o \notin broken,
           \A u \in Tasks \ {t} : tasks'[u] = tasks[u]
    PROVE  /\ FollowedUp(o)
           /\ \A u \in Tasks \ {t} :
                Fulfils(u, o) => Fulfils(u, o)' /\ (tasks'[u].pc = "save" <=> tasks[u].pc = "save")
    BY DEF OrderIInv, Fulfils

\* What a request that fulfils an order knows of it, unless it is spoilt.
LEMMA OnlyFulfiller ==
    ASSUME OrderIInv, NEW t \in Tasks, NEW o \in Orders, o \notin spoilt, Fulfils(t, o)
    PROVE  /\ orders[o].state = "PAID" /\ \A u \in Tasks : Fulfils(u, o) <=> u = t
           /\ tasks[t].pc = "save" =>
                 licences[o] = 0 /\ o \notin credited /\ tasks[t].licence = orders[o].licence
           /\ tasks[t].pc # "save" => licences[o] = orders[o].licence
    BY DEF OrderIInv, OrderInStep

LEMMA SaveInvariant ==
    ASSUME OrderIInv, NEW t \in Tasks, Save(t)
    PROVE  OrderIInv'
  <1>a. PICK o : o = tasks[t].order
    OBVIOUS
  <1>1. tasks[t].pc = "save" /\ tasks[t] \in Task /\ TaskKnows(tasks[t]) /\ o \in Orders
    BY <1>a, Known DEF Save, At
  <1>2. Fulfils(t, o) /\ tasks[t].pc \in Fulfilling
    BY <1>a, <1>1 DEF Fulfils, Fulfilling
  <1>3. UNCHANGED <<gateway, paid, acked, orders, issued, credited, held, spoilt, broken, faults>>
    BY DEF Save
  <1>4. CASE licences[o] = 0
    <2>b. PICK task : task = [tasks[t] EXCEPT !.pc = "credit"]
      OBVIOUS
    <2>1. "credit" \in PCs
      BY DEF PCs
    <2>2. task \in Task /\ task.pc = "credit" /\ task.order = o
      BY <1>a, <1>1, <2>b, <2>1 DEF Task
    <2>3. Become(t, task) /\ licences' = [licences EXCEPT ![o] = tasks[t].licence]
      BY <1>a, <1>4, <2>b DEF Save, Goto
    <2>4. tasks[t].licence \in 0 .. MaxLicences \ {0} /\ PaidFor(o)
      BY <1>a, <1>1 DEF TaskKnows, Task
    <2>5. /\ licences' \in [Orders -> 0 .. MaxLicences] /\ licences'[o] = tasks[t].licence
          /\ \A x \in Orders \ {o} : licences'[x] = licences[x]
      BY <1>1, <2>3, <2>4, Known
    <2>6. TaskKnows(task)'
      BY <1>1, <1>3, <2>2, <2>4, <2>5 DEF TaskKnows, PaidFor
    <2>7. ASSUME o \notin spoilt'
          PROVE  OrderInStep(o)'
      <3>1. /\ orders[o].state = "PAID" /\ \A u \in Tasks : Fulfils(u, o) <=> u = t
            /\ tasks[t].licence = orders[o].licence
        BY <1>1, <1>2, <1>3, <2>7, OnlyFulfiller
      <3>2. tasks'[t] = task /\ \A u \in Tasks \ {t} : tasks'[u] = tasks[u]
        BY <2>3, Known DEF Become
      <3>3. \A u \in Tasks : Fulfils(u, o)' <=> u = t
        BY <2>2, <3>1, <3>2 DEF Fulfils
      <3>4. QED
        BY <1>3, <2>2, <2>5, <3>1, <3>2, <3>3 DEF OrderInStep, Booked
    <2>8. FollowedUp(o)'
      <3>1. tasks'[t] = task
        BY <2>3, Known DEF Become
      <3>2. Fulfils(t, o)' /\ tasks'[t].pc # "save" /\ licences'[o] # 0
        BY <2>2, <2>4, <2>5, <3>1 DEF Fulfils
      <3>3. QED
        BY <3>2 DEF FollowedUp
    <2>9. QED
      BY <1>a, <1>1, <1>2, <1>3, <1>4, <2>2, <2>3, <2>4, <2>5, <2>6, <2>7, <2>8, FulfilStep, Known
         DEF OrderIInv, DeliveredIsPaid
  <1>5. CASE licences[o] # 0
    <2>1. Become(t, Idle) /\ UNCHANGED licences
      BY <1>a, <1>5 DEF Save
    <2>2. o \in spoilt
      BY <1>1, <1>2, <1>5, OnlyFulfiller
    <2>3. TaskKnows(Idle)'
      BY IdleTask DEF TaskKnows
    <2>4. ASSUME o \notin broken'
          PROVE  FollowedUp(o)'
      <3>1. \A u \in Tasks \ {t} : tasks'[u] = tasks[u]
        BY <2>1, Known DEF Become
      <3>2. FollowedUp(o)
            /\ \A u \in Tasks \ {t} : Fulfils(u, o) =>
                  Fulfils(u, o)' /\ (tasks'[u].pc = "save" <=> tasks[u].pc = "save")
        BY <1>1, <1>3, <2>4, <3>1, FollowedBy
      <3>3. QED
        BY <1>1, <1>3, <1>5, <2>1, <3>2 DEF FollowedUp, Booked
    <2>5. QED
      BY <1>a, <1>1, <1>2, <1>3, <1>5, <2>1, <2>2, <2>3, <2>4, FulfilStep, IdleTask, Known
         DEF Fulfilling, OrderIInv, DeliveredIsPaid
  <1>6. QED
    BY <1>4, <1>5

LEMMA CreditInvariant ==
    ASSUME OrderIInv, NEW t \in Tasks, Credit(t)
    PROVE  OrderIInv'
  <1>a. PICK o : o = tasks[t].order
    OBVIOUS
  <1>b. PICK task : task = [tasks[t] EXCEPT !.pc = IF Booked(o) THEN "reply" ELSE "book"]
    OBVIOUS
  <1>1. tasks[t].pc = "credit" /\ tasks[t] \in Task /\ TaskKnows(tasks[t]) /\ o \in Orders
    BY <1>a, Known DEF Credit, At
  <1>2. Fulfils(t, o) /\ tasks[t].pc \in Fulfilling
    BY <1>a, <1>1 DEF Fulfils, Fulfilling
  <1>3. /\ UNCHANGED <<gateway, paid, acked, orders, licences, issued, credited, held, spoilt,
                        broken, faults>>
        /\ Booked(o)' <=> Booked(o)
    BY DEF Credit, Booked
  <1>4. /\ task \in Task /\ task.order = o /\ task.pc \in {"reply", "book"}
        /\ task.pc = "reply" <=> Booked(o)
    BY <1>a, <1>b, <1>1 DEF Task, PCs
  <1>5. Become(t, task)
    BY <1>a, <1>b DEF Credit, Goto
  <1>6. PaidFor(o) /\ licences[o] # 0
    BY <1>a, <1>1 DEF TaskKnows
  <1>7. TaskKnows(task)'
    BY <1>1, <1>3, <1>4, <1>6 DEF TaskKnows, PaidFor
  <1>8. ASSUME o \notin spoilt'
        PROVE  OrderInStep(o)'
    <2>1. /\ orders[o].state = "PAID" /\ \A u \in Tasks : Fulfils(u, o) <=> u = t
          /\ licences[o] = orders[o].licence
      BY <1>1, <1>2, <1>3, <1>8, OnlyFulfiller
    <2>2. tasks'[t] = task /\ \A u \in Tasks \ {t} : tasks'[u] = tasks[u]
      BY <1>4, <1>5, Known DEF Become
    <2>3. \A u \in Tasks : Fulfils(u, o)' <=> u = t /\ ~Booked(o)
      BY <1>4, <2>1, <2>2 DEF Fulfils
    <2>4. QED
      BY <1>3, <1>4, <2>1, <2>2, <2>3 DEF OrderInStep
  <1>9. FollowedUp(o)'
    <2>1. tasks'[t] = task
      BY <1>4, <1>5, Known DEF Become
    <2>2. ~Booked(o) => Fulfils(t, o)' /\ tasks'[t].pc # "save"
      BY <1>4, <2>1 DEF Fulfils
    <2>3. QED
      BY <1>3, <1>6, <2>2 DEF FollowedUp
  <1>10. QED
    BY <1>a, <1>1, <1>2, <1>3, <1>4, <1>5, <1>6, <1>7, <1>8, <1>9, FulfilStep, Known
       DEF Fulfilling

LEMMA BookInvariant ==
    ASSUME OrderIInv, NEW t \in Tasks, Book(t)
    PROVE  OrderIInv'
  <1>a. PICK o : o = tasks[t].order
    OBVIOUS
  <1>b. PICK task : task = IF o \in credited THEN Idle ELSE [tasks[t] EXCEPT !.pc = "reply"]
    OBVIOUS
  <1>1. tasks[t].pc = "book" /\ tasks[t] \in Task /\ TaskKnows(tasks[t]) /\ o \in Orders
    BY <1>a, Known DEF Book, At
  <1>2. Fulfils(t, o) /\ tasks[t].pc \in Fulfilling
    BY <1>a, <1>1 DEF Fulfils, Fulfilling
  <1>3. /\ UNCHANGED <<gateway, paid, acked, orders, licences, issued, held, spoilt, broken, faults>>
        /\ credited' = credited \cup {o}
    BY <1>a DEF Book
  <1>4. task \in Task /\ task.pc \in {"idle", "reply"} /\ (task.pc # "idle" => task.order = o)
    <2>1. "reply" \in PCs
      BY DEF PCs
    <2>2. CASE o \in credited
      BY <1>b, <2>2, IdleTask
    <2>3. CASE o \notin credited
      BY <1>a, <1>b, <1>1, <2>1, <2>3 DEF Task
    <2>4. QED
      BY <2>2, <2>3
  <1>5. Become(t, task)
    BY <1>a, <1>b DEF Book, Goto
  <1>6. PaidFor(o) /\ licences[o] # 0
    BY <1>a, <1>1 DEF TaskKnows
  <1>7. TaskKnows(task)'
    BY <1>1, <1>4 DEF TaskKnows
  <1>8. ASSUME o \notin spoilt'
        PROVE  OrderInStep(o)'
    <2>1. /\ orders[o].state = "PAID" /\ \A u \in Tasks : Fulfils(u, o) <=> u = t
          /\ licences[o] = orders[o].licence
      BY <1>1, <1>2, <1>3, <1>8, OnlyFulfiller
    <2>2. tasks'[t] = task /\ \A u \in Tasks \ {t} : tasks'[u] = tasks[u]
      BY <1>4, <1>5, Known DEF Become
    <2>3. \A u \in Tasks : ~Fulfils(u, o)'
      BY <1>4, <2>1, <2>2 DEF Fulfils
    <2>4. QED
      BY <1>3, <2>1, <2>3 DEF OrderInStep, Booked
  <1>9. FollowedUp(o)'
    BY <1>3, <1>6 DEF FollowedUp, Booked
  <1>10. QED
    BY <1>a, <1>1, <1>2, <1>3, <1>4, <1>5, <1>6, <1>7, <1>8, <1>9, FulfilStep, Known
       DEF Fulfilling

LEMMA FailInvariant ==
    ASSUME OrderIInv, NEW t \in Tasks, Fail(t)
    PROVE  OrderIInv'
  <1>a. PICK o : o = tasks[t].order
    OBVIOUS
  <1>1. tasks[t].pc # "idle" /\ o \in Orders /\ Become(t, Idle)
    BY <1>a, Known DEF Fail, At
  <1>2. UNCHANGED <<gateway, paid, acked, orders, licences, issued, credited, held>>
    BY DEF Fail
  <1>3. faults' \in 0 .. MaxFaults
    BY Known, OrdersAssumption DEF Fail
  <1>4. CASE tasks[t].pc \in Fulfilling
    <2>1. spoilt' = spoilt \cup {o} /\ broken' = broken \cup {o}
      BY <1>a, <1>4 DEF Fail, Fulfilling
    <2>2. TaskKnows(Idle)'
      BY IdleTask DEF TaskKnows
    <2>3. QED
      BY <1>a, <1>1, <1>2, <1>3, <1>4, <2>1, <2>2, FulfilStep, IdleTask, Known
         DEF Fulfilling, OrderIInv, DeliveredIsPaid
  <1>5. CASE tasks[t].pc \notin Fulfilling
    <2>1. spoilt' = spoilt /\ broken' = broken
      BY <1>5 DEF Fail, Fulfilling
    <2>2. QED
      BY <1>1, <1>2, <1>3, <1>5, <2>1, IdleTask, TaskStep, Types DEF Fulfilling
  <1>6. QED
    BY <1>4, <1>5

-----------------------------------------------------------------------------
(* The theorems                                                              *)

LEMMA InitInvariant == Init => OrderIInv
  <1> SUFFICES ASSUME Init PROVE OrderIInv
    OBVIOUS
  <1> USE DEF Init
  <1>1. OrderTypeOK
    BY IdleTask, OrdersAssumption
       DEF OrderTypeOK, GatewayStatuses, Announced, Order, OrderStates
  <1>2. DeliveredIsPaid
    BY DEF DeliveredIsPaid
  <1>3. \A t \in Tasks : TaskKnows(tasks[t])
    BY IdleTask
  <1>4. \A o \in Orders \ spoilt : OrderInStep(o)
    BY IdleTask DEF OrderInStep, Fulfils
  <1>5. \A o \in Orders \ broken : FollowedUp(o)
    BY DEF FollowedUp
  <1>6. QED
    BY <1>1, <1>2, <1>3, <1>4, <1>5 DEF OrderIInv

LEMMA StepInvariant ==
    ASSUME OrderIInv, NEW t \in Tasks, OrderStep(t)
    PROVE  OrderIInv'
    BY AskInvariant, AttachInvariant, LookInvariant, OverwriteInvariant, ReplyInvariant,
       MarkInvariant, WriteInvariant, SaveInvariant, CreditInvariant, BookInvariant,
       FetchInvariant
       DEF OrderStep

LEMMA NextInvariant == OrderIInv /\ [OrderNext]_orderVars => OrderIInv'
  <1> SUFFICES ASSUME OrderIInv, [OrderNext]_orderVars PROVE OrderIInv'
    OBVIOUS
  <1>1. ASSUME NEW o \in Orders, Pay(o) \/ Undo(o) PROVE OrderIInv'
    BY <1>1, PayInvariant
  <1>2. ASSUME NEW t \in Tasks, OrderStep(t) \/ Fail(t) PROVE OrderIInv'
    BY <1>2, StepInvariant, FailInvariant
  <1>3. ASSUME NEW t \in Tasks, NEW o \in Orders, Create(t, o) \/ Callback(t, o) \/ Poll(t, o)
        PROVE  OrderIInv'
    BY <1>3, CreateInvariant, CallbackInvariant, PollInvariant
  <1>4. CASE UNCHANGED orderVars
    BY <1>4 DEF orderVars, OrderIInv, OrderTypeOK, DeliveredIsPaid, PaidFor, TaskKnows, OrderInStep,
                FollowedUp, Booked, Fulfils
  <1>5. QED
    BY <1>1, <1>2, <1>3, <1>4 DEF OrderNext

\* In every reachable state, what requests have learnt is still true, every order that is not
\* spoilt is fulfilled by one request at most, and what one statement has done, another one
\* follows up (order-service.ts:285-352).
THEOREM Invariance == OrderSpec => []OrderIInv
  <1>1. Init => OrderIInv
    BY InitInvariant
  <1>2. OrderIInv /\ [OrderNext]_orderVars => OrderIInv'
    BY NextInvariant
  <1>3. QED
    BY <1>1, <1>2, PTL DEF OrderSpec

\* Whatever races or fails, an order is PAID, licensed or credited only if the gateway has
\* had its payment (callback/registry/route.ts:78, order-service.ts:315-352).
THEOREM OnlyPaidIsDelivered == OrderSpec => []DeliveredIsPaid
  <1>1. OrderIInv => DeliveredIsPaid
    BY DEF OrderIInv
  <1>2. QED
    BY <1>1, Invariance, PTL

\* An order that is PAID is licensed and credited, or a request is about to, however callbacks
\* race, unless a request failed half-way (order-service.ts:293, 315-352).
THEOREM PaidIsFulfilledAlways == OrderSpec => []PaidIsFulfilled
  <1>1. OrderIInv => PaidIsFulfilled
    <2> SUFFICES ASSUME OrderIInv, NEW o \in Orders \ broken, orders[o].state = "PAID",
                        \A t \in Tasks : ~Fulfils(t, o)
                 PROVE  licences[o] # 0 /\ Booked(o) /\ (o \in spoilt \/ licences[o] = orders[o].licence)
      BY DEF PaidIsFulfilled
    <2>1. licences[o] # 0 /\ Booked(o)
      BY DEF OrderIInv, FollowedUp
    <2>2. o \notin spoilt => licences[o] = orders[o].licence
      BY DEF OrderIInv, OrderInStep
    <2>3. QED
      BY <2>1, <2>2
  <1>2. QED
    BY <1>1, Invariance, PTL

\* An order that is PAID stays so, with its licence, unless a request that read it before
\* writes it (callback/registry/route.ts:103, orders/route.ts:126).
THEOREM PaidStaysPaid == OrderSpec => PaidIsKept
  <1> DEFINE Kept == \A o \in Orders \ spoilt' : orders[o].state = "PAID" => orders'[o] = orders[o]
  <1>1. ASSUME OrderIInv, [OrderNext]_orderVars
        PROVE  Kept
    <2>1. ASSUME NEW t \in Tasks, Attach(t) \/ Overwrite(t) \/ Write(t) PROVE Kept
      BY <1>1, <2>1, AttachInvariant, OverwriteInvariant, WriteInvariant
    <2>2. ASSUME NEW t \in Tasks, NEW o \in Orders, Create(t, o) PROVE Kept
      BY <1>1, <2>2, CreateInvariant
    <2>3. CASE UNCHANGED orders
      BY <2>3
    <2>4. QED
      BY <1>1, <2>1, <2>2, <2>3
         DEF OrderNext, orderVars, OrderStep, Pay, Undo, Becomes, Fail, Callback, Poll, Ask, Look, Reply, Mark,
             Save, Credit, Book, Fetch
  <1>2. QED
    BY <1>1, Invariance, PTL DEF OrderSpec, PaidIsKept

\* A buyer is handed a licence nobody has stored only while it is about to be stored, or of a
\* spoilt order (orders/[orderId]/route.ts:36-58).
THEOREM HandedOutIsStoredAlways == OrderSpec => HandedOutIsStored
  <1> DEFINE Stored == \A o \in Orders \ spoilt :
                          held[o] = "none" /\ held'[o] = "unknown" =>
                              \E t \in Tasks : Fulfils(t, o) /\ tasks[t].pc = "save"
  <1>1. ASSUME OrderIInv, [OrderNext]_orderVars
        PROVE  Stored
    <2>1. ASSUME NEW t \in Tasks, Fetch(t), NEW o \in Orders \ spoilt,
                 held[o] = "none", held'[o] = "unknown"
          PROVE  \E u \in Tasks : Fulfils(u, o) /\ tasks[u].pc = "save"
      <3>1. o = tasks[t].order /\ licences[o] # tasks[t].licence
        BY <1>1, <2>1, Types DEF Fetch
      <3>2. orders[o] = [state |-> "PAID", licence |-> tasks[t].licence]
        BY <1>1, <2>1, <3>1, Known DEF Fetch, At, TaskKnows
      <3>3. OrderInStep(o)
        BY <1>1 DEF OrderIInv
      <3>4. QED
        BY <3>1, <3>2, <3>3 DEF OrderInStep
    <2>2. ASSUME NEW t \in Tasks, Fetch(t) PROVE Stored
      BY <2>1, <2>2
    <2>3. CASE UNCHANGED held
      BY <2>3
    <2>4. QED
      BY <1>1, <2>2, <2>3
         DEF OrderNext, orderVars, OrderStep, Pay, Undo, Becomes, Fail, Callback, Poll, Create, Ask, Attach, Look,
             Overwrite, Reply, Mark, Write, Save, Credit, Book
  <1>2. QED
    BY <1>1, Invariance, PTL DEF OrderSpec, HandedOutIsStored

-----------------------------------------------------------------------------
(* Orders                                                                    *)

\* A step of the payouts is a step of the orders, or leaves them alone.
LEMMA OrdersStep ==
    ASSUME [Next]_vars
    PROVE  [OrderNext]_orderVars
  <1>1. CASE OrderNext
    BY <1>1
  <1>2. CASE \E o \in Orders : Mature(o)
    BY <1>2 DEF Mature
  <1>3. ASSUME NEW t \in Tasks, NEW p \in Payouts, Submit(t, p) \/ Decide(t, p)
        PROVE  UNCHANGED orderVars
    BY <1>3 DEF Submit, Decide
  <1>4. ASSUME NEW t \in Tasks, PayoutStep(t) \/ Abandon(t)
        PROVE  UNCHANGED orderVars
    BY <1>4 DEF PayoutStep, Check, Request, Approve, Debit, Reject, Abandon
  <1>5. CASE UNCHANGED vars
    BY <1>5 DEF vars
  <1>6. QED
    BY <1>1, <1>2, <1>3, <1>4, <1>5 DEF Next

\* Whatever is requested and decided about payouts, orders behave as RegistryOrders says: a
\* payout only reads what they have credited (balance-ledger.ts:328-450).
THEOREM PayoutsKeepOrders == Spec => OrderSpec
  <1>1. Init /\ PayoutInit => Init
    OBVIOUS
  <1>2. [Next]_vars => [OrderNext]_orderVars
    BY OrdersStep
  <1>3. QED
    BY <1>1, <1>2, PTL DEF Spec, OrderSpec

-----------------------------------------------------------------------------
(* Requests about payouts                                                    *)

LEMMA FreeDesk == Free \in Desk /\ DeskKnows(Free) /\ Free.pc = "idle" /\ Free.payout = None
    BY DEF Free, Desk, DeskPCs, DeskKnows

\* t takes a seat and writes nothing.
LEMMA SeatStep ==
    ASSUME PayoutIInv, NEW t \in Tasks, NEW desk \in Desk, DeskKnows(desk), Seat(t, desk),
           desks[t].pc = "debit" => desks[t].payout \in overrun',
           desk.pc # "debit", desk.pc = "idle" => desk.payout = None,
           desk.pc \in {"frozen", "create"} => \A u \in Tasks \ {t} : desks[u].payout # desk.payout,
           desk.pc # "idle" =>
               \A u \in Tasks \ {t} :
                   desks[u].pc \in {"frozen", "create"} => desks[u].payout # desk.payout,
           UNCHANGED <<payouts, debited>>, overrun \subseteq overrun', overrun' \subseteq Payouts,
           matured' \subseteq Orders, lapses' \in 0 .. MaxFaults
    PROVE  PayoutIInv'
  <1>1. desks' \in [Tasks -> Desk] /\ desks'[t] = desk /\ \A u \in Tasks \ {t} : desks'[u] = desks[u]
    BY DEF PayoutIInv, PayoutTypeOK, Seat
  <1>2. PayoutTypeOK'
    BY <1>1 DEF PayoutIInv, PayoutTypeOK
  <1>3. LedgerFollowsDecisions'
    <2> SUFFICES ASSUME NEW p \in Payouts, p \notin overrun'
                 PROVE  /\ p \in debited => payouts[p] = "APPROVED"
                        /\ payouts[p] = "APPROVED" => p \in debited \/ \E u \in Tasks : Debits(u, p)'
      BY DEF LedgerFollowsDecisions
    <2>1. /\ p \in debited => payouts[p] = "APPROVED"
          /\ payouts[p] = "APPROVED" => p \in debited \/ \E u \in Tasks : Debits(u, p)
      BY DEF PayoutIInv, LedgerFollowsDecisions
    <2>2. ASSUME NEW u \in Tasks, Debits(u, p)
          PROVE  Debits(u, p)'
      BY <2>2, <1>1 DEF Debits, Sitting
    <2>3. QED
      BY <2>1, <2>2
  <1>4. ASSUME NEW u \in Tasks
        PROVE  DeskKnows(desks[u])'
    <2>1. CASE u = t
      <3>1. DeskKnows(desk)'
        BY DEF DeskKnows
      <3>2. QED
        BY <3>1, <2>1, <1>1 DEF DeskKnows
    <2>2. CASE u # t
      <3>1. DeskKnows(desks[u])
        BY DEF PayoutIInv
      <3>2. QED
        BY <3>1, <2>2, <1>1 DEF DeskKnows
    <2>3. QED
      BY <2>1, <2>2
  <1>5. OneDesk'
    <2> SUFFICES ASSUME NEW u \in Tasks, NEW v \in Tasks,
                        desks'[u].payout = desks'[v].payout,
                        \/ desks'[u].pc \in {"frozen", "create"}
                        \/ desks'[u].pc = "debit" /\ desks'[v].pc = "debit"
                               /\ desks'[u].payout \notin overrun'
                 PROVE  u = v
      BY DEF OneDesk
    <2>1. CASE u # t /\ v # t
      BY <2>1, <1>1 DEF PayoutIInv, OneDesk
    <2>2. CASE u = t /\ v # t
      BY <2>2, <1>1
    <2>3. CASE u # t /\ v = t
      <3>1. desks[u].pc \in {"frozen", "create"} /\ desks[u].payout = desk.payout
        BY <2>3, <1>1
      <3>2. desk.payout \in Payouts
        BY <3>1, <2>3 DEF PayoutIInv, DeskKnows
      <3>3. desk.pc = "idle"
        BY <3>1, <2>3
      <3>4. QED
        BY <3>1, <3>2, <3>3, PayoutsAssumption
    <2>4. QED
      BY <2>1, <2>2, <2>3
  <1>6. QED
    BY <1>2, <1>3, <1>4, <1>5 DEF PayoutIInv

LEMMA KnownDesk ==
    ASSUME PayoutIInv, NEW t \in Tasks
    PROVE  /\ desks[t] \in Desk /\ DeskKnows(desks[t]) /\ desks \in [Tasks -> Desk]
           /\ desks[t].pc # "idle" => desks[t].payout \in Payouts
           /\ payouts \in [Payouts -> PayoutStates] /\ overrun \subseteq Payouts
           /\ debited \subseteq Payouts /\ matured \subseteq Orders /\ lapses \in 0 .. MaxFaults
    BY DEF PayoutIInv, PayoutTypeOK, DeskKnows

LEMMA SubmitInvariant ==
    ASSUME PayoutIInv, credited \subseteq Orders, NEW t \in Tasks, NEW p \in Payouts, Submit(t, p)
    PROVE  PayoutIInv'
  <1>1. PICK desk : desk = [pc |-> "frozen", payout |-> p, credits |-> credited,
                            debits |-> debited, stale |-> Missing # {}]
    OBVIOUS
  <1>2. desk \in Desk /\ desk.pc = "frozen" /\ desk.payout = p
    BY <1>1, KnownDesk DEF Desk, DeskPCs
  <1>3. DeskKnows(desk)
    BY <1>2 DEF DeskKnows, Submit
  <1>4. Seat(t, desk) /\ desks[t].pc = "idle" /\ \A u \in Tasks : desks[u].payout # p
    BY <1>1 DEF Submit, Sitting
  <1>5. UNCHANGED <<payouts, debited, overrun, matured, lapses>>
    BY DEF Submit
  <1>6. QED
    BY <1>2, <1>3, <1>4, <1>5, SeatStep, KnownDesk

LEMMA CheckInvariant ==
    ASSUME PayoutIInv, NEW t \in Tasks, Check(t)
    PROVE  PayoutIInv'
  <1>1. desks[t].pc = "frozen" /\ UNCHANGED <<payouts, debited, overrun, matured, lapses>>
    BY DEF Check, Sitting
  <1>2. CASE Seat(t, [desks[t] EXCEPT !.pc = "create", !.credits = {}, !.debits = {}])
    <2>1. PICK desk : desk = [desks[t] EXCEPT !.pc = "create", !.credits = {}, !.debits = {}]
      OBVIOUS
    <2>2. desk \in Desk /\ desk.pc = "create" /\ desk.payout = desks[t].payout
      BY <2>1, KnownDesk DEF Desk, DeskPCs
    <2>3. DeskKnows(desk)
      BY <2>2, <1>1, KnownDesk DEF DeskKnows
    <2>4. \A u \in Tasks \ {t} : desks[u].payout # desk.payout
      BY <2>2, <1>1 DEF PayoutIInv, OneDesk
    <2>5. QED
      BY <1>1, <1>2, <2>1, <2>2, <2>3, <2>4, SeatStep, KnownDesk
  <1>3. CASE Seat(t, Free)
    BY <1>1, <1>3, SeatStep, FreeDesk, KnownDesk
  <1>4. QED
    BY <1>2, <1>3 DEF Check

LEMMA DecideInvariant ==
    ASSUME PayoutIInv, NEW t \in Tasks, NEW p \in Payouts, Decide(t, p)
    PROVE  PayoutIInv'
  <1>1. /\ desks[t].pc = "idle" /\ payouts[p] = "PENDING_REVIEW"
        /\ UNCHANGED <<payouts, debited, overrun, matured, lapses>>
    BY DEF Decide, Sitting
  <1>2. PICK pc \in {"approve", "reject"} : Seat(t, [Free EXCEPT !.pc = pc, !.payout = p])
    BY DEF Decide
  <1>3. PICK desk : desk = [Free EXCEPT !.pc = pc, !.payout = p]
    OBVIOUS
  <1>4. desk \in Desk /\ desk.pc = pc /\ desk.payout = p
    BY <1>3 DEF Desk, DeskPCs, Free
  <1>5. DeskKnows(desk)
    BY <1>1, <1>4 DEF DeskKnows
  <1>6. \A u \in Tasks : desks[u].pc \in {"frozen", "create"} => desks[u].payout # p
    BY <1>1, KnownDesk DEF DeskKnows
  <1>7. QED
    BY <1>1, <1>2, <1>3, <1>4, <1>5, <1>6, SeatStep, KnownDesk

LEMMA AbandonInvariant ==
    ASSUME PayoutIInv, NEW t \in Tasks, Abandon(t), faults \in 0 .. MaxFaults
    PROVE  PayoutIInv'
  <1>1. /\ Seat(t, Free) /\ UNCHANGED <<payouts, debited, matured>>
        /\ desks[t].pc # "idle" /\ lapses' = lapses + 1 /\ faults + lapses < MaxFaults
    BY DEF Abandon, Sitting
  <1>2. lapses' \in 0 .. MaxFaults
    BY <1>1, KnownDesk, OrdersAssumption
  <1>3. /\ overrun \subseteq overrun' /\ overrun' \subseteq Payouts
        /\ desks[t].pc = "debit" => desks[t].payout \in overrun'
    BY <1>1, KnownDesk DEF Abandon, Sitting
  <1>4. QED
    BY <1>1, <1>2, <1>3, SeatStep, FreeDesk, KnownDesk

\* t enters the debit.
LEMMA DebitInvariant ==
    ASSUME PayoutIInv, NEW t \in Tasks, Debit(t)
    PROVE  PayoutIInv'
  <1>1. PICK p \in Payouts : p = desks[t].payout
    BY KnownDesk DEF Debit, Sitting
  <1>2. /\ desks[t].pc = "debit" /\ debited' = debited \cup {p}
        /\ UNCHANGED <<matured, payouts, overrun, lapses>>
    BY <1>1 DEF Debit, Sitting
  <1>3. /\ desks' \in [Tasks -> Desk] /\ desks'[t] = Free
        /\ \A u \in Tasks \ {t} : desks'[u] = desks[u]
    BY FreeDesk, KnownDesk DEF Debit, Seat
  <1>4. p \notin overrun => payouts[p] = "APPROVED"
    BY <1>1, <1>2, KnownDesk DEF DeskKnows
  <1>5. PayoutTypeOK'
    BY <1>2, <1>3, KnownDesk DEF PayoutIInv, PayoutTypeOK
  <1>6. LedgerFollowsDecisions'
    <2> SUFFICES ASSUME NEW x \in Payouts, x \notin overrun
                 PROVE  /\ x \in debited' => payouts[x] = "APPROVED"
                        /\ payouts[x] = "APPROVED" => x \in debited' \/ \E u \in Tasks : Debits(u, x)'
      BY <1>2 DEF LedgerFollowsDecisions
    <2>1. /\ x \in debited => payouts[x] = "APPROVED"
          /\ payouts[x] = "APPROVED" => x \in debited \/ \E u \in Tasks : Debits(u, x)
      BY DEF PayoutIInv, LedgerFollowsDecisions
    <2>2. ASSUME NEW u \in Tasks, Debits(u, x), x # p
          PROVE  Debits(u, x)'
      BY <2>2, <1>1, <1>3 DEF Debits, Sitting
    <2>3. QED
      BY <2>1, <2>2, <1>2, <1>4
  <1>7. ASSUME NEW u \in Tasks
        PROVE  DeskKnows(desks[u])'
    <2>1. CASE u = t
      BY <2>1, <1>3, FreeDesk DEF DeskKnows
    <2>2. CASE u # t
      <3>1. DeskKnows(desks[u])
        BY DEF PayoutIInv
      <3>2. desks[u].pc = "debit" /\ desks[u].payout \notin overrun => desks[u].payout # p
        BY <2>2, <1>1, <1>2 DEF PayoutIInv, OneDesk
      <3>3. QED
        BY <3>1, <3>2, <2>2, <1>2, <1>3 DEF DeskKnows
    <2>3. QED
      BY <2>1, <2>2
  <1>8. OneDesk'
    <2> SUFFICES ASSUME NEW u \in Tasks, NEW v \in Tasks,
                        desks'[u].payout = desks'[v].payout,
                        \/ desks'[u].pc \in {"frozen", "create"}
                        \/ desks'[u].pc = "debit" /\ desks'[v].pc = "debit"
                               /\ desks'[u].payout \notin overrun
                 PROVE  u = v
      BY <1>2 DEF OneDesk
    <2>1. CASE u # t /\ v # t
      BY <2>1, <1>3 DEF PayoutIInv, OneDesk
    <2>2. CASE u # t /\ v = t
      <3>1. desks[u].payout = None /\ desks[u].pc # "idle"
        BY <2>2, <1>3, FreeDesk
      <3>2. QED
        BY <3>1, KnownDesk, PayoutsAssumption
    <2>3. CASE u = t
      BY <2>3, <1>3, FreeDesk
    <2>4. QED
      BY <2>1, <2>2, <2>3
  <1>9. QED
    BY <1>5, <1>6, <1>7, <1>8 DEF PayoutIInv

-----------------------------------------------------------------------------
(* Writes                                                                    *)

LEMMA WritePayoutInvariant ==
    ASSUME PayoutIInv, NEW t \in Tasks, NEW p \in Payouts, NEW state \in PayoutStates,
           NEW desk \in Desk, p = desks[t].payout, desks[t].pc \in {"create", "approve", "reject"},
           state # "none", desk.pc \in {"idle", "debit"},
           desk.pc = "idle" => desk.payout = None /\ state # "APPROVED",
           desk.pc = "debit" => desk.payout = p /\ state = "APPROVED",
           WritePayout(t, p, state, desk), UNCHANGED <<matured, debited, lapses>>
    PROVE  /\ PayoutIInv'
           /\ payouts[p] \in {"APPROVED", "REJECTED"} => p \in overrun'
           /\ \A x \in Payouts \ {p} : payouts'[x] = payouts[x]
  <1>1. /\ payouts' \in [Payouts -> PayoutStates] /\ payouts'[p] = state
        /\ \A x \in Payouts \ {p} : payouts'[x] = payouts[x]
    BY KnownDesk DEF WritePayout
  <1>2. /\ overrun' \subseteq Payouts /\ overrun \subseteq overrun'
        /\ desks[t].stale => p \in overrun'
        /\ \A x \in Payouts \ {p} : x \in overrun' <=> x \in overrun
    BY KnownDesk DEF WritePayout
  <1>3. ASSUME NEW u \in Tasks
        PROVE  /\ desks'[u] \in Desk
               /\ u = t => desks'[u] = desk
               /\ u # t => /\ desks'[u].pc = desks[u].pc /\ desks'[u].payout = desks[u].payout
                           /\ desks'[u].stale \/ desks'[u].stale = desks[u].stale
                           /\ desks[u].payout = p => desks'[u].stale
    <2>1. desks[u] \in Desk
      BY KnownDesk
    <2>2. desks'[u] = IF u = t THEN desk
                      ELSE IF desks[u].pc \in {"frozen", "create"} \/ desks[u].payout = p
                           THEN [desks[u] EXCEPT !.stale = TRUE]
                      ELSE desks[u]
      BY DEF WritePayout
    <2>3. QED
      BY <2>1, <2>2 DEF Desk
  <1>4. desks' \in [Tasks -> Desk]
    <2>1. DOMAIN desks' = Tasks /\ desks' = [u \in Tasks |-> desks'[u]]
      BY DEF WritePayout
    <2>2. QED
      BY <2>1, <1>3
  <1>5. \* what the payout was before
        /\ payouts[p] \in {"none", "PENDING_REVIEW"} \/ p \in overrun'
        /\ desks[t].pc = "create" => payouts[p] = "none"
        /\ desks[t].pc # "create" => payouts[p] # "none"
    BY <1>2, KnownDesk DEF DeskKnows
  <1>6. \* no request submits the payout, and none debits it unless it is overrun
        ASSUME NEW u \in Tasks \ {t}, desks[u].payout = p
        PROVE  /\ desks[u].pc \notin {"frozen", "create"}
               /\ desks[u].pc = "debit" => p \in overrun'
               /\ desks[t].pc # "create"
    <2>1. desks[t].pc # "create"
      BY <1>6 DEF PayoutIInv, OneDesk
    <2>2. desks[u].pc \notin {"frozen", "create"}
      BY <1>6 DEF PayoutIInv, OneDesk
    <2>3. CASE desks[u].pc = "debit" /\ p \notin overrun'
      <3>1. payouts[p] = "APPROVED"
        BY <2>3, <1>6, <1>2, KnownDesk DEF DeskKnows
      <3>2. QED
        BY <3>1, <2>3, <1>5
    <2>4. QED
      BY <2>1, <2>2, <2>3
  <1>7. p \notin overrun' => p \notin debited
    BY <1>2, <1>5 DEF PayoutIInv, LedgerFollowsDecisions
  <1>8. PayoutTypeOK'
    BY <1>1, <1>2, <1>4, KnownDesk DEF PayoutIInv, PayoutTypeOK
  <1>9. LedgerFollowsDecisions'
    <2> SUFFICES ASSUME NEW x \in Payouts, x \notin overrun'
                 PROVE  /\ x \in debited => payouts'[x] = "APPROVED"
                        /\ payouts'[x] = "APPROVED" => x \in debited \/ \E u \in Tasks : Debits(u, x)'
      BY DEF LedgerFollowsDecisions
    <2>1. CASE x = p
      <3>1. state = "APPROVED" => Debits(t, p)'
        BY <1>3 DEF Debits, Sitting
      <3>2. QED
        BY <2>1, <3>1, <1>1, <1>7
    <2>2. CASE x # p
      <3>1. /\ x \in debited => payouts[x] = "APPROVED"
            /\ payouts[x] = "APPROVED" => x \in debited \/ \E u \in Tasks : Debits(u, x)
        BY <1>2 DEF PayoutIInv, LedgerFollowsDecisions
      <3>2. ASSUME NEW u \in Tasks, Debits(u, x)
            PROVE  Debits(u, x)'
        BY <3>2, <2>2, <1>3 DEF Debits, Sitting
      <3>3. QED
        BY <2>2, <3>1, <3>2, <1>1
    <2>3. QED
      BY <2>1, <2>2
  <1>10. ASSUME NEW u \in Tasks
         PROVE  DeskKnows(desks[u])'
    <2>1. CASE u = t
      BY <2>1, <1>1, <1>3, <1>7 DEF DeskKnows
    <2>2. CASE u # t /\ desks[u].payout = p
      BY <2>2, <1>1, <1>3, <1>6, KnownDesk DEF DeskKnows
    <2>3. CASE u # t /\ desks[u].payout # p
      <3>1. DeskKnows(desks[u]) /\ (desks[u].pc # "idle" => desks[u].payout \in Payouts)
        BY KnownDesk
      <3>2. desks[u].payout \in Payouts =>
                payouts'[desks[u].payout] = payouts[desks[u].payout]
                /\ (desks[u].payout \in overrun' <=> desks[u].payout \in overrun)
        BY <2>3, <1>1, <1>2
      <3>3. desks[u].stale => desks'[u].stale
        BY <2>3, <1>3, KnownDesk DEF Desk
      <3>4. QED
        BY <3>1, <3>2, <3>3, <2>3, <1>3 DEF DeskKnows
    <2>4. QED
      BY <2>1, <2>2, <2>3
  <1>11. OneDesk'
    <2> SUFFICES ASSUME NEW u \in Tasks, NEW v \in Tasks,
                        desks'[u].payout = desks'[v].payout,
                        \/ desks'[u].pc \in {"frozen", "create"}
                        \/ desks'[u].pc = "debit" /\ desks'[v].pc = "debit"
                               /\ desks'[u].payout \notin overrun'
                 PROVE  u = v
      BY DEF OneDesk
    <2>1. CASE u # t /\ v # t
      BY <2>1, <1>2, <1>3 DEF PayoutIInv, OneDesk
    <2>2. CASE u = t /\ v # t
      BY <2>2, <1>3, <1>6
    <2>3. CASE u # t /\ v = t
      <3>1. desks[u].pc # "idle" /\ desks[u].payout = desk.payout
        BY <2>3, <1>3
      <3>2. desks[u].payout = p
        BY <3>1, KnownDesk, PayoutsAssumption
      <3>3. QED
        BY <2>3, <3>2, <1>3, <1>6
    <2>4. QED
      BY <2>1, <2>2, <2>3
  <1>12. PayoutIInv'
    BY <1>8, <1>9, <1>10, <1>11 DEF PayoutIInv
  <1>13. QED
    BY <1>1, <1>5, <1>12

\* A write of t and what it does to the other payouts.
LEMMA WriteStepInvariant ==
    ASSUME PayoutIInv, NEW t \in Tasks, Request(t) \/ Approve(t) \/ Reject(t)
    PROVE  /\ PayoutIInv'
           /\ \A x \in Payouts \ overrun' :
                  payouts[x] \in {"APPROVED", "REJECTED"} => payouts'[x] = payouts[x]
  <1>1. PICK p \in Payouts : p = desks[t].payout
    BY KnownDesk DEF Request, Approve, Reject, Sitting
  <1>2. CASE Request(t)
    <2>1. /\ WritePayout(t, p, "PENDING_REVIEW", Free) /\ desks[t].pc = "create"
          /\ UNCHANGED <<matured, debited, lapses>>
      BY <1>1, <1>2 DEF Request, Sitting
    <2>2. QED
      BY <2>1, <1>1, FreeDesk, WritePayoutInvariant DEF PayoutStates
  <1>3. CASE Approve(t)
    <2>1. PICK desk : desk = [Free EXCEPT !.pc = "debit", !.payout = p]
      OBVIOUS
    <2>2. desk \in Desk /\ desk.pc = "debit" /\ desk.payout = p
      BY <2>1 DEF Free, Desk, DeskPCs
    <2>3. /\ WritePayout(t, p, "APPROVED", desk) /\ desks[t].pc = "approve"
          /\ UNCHANGED <<matured, debited, lapses>>
      BY <1>1, <1>3, <2>1 DEF Approve, Sitting
    <2>4. QED
      BY <2>2, <2>3, <1>1, WritePayoutInvariant DEF PayoutStates
  <1>4. CASE Reject(t)
    <2>1. /\ WritePayout(t, p, "REJECTED", Free) /\ desks[t].pc = "reject"
          /\ UNCHANGED <<matured, debited, lapses>>
      BY <1>1, <1>4 DEF Reject, Sitting
    <2>2. QED
      BY <2>1, <1>1, FreeDesk, WritePayoutInvariant DEF PayoutStates
  <1>5. QED
    BY <1>2, <1>3, <1>4

LEMMA QuietStep ==
    ASSUME PayoutIInv, UNCHANGED <<payouts, debited, desks, overrun, lapses>>,
           matured' \subseteq Orders
    PROVE  PayoutIInv'
  <1>1. PayoutTypeOK'
    BY DEF PayoutIInv, PayoutTypeOK
  <1>2. LedgerFollowsDecisions'
    BY DEF PayoutIInv, LedgerFollowsDecisions, Debits, Sitting
  <1>3. \A t \in Tasks : DeskKnows(desks[t])'
    BY DEF PayoutIInv, DeskKnows
  <1>4. OneDesk'
    BY DEF PayoutIInv, OneDesk
  <1>5. QED
    BY <1>1, <1>2, <1>3, <1>4 DEF PayoutIInv

LEMMA PayoutInitInvariant == PayoutInit => PayoutIInv
  <1> SUFFICES ASSUME PayoutInit PROVE PayoutIInv
    OBVIOUS
  <1>1. \A t \in Tasks : desks[t] = Free
    BY DEF PayoutInit
  <1>2. PayoutTypeOK
    BY FreeDesk, OrdersAssumption DEF PayoutInit, PayoutTypeOK, PayoutStates
  <1>3. LedgerFollowsDecisions
    BY DEF PayoutInit, LedgerFollowsDecisions
  <1>4. \A t \in Tasks : DeskKnows(desks[t])
    BY <1>1, FreeDesk DEF DeskKnows
  <1>5. OneDesk
    BY <1>1, FreeDesk DEF OneDesk
  <1>6. QED
    BY <1>2, <1>3, <1>4, <1>5 DEF PayoutIInv

LEMMA PayoutsNext ==
    ASSUME OrderIInv, PayoutIInv, [Next]_vars
    PROVE  /\ PayoutIInv'
           /\ \A x \in Payouts \ overrun' :
                  payouts[x] \in {"APPROVED", "REJECTED"} => payouts'[x] = payouts[x]
  <1>o. credited \subseteq Orders /\ faults \in 0 .. MaxFaults
    BY DEF OrderIInv, OrderTypeOK
  <1>1. CASE UNCHANGED payoutVars
    BY <1>1, QuietStep, KnownDesk DEF payoutVars, PayoutIInv, PayoutTypeOK
  <1>2. ASSUME NEW o \in Orders, Mature(o)
        PROVE  PayoutIInv' /\ payouts' = payouts
    BY <1>2, <1>o, QuietStep DEF Mature, PayoutIInv, PayoutTypeOK
  <1>3. ASSUME NEW t \in Tasks, NEW p \in Payouts, Submit(t, p) \/ Decide(t, p)
        PROVE  PayoutIInv' /\ payouts' = payouts
    BY <1>3, <1>o, SubmitInvariant, DecideInvariant DEF Submit, Decide
  <1>4. ASSUME NEW t \in Tasks, Check(t) \/ Debit(t) \/ Abandon(t)
        PROVE  PayoutIInv' /\ payouts' = payouts
    BY <1>4, <1>o, CheckInvariant, DebitInvariant, AbandonInvariant DEF Check, Debit, Abandon
  <1>5. ASSUME NEW t \in Tasks, Request(t) \/ Approve(t) \/ Reject(t)
        PROVE  /\ PayoutIInv'
               /\ \A x \in Payouts \ overrun' :
                      payouts[x] \in {"APPROVED", "REJECTED"} => payouts'[x] = payouts[x]
    BY <1>5, WriteStepInvariant
  <1>6. UNCHANGED vars => UNCHANGED payoutVars
    BY DEF vars
  <1>7. QED
    BY <1>1, <1>2, <1>3, <1>4, <1>5, <1>6 DEF Next, PayoutStep

-----------------------------------------------------------------------------
(* Sums.  Induction is over the subsets of a finite set: a set of them has a   *)
(* smallest one (RefundsProofs does the same for the amounts of its rows).      *)

Pick(s) == CHOOSE x \in s : TRUE

\* g is the table of the sums of f over the subsets of S.
Adds(f, S, g) ==
    g = [s \in SUBSET S |-> IF s = {} THEN 0 ELSE f[Pick(s)] + g[s \ {Pick(s)}]]

LEMMA Smallest ==
    ASSUME NEW S, IsFiniteSet(S), NEW B, B \subseteq SUBSET S, B # {}
    PROVE  \E T \in B : \A U \in B : U \subseteq T => U = T
  <1>1. IsWellFoundedOn(StrictSubsetOrdering(S), FiniteSubsetsOf(S))
    BY FS_StrictSubsetOrderingWellFounded
  <1>2. FiniteSubsetsOf(S) = SUBSET S
    BY FS_FiniteSubsetsOfFinite
  <1>3. PICK T \in B : \A U \in B : <<U, T>> \notin StrictSubsetOrdering(S)
    BY <1>1, <1>2, WFMin
  <1>4. QED
    BY <1>3 DEF StrictSubsetOrdering

LEMMA PickIn == ASSUME NEW s, s # {} PROVE Pick(s) \in s
  BY DEF Pick

LEMMA SumIsAdded ==
    ASSUME NEW f, NEW S
    PROVE  Sum(f, S) = (CHOOSE g : Adds(f, S, g))[S]
  BY DEF Sum, MapThenSumSet, MapThenFoldSet, Adds, Pick

LEMMA Unique ==
    ASSUME NEW f, NEW S, IsFiniteSet(S), NEW T \in SUBSET S,
           NEW g, Adds(f, S, g), NEW h, Adds(f, T, h)
    PROVE  \A s \in SUBSET T : g[s] = h[s]
  <1> DEFINE B == {s \in SUBSET T : g[s] # h[s]}
  <1>1. SUFFICES ASSUME B # {} PROVE FALSE
    OBVIOUS
  <1>2. PICK s \in B : \A u \in B : u \subseteq s => u = s
    <2>1. B \subseteq SUBSET S /\ IsFiniteSet(S)
      BY FS_Subset
    <2>2. QED
      <3> HIDE DEF B
      <3> QED BY <1>1, <2>1, Smallest
  <1>3. \A u \in SUBSET T :
           /\ g[u] = IF u = {} THEN 0 ELSE f[Pick(u)] + g[u \ {Pick(u)}]
           /\ h[u] = IF u = {} THEN 0 ELSE f[Pick(u)] + h[u \ {Pick(u)}]
    BY DEF Adds
  <1>4. s # {}
    BY <1>3
  <1>5. s \ {Pick(s)} \notin B
    BY <1>2, <1>4, PickIn
  <1>6. QED
    BY <1>3, <1>4, <1>5

LEMMA Exists ==
    ASSUME NEW f, NEW S, IsFiniteSet(S)
    PROVE  \E g : Adds(f, S, g)
  <1> DEFINE B == {T \in SUBSET S : ~\E g : Adds(f, T, g)}
  <1>1. SUFFICES ASSUME B # {} PROVE FALSE
    OBVIOUS
  <1>2. PICK T \in B : \A U \in B : U \subseteq T => U = T
    <2>1. B \subseteq SUBSET S /\ IsFiniteSet(S)
      BY FS_Subset
    <2>2. QED
      <3> HIDE DEF B
      <3> QED BY <1>1, <2>1, Smallest
  <1> DEFINE F(u) == CHOOSE g : Adds(f, u, g)
             rest(s) == s \ {Pick(s)}
             total == [s \in SUBSET T |-> IF s = {} THEN 0 ELSE f[Pick(s)] + F(rest(s))[rest(s)]]
  <1>3. ASSUME NEW s \in SUBSET T, s # {}
        PROVE  rest(s) \in SUBSET T /\ rest(s) \notin B /\ Adds(f, rest(s), F(rest(s)))
    <2>1. rest(s) \subseteq T /\ rest(s) # T
      BY <1>3, PickIn
    <2>2. rest(s) \notin B
      BY <1>2, <2>1
    <2>3. \E g : Adds(f, rest(s), g)
      BY <2>1, <2>2
    <2>4. QED
      BY <2>1, <2>2, <2>3
  <1>4. ASSUME NEW s \in SUBSET T, s # {}
        PROVE  total[rest(s)] = F(rest(s))[rest(s)]
    <2> DEFINE u == rest(s)
    <2>1. u \in SUBSET T /\ Adds(f, u, F(u)) /\ IsFiniteSet(u)
      BY <1>3, <1>4, FS_Subset
    <2>2. F(u)[u] = IF u = {} THEN 0 ELSE f[Pick(u)] + F(u)[rest(u)]
      <3> HIDE DEF F, u
      <3> QED BY <2>1 DEF Adds
    <2>3. total[u] = IF u = {} THEN 0 ELSE f[Pick(u)] + F(rest(u))[rest(u)]
      <3> HIDE DEF F, u
      <3> QED BY <2>1
    <2>4. ASSUME u # {} PROVE F(u)[rest(u)] = F(rest(u))[rest(u)]
      <3>1. Adds(f, rest(u), F(rest(u)))
        BY <1>3, <2>1, <2>4
      <3> HIDE DEF F, u
      <3> QED BY <2>1, <3>1, Unique
    <2>5. QED
      <3> HIDE DEF F, u, total
      <3> QED BY <2>2, <2>3, <2>4 DEF u
  <1>5. Adds(f, T, total)
    <2>1. \A s \in SUBSET T : IF s = {} THEN TRUE ELSE total[rest(s)] = F(rest(s))[rest(s)]
      BY <1>4
    <2>2. total = [s \in SUBSET T |-> IF s = {} THEN 0 ELSE f[Pick(s)] + total[rest(s)]]
      <3> HIDE DEF F, rest
      <3> QED BY <2>1
    <2>3. QED
      <3> HIDE DEF total
      <3> QED BY <2>2 DEF Adds
  <1>6. QED
    BY <1>2, <1>5

LEMMA SumTable ==
    ASSUME NEW f, NEW S, IsFiniteSet(S), NEW g, Adds(f, S, g), NEW T \in SUBSET S
    PROVE  Sum(f, T) = g[T]
  <1>1. IsFiniteSet(T)
    BY FS_Subset
  <1> DEFINE h == CHOOSE h : Adds(f, T, h)
  <1>2. Adds(f, T, h)
    BY <1>1, Exists
  <1>3. Sum(f, T) = h[T]
    BY SumIsAdded
  <1>4. QED
    <2> HIDE DEF h
    <2> QED BY <1>2, <1>3, Unique

LEMMA SumEmpty == ASSUME NEW f PROVE Sum(f, {}) = 0
  <1>1. IsFiniteSet({})
    BY FS_EmptySet
  <1>2. PICK g : Adds(f, {}, g)
    BY <1>1, Exists
  <1>3. Sum(f, {}) = g[{}]
    BY <1>1, <1>2, SumTable
  <1>4. QED
    BY <1>2, <1>3 DEF Adds

LEMMA SumStep ==
    ASSUME NEW f, NEW S, IsFiniteSet(S), S # {}
    PROVE  Sum(f, S) = f[Pick(S)] + Sum(f, S \ {Pick(S)})
  <1>1. PICK g : Adds(f, S, g)
    BY Exists
  <1>2. Sum(f, S) = g[S] /\ Sum(f, S \ {Pick(S)}) = g[S \ {Pick(S)}]
    BY <1>1, SumTable
  <1>3. QED
    BY <1>1, <1>2 DEF Adds

LEMMA SumNat ==
    ASSUME NEW f, NEW S, IsFiniteSet(S), \A x \in S : f[x] \in Nat
    PROVE  Sum(f, S) \in Nat
  <1> DEFINE B == {T \in SUBSET S : Sum(f, T) \notin Nat}
  <1>1. SUFFICES ASSUME B # {} PROVE FALSE
    OBVIOUS
  <1>2. PICK T \in B : \A U \in B : U \subseteq T => U = T
    <2>1. B \subseteq SUBSET S /\ IsFiniteSet(S)
      BY FS_Subset
    <2>2. QED
      <3> HIDE DEF B
      <3> QED BY <1>1, <2>1, Smallest
  <1>3. T # {}
    BY SumEmpty
  <1>4. Pick(T) \in T /\ Sum(f, T \ {Pick(T)}) \in Nat
    BY <1>2, <1>3, PickIn
  <1>5. Sum(f, T) = f[Pick(T)] + Sum(f, T \ {Pick(T)})
    BY <1>3, FS_Subset, SumStep
  <1>6. QED
    BY <1>4, <1>5

LEMMA SumRemove ==
    ASSUME NEW f, NEW S, IsFiniteSet(S), \A x \in S : f[x] \in Nat, NEW x \in S
    PROVE  Sum(f, S) = f[x] + Sum(f, S \ {x})
  <1> DEFINE B == {T \in SUBSET S : \E y \in T : Sum(f, T) # f[y] + Sum(f, T \ {y})}
  <1>1. SUFFICES ASSUME B # {} PROVE FALSE
    OBVIOUS
  <1>2. PICK T \in B : \A U \in B : U \subseteq T => U = T
    <2>1. B \subseteq SUBSET S /\ IsFiniteSet(S)
      BY FS_Subset
    <2>2. QED
      <3> HIDE DEF B
      <3> QED BY <1>1, <2>1, Smallest
  <1>3. PICK y \in T : Sum(f, T) # f[y] + Sum(f, T \ {y})
    OBVIOUS
  <1> DEFINE p == Pick(T)
             R == T \ {y, p}
  <1>4. IsFiniteSet(T) /\ IsFiniteSet(T \ {y}) /\ IsFiniteSet(R)
    BY FS_Subset
  <1>5. p \in T /\ Sum(f, T) = f[p] + Sum(f, T \ {p})
    BY <1>3, <1>4, PickIn, SumStep
  <1>6. p # y
    BY <1>3, <1>5
  <1>7. T \ {p} \notin B /\ T \ {y} \notin B
    BY <1>2, <1>3, <1>5
  <1>8. Sum(f, T \ {p}) = f[y] + Sum(f, R)
    <2>1. y \in T \ {p} /\ (T \ {p}) \ {y} = R
      BY <1>3, <1>6
    <2>2. QED
      BY <1>7, <2>1
  <1>9. Sum(f, T \ {y}) = f[p] + Sum(f, R)
    <2>1. p \in T \ {y} /\ (T \ {y}) \ {p} = R
      BY <1>5, <1>6
    <2>2. QED
      BY <1>7, <2>1
  <1>10. f[p] \in Nat /\ f[y] \in Nat /\ Sum(f, R) \in Nat
    BY <1>4, <1>5, SumNat
  <1>11. QED
    <2> HIDE DEF p, R
    <2> QED BY <1>3, <1>5, <1>8, <1>9, <1>10

LEMMA SumSame ==
    ASSUME NEW f, NEW g, NEW S, IsFiniteSet(S), \A x \in S : f[x] = g[x]
    PROVE  Sum(f, S) = Sum(g, S)
  <1> DEFINE B == {T \in SUBSET S : Sum(f, T) # Sum(g, T)}
  <1>1. SUFFICES ASSUME B # {} PROVE FALSE
    OBVIOUS
  <1>2. PICK T \in B : \A U \in B : U \subseteq T => U = T
    <2>1. B \subseteq SUBSET S /\ IsFiniteSet(S)
      BY FS_Subset
    <2>2. QED
      <3> HIDE DEF B
      <3> QED BY <1>1, <2>1, Smallest
  <1>3. T # {}
    BY SumEmpty
  <1>4. Pick(T) \in T /\ Sum(f, T \ {Pick(T)}) = Sum(g, T \ {Pick(T)})
    BY <1>2, <1>3, PickIn
  <1>5. /\ Sum(f, T) = f[Pick(T)] + Sum(f, T \ {Pick(T)})
        /\ Sum(g, T) = g[Pick(T)] + Sum(g, T \ {Pick(T)})
    BY <1>3, FS_Subset, SumStep
  <1>6. QED
    BY <1>4, <1>5

LEMMA SumUnion ==
    ASSUME NEW f, NEW S, IsFiniteSet(S), \A x \in S : f[x] \in Nat,
           NEW T \in SUBSET S
    PROVE  Sum(f, S) = Sum(f, T) + Sum(f, S \ T)
  <1> DEFINE B == {U \in SUBSET T : Sum(f, S) # Sum(f, U) + Sum(f, S \ U)}
  <1>1. SUFFICES ASSUME T \in B PROVE FALSE
    OBVIOUS
  <1>2. PICK U \in B : \A V \in B : V \subseteq U => V = U
    <2>1. B \subseteq SUBSET S /\ IsFiniteSet(S)
      BY FS_Subset
    <2>2. QED
      <3> HIDE DEF B
      <3> QED BY <1>1, <2>1, Smallest
  <1>3. Sum(f, S) \in Nat
    BY SumNat
  <1>4. U # {}
    BY <1>3, SumEmpty
  <1>5. PICK x : x \in U
    BY <1>4
  <1> DEFINE V == U \ {x}
  <1>6. Sum(f, S) = Sum(f, V) + Sum(f, S \ V)
    BY <1>2, <1>5
  <1>7. IsFiniteSet(U) /\ IsFiniteSet(V) /\ IsFiniteSet(S \ V) /\ IsFiniteSet(S \ U)
    BY FS_Subset
  <1>8. Sum(f, U) = f[x] + Sum(f, V)
    BY <1>5, <1>7, SumRemove
  <1>9. Sum(f, S \ V) = f[x] + Sum(f, S \ U)
    <2>1. x \in S \ V /\ (S \ V) \ {x} = S \ U
      BY <1>5
    <2>2. QED
      BY <1>7, <2>1, SumRemove
  <1>10. f[x] \in Nat /\ Sum(f, V) \in Nat /\ Sum(f, S \ U) \in Nat
    BY <1>5, <1>7, SumNat
  <1>11. QED
    <2> HIDE DEF V
    <2> QED BY <1>6, <1>8, <1>9, <1>10
LEMMA SumSubset ==
    ASSUME NEW f, NEW S, IsFiniteSet(S), \A x \in S : f[x] \in Nat, NEW T \in SUBSET S
    PROVE  /\ Sum(f, T) \in Nat /\ Sum(f, S) \in Nat
           /\ Sum(f, T) <= Sum(f, S)
  <1>1. IsFiniteSet(T) /\ IsFiniteSet(S \ T)
    BY FS_Subset
  <1>2. Sum(f, T) \in Nat /\ Sum(f, S \ T) \in Nat /\ Sum(f, S) \in Nat
    BY <1>1, SumNat
  <1>3. Sum(f, S) = Sum(f, T) + Sum(f, S \ T)
    BY SumUnion
  <1>4. QED
    BY <1>2, <1>3

-----------------------------------------------------------------------------
(* The balance                                                               *)

\* What more credits are worth.
LEMMA SharesGrow ==
    ASSUME NEW S \in SUBSET Orders, NEW T \in SUBSET S
    PROVE  /\ Sum(Share, T) \in Nat /\ Sum(Share, S) \in Nat
           /\ Sum(Share, T) <= Sum(Share, S)
  <1>1. IsFiniteSet(S) /\ \A x \in S : Share[x] \in Nat
    BY OrdersAssumption, PayoutsAssumption, FS_Subset
  <1>2. QED
    BY <1>1, SumSubset

\* What more payouts come to.
LEMMA AmountsGrow ==
    ASSUME NEW S \in SUBSET Payouts, NEW T \in SUBSET S
    PROVE  /\ Sum(Amount, T) \in Nat /\ Sum(Amount, S) \in Nat
           /\ Sum(Amount, T) <= Sum(Amount, S)
           /\ Sum(Amount, S) = Sum(Amount, T) + Sum(Amount, S \ T)
  <1>1. IsFiniteSet(S) /\ \A x \in S : Amount[x] \in Nat
    BY PayoutsAssumption, FS_Subset
  <1>2. QED
    BY <1>1, SumSubset, SumUnion

LEMMA OneMore ==
    ASSUME NEW S \in SUBSET Payouts, NEW p \in Payouts \ S
    PROVE  /\ Sum(Amount, S \cup {p}) = Amount[p] + Sum(Amount, S)
           /\ Amount[p] \in Nat /\ Sum(Amount, S) \in Nat
  <1> DEFINE T == S \cup {p}
  <1>1. IsFiniteSet(T) /\ (\A x \in T : Amount[x] \in Nat) /\ p \in T /\ T \ {p} = S
    BY PayoutsAssumption, FS_Subset
  <1>2. Sum(Amount, S) \in Nat
    BY AmountsGrow
  <1>3. QED
    <2> HIDE DEF T
    <2>1. Sum(Amount, T) = Amount[p] + Sum(Amount, S)
      BY <1>1, SumRemove
    <2> QED BY <1>1, <1>2, <2>1 DEF T

\* As long as nothing is overrun, all that is committed is pending or debited, or lacks its debit.
LEMMA CommittedKnown ==
    ASSUME PayoutIInv
    PROVE  /\ Committed \in SUBSET Payouts
           /\ overrun = {} => debited \subseteq InState("APPROVED")
    BY DEF PayoutIInv, PayoutTypeOK, LedgerFollowsDecisions, Committed, InState

\* A step that writes nothing about payouts.
LEMMA CoverKept ==
    ASSUME PayoutIInv, PayoutIInv', CoverInv, UNCHANGED <<payouts, debited>>,
           matured' \in SUBSET Orders, matured \subseteq matured', overrun \subseteq overrun',
           overrun = {} =>
               \A u \in Tasks : desks'[u] = desks[u] \/ desks'[u].stale \/ Submits(desks'[u])
    PROVE  CoverInv'
  <1> SUFFICES ASSUME overrun' = {}
               PROVE  /\ Sum(Share, matured') >= Sum(Amount, Committed')
                      /\ \A t \in Tasks : ~desks'[t].stale => Submits(desks[t])'
    BY DEF CoverInv
  <1>1. Committed' = Committed /\ Missing' = Missing
    BY DEF Committed, Missing, InState
  <1>2. /\ Sum(Share, matured) \in Nat /\ Sum(Share, matured') \in Nat
        /\ Sum(Share, matured) <= Sum(Share, matured')
    BY SharesGrow
  <1>3. Sum(Amount, Committed) \in Nat
    BY CommittedKnown, AmountsGrow
  <1>4. Sum(Share, matured') >= Sum(Amount, Committed')
    BY <1>1, <1>2, <1>3 DEF CoverInv
  <1>5. ASSUME NEW u \in Tasks, ~desks'[u].stale
        PROVE  Submits(desks[u])'
    <2>1. Submits(desks'[u])
      BY <1>5 DEF CoverInv
    <2>2. desks'[u].pc = "create" => desks'[u].payout \in Payouts /\ Amount[desks'[u].payout] \in Nat
      BY PayoutsAssumption DEF PayoutIInv, DeskKnows
    <2>3. QED
      BY <1>1, <1>2, <1>3, <2>1, <2>2 DEF Submits
  <1>6. QED
    BY <1>4, <1>5

LEMMA CheckCovered ==
    ASSUME PayoutIInv, PayoutIInv', CoverInv, NEW t \in Tasks, Check(t)
    PROVE  CoverInv'
  <1>1. desks[t].pc = "frozen" /\ UNCHANGED <<payouts, debited, overrun, matured>>
    BY DEF Check, Sitting
  <1>2. matured \in SUBSET Orders /\ desks \in [Tasks -> Desk]
    BY KnownDesk
  <1>3. CASE Seat(t, Free)
    BY <1>1, <1>2, <1>3, CoverKept DEF Seat, Submits, Free
  <1>4. CASE ~Seat(t, Free)
    <2> DEFINE desk == [desks[t] EXCEPT !.pc = "create", !.credits = {}, !.debits = {}]
    <2>1. desks' = [desks EXCEPT ![t] = desk] /\ Covers(t)
      BY <1>4 DEF Check, Seat
    <2>2. desk.pc = "create" /\ desk.payout = desks[t].payout /\ desk.stale = desks[t].stale
      BY <1>2 DEF Desk
    <2> HIDE DEF desk
    <2>3. ASSUME overrun = {}, ~desk.stale
          PROVE  Submits(desk)
      <3> DEFINE p == desks[t].payout
                 pending == InState("PENDING_REVIEW")
                 ripe == desks[t].credits \cap matured
      <3>1. Missing = {} /\ desks[t].debits = debited
        BY <1>1, <2>2, <2>3 DEF CoverInv, Submits
      <3>2. Sum(Share, ripe) - Sum(Amount, debited) - Sum(Amount, pending) >= Amount[p]
        BY <2>1, <3>1 DEF Covers, Available
      <3>3. Sum(Share, ripe) \in Nat /\ Sum(Share, matured) \in Nat
            /\ Sum(Share, ripe) <= Sum(Share, matured)
        BY <1>2, SharesGrow
      <3>4. Committed = debited \cup pending /\ debited \cap pending = {}
        BY <2>3, <3>1, CommittedKnown DEF Committed, Missing, InState
      <3>5. /\ Sum(Amount, Committed) = Sum(Amount, debited) + Sum(Amount, pending)
            /\ Sum(Amount, debited) \in Nat /\ Sum(Amount, pending) \in Nat
        <4>1. Committed \ debited = pending /\ debited \in SUBSET Committed
          BY <3>4
        <4>2. Sum(Amount, Committed) = Sum(Amount, debited) + Sum(Amount, Committed \ debited)
          BY <4>1, CommittedKnown, AmountsGrow
        <4>3. Sum(Amount, debited) \in Nat /\ Sum(Amount, pending) \in Nat
          BY <3>4, CommittedKnown, AmountsGrow
        <4>4. QED
          BY <4>1, <4>2, <4>3
      <3>6. Amount[p] \in Nat
        BY <1>1, KnownDesk, PayoutsAssumption
      <3>7. Sum(Share, matured) >= Sum(Amount, Committed) + Amount[p]
        <4> HIDE DEF p, pending, ripe
        <4> QED BY <3>2, <3>3, <3>5, <3>6
      <3>8. QED
        BY <2>2, <3>1, <3>7 DEF Submits
    <2>4. overrun = {} =>
              \A u \in Tasks : desks'[u] = desks[u] \/ desks'[u].stale \/ Submits(desks'[u])
      BY <1>2, <2>1, <2>3
    <2>5. QED
      BY <1>1, <1>2, <2>4, CoverKept
  <1>5. QED
    BY <1>3, <1>4

\* The debit of a payout that is APPROVED makes no submission fresh that was not.
LEMMA DebitCovered ==
    ASSUME PayoutIInv, CoverInv, NEW t \in Tasks, Debit(t)
    PROVE  CoverInv'
  <1> SUFFICES ASSUME overrun = {}
               PROVE  /\ Sum(Share, matured') >= Sum(Amount, Committed')
                      /\ \A u \in Tasks : ~desks'[u].stale => Submits(desks[u])'
    BY DEF CoverInv, Debit
  <1>1. PICK p \in Payouts : p = desks[t].payout
    BY KnownDesk DEF Debit, Sitting
  <1>2. p \in InState("APPROVED") /\ p \notin debited
    BY <1>1, KnownDesk DEF Debit, Sitting, DeskKnows, InState
  <1>3. Committed' = Committed /\ matured' = matured
    BY <1>1, <1>2 DEF Debit, Committed, InState
  <1>4. ASSUME NEW u \in Tasks, ~desks'[u].stale
        PROVE  Submits(desks[u])'
    <2>1. Missing # {}
      BY <1>2 DEF Missing
    <2>2. desks'[u] = IF u = t THEN Free ELSE desks[u]
      BY KnownDesk DEF Debit, Seat
    <2>3. desks'[u].pc \notin {"frozen", "create"}
      BY <1>4, <2>1, <2>2 DEF CoverInv, Submits, Free
    <2>4. QED
      BY <2>3 DEF Submits
  <1>5. QED
    BY <1>3, <1>4 DEF CoverInv

\* A payout is written by a request that is not stale: every submission under way becomes so.
LEMMA WriteCovered ==
    ASSUME PayoutIInv, CoverInv, NEW t \in Tasks, Request(t) \/ Approve(t) \/ Reject(t)
    PROVE  CoverInv'
  <1>1. PICK p \in Payouts : p = desks[t].payout
    BY KnownDesk DEF Request, Approve, Reject, Sitting
  <1>2. PICK state \in PayoutStates, desk \in Desk :
          /\ WritePayout(t, p, state, desk) /\ desk.pc \notin {"frozen", "create"}
          /\ \/ desks[t].pc = "create" /\ state = "PENDING_REVIEW"
             \/ desks[t].pc = "approve" /\ state = "APPROVED"
             \/ desks[t].pc = "reject" /\ state = "REJECTED"
    <2>1. [Free EXCEPT !.pc = "debit", !.payout = p] \in Desk
          /\ [Free EXCEPT !.pc = "debit", !.payout = p].pc = "debit"
      BY DEF Free, Desk, DeskPCs
    <2>2. QED
      BY <1>1, <2>1, FreeDesk DEF Request, Approve, Reject, Sitting, PayoutStates
  <1>3. UNCHANGED <<matured, debited>>
    BY DEF Request, Approve, Reject
  <1> SUFFICES ASSUME overrun' = {}
               PROVE  /\ Sum(Share, matured) >= Sum(Amount, Committed')
                      /\ \A u \in Tasks : ~desks'[u].stale => Submits(desks[u])'
    BY <1>3 DEF CoverInv
  <1>4. overrun = {} /\ ~desks[t].stale
    BY <1>2 DEF WritePayout
  <1>5. \A x \in Payouts : payouts'[x] = IF x = p THEN state ELSE payouts[x]
    BY <1>2, KnownDesk DEF WritePayout
  <1>6. /\ desks[t].pc = "create" => payouts[p] = "none"
        /\ desks[t].pc \in {"approve", "reject"} => payouts[p] = "PENDING_REVIEW"
    BY <1>1, <1>4, KnownDesk DEF DeskKnows
  <1>7. p \notin debited
    BY <1>2, <1>4, <1>6, CommittedKnown DEF InState
  <1>8. Sum(Share, matured) \in Nat /\ Sum(Amount, Committed) \in Nat
        /\ Sum(Share, matured) >= Sum(Amount, Committed)
    BY <1>4, KnownDesk, SharesGrow, CommittedKnown, AmountsGrow DEF CoverInv
  <1>9. Sum(Share, matured) >= Sum(Amount, Committed')
    <2>1. CASE desks[t].pc = "create"
      <3>1. Committed' = Committed \cup {p} /\ p \in Payouts \ Committed
        BY <1>2, <1>3, <1>5, <1>6, <1>7, <2>1 DEF Committed, InState
      <3>2. Sum(Amount, Committed') = Amount[p] + Sum(Amount, Committed) /\ Amount[p] \in Nat
        BY <3>1, CommittedKnown, OneMore
      <3>3. Sum(Share, matured) >= Sum(Amount, Committed) + Amount[p]
        BY <1>1, <1>4, <2>1 DEF CoverInv, Submits
      <3>4. QED
        BY <1>8, <3>2, <3>3
    <2>2. CASE desks[t].pc # "create"
      <3>1. Committed' \in SUBSET Committed
        BY <1>2, <1>3, <1>5, <1>6, <2>2 DEF Committed, InState
      <3>2. Sum(Amount, Committed') \in Nat /\ Sum(Amount, Committed') <= Sum(Amount, Committed)
        BY <3>1, CommittedKnown, AmountsGrow
      <3>3. QED
        BY <1>8, <3>2
    <2>3. QED
      BY <2>1, <2>2
  <1>10. ASSUME NEW u \in Tasks, ~desks'[u].stale
         PROVE  desks'[u].pc \notin {"frozen", "create"}
    <2>1. desks'[u] = IF u = t THEN desk
                      ELSE IF desks[u].pc \in {"frozen", "create"} \/ desks[u].payout = p
                           THEN [desks[u] EXCEPT !.stale = TRUE]
                      ELSE desks[u]
      BY <1>2 DEF WritePayout
    <2>2. desks[u] \in Desk
      BY KnownDesk
    <2>3. QED
      BY <1>2, <1>10, <2>1, <2>2 DEF Desk
  <1>11. QED
    BY <1>9, <1>10 DEF Submits

LEMMA CoverBegins == PayoutInit => CoverInv
  <1> SUFFICES ASSUME PayoutInit PROVE CoverInv
    OBVIOUS
  <1>1. Committed = {} /\ matured = {}
    BY DEF PayoutInit, Committed, InState
  <1>2. \A t \in Tasks : Submits(desks[t])
    BY DEF PayoutInit, Submits, Free
  <1>3. QED
    BY <1>1, <1>2, SumEmpty DEF CoverInv

LEMMA CoverNext ==
    ASSUME OrderIInv, PayoutIInv, CoverInv, [Next]_vars
    PROVE  CoverInv'
  <1>o. PayoutIInv' /\ credited \subseteq Orders /\ matured \in SUBSET Orders
        /\ desks \in [Tasks -> Desk]
    BY PayoutsNext DEF OrderIInv, OrderTypeOK, PayoutIInv, PayoutTypeOK
  <1>1. CASE UNCHANGED payoutVars
    BY <1>1, <1>o, CoverKept DEF payoutVars
  <1>2. ASSUME NEW o \in Orders, Mature(o)
        PROVE  CoverInv'
    <2>1. matured' \in SUBSET Orders
      BY <1>2, <1>o DEF Mature
    <2>2. QED
      BY <1>2, <1>o, <2>1, CoverKept DEF Mature
  <1>3. ASSUME NEW t \in Tasks, NEW p \in Payouts, Submit(t, p) \/ Decide(t, p)
        PROVE  CoverInv'
    <2>1. desks'[t].stale \/ Submits(desks'[t])
      <3>1. CASE Submit(t, p)
        <4>1. /\ desks'[t].pc = "frozen" /\ desks'[t].debits = debited
              /\ desks'[t].stale = (Missing # {})
          BY <3>1, <1>o DEF Submit, Seat
        <4>2. QED
          BY <4>1 DEF Submits
      <3>2. CASE Decide(t, p)
        <4>1. desks'[t].pc \in {"approve", "reject"}
          BY <3>2, <1>o DEF Decide, Seat, Free
        <4>2. QED
          BY <4>1 DEF Submits
      <3>3. QED
        BY <1>3, <3>1, <3>2
    <2>2. \A u \in Tasks \ {t} : desks'[u] = desks[u]
      BY <1>3, <1>o DEF Submit, Decide, Seat
    <2>3. UNCHANGED <<matured, payouts, debited, overrun>>
      BY <1>3 DEF Submit, Decide
    <2>4. QED
      BY <1>o, <2>1, <2>2, <2>3, CoverKept
  <1>4. ASSUME NEW t \in Tasks, Abandon(t)
        PROVE  CoverInv'
    <2>1. Submits(desks'[t]) /\ \A u \in Tasks \ {t} : desks'[u] = desks[u]
      BY <1>4, <1>o DEF Abandon, Seat, Submits, Free
    <2>2. UNCHANGED <<matured, payouts, debited>> /\ overrun \subseteq overrun'
      BY <1>4 DEF Abandon
    <2>3. QED
      BY <1>o, <2>1, <2>2, CoverKept
  <1>5. ASSUME NEW t \in Tasks, PayoutStep(t)
        PROVE  CoverInv'
    BY <1>5, <1>o, CheckCovered, DebitCovered, WriteCovered DEF PayoutStep
  <1>6. UNCHANGED vars => UNCHANGED payoutVars
    BY DEF vars
  <1>7. QED
    BY <1>1, <1>2, <1>3, <1>4, <1>5, <1>6 DEF Next

-----------------------------------------------------------------------------
(* Theorems                                                                  *)

\* The inductive invariants of the orders and of the payouts hold together
\* (order-service.ts:285-367, balance-ledger.ts:377-450).
THEOREM PayoutInvariance == Spec => [](OrderIInv /\ PayoutIInv)
  <1>1. Init /\ PayoutInit => OrderIInv /\ PayoutIInv
    BY InitInvariant, PayoutInitInvariant
  <1>2. OrderIInv /\ PayoutIInv /\ [Next]_vars => (OrderIInv /\ PayoutIInv)'
    BY PayoutsNext, OrdersStep, NextInvariant
  <1>3. QED
    BY <1>1, <1>2, PTL DEF Spec

\* The ledger holds a debit of each payout that is approved and of no other one, unless two
\* decisions raced or an approval failed half-way (balance-ledger.ts:407, 417).
THEOREM LedgerFollowsDecisionsAlways == Spec => []LedgerFollowsDecisions
  <1>1. OrderIInv /\ PayoutIInv => LedgerFollowsDecisions
    BY DEF PayoutIInv
  <1>2. QED
    BY <1>1, PayoutInvariance, PTL

\* A decision about a payout is final, unless two administrators decide at once
\* (balance-ledger.ts:403, 436).
THEOREM DecisionStays == Spec => DecisionIsFinal
  <1> DEFINE Final == \A p \in Payouts \ overrun' :
                          payouts[p] \in {"APPROVED", "REJECTED"} => payouts'[p] = payouts[p]
  <1>1. OrderIInv /\ PayoutIInv /\ [Next]_vars => [Final]_vars
    BY PayoutsNext
  <1>2. QED
    BY <1>1, PayoutInvariance, PTL DEF Spec, DecisionIsFinal

\* What has been requested and not been refused is covered by the credits whose hold is over,
\* for any shares and amounts, unless a submission raced another one or an approval
\* (balance-ledger.ts:328-350, 381).
THEOREM BalanceCoversAlways == Spec => []BalanceCovers
  <1>1. Init /\ PayoutInit => OrderIInv /\ PayoutIInv /\ CoverInv
    BY InitInvariant, PayoutInitInvariant, CoverBegins
  <1>2. OrderIInv /\ PayoutIInv /\ CoverInv /\ [Next]_vars => (OrderIInv /\ PayoutIInv /\ CoverInv)'
    BY PayoutsNext, OrdersStep, NextInvariant, CoverNext
  <1>3. OrderIInv /\ PayoutIInv /\ CoverInv => BalanceCovers
    BY DEF CoverInv, BalanceCovers
  <1>4. QED
    BY <1>1, <1>2, <1>3, PTL DEF Spec

\* What pays the developer is money the gateway has: a hold ends only for a sale that was
\* credited, and that is credited only for a purchase that was paid for. Purchases and payouts
\* race within and with each other (order-service.ts:285-367, balance-ledger.ts:328-450).
THEOREM PayoutsAreFundedAlways == Spec => []PayoutsAreFunded
  <1> DEFINE Ripe == matured \subseteq credited
  <1>1. Init /\ PayoutInit => Ripe
    BY DEF PayoutInit
  <1>2. Ripe /\ [Next]_vars => Ripe'
    <2> SUFFICES ASSUME Ripe, [Next]_vars
                 PROVE  Ripe'
      OBVIOUS
    <2>1. ASSUME NEW o \in Orders, Mature(o)
          PROVE  Ripe'
      BY <2>1 DEF Mature, orderVars
    <2>2. CASE OrderNext /\ UNCHANGED payoutVars
      <3>1. credited \subseteq credited'
        BY <2>2 DEF OrderNext, OrderStep, Pay, Undo, Becomes, Ask, Attach, Look, Overwrite, Reply, Mark, Write,
                    Save, Credit, Book, Fetch, Fail, Create, Callback, Poll
      <3>2. QED
        BY <2>2, <3>1 DEF payoutVars
    <2>3. ASSUME NEW t \in Tasks, NEW p \in Payouts, Submit(t, p) \/ Decide(t, p)
          PROVE  Ripe'
      BY <2>3 DEF Submit, Decide, orderVars
    <2>4. ASSUME NEW t \in Tasks, PayoutStep(t) \/ Abandon(t)
          PROVE  Ripe'
      BY <2>4 DEF PayoutStep, Check, Request, Approve, Debit, Reject, Abandon, orderVars
    <2>5. CASE UNCHANGED vars
      BY <2>5 DEF vars, orderVars, payoutVars
    <2>6. QED
      BY <2>1, <2>2, <2>3, <2>4, <2>5 DEF Next
  <1>3. OrderIInv /\ PayoutIInv /\ Ripe /\ BalanceCovers => PayoutsAreFunded
    <2> SUFFICES ASSUME OrderIInv, PayoutIInv, Ripe, BalanceCovers, overrun = {}
                 PROVE  Sum(Share, {o \in Orders : PaidFor(o)}) >= Sum(Amount, Committed)
      BY DEF PayoutsAreFunded
    <2> DEFINE S == {o \in Orders : PaidFor(o)}
    <2>1. matured \in SUBSET S /\ S \in SUBSET Orders
      BY DEF OrderIInv, OrderTypeOK, DeliveredIsPaid
    <2>2. Sum(Share, matured) <= Sum(Share, S) /\ Sum(Share, matured) \in Nat /\ Sum(Share, S) \in Nat
      <3> HIDE DEF S
      <3> QED BY <2>1, SharesGrow
    <2>3. Sum(Amount, Committed) \in Nat
      BY CommittedKnown, AmountsGrow
    <2>4. Sum(Share, matured) >= Sum(Amount, Committed)
      BY DEF BalanceCovers
    <2>5. QED
      <3> HIDE DEF S
      <3> QED BY <2>2, <2>3, <2>4 DEF S
  <1>4. QED
    BY <1>1, <1>2, <1>3, PayoutInvariance, BalanceCoversAlways, PTL DEF Spec

=============================================================================
