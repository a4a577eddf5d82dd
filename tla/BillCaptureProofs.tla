------------------------- MODULE BillCaptureProofs -------------------------
(***************************************************************************)
(* Theorems about BillCapture, for any orders, amounts, tails, tasks and      *)
(* bills: open orders have different amounts unless their creations raced,    *)
(* and a bill paid in time credits its order and no other.                   *)
(***************************************************************************)
EXTENDS BillCapture, TLAPS

LEMMA Known ==
    ASSUME IInv, NEW t \in Tasks
    PROVE  /\ tasks \in [Tasks -> Task] /\ tasks[t] \in Task /\ TaskKnows(tasks[t])
           /\ rows \in [Orders -> Row] /\ paidAt \in [Bills -> Times]
           /\ events \in [Bills -> Event] /\ credited \subseteq Bills \X Orders
           /\ raced \subseteq Orders /\ spoilt \subseteq Bills /\ undone \subseteq Orders
           /\ now \in 0 .. Horizon /\ faults \in 0 .. MaxFaults
    BY DEF IInv, TypeOK

LEMMA IdleTask ==
    Idle \in Task /\ TaskKnows(Idle) /\ Idle.pc = "idle" /\ Idle.stale = FALSE
    BY BillsAssumption DEF Idle, Task, PCs, TaskKnows

LEMMA InitInvariant == Init => IInv
  <1> SUFFICES ASSUME Init PROVE IInv
    OBVIOUS
  <1>1. TypeOK
    <2>1. rows \in [Orders -> Row]
      BY BillsAssumption DEF Init, Row, RowStatuses
    <2>2. events \in [Bills -> Event]
      BY BillsAssumption DEF Init, Event, EventStatuses, NoEvent
    <2>3. paidAt \in [Bills -> Times]
      BY BillsAssumption DEF Init, Times
    <2>4. tasks \in [Tasks -> Task]
      BY IdleTask DEF Init
    <2>5. QED
      BY <2>1, <2>2, <2>3, <2>4, BillsAssumption DEF Init, TypeOK
  <1>2. \A t \in Tasks : tasks[t] = Idle
    BY DEF Init
  <1>3. AmountsDiffer
    BY DEF Init, AmountsDiffer
  <1>4. \A b \in Bills : events[b].status # "RECEIVED"
    BY DEF Init, NoEvent
  <1>5. QED
    BY <1>1, <1>2, <1>3, <1>4, IdleTask DEF IInv, At

\* A step of one task that opens no order.
LEMMA TaskStep ==
    ASSUME IInv, NEW t \in Tasks, NEW task \in Task, TaskKnows(task), Become(t, task),
           task.pc = "insert" /\ ~task.stale => task.cents \notin Used,
           UNCHANGED <<now, paidAt, raced>>,
           rows' \in [Orders -> Row],
           \A o \in Orders : rows'[o].status = "OPEN" => rows'[o] = rows[o],
           events' \in [Bills -> Event],
           \A b \in Bills : events'[b].status = "RECEIVED" => events'[b].attempts < MaxAttempts,
           credited' \subseteq Bills \X Orders, spoilt' \subseteq Bills, undone' \subseteq Orders,
           faults' \in 0 .. MaxFaults
    PROVE  IInv'
  <1>1. tasks' \in [Tasks -> Task] /\ tasks'[t] = task /\ \A u \in Tasks \ {t} : tasks'[u] = tasks[u]
    BY Known DEF Become
  <1>2. TypeOK'
    BY <1>1 DEF IInv, TypeOK
  <1>3. AmountsDiffer'
    BY DEF IInv, AmountsDiffer
  <1>4. Used' \subseteq Used
    BY DEF Used
  <1>5. \A u \in Tasks : TaskKnows(tasks'[u])
    BY <1>1 DEF IInv
  <1>6. \A u \in Tasks : tasks'[u].pc = "insert" /\ ~tasks'[u].stale => tasks'[u].cents \notin Used'
    BY <1>1, <1>4 DEF IInv, At
  <1>7. QED
    BY <1>2, <1>3, <1>5, <1>6 DEF IInv, At, TaskKnows

LEMMA WorldInvariant ==
    ASSUME IInv, Tick \/ \E b \in Bills : Pay(b)
    PROVE  IInv'
  <1>1. paidAt \in [Bills -> Times] /\ now \in 0 .. Horizon /\ Horizon \in Nat
    BY BillsAssumption DEF IInv, TypeOK
  <1>2. /\ now' \in 0 .. Horizon /\ paidAt' \in [Bills -> Times]
        /\ UNCHANGED <<rows, events, credited, raced, spoilt, undone, tasks, faults>>
    BY <1>1 DEF Tick, Pay, Times
  <1>3. QED
    BY <1>2 DEF IInv, TypeOK, AmountsDiffer, At, TaskKnows, Used

LEMMA AllocateInvariant ==
    ASSUME IInv, NEW t \in Tasks, NEW o \in Orders, Allocate(t, o)
    PROVE  IInv'
  <1>1. PICK tail \in 0 .. Slots - 1 :
            /\ Base[o] + tail \notin Used
            /\ Become(t, [Idle EXCEPT !.pc = "insert", !.order = o, !.cents = Base[o] + tail])
    BY DEF Allocate
  <1>2. Base[o] + tail \in Nat
    BY BillsAssumption
  <1>3. PICK task : task = [Idle EXCEPT !.pc = "insert", !.order = o, !.cents = Base[o] + tail]
    OBVIOUS
  <1>4. task \in Task /\ TaskKnows(task) /\ task.cents = Base[o] + tail
    BY <1>2, <1>3, IdleTask DEF Task, Idle, PCs, TaskKnows
  <1>5. faults' \in 0 .. MaxFaults
    BY Known, BillsAssumption DEF Allocate
  <1>6. QED
    BY <1>1, <1>3, <1>4, <1>5, TaskStep, Known DEF Allocate, IInv

LEMMA ExpireInvariant ==
    ASSUME IInv, NEW t \in Tasks, (\E o \in Orders : StartExpire(t, o)) \/ Expire(t)
    PROVE  IInv'
  <1>1. ASSUME NEW o \in Orders, StartExpire(t, o) PROVE IInv'
    <2>1. [Idle EXCEPT !.pc = "expire", !.order = o] \in Task
      BY IdleTask DEF Task, Idle, PCs
    <2>2. PICK task \in Task : Become(t, task) /\ TaskKnows(task) /\ task.pc = "expire"
      BY <1>1, <2>1, IdleTask DEF StartExpire, TaskKnows, Idle
    <2>3. QED
      BY <1>1, <2>2, TaskStep, Known DEF StartExpire, IInv
  <1>2. CASE Expire(t)
    <2>1. tasks[t].order \in Orders
      BY <1>2, Known DEF Expire, At, TaskKnows
    <2>2. rows' \in [Orders -> Row]
              /\ \A x \in Orders : rows'[x].status = "OPEN" => rows'[x] = rows[x]
      BY <1>2, <2>1, Known DEF Expire, Row, RowStatuses
    <2>3. undone' \subseteq Orders
      BY <1>2, <2>1, Known DEF Expire
    <2>4. QED
      BY <1>2, <2>2, <2>3, IdleTask, TaskStep, Known DEF Expire, IInv
  <1>3. QED
    BY <1>1, <1>2

\* The order that is stored has an amount nobody has, or is one that raced.
LEMMA InsertInvariant ==
    ASSUME IInv, NEW t \in Tasks, Insert(t)
    PROVE  IInv'
  <1>1. PICK o \in Orders : o = tasks[t].order
    BY Known DEF Insert, At, TaskKnows
  <1>2. tasks[t] \in Task /\ tasks[t].cents \in Nat /\ rows \in [Orders -> Row] /\ raced \subseteq Orders
            /\ now \in 0 .. Horizon
    BY Known DEF Task
  <1>3. /\ rows' = [rows EXCEPT ![o] = [status |-> "OPEN", cents |-> tasks[t].cents, created |-> now]]
        /\ raced' = IF tasks[t].stale THEN raced \cup {o} ELSE raced
        /\ UNCHANGED <<now, paidAt, events, credited, spoilt, undone, faults>>
    BY <1>1 DEF Insert
  <1>4. rows' \in [Orders -> Row] /\ raced' \subseteq Orders
    BY <1>2, <1>3 DEF Row, RowStatuses
  <1>5. /\ \A x \in Orders \ {o} : rows'[x] = rows[x]
        /\ rows'[o].cents = tasks[t].cents
    BY <1>2, <1>3
  <1>6. tasks' = [u \in Tasks |-> IF u = t THEN Idle
                                  ELSE [tasks[u] EXCEPT !.stale = tasks[u].pc = "insert"]]
    BY DEF Insert
  <1>7. \A u \in Tasks : /\ tasks'[u] \in Task /\ TaskKnows(tasks'[u])
                         /\ tasks'[u].pc = "insert" => tasks'[u].stale
    <2>1. SUFFICES ASSUME NEW u \in Tasks
                   PROVE  /\ tasks'[u] \in Task /\ TaskKnows(tasks'[u])
                          /\ tasks'[u].pc = "insert" => tasks'[u].stale
      OBVIOUS
    <2>2. CASE u = t
      BY <2>2, <1>6, IdleTask
    <2>3. CASE u # t
      <3>1. tasks'[u] = [tasks[u] EXCEPT !.stale = tasks[u].pc = "insert"]
        BY <2>3, <1>6
      <3>2. tasks[u] \in Task /\ TaskKnows(tasks[u])
        BY Known
      <3>3. (tasks[u].pc = "insert") \in BOOLEAN
        OBVIOUS
      <3>4. QED
        BY <3>1, <3>2, <3>3 DEF Task, TaskKnows
    <2>4. QED
      BY <2>2, <2>3
  <1>8. tasks' \in [Tasks -> Task]
    BY <1>6, <1>7
  <1>9. TypeOK'
    BY <1>3, <1>4, <1>8 DEF IInv, TypeOK
  <1>10. ~tasks[t].stale =>
             \A x \in Orders : rows[x].status = "OPEN" => rows[x].cents # tasks[t].cents
    BY DEF IInv, Insert, Used
  <1>11. AmountsDiffer'
    <2>1. SUFFICES ASSUME NEW x \in Orders \ raced', NEW y \in Orders \ raced',
                          rows'[x].status = "OPEN", rows'[y].status = "OPEN",
                          rows'[x].cents = rows'[y].cents
                   PROVE  x = y
      BY DEF AmountsDiffer
    <2>2. x \notin raced /\ y \notin raced /\ (x = o \/ y = o => ~tasks[t].stale)
      BY <1>3
    <2>3. CASE x # o /\ y # o
      BY <2>1, <2>2, <2>3, <1>5 DEF IInv, AmountsDiffer
    <2>4. CASE x = o /\ y # o
      BY <2>1, <2>2, <2>4, <1>5, <1>10
    <2>5. CASE x # o /\ y = o
      BY <2>1, <2>2, <2>5, <1>5, <1>10
    <2>6. QED
      BY <2>3, <2>4, <2>5
  <1>12. QED
    BY <1>3, <1>7, <1>9, <1>11 DEF IInv, At, TaskKnows

LEMMA ReportInvariant ==
    ASSUME IInv, NEW t \in Tasks, NEW b \in Bills, Report(t, b) \/ Claim(t, b)
    PROVE  IInv'
  <1>1. events \in [Bills -> Event] /\ events[b] \in Event
    BY Known
  <1>2. CASE Report(t, b)
    <2>1. events' \in [Bills -> Event]
              /\ \A x \in Bills : events'[x].status = "RECEIVED" => events'[x].attempts < MaxAttempts
      <3>1. NoEvent.attempts = 0 /\ 0 < MaxAttempts
        BY BillsAssumption DEF NoEvent
      <3>2. events' = [events EXCEPT ![b] = IF @ = NoEvent THEN [@ EXCEPT !.status = "RECEIVED"]
                                            ELSE @]
        BY <1>2 DEF Report
      <3>3. QED
        BY <1>1, <3>1, <3>2 DEF Event, EventStatuses, IInv
    <2>2. [Idle EXCEPT !.pc = "look", !.bill = b] \in Task
      BY IdleTask DEF Task, Idle, PCs
    <2>3. PICK task \in Task : Become(t, task) /\ TaskKnows(task) /\ task.pc = "look"
      BY <2>2, <1>2 DEF Report, TaskKnows, Idle
    <2>4. QED
      BY <1>2, <2>1, <2>3, TaskStep, Known DEF Report
  <1>3. CASE Claim(t, b)
    <2>1. events[b].attempts \in 0 .. MaxAttempts - 1
      BY <1>1, <1>3, BillsAssumption DEF Claim, IInv, Event
    <2>2. [Idle EXCEPT !.pc = "look", !.bill = b, !.worker = TRUE, !.attempts = events[b].attempts]
              \in Task
      BY <2>1, IdleTask DEF Task, Idle, PCs
    <2>3. PICK task \in Task : Become(t, task) /\ TaskKnows(task) /\ task.pc = "look"
      BY <2>2, <1>3 DEF Claim, TaskKnows, Idle
    <2>4. faults' \in 0 .. MaxFaults
      BY <1>3, Known, BillsAssumption DEF Claim
    <2>5. QED
      BY <1>3, <2>3, <2>4, TaskStep, Known DEF Claim, IInv
  <1>4. QED
    BY <1>2, <1>3

LEMMA LookInvariant ==
    ASSUME IInv, NEW t \in Tasks, Look(t)
    PROVE  IInv'
  <1>1. tasks[t] \in Task /\ tasks[t].pc = "look" /\ TaskKnows(tasks[t])
    BY Known DEF Look, At
  <1>2. PICK task \in Task : Become(t, task) /\ TaskKnows(task) /\ task.pc # "insert"
    <2>1. CASE \E o \in Found(tasks[t].bill) :
                   Become(t, [tasks[t] EXCEPT !.pc = "apply", !.order = o])
      <3>1. PICK o \in Orders : Become(t, [tasks[t] EXCEPT !.pc = "apply", !.order = o])
        BY <2>1 DEF Found, Candidates
      <3>2. [tasks[t] EXCEPT !.pc = "apply", !.order = o] \in Task
        BY <1>1 DEF Task, PCs
      <3>3. QED
        BY <1>1, <3>1, <3>2 DEF Task, TaskKnows
    <2>2. CASE Become(t, IF tasks[t].worker THEN [tasks[t] EXCEPT !.pc = "miss"] ELSE Idle)
      <3>1. [tasks[t] EXCEPT !.pc = "miss"] \in Task
        BY <1>1 DEF Task, PCs
      <3>2. TaskKnows([tasks[t] EXCEPT !.pc = "miss"]) /\ [tasks[t] EXCEPT !.pc = "miss"].pc = "miss"
        BY <1>1 DEF Task, TaskKnows
      <3>3. QED
        BY <2>2, <3>1, <3>2, IdleTask
    <2>3. QED
      BY <2>1, <2>2 DEF Look
  <1>3. QED
    BY <1>2, TaskStep, Known DEF Look, IInv

LEMMA ApplyInvariant ==
    ASSUME IInv, NEW t \in Tasks, Apply(t)
    PROVE  IInv'
  <1>1. tasks[t] \in Task /\ tasks[t].bill \in Bills /\ tasks[t].order \in Orders
    BY Known DEF Apply, At, TaskKnows
  <1>2. [tasks[t] EXCEPT !.pc = "mark"] \in Task
    BY <1>1 DEF Task, PCs
  <1>3. PICK task \in Task : Become(t, task) /\ TaskKnows(task) /\ task.pc # "insert"
    BY <1>1, <1>2 DEF Apply, Goto, Task, TaskKnows
  <1>4. rows' \in [Orders -> Row]
            /\ \A x \in Orders : rows'[x].status = "OPEN" => rows'[x] = rows[x]
    BY <1>1, Known DEF Apply, Row, RowStatuses
  <1>5. credited' \subseteq Bills \X Orders
    BY <1>1, Known DEF Apply
  <1>6. undone' \subseteq Orders
    BY Known DEF Apply
  <1>7. QED
    BY <1>3, <1>4, <1>5, <1>6, TaskStep, Known DEF Apply, IInv

LEMMA MarkInvariant ==
    ASSUME IInv, NEW t \in Tasks, Mark(t) \/ Miss(t)
    PROVE  IInv'
  <1>1. tasks[t] \in Task /\ tasks[t].bill \in Bills /\ events \in [Bills -> Event]
    BY Known DEF Mark, Miss, At, TaskKnows
  <1>2. CASE Mark(t)
    <2>1. tasks[t].order \in Orders
      BY <1>2, Known DEF Mark, At, TaskKnows
    <2>2. [status |-> "MATCHED", attempts |-> 0, order |-> tasks[t].order] \in Event
      BY <2>1, BillsAssumption DEF Event, EventStatuses
    <2>3. events' \in [Bills -> Event]
              /\ \A x \in Bills : events'[x].status = "RECEIVED" => events'[x].attempts < MaxAttempts
      BY <1>1, <1>2, <2>2 DEF Mark, IInv
    <2>4. spoilt' \subseteq Bills
      BY <1>2, Known DEF Mark
    <2>5. QED
      BY <1>2, <2>3, <2>4, IdleTask, TaskStep, Known DEF Mark
  <1>3. CASE Miss(t)
    <2>1. tasks[t].attempts + 1 \in 0 .. MaxAttempts
      BY <1>1, BillsAssumption DEF Task
    <2>2. PICK b \in Bills, status \in {"RECEIVED", "DEAD_LETTER"} :
              /\ status = "RECEIVED" => tasks[t].attempts + 1 < MaxAttempts
              /\ events' = IF events[b].status = "RECEIVED"
                           THEN [events EXCEPT ![b].status = status,
                                               ![b].attempts = tasks[t].attempts + 1]
                           ELSE events
      <3>1. tasks[t].attempts + 1 \in Nat /\ MaxAttempts \in Nat
        BY <2>1, BillsAssumption
      <3>2. PICK status :
                /\ status = IF tasks[t].attempts + 1 >= MaxAttempts THEN "DEAD_LETTER"
                            ELSE "RECEIVED"
                /\ events' = IF events[tasks[t].bill].status = "RECEIVED"
                             THEN [events EXCEPT ![tasks[t].bill].status = status,
                                     ![tasks[t].bill].attempts = tasks[t].attempts + 1]
                             ELSE events
        BY <1>3 DEF Miss
      <3>3. status \in {"RECEIVED", "DEAD_LETTER"}
                /\ (status = "RECEIVED" => tasks[t].attempts + 1 < MaxAttempts)
        BY <3>1, <3>2
      <3>4. QED
        BY <1>1, <3>2, <3>3
    <2>3. events' \in [Bills -> Event]
      BY <1>1, <2>1, <2>2 DEF Event, EventStatuses
    <2>4. \A x \in Bills : events'[x].status = "RECEIVED" => events'[x].attempts < MaxAttempts
      BY <1>1, <2>2 DEF Event, IInv
    <2>5. QED
      BY <1>3, <2>3, <2>4, IdleTask, TaskStep, Known DEF Miss
  <1>4. QED
    BY <1>2, <1>3

LEMMA FailInvariant ==
    ASSUME IInv, NEW t \in Tasks, Fail(t)
    PROVE  IInv'
  <1>1. tasks[t] \in Task /\ TaskKnows(tasks[t]) /\ spoilt \subseteq Bills
            /\ faults \in 0 .. MaxFaults /\ MaxFaults \in Nat
    BY Known, BillsAssumption
  <1>2. spoilt' \subseteq Bills /\ faults' \in 0 .. MaxFaults
    BY <1>1 DEF Fail, At, TaskKnows
  <1>3. CASE Become(t, Idle)
    BY <1>2, <1>3, IdleTask, TaskStep, Known DEF Fail, IInv
  <1>4. CASE tasks[t].worker /\ ~At(t, "miss") /\ Goto(t, "miss")
    <2>1. [tasks[t] EXCEPT !.pc = "miss"] \in Task /\ [tasks[t] EXCEPT !.pc = "miss"].pc = "miss"
      BY <1>1 DEF Task, PCs
    <2>2. tasks[t].bill \in Bills
      BY <1>1, <1>4 DEF TaskKnows
    <2>3. TaskKnows([tasks[t] EXCEPT !.pc = "miss"])
      BY <1>1, <2>1, <2>2 DEF Task, TaskKnows
    <2>4. QED
      BY <1>2, <1>4, <2>1, <2>3, TaskStep, Known DEF Fail, Goto, IInv
  <1>5. QED
    BY <1>3, <1>4 DEF Fail

-----------------------------------------------------------------------------

LEMMA NextInvariant == IInv /\ [Next]_vars => IInv'
  <1> SUFFICES ASSUME IInv, [Next]_vars PROVE IInv'
    OBVIOUS
  <1>1. CASE Tick \/ \E b \in Bills : Pay(b)
    BY <1>1, WorldInvariant
  <1>2. ASSUME NEW t \in Tasks, NEW o \in Orders, Allocate(t, o) \/ StartExpire(t, o)
        PROVE  IInv'
    BY <1>2, AllocateInvariant, ExpireInvariant
  <1>3. ASSUME NEW t \in Tasks, NEW b \in Bills, Report(t, b) \/ Claim(t, b)
        PROVE  IInv'
    BY <1>3, ReportInvariant
  <1>4. ASSUME NEW t \in Tasks, Step(t) \/ Fail(t)
        PROVE  IInv'
    BY <1>4, InsertInvariant, ExpireInvariant, LookInvariant, ApplyInvariant, MarkInvariant, FailInvariant DEF Step
  <1>5. CASE UNCHANGED vars
    BY <1>5 DEF vars, IInv, TypeOK, AmountsDiffer, At, TaskKnows, Used
  <1>6. QED
    BY <1>1, <1>2, <1>3, <1>4, <1>5 DEF Next

-----------------------------------------------------------------------------
(* Credits                                                                   *)

LEMMA Sizes ==
    ASSUME IInv
    PROVE  /\ \A o \in Orders : rows[o] \in Row /\ rows[o].created \in Nat /\ ExpireAt(o) \in Nat
           /\ \A b \in Bills : paidAt[b] \in Nat /\ For[b] \in Orders /\ events[b] \in Event
           /\ \A t \in Tasks : tasks[t] \in Task /\ TaskKnows(tasks[t])
           /\ now \in Nat /\ Horizon \in Nat /\ now <= Horizon /\ Lifetime \in Nat /\ Window \in Nat
           /\ credited \subseteq Bills \X Orders
  <1>1. rows \in [Orders -> Row] /\ paidAt \in [Bills -> Times] /\ now \in 0 .. Horizon
            /\ events \in [Bills -> Event] /\ tasks \in [Tasks -> Task]
            /\ credited \subseteq Bills \X Orders /\ \A t \in Tasks : TaskKnows(tasks[t])
    BY DEF IInv, TypeOK
  <1>2. Lifetime \in Nat /\ Horizon \in Nat /\ Window \in Nat /\ For \in [Bills -> Orders]
    BY BillsAssumption
  <1>3. \A o \in Orders : rows[o] \in Row /\ rows[o].created \in Nat
    BY <1>1, <1>2 DEF Row
  <1>4. \A o \in Orders : ExpireAt(o) \in Nat
    BY <1>2, <1>3 DEF ExpireAt
  <1>5. \A b \in Bills : paidAt[b] \in Nat
    BY <1>1, <1>2 DEF Times
  <1>6. QED
    BY <1>1, <1>2, <1>3, <1>4, <1>5

\* A bill that credits two orders was paid before the later one was there.
LEMMA OneOrder ==
    ASSUME IInv, CreditInv, raced = {}, NEW b \in Bills,
           NEW o \in Orders, NEW x \in Orders, Credits(b, o), Credits(b, x)
    PROVE  o = x
  <1>1. SUFFICES ASSUME o # x PROVE FALSE
    OBVIOUS
  <1>2. /\ Stored(o) /\ rows[o].created <= paidAt[b]
        /\ Stored(x) /\ rows[x].created <= paidAt[b]
        /\ rows[o].cents = rows[x].cents
    BY DEF CreditInv, BillsFit
  <1>3. Before(o, x) \/ Before(x, o)
    BY <1>1, <1>2 DEF CreditInv, AmountsFollow
  <1>4. QED
    BY <1>2, <1>3, Sizes DEF Before

LEMMA CreditInit == Init => CreditInv
  <1> SUFFICES ASSUME Init PROVE CreditInv
    OBVIOUS
  <1>1. /\ \A t \in Tasks : tasks[t].pc = "idle" /\ tasks[t].bill = None
        /\ \A o \in Orders : rows[o].status = "none"
        /\ \A b \in Bills : events[b].status = "none" /\ ~Made(b)
        /\ credited = {}
    BY BillsAssumption DEF Init, Idle, NoEvent, Made
  <1>2. \A b \in Bills, o \in Orders : ~Credits(b, o)
    BY <1>1 DEF Credits
  <1>3. CreatedOnce /\ CreditsComeFirst /\ MatchedIsCredited
    BY <1>1 DEF CreatedOnce, CreditsComeFirst, MatchedIsCredited, At
  <1>4. BillsFit
    BY <1>1, <1>2, BillsAssumption DEF BillsFit, Stored, Expires, At
  <1>5. AmountsFollow
    BY <1>1 DEF AmountsFollow, Stored
  <1>6. QED
    BY <1>3, <1>4, <1>5 DEF CreditInv

\* An order stays before another one as long as it is not open again and its bills are early.
LEMMA StayBefore ==
    ASSUME NEW o \in Orders, NEW x \in Orders, Before(o, x),
           rows'[o].created = rows[o].created, rows'[x].created = rows[x].created,
           rows[o].status # "OPEN" =>
               /\ rows'[o].status # "OPEN"
               /\ Expires(o)' => Expires(o)
               /\ \A b \in Bills : Credits(b, o)' =>
                      /\ paidAt'[b] = paidAt[b]
                      /\ Credits(b, o) \/ paidAt[b] < rows[x].created
    PROVE  Before(o, x)'
    BY DEF Before, ExpireAt

\* What is known of a credit.
LEMMA CreditFits ==
    ASSUME CreditInv, NEW b \in Bills, NEW o \in Orders, Credits(b, o)
    PROVE  /\ Made(b) /\ Stored(o) /\ rows[o].cents = Cents(b) /\ rows[o].created <= paidAt[b]
           /\ Stored(For[b]) /\ paidAt[b] <= now
    BY DEF CreditInv, BillsFit

\* A step of one task that finds no order and credits none.
LEMMA QuietTask ==
    ASSUME IInv, CreditInv, UNCHANGED <<now, rows, paidAt, credited, raced>>, spoilt \subseteq spoilt',
           NEW t \in Tasks, NEW task, Become(t, task),
           task.pc \notin {"apply", "mark"},
           task.pc = "expire" =>
               task.order \in Orders /\ rows[task.order].status = "OPEN" /\ ExpireAt(task.order) < now,
           task.bill \in Bills => Made(task.bill),
           task.pc = "insert" => ~Stored(task.order) /\ \A u \in Tasks : tasks[u].order # task.order,
           tasks[t].pc = "mark" => tasks[t].bill \in spoilt',
           \A b \in Bills :
               /\ events'[b].status # "none" => Made(b)
               /\ "MATCHED" \in {events[b].status, events'[b].status} => events'[b] = events[b]
    PROVE  CreditInv'
  <1>1. tasks'[t] = task /\ \A u \in Tasks \ {t} : tasks'[u] = tasks[u]
    BY Known DEF Become
  <1>2. ASSUME NEW b \in Bills, NEW o \in Orders, Credits(b, o)' PROVE Credits(b, o)
    BY <1>1, <1>2 DEF Credits
  <1>3. CreatedOnce'
    BY <1>1 DEF CreditInv, CreatedOnce, At, Stored
  <1>4. BillsFit'
    <2>1. \A o \in Orders : Expires(o)' => Expires(o) \/ (rows[o].status = "OPEN" /\ ExpireAt(o) < now)
      BY <1>1 DEF Expires, At
    <2>2. QED
      BY <1>1, <1>2, <2>1 DEF CreditInv, BillsFit, Made, Stored, ExpireAt, Cents
  <1>5. AmountsFollow'
    <2>1. ASSUME NEW o \in Orders, NEW x \in Orders, Before(o, x) PROVE Before(o, x)'
      <3>1. rows[o].status # "OPEN" => (Expires(o)' => Expires(o))
        BY <1>1 DEF Expires, At
      <3>2. QED
        BY <1>2, <2>1, <3>1, StayBefore
    <2>2. QED
      BY <2>1 DEF CreditInv, AmountsFollow, Stored
  <1>6. CreditsComeFirst'
    BY <1>1 DEF CreditInv, CreditsComeFirst, At
  <1>7. MatchedIsCredited'
    <2>1. \A b \in Bills : events'[b].status = "MATCHED" => <<b, events'[b].order>> \in credited'
      BY DEF CreditInv, MatchedIsCredited
    <2>2. ASSUME raced = {}, NEW pair \in credited
          PROVE  \/ pair[1] \in spoilt'
                 \/ Matched(pair[1], pair[2])'
                 \/ \E u \in Tasks : /\ tasks'[u].pc = "mark" /\ tasks'[u].bill = pair[1]
                                     /\ tasks'[u].order = pair[2]
      <3>1. \/ pair[1] \in spoilt
            \/ Matched(pair[1], pair[2])
            \/ \E u \in Tasks : /\ tasks[u].pc = "mark" /\ tasks[u].bill = pair[1]
                                /\ tasks[u].order = pair[2]
        BY <2>2 DEF CreditInv, MatchedIsCredited, At
      <3>2. pair[1] \in Bills
        BY <2>2, Sizes
      <3>3. Matched(pair[1], pair[2]) => Matched(pair[1], pair[2])'
        BY <3>2 DEF Matched
      <3>4. QED
        BY <1>1, <3>1, <3>3
    <2>3. QED
      BY <2>1, <2>2 DEF MatchedIsCredited, At
  <1>8. QED
    BY <1>3, <1>4, <1>5, <1>6, <1>7 DEF CreditInv

LEMMA QuietTasks ==
    ASSUME IInv, CreditInv, NEW t \in Tasks,
           \/ \E o \in Orders : Allocate(t, o) \/ StartExpire(t, o)
           \/ \E b \in Bills : Report(t, b) \/ Claim(t, b)
           \/ Look(t) /\ Found(tasks[t].bill) = {}
           \/ Miss(t) \/ Fail(t)
    PROVE  CreditInv'
  <1>1. Idle.pc = "idle" /\ Idle.bill \notin Bills
    BY BillsAssumption DEF Idle
  <1>2. tasks[t] \in Task /\ \A b \in Bills : events[b] \in Event /\ (events[b].status # "none" => Made(b))
    BY Sizes DEF CreditInv, BillsFit
  <1>3. ASSUME NEW o \in Orders, Allocate(t, o) PROVE CreditInv'
    <2>1. PICK tail \in 0 .. Slots - 1 :
              Become(t, [Idle EXCEPT !.pc = "insert", !.order = o, !.cents = Base[o] + tail])
      BY <1>3 DEF Allocate
    <2> DEFINE task == [Idle EXCEPT !.pc = "insert", !.order = o, !.cents = Base[o] + tail]
    <2>2. Become(t, task) /\ task.pc = "insert" /\ task.order = o /\ task.bill \notin Bills
      BY <2>1, <1>1 DEF Idle
    <2> HIDE DEF task
    <2>3. ~Stored(o) /\ \A u \in Tasks : tasks[u].order # o
      BY <1>3 DEF Allocate, Stored
    <2>4. tasks[t].pc = "idle" /\ UNCHANGED <<now, rows, paidAt, events, credited, raced, spoilt>>
      BY <1>3 DEF Allocate, Free, At
    <2>5. QED
      BY <1>2, <2>2, <2>3, <2>4, QuietTask
  <1>4. ASSUME NEW b \in Bills, Report(t, b) \/ Claim(t, b) PROVE CreditInv'
    <2>1. PICK task : Become(t, task) /\ task.pc = "look" /\ task.bill = b
      <3>1. CASE Report(t, b)
        <4> DEFINE task == [Idle EXCEPT !.pc = "look", !.bill = b]
        <4>1. Become(t, task) /\ task.pc = "look" /\ task.bill = b
          BY <3>1 DEF Report, Idle
        <4> HIDE DEF task
        <4>2. QED
          BY <4>1
      <3>2. CASE Claim(t, b)
        <4> DEFINE task == [Idle EXCEPT !.pc = "look", !.bill = b, !.worker = TRUE,
                              !.attempts = events[b].attempts]
        <4>1. Become(t, task) /\ task.pc = "look" /\ task.bill = b
          BY <3>2 DEF Claim, Idle
        <4> HIDE DEF task
        <4>2. QED
          BY <4>1
      <3>3. QED
        BY <1>4, <3>1, <3>2
    <2>2. tasks[t].pc = "idle" /\ UNCHANGED <<now, rows, paidAt, credited, raced, spoilt>>
      BY <1>4 DEF Report, Claim, Free, At
    <2>3. Made(b)
      BY <1>2, <1>4 DEF Report, Claim
    <2>4. \A x \in Bills :
              /\ events'[x].status # "none" => Made(x)
              /\ "MATCHED" \in {events[x].status, events'[x].status} => events'[x] = events[x]
      <3>1. CASE UNCHANGED events
        BY <1>2, <3>1
      <3>2. CASE Report(t, b)
        <4>1. events \in [Bills -> Event] /\ events[b].status \in {"none", "RECEIVED"}
          BY <3>2, Known DEF Report
        <4>2. events' = [events EXCEPT ![b] = IF @ = NoEvent THEN [@ EXCEPT !.status = "RECEIVED"]
                                              ELSE @]
          BY <3>2 DEF Report
        <4>3. events'[b].status \in {"none", "RECEIVED"}
          BY <4>1, <4>2 DEF Event
        <4>4. QED
          BY <1>2, <2>3, <4>1, <4>2, <4>3
      <3>3. QED
        BY <1>4, <3>1, <3>2 DEF Claim
    <2>5. QED
      BY <2>1, <2>2, <2>3, <2>4, QuietTask
  <1>5. CASE Look(t) /\ Found(tasks[t].bill) = {}
    <2>1. /\ tasks[t].pc = "look" /\ UNCHANGED <<now, rows, paidAt, events, credited, raced, spoilt>>
          /\ Made(tasks[t].bill)
      BY <1>5, Sizes DEF Look, At, CreditInv, BillsFit, TaskKnows
    <2>2. PICK task : Become(t, task) /\ (task = Idle \/ task = [tasks[t] EXCEPT !.pc = "miss"])
      BY <1>5 DEF Look
    <2>3. task.pc \in {"idle", "miss"} /\ task.bill \in {Idle.bill, tasks[t].bill}
      BY <1>1, <1>2, <2>2 DEF Task
    <2>4. QED
      BY <1>1, <1>2, <2>1, <2>2, <2>3, QuietTask
  <1>6. CASE Miss(t)
    <2>1. /\ tasks[t].pc = "miss" /\ UNCHANGED <<now, rows, paidAt, credited, raced, spoilt>>
          /\ Become(t, Idle) /\ tasks[t].bill \in Bills
      BY <1>6, Sizes DEF Miss, At, TaskKnows
    <2>2. PICK b, status, attempts :
              /\ b \in Bills /\ status \in {"RECEIVED", "DEAD_LETTER"}
              /\ events' = IF events[b].status = "RECEIVED"
                           THEN [events EXCEPT ![b].status = status, ![b].attempts = attempts]
                           ELSE events
      BY <1>6, <2>1 DEF Miss
    <2>3. \A x \in Bills :
              /\ events'[x].status # "none" => Made(x)
              /\ "MATCHED" \in {events[x].status, events'[x].status} => events'[x] = events[x]
      <3>1. CASE events[b].status = "RECEIVED"
        <4>1. events \in [Bills -> Event]
          BY Known
        <4>2. events'[b].status = status /\ \A x \in Bills \ {b} : events'[x] = events[x]
          BY <2>2, <3>1, <4>1 DEF Event
        <4>3. QED
          BY <1>2, <2>2, <3>1, <4>2
      <3>2. CASE events[b].status # "RECEIVED"
        BY <1>2, <2>2, <3>2
      <3>3. QED
        BY <3>1, <3>2
    <2>4. QED
      BY <1>1, <2>1, <2>3, QuietTask
  <1>7. CASE Fail(t)
    <2>1. UNCHANGED <<now, rows, paidAt, events, credited, raced>>
      BY <1>7 DEF Fail
    <2>2. spoilt \subseteq spoilt' /\ (tasks[t].pc = "mark" => tasks[t].bill \in spoilt')
      BY <1>7 DEF Fail, At
    <2>3. CASE Become(t, Idle)
      BY <1>1, <1>2, <2>1, <2>2, <2>3, QuietTask
    <2>4. CASE tasks[t].worker /\ ~At(t, "miss") /\ Goto(t, "miss")
      <3>1. PICK task : Become(t, task) /\ task.pc = "miss" /\ task.bill = tasks[t].bill
        BY <1>2, <2>4 DEF Goto, Task
      <3>2. Made(tasks[t].bill)
        BY <2>4, Sizes DEF CreditInv, BillsFit, TaskKnows
      <3>3. QED
        BY <1>2, <2>1, <2>2, <3>1, <3>2, QuietTask
    <2>5. QED
      BY <1>7, <2>3, <2>4 DEF Fail
  <1>8. ASSUME NEW o \in Orders, StartExpire(t, o) PROVE CreditInv'
    <2> DEFINE task == [Idle EXCEPT !.pc = "expire", !.order = o]
    <2>1. Become(t, task) /\ task.pc = "expire" /\ task.order = o /\ task.bill \notin Bills
      BY <1>1, <1>8 DEF StartExpire, Idle
    <2> HIDE DEF task
    <2>2. /\ tasks[t].pc = "idle" /\ UNCHANGED <<now, rows, paidAt, events, credited, raced, spoilt>>
          /\ rows[o].status = "OPEN" /\ ExpireAt(o) < now
      BY <1>8, Sizes DEF StartExpire, Free, At
    <2>3. QED
      BY <1>2, <2>1, <2>2, QuietTask
  <1>9. QED
    BY <1>3, <1>4, <1>5, <1>6, <1>7, <1>8

\* Time and payments: what has credited an order was paid before.
LEMMA WorldFits ==
    ASSUME IInv, CreditInv, Tick \/ \E b \in Bills : Pay(b)
    PROVE  CreditInv'
  <1>1. UNCHANGED <<rows, events, credited, raced, spoilt, tasks>> /\ now' \in Nat /\ now <= now'
    BY Sizes DEF Tick, Pay
  <1>2. \A b \in Bills : Made(b) => paidAt'[b] = paidAt[b]
    BY DEF Tick, Pay, IInv, TypeOK
  <1>3. \A b \in Bills : Made(b) => Made(b)'
    BY <1>2 DEF Made
  <1>4. \A b \in Bills, o \in Orders : Credits(b, o)' <=> Credits(b, o)
    BY <1>1 DEF Credits
  <1>5. CreatedOnce' /\ CreditsComeFirst' /\ MatchedIsCredited'
    BY <1>1 DEF CreditInv, CreatedOnce, CreditsComeFirst, MatchedIsCredited, Matched, At, Stored
  <1>6. BillsFit'
    <2>1. \A o \in Orders :
              /\ Stored(o)' => rows'[o].created <= now'
              /\ Expires(o)' => Stored(o)' /\ ExpireAt(o)' < now'
      BY <1>1, Sizes DEF CreditInv, BillsFit, Stored, Expires, ExpireAt, At
    <2>2. ASSUME NEW b \in Bills, Made(b)'
          PROVE  Stored(For[b])' /\ rows'[For[b]].created <= paidAt'[b] /\ paidAt'[b] <= now'
      <3>1. CASE Made(b)
        BY <1>1, <1>2, <3>1, Sizes DEF CreditInv, BillsFit, Stored
      <3>2. CASE ~Made(b)
        <4>1. paidAt'[b] = now /\ Stored(For[b]) /\ now' = now
          BY <2>2, <3>2 DEF Tick, Pay, Made, Stored, IInv, TypeOK
        <4>2. QED
          BY <1>1, <4>1, Sizes DEF CreditInv, BillsFit, Stored
      <3>3. QED
        BY <3>1, <3>2
    <2>3. /\ \A b \in Bills : events'[b].status # "none" => Made(b)'
          /\ \A t \in Tasks : tasks'[t].bill \in Bills => Made(tasks[t].bill)'
      BY <1>1, <1>3, Sizes DEF CreditInv, BillsFit, TaskKnows
    <2>4. \A b \in Bills, o \in Orders : Credits(b, o)' =>
              /\ Made(b)' /\ Stored(o)' /\ rows'[o].cents = Cents(b)'
              /\ rows'[o].created <= paidAt'[b]
      BY <1>1, <1>2, <1>3, <1>4, CreditFits DEF Stored, Cents
    <2>5. QED
      BY <2>1, <2>2, <2>3, <2>4 DEF BillsFit
  <1>7. AmountsFollow'
    <2>1. ASSUME NEW o \in Orders, NEW x \in Orders, Before(o, x) PROVE Before(o, x)'
      BY <1>1, <1>2, <1>4, <2>1, CreditFits, StayBefore DEF Before, Expires, At
    <2>2. QED
      BY <1>1, <2>1 DEF CreditInv, AmountsFollow, Stored
  <1>8. QED
    BY <1>5, <1>6, <1>7 DEF CreditInv

\* Whatever comes after the order was created when its time was over.
LEMMA ExpireFits ==
    ASSUME IInv, CreditInv, NEW t \in Tasks, Expire(t)
    PROVE  CreditInv'
  <1> DEFINE o == tasks[t].order
  <1>1. tasks[t].pc = "expire" /\ o \in Orders
    BY Sizes DEF Expire, At, TaskKnows
  <1>2. UNCHANGED <<now, paidAt, events, credited, raced, spoilt>>
    BY DEF Expire
  <1>3. /\ rows'[o].status = "EXPIRED" /\ \A x \in Orders \ {o} : rows'[x] = rows[x]
        /\ \A x \in Orders : rows'[x].created = rows[x].created /\ rows'[x].cents = rows[x].cents
    BY <1>1 DEF Expire, IInv, TypeOK, Row
  <1>4. /\ tasks'[t].pc = "idle" /\ tasks'[t].bill \notin Bills
        /\ \A u \in Tasks \ {t} : tasks'[u] = tasks[u]
    BY Known, BillsAssumption DEF Expire, Become, Idle
  <1>5. Expires(o) /\ Stored(o) /\ ExpireAt(o) < now
    BY <1>1 DEF Expires, At, CreditInv, BillsFit
  <1> HIDE DEF o
  <1>6. \A b \in Bills, x \in Orders : Credits(b, x)' <=> Credits(b, x)
    BY <1>1, <1>2, <1>4 DEF Credits
  <1>7. \A x \in Orders : (Stored(x)' <=> Stored(x)) /\ ExpireAt(x)' = ExpireAt(x)
    BY <1>3, <1>5 DEF Stored, ExpireAt
  <1>8. \A x \in Orders : Expires(x)' => Expires(x)
    BY <1>3, <1>4, <1>5 DEF Expires, At
  <1>9. CreatedOnce'
    BY <1>4, <1>7, Sizes DEF CreditInv, CreatedOnce, At, TaskKnows
  <1>10. BillsFit'
    <2>1. \A x \in Orders :
              /\ Stored(x)' => rows'[x].created <= now'
              /\ Expires(x)' => Stored(x)' /\ ExpireAt(x)' < now'
      BY <1>2, <1>3, <1>7, <1>8 DEF CreditInv, BillsFit
    <2>2. \A d \in Bills : Made(d)' =>
              Stored(For[d])' /\ rows'[For[d]].created <= paidAt'[d] /\ paidAt'[d] <= now'
      BY <1>2, <1>3, <1>7, Sizes DEF CreditInv, BillsFit, Made
    <2>3. /\ \A d \in Bills : events'[d].status # "none" => Made(d)'
          /\ \A u \in Tasks : tasks'[u].bill \in Bills => Made(tasks[u].bill)'
      BY <1>2, <1>4 DEF CreditInv, BillsFit, Made
    <2>4. \A d \in Bills, x \in Orders : Credits(d, x)' =>
              /\ Made(d)' /\ Stored(x)' /\ rows'[x].cents = Cents(d)'
              /\ rows'[x].created <= paidAt'[d]
      BY <1>2, <1>3, <1>6, <1>7, CreditFits, Sizes DEF Made, Cents
    <2>5. QED
      BY <2>1, <2>2, <2>3, <2>4 DEF BillsFit
  <1>11. AmountsFollow'
    <2>1. ASSUME NEW a \in Orders, NEW x \in Orders, Before(a, x) PROVE Before(a, x)'
      <3>1. rows[a].status # "OPEN" => rows'[a].status # "OPEN"
        BY <1>3
      <3>2. QED
        BY <1>2, <1>3, <1>6, <1>8, <2>1, <3>1, StayBefore
    <2>2. QED
      BY <1>2, <1>3, <1>7, <2>1 DEF CreditInv, AmountsFollow
  <1>12. CreditsComeFirst'
    BY <1>2, <1>3, <1>4 DEF CreditInv, CreditsComeFirst, At
  <1>13. MatchedIsCredited'
    <2>1. \A u \in Tasks : tasks[u].pc = "mark" => tasks'[u] = tasks[u]
      BY <1>1, <1>4
    <2>2. QED
      BY <1>2, <2>1 DEF CreditInv, MatchedIsCredited, Matched, At
  <1>14. QED
    BY <1>9, <1>10, <1>11, <1>12, <1>13 DEF CreditInv

\* An order that is stored now comes after all orders of its amount.
LEMMA InsertFits ==
    ASSUME IInv, CreditInv, NEW t \in Tasks, Insert(t)
    PROVE  CreditInv'
  <1>1. PICK o \in Orders : o = tasks[t].order
    BY Sizes DEF Insert, At, TaskKnows
  <1>2. /\ UNCHANGED <<now, paidAt, events, credited, spoilt>> /\ tasks[t].pc = "insert"
        /\ \A b \in Bills : Made(b) => paidAt[b] < now
        /\ raced' = IF tasks[t].stale THEN raced \cup {o} ELSE raced
    BY <1>1 DEF Insert, At
  <1>3. /\ rows'[o].status = "OPEN" /\ rows'[o].cents = tasks[t].cents /\ rows'[o].created = now
        /\ \A x \in Orders \ {o} : rows'[x] = rows[x]
    BY <1>1 DEF Insert, IInv, TypeOK
  <1>4. /\ tasks'[t].pc = "idle" /\ tasks'[t].bill \notin Bills
        /\ \A u \in Tasks \ {t} : /\ tasks'[u].pc = tasks[u].pc /\ tasks'[u].order = tasks[u].order
                                  /\ tasks'[u].bill = tasks[u].bill
    <2>1. tasks'[t] = Idle
      BY DEF Insert
    <2>2. ASSUME NEW u \in Tasks \ {t}
          PROVE  /\ tasks'[u].pc = tasks[u].pc /\ tasks'[u].order = tasks[u].order
                 /\ tasks'[u].bill = tasks[u].bill
      <3> DEFINE late == tasks[u].pc = "insert"
      <3>1. tasks'[u] = [tasks[u] EXCEPT !.stale = late] /\ tasks[u] \in Task
        BY Sizes DEF Insert
      <3> HIDE DEF late
      <3>2. QED
        BY <3>1 DEF Task
    <2>3. QED
      BY <2>1, <2>2, BillsAssumption DEF Idle
  <1>5. ~Stored(o) /\ \A u \in Tasks \ {t} : tasks[u].pc = "insert" => tasks[u].order # o
    BY <1>1, <1>2 DEF CreditInv, CreatedOnce, At
  <1>6. \A b \in Bills, x \in Orders : Credits(b, x)' <=> Credits(b, x)
    BY <1>2, <1>4 DEF Credits
  <1>7. \A b \in Bills, x \in Orders : Credits(b, x) => x # o
    BY <1>5, CreditFits
  <1>8. \A x \in Orders : Expires(x)' => Expires(x) /\ x # o
    <2>1. ~Expires(o)
      BY <1>5 DEF CreditInv, BillsFit
    <2>2. QED
      BY <1>3, <1>4, <2>1 DEF Expires, At
  <1>9. \A b \in Bills : Made(b) => For[b] # o
    BY <1>5 DEF CreditInv, BillsFit
  <1>10. CreatedOnce'
    BY <1>3, <1>4, <1>5, Sizes DEF CreditInv, CreatedOnce, At, Stored, TaskKnows
  <1>11. BillsFit'
    <2>1. \A x \in Orders :
              /\ Stored(x)' => rows'[x].created <= now'
              /\ Expires(x)' => Stored(x)' /\ ExpireAt(x)' < now'
      BY <1>2, <1>3, <1>8, Sizes DEF CreditInv, BillsFit, Stored, ExpireAt
    <2>2. \A b \in Bills : Made(b)' =>
              Stored(For[b])' /\ rows'[For[b]].created <= paidAt'[b] /\ paidAt'[b] <= now'
      BY <1>2, <1>3, <1>9, Sizes DEF CreditInv, BillsFit, Made, Stored
    <2>3. /\ \A b \in Bills : events'[b].status # "none" => Made(b)'
          /\ \A u \in Tasks : tasks'[u].bill \in Bills => Made(tasks[u].bill)'
      BY <1>2, <1>4 DEF CreditInv, BillsFit, Made
    <2>4. ASSUME NEW b \in Bills, NEW x \in Orders, Credits(b, x)'
          PROVE  /\ Made(b)' /\ Stored(x)' /\ rows'[x].cents = Cents(b)'
                 /\ rows'[x].created <= paidAt'[b]
      <3>1. Credits(b, x) /\ x # o
        BY <1>6, <1>7, <2>4
      <3>2. For[b] # o /\ For[b] \in Orders
        BY <1>9, <3>1, CreditFits, Sizes
      <3>3. QED
        BY <1>2, <1>3, <3>1, <3>2, CreditFits DEF Made, Stored, Cents
    <2>5. QED
      BY <2>1, <2>2, <2>3, <2>4 DEF BillsFit
  <1>12. AmountsFollow'
    <2>1. ASSUME NEW a \in Orders \ {o}, NEW x \in Orders \ {o}, Before(a, x) PROVE Before(a, x)'
      BY <1>2, <1>3, <1>6, <1>8, <2>1, StayBefore
    <2>2. ASSUME raced' = {}, NEW x \in Orders \ {o}, Stored(x), rows[x].cents = rows'[o].cents
          PROVE  Before(x, o)'
      <3>1. rows[x].status # "OPEN"
        BY <1>1, <1>2, <1>3, <2>2 DEF IInv, At, Used
      <3>2. Expires(x)' => ExpireAt(x) < now
        BY <1>8 DEF CreditInv, BillsFit
      <3>3. \A b \in Bills : Credits(b, x)' => paidAt[b] < now
        BY <1>2, <1>6, CreditFits
      <3>4. QED
        BY <1>2, <1>3, <3>1, <3>2, <3>3 DEF Before, ExpireAt
    <2>3. SUFFICES ASSUME raced' = {}, NEW a \in Orders, NEW x \in Orders, a # x,
                          Stored(a)', Stored(x)', rows'[a].cents = rows'[x].cents
                   PROVE  Before(a, x)' \/ Before(x, a)'
      BY DEF AmountsFollow
    <2>4. CASE a = o
      BY <1>3, <2>2, <2>3, <2>4 DEF Stored
    <2>5. CASE x = o
      BY <1>3, <2>2, <2>3, <2>5 DEF Stored
    <2>6. CASE a # o /\ x # o
      <3>1. raced = {} /\ Stored(a) /\ Stored(x) /\ rows[a].cents = rows[x].cents
        BY <1>2, <1>3, <2>3, <2>6 DEF Stored
      <3>2. Before(a, x) \/ Before(x, a)
        BY <2>3, <3>1 DEF CreditInv, AmountsFollow
      <3>3. QED
        BY <2>1, <2>6, <3>2
    <2>7. QED
      BY <2>4, <2>5, <2>6
  <1>13. CreditsComeFirst'
    BY <1>2, <1>3, <1>4 DEF CreditInv, CreditsComeFirst, At
  <1>14. MatchedIsCredited'
    <2>1. raced' = {} => raced = {}
      BY <1>2
    <2>2. \A u \in Tasks : tasks[u].pc = "mark" =>
              /\ tasks'[u].pc = "mark" /\ tasks'[u].bill = tasks[u].bill
              /\ tasks'[u].order = tasks[u].order
      BY <1>2, <1>4
    <2>3. QED
      BY <1>2, <2>1, <2>2 DEF CreditInv, MatchedIsCredited, Matched, At
  <1>15. QED
    BY <1>10, <1>11, <1>12, <1>13, <1>14 DEF CreditInv

\* The order that is found was there when the bill was paid, and no other came after it.
LEMMA LookFinds ==
    ASSUME IInv, CreditInv, NEW t \in Tasks, Look(t), Found(tasks[t].bill) # {}
    PROVE  CreditInv'
  <1> DEFINE b == tasks[t].bill
  <1>1. PICK o \in Found(b) : Become(t, [tasks[t] EXCEPT !.pc = "apply", !.order = o])
    BY DEF Look
  <1>2. /\ UNCHANGED <<now, rows, paidAt, events, credited, raced, spoilt>>
        /\ tasks[t].pc = "look" /\ b \in Bills /\ Made(b)
    BY Sizes DEF Look, At, TaskKnows, CreditInv, BillsFit
  <1>3. o \in Candidates(b)
    BY <1>1 DEF Found
  <1>4. /\ o \in Orders /\ Stored(o) /\ rows[o].cents = Cents(b) /\ rows[o].created <= paidAt[b]
        /\ rows[o].status = "OPEN" \/ (rows[o].status = "EXPIRED" /\ ExpireAt(o) >= paidAt[b])
    BY <1>3 DEF Candidates, Stored
  <1>5. /\ tasks'[t].pc = "apply" /\ tasks'[t].bill = b /\ tasks'[t].order = o
        /\ \A u \in Tasks \ {t} : tasks'[u] = tasks[u]
    BY <1>1, Known DEF Become, Task
  <1> HIDE DEF b
  <1>6. ASSUME NEW d \in Bills, NEW x \in Orders, Credits(d, x)'
        PROVE  Credits(d, x) \/ (d = b /\ x = o)
    BY <1>2, <1>5, <1>6 DEF Credits
  <1>7. \A x \in Orders : Expires(x)' <=> Expires(x)
    BY <1>2, <1>5 DEF Expires, At
  <1>8. CreatedOnce'
    BY <1>2, <1>5 DEF CreditInv, CreatedOnce, At, Stored
  <1>9. BillsFit'
    <2>1. \A u \in Tasks : tasks'[u].bill \in Bills => Made(tasks'[u].bill)
      BY <1>2, <1>5 DEF CreditInv, BillsFit
    <2>2. QED
      BY <1>2, <1>4, <1>6, <1>7, <2>1 DEF CreditInv, BillsFit, Made, Stored, ExpireAt, Cents
  <1>10. AmountsFollow'
    <2>1. ASSUME NEW a \in Orders, NEW x \in Orders, Before(a, x) PROVE Before(a, x)'
      <3>1. rows[a].status # "OPEN" => \A d \in Bills : Credits(d, a)' =>
                Credits(d, a) \/ paidAt[d] < rows[x].created
        <4>1. rows[o].status = "EXPIRED" /\ a = o => paidAt[b] < rows[x].created
          BY <1>2, <1>4, <2>1, Sizes DEF Before, Expires
        <4>2. QED
          BY <1>4, <1>6, <4>1
      <3>2. QED
        BY <1>2, <1>7, <2>1, <3>1, StayBefore
    <2>2. QED
      BY <1>2, <2>1 DEF CreditInv, AmountsFollow, Stored
  <1>11. CreditsComeFirst'
    BY <1>2, <1>5 DEF CreditInv, CreditsComeFirst, At
  <1>12. MatchedIsCredited'
    <2>1. \A u \in Tasks : tasks[u].pc = "mark" => tasks'[u] = tasks[u]
      BY <1>2, <1>5
    <2>2. QED
      BY <1>2, <2>1 DEF CreditInv, MatchedIsCredited, Matched, At
  <1>13. QED
    BY <1>8, <1>9, <1>10, <1>11, <1>12 DEF CreditInv

LEMMA ApplyCredits ==
    ASSUME IInv, CreditInv, NEW t \in Tasks, Apply(t)
    PROVE  CreditInv'
  <1> DEFINE b == tasks[t].bill
             o == tasks[t].order
  <1>1. tasks[t].pc = "apply" /\ b \in Bills /\ o \in Orders
    BY Sizes DEF Apply, At, TaskKnows
  <1>2. /\ UNCHANGED <<now, paidAt, events, raced, spoilt>>
        /\ credited' = credited \cup {<<b, o>>}
        /\ \A x \in Orders : /\ rows'[x].cents = rows[x].cents /\ rows'[x].created = rows[x].created
                             /\ rows'[x].status = IF x = o THEN "SUCCEEDED" ELSE rows[x].status
    BY <1>1, Known DEF Apply, Row
  <1>3. /\ tasks'[t].pc = "mark" /\ tasks'[t].bill = b /\ tasks'[t].order = o
        /\ \A u \in Tasks \ {t} : tasks'[u] = tasks[u]
    BY Known DEF Apply, Goto, Become, Task
  <1>4. Credits(b, o) /\ Stored(o)
    <2>1. Credits(b, o)
      BY <1>1 DEF Credits
    <2>2. QED
      BY <1>1, <2>1, CreditFits
  <1> HIDE DEF b, o
  <1>5. ASSUME NEW d \in Bills, NEW x \in Orders, Credits(d, x)' PROVE Credits(d, x)
    BY <1>2, <1>3, <1>4, <1>5 DEF Credits, b, o
  <1>6. \A x \in Orders : Stored(x)' <=> Stored(x)
    BY <1>2, <1>4 DEF Stored
  <1>7. \A x \in Orders : Expires(x)' => Expires(x)
    BY <1>1, <1>2, <1>3 DEF Expires, At
  <1>8. CreatedOnce'
    BY <1>3, <1>6, Sizes DEF CreditInv, CreatedOnce, At, TaskKnows
  <1>9. BillsFit'
    <2>1. \A x \in Orders :
              /\ Stored(x)' => rows'[x].created <= now'
              /\ Expires(x)' => Stored(x)' /\ ExpireAt(x)' < now'
      BY <1>2, <1>6, <1>7 DEF CreditInv, BillsFit, ExpireAt
    <2>2. \A d \in Bills : Made(d)' =>
              Stored(For[d])' /\ rows'[For[d]].created <= paidAt'[d] /\ paidAt'[d] <= now'
      BY <1>2, <1>6, Sizes DEF CreditInv, BillsFit, Made
    <2>3. /\ \A d \in Bills : events'[d].status # "none" => Made(d)'
          /\ \A u \in Tasks : tasks'[u].bill \in Bills => Made(tasks[u].bill)'
      BY <1>1, <1>2, <1>3 DEF CreditInv, BillsFit, Made, b
    <2>4. \A d \in Bills, x \in Orders : Credits(d, x)' =>
              /\ Made(d)' /\ Stored(x)' /\ rows'[x].cents = Cents(d)'
              /\ rows'[x].created <= paidAt'[d]
      BY <1>2, <1>5, <1>6, CreditFits, Sizes DEF Made, Cents
    <2>5. QED
      BY <2>1, <2>2, <2>3, <2>4 DEF BillsFit
  <1>10. AmountsFollow'
    <2>1. ASSUME NEW a \in Orders, NEW x \in Orders, Before(a, x) PROVE Before(a, x)'
      BY <1>2, <1>5, <1>7, <2>1, StayBefore
    <2>2. QED
      BY <1>2, <1>6, <2>1 DEF CreditInv, AmountsFollow
  <1>11. CreditsComeFirst'
    BY <1>1, <1>2, <1>3 DEF CreditInv, CreditsComeFirst, At
  <1>12. MatchedIsCredited'
    <2>1. \A u \in Tasks : tasks[u].pc = "mark" => tasks'[u] = tasks[u]
      BY <1>1, <1>3
    <2>2. \A d \in Bills : events'[d].status = "MATCHED" => <<d, events'[d].order>> \in credited'
      BY <1>2 DEF CreditInv, MatchedIsCredited
    <2>3. ASSUME raced = {}, NEW pair \in credited'
          PROVE  \/ pair[1] \in spoilt'
                 \/ Matched(pair[1], pair[2])'
                 \/ \E u \in Tasks : /\ tasks'[u].pc = "mark" /\ tasks'[u].bill = pair[1]
                                     /\ tasks'[u].order = pair[2]
      <3>1. CASE pair = <<b, o>>
        BY <1>3, <3>1
      <3>2. CASE pair \in credited
        BY <1>2, <2>1, <2>3, <3>2 DEF CreditInv, MatchedIsCredited, Matched, At
      <3>3. QED
        BY <1>2, <3>1, <3>2
    <2>4. QED
      BY <1>2, <2>2, <2>3 DEF MatchedIsCredited, At
  <1>13. QED
    BY <1>8, <1>9, <1>10, <1>11, <1>12 DEF CreditInv

\* The bill is marked with the one order it has credited.
LEMMA MarkMatches ==
    ASSUME IInv, CreditInv, NEW t \in Tasks, Mark(t)
    PROVE  CreditInv'
  <1> DEFINE b == tasks[t].bill
             o == tasks[t].order
  <1>1. tasks[t].pc = "mark" /\ b \in Bills /\ o \in Orders
    BY Sizes DEF Mark, At, TaskKnows
  <1>2. UNCHANGED <<now, rows, paidAt, credited, raced>> /\ spoilt' = spoilt \ {b}
    BY DEF Mark
  <1>3. /\ tasks'[t].pc = "idle" /\ tasks'[t].bill \notin Bills
        /\ \A u \in Tasks \ {t} : tasks'[u] = tasks[u]
    BY Known, BillsAssumption DEF Mark, Become, Idle
  <1>4. <<b, o>> \in credited /\ Made(b)
    BY <1>1, Sizes DEF CreditInv, CreditsComeFirst, BillsFit, At
  <1>5. /\ events'[b].status = "MATCHED" /\ events'[b].order = o
        /\ \A d \in Bills \ {b} : events'[d] = events[d]
    BY <1>1, Known DEF Mark
  <1>6. \A u \in Tasks : tasks[u].pc = "mark" => tasks'[u] = tasks[u] \/ tasks[u].bill = b
    BY <1>3
  <1> HIDE DEF b, o
  <1>7. ASSUME NEW d \in Bills, NEW x \in Orders, Credits(d, x)' PROVE Credits(d, x)
    BY <1>2, <1>3, <1>7 DEF Credits
  <1>8. \A x \in Orders : Expires(x)' <=> Expires(x)
    BY <1>1, <1>2, <1>3 DEF Expires, At
  <1>9. CreatedOnce'
    BY <1>2, <1>3 DEF CreditInv, CreatedOnce, At, Stored
  <1>10. BillsFit'
    <2>1. /\ \A d \in Bills : events'[d].status # "none" => Made(d)
          /\ \A u \in Tasks : tasks'[u].bill \in Bills => Made(tasks'[u].bill)
      BY <1>3, <1>4, <1>5 DEF CreditInv, BillsFit
    <2>2. QED
      BY <1>2, <1>7, <1>8, <2>1 DEF CreditInv, BillsFit, Made, Stored, ExpireAt, Cents
  <1>11. AmountsFollow'
    <2>1. ASSUME NEW a \in Orders, NEW x \in Orders, Before(a, x) PROVE Before(a, x)'
      BY <1>2, <1>7, <1>8, <2>1, StayBefore
    <2>2. QED
      BY <1>2, <2>1 DEF CreditInv, AmountsFollow, Stored
  <1>12. CreditsComeFirst'
    BY <1>2, <1>3 DEF CreditInv, CreditsComeFirst, At
  <1>13. MatchedIsCredited'
    <2>1. \A d \in Bills : events'[d].status = "MATCHED" => <<d, events'[d].order>> \in credited'
      BY <1>2, <1>4, <1>5 DEF CreditInv, MatchedIsCredited
    <2>2. ASSUME raced = {}, NEW pair \in credited
          PROVE  \/ pair[1] \in spoilt'
                 \/ Matched(pair[1], pair[2])'
                 \/ \E u \in Tasks : /\ tasks'[u].pc = "mark" /\ tasks'[u].bill = pair[1]
                                     /\ tasks'[u].order = pair[2]
      <3>1. pair[1] \in Bills /\ pair[2] \in Orders /\ pair = <<pair[1], pair[2]>>
        BY <2>2, Sizes
      <3>2. CASE pair[1] = b
        <4>1. Credits(b, o) /\ Credits(b, pair[2])
          BY <1>4, <2>2, <3>1, <3>2 DEF Credits
        <4>2. pair[2] = o
          BY <1>1, <2>2, <3>1, <4>1, OneOrder DEF b, o
        <4>3. QED
          BY <1>5, <3>2, <4>2 DEF Matched
      <3>3. CASE pair[1] # b
        <4>1. \/ pair[1] \in spoilt
              \/ Matched(pair[1], pair[2])
              \/ \E u \in Tasks : /\ tasks[u].pc = "mark" /\ tasks[u].bill = pair[1]
                                  /\ tasks[u].order = pair[2]
          BY <2>2 DEF CreditInv, MatchedIsCredited, At
        <4>2. Matched(pair[1], pair[2]) => Matched(pair[1], pair[2])'
          BY <1>5, <3>1, <3>3 DEF Matched
        <4>3. QED
          BY <1>2, <1>6, <3>3, <4>1, <4>2
      <3>4. QED
        BY <3>2, <3>3
    <2>3. QED
      BY <1>2, <2>1, <2>2 DEF MatchedIsCredited, At
  <1>14. QED
    BY <1>9, <1>10, <1>11, <1>12, <1>13 DEF CreditInv

LEMMA CreditNext == IInv /\ CreditInv /\ [Next]_vars => CreditInv'
  <1> SUFFICES ASSUME IInv, CreditInv, [Next]_vars PROVE CreditInv'
    OBVIOUS
  <1>1. CASE Tick \/ \E b \in Bills : Pay(b)
    BY <1>1, WorldFits
  <1>3. ASSUME NEW t \in Tasks,
               \/ \E o \in Orders : Allocate(t, o) \/ StartExpire(t, o)
               \/ \E b \in Bills : Report(t, b) \/ Claim(t, b)
        PROVE  CreditInv'
    BY <1>3, QuietTasks
  <1>4. ASSUME NEW t \in Tasks, Step(t) \/ Fail(t) PROVE CreditInv'
    BY <1>4, InsertFits, ExpireFits, LookFinds, ApplyCredits, MarkMatches, QuietTasks DEF Step
  <1>5. CASE UNCHANGED vars
    BY <1>5 DEF vars, CreditInv, CreatedOnce, BillsFit, AmountsFollow, CreditsComeFirst,
       MatchedIsCredited, Matched, Made, Stored, Credits, Before, Expires, ExpireAt, Cents, At
  <1>6. QED
    BY <1>1, <1>3, <1>4, <1>5 DEF Next

\* If the bill was paid in time, its order could have been found as well: another bill paid it.
LEMMA CreditsAreRight == IInv /\ CreditInv => RightOrderIsCredited
  <1> SUFFICES ASSUME IInv, CreditInv, raced = {}, NEW pair \in credited
               PROVE  pair[2] = For[pair[1]] \/ ~InTime(pair[1]) \/ Again(pair[1])
    BY DEF RightOrderIsCredited
  <1> DEFINE b == pair[1]
             x == pair[2]
             f == For[b]
  <1>1. b \in Bills /\ x \in Orders /\ f \in Orders /\ pair = <<b, x>>
    BY Sizes
  <1> SUFFICES ASSUME x # f, InTime(b) PROVE Again(b)
    OBVIOUS
  <1>2. Credits(b, x)
    BY <1>1 DEF Credits
  <1>3. Stored(x) /\ rows[x].cents = rows[f].cents /\ rows[x].created <= paidAt[b]
    BY <1>1, <1>2, CreditFits DEF Cents
  <1>4. Stored(f) /\ rows[f].created <= paidAt[b] /\ paidAt[b] <= ExpireAt(f)
    BY <1>1 DEF CreditInv, BillsFit, InTime
  <1>5. ~Before(x, f)
    BY <1>1, <1>2, <1>4, Sizes DEF Before
  <1>6. Before(f, x)
    BY <1>1, <1>3, <1>4, <1>5 DEF CreditInv, AmountsFollow
  <1>7. rows[f].status = "SUCCEEDED"
    BY <1>1, <1>3, <1>4, <1>6, Sizes DEF Before, Expires, Stored, Row, RowStatuses
  <1>8. PICK d \in Bills : <<d, f>> \in credited
    BY <1>1, <1>7 DEF CreditInv, CreditsComeFirst
  <1>9. paidAt[d] < rows[x].created
    BY <1>6, <1>8 DEF Before, Credits
  <1>10. d # b
    BY <1>1, <1>3, <1>9, Sizes
  <1>11. QED
    BY <1>8, <1>10 DEF Again

-----------------------------------------------------------------------------
(* The theorems                                                              *)

\* What was chosen stays free until another order is stored (orders/service.ts:227, 743).
THEOREM Invariance == Spec => []IInv
  <1>1. QED
    BY InitInvariant, NextInvariant, PTL DEF Spec

\* Open orders have different amounts unless their creations raced, for any amounts, tails and
\* tasks (orders/service.ts:227, 743).
THEOREM AmountsDifferAlways == Spec => []AmountsDiffer
  <1>1. IInv => AmountsDiffer
    BY DEF IInv
  <1>2. QED
    BY <1>1, Invariance, PTL

\* Orders of one amount follow each other, and bills credit orders that were there when they
\* were paid (orders/service.ts:227, ctf-bill-capture/service.ts:279-370).
THEOREM CreditInvariance == Spec => [](IInv /\ CreditInv)
  <1>1. Init => IInv /\ CreditInv
    BY InitInvariant, CreditInit
  <1>2. IInv /\ CreditInv /\ [Next]_vars => IInv' /\ CreditInv'
    BY NextInvariant, CreditNext
  <1>3. QED
    BY <1>1, <1>2, PTL DEF Spec

\* A bill credits the order it was paid for, for any orders, bills and tasks, unless it was paid
\* late or for the second time, or amounts raced (ctf-bill-capture/service.ts:279-370).
THEOREM RightOrderIsCreditedAlways == Spec => []RightOrderIsCredited
  <1>1. QED
    BY CreditInvariance, CreditsAreRight, PTL

\* A bill credits one order, however often it is matched, unless amounts raced
\* (ctf-bill-capture/service.ts:382, 400).
THEOREM OneOrderPerBillAlways == Spec => []OneOrderPerBill
  <1>1. IInv /\ CreditInv => OneOrderPerBill
    <2> SUFFICES ASSUME IInv, CreditInv, raced = {}, NEW one \in credited, NEW two \in credited,
                        one[1] = two[1]
                 PROVE  one = two
      BY DEF OneOrderPerBill
    <2>1. /\ one[1] \in Bills /\ one[2] \in Orders /\ one = <<one[1], one[2]>>
          /\ two[2] \in Orders /\ two = <<one[1], two[2]>>
      BY Sizes
    <2>2. Credits(one[1], one[2]) /\ Credits(one[1], two[2])
      BY <2>1 DEF Credits
    <2>3. one[2] = two[2]
      BY <2>1, <2>2, OneOrder
    <2>4. QED
      BY <2>1, <2>3
  <1>2. QED
    BY <1>1, CreditInvariance, PTL

\* Credits and MATCHED bills agree, unless an error came between
\* (ctf-bill-capture/service.ts:400, 419).
THEOREM MatchedIsCreditedAlways == Spec => []MatchedIsCredited
  <1>1. IInv /\ CreditInv => MatchedIsCredited
    BY DEF CreditInv
  <1>2. QED
    BY <1>1, CreditInvariance, PTL

\* Every variable keeps its type (ctf-bill-capture/service.ts:372-680).
THEOREM TypeCorrect == Spec => []TypeOK
  <1>1. IInv => TypeOK
    BY DEF IInv
  <1>2. QED
    BY <1>1, Invariance, PTL

=============================================================================
