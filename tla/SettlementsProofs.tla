------------------------- MODULE SettlementsProofs -------------------------
(***************************************************************************)
(* Theorems about Settlements, for any ledger entries, amounts, workers,      *)
(* administrators and hold: what is paid out, and that it stays what it was.  *)
(*                                                                         *)
(* No step reads the balances before it writes a settlement, so the           *)
(* invariant leaves them out.                                                *)
(***************************************************************************)
EXTENDS Settlements, TLAPS

-----------------------------------------------------------------------------
(* Tasks                                                                     *)

LEMMA BeginningTyped ==
    ASSUME NEW pc \in PCs
    PROVE  /\ Beginning(pc) \in Task
           /\ Beginning(pc).pc = pc
           /\ Beginning(pc).taken = {}
           /\ Beginning(pc).todo = {}
           /\ Beginning(pc).day = 0
           /\ Beginning(pc).now = 0
           /\ Beginning(pc).stale = FALSE
    BY SettlementsAssumption DEF Beginning, Task

LEMMA BeginningKnows ==
    ASSUME NEW pc \in PCs, pc \notin {"upsert", "pay"}
    PROVE  Beginning(pc) \in Task /\ TaskReads(Beginning(pc)) /\ TaskKnows(Beginning(pc))
    BY BeginningTyped DEF TaskReads, TaskKnows

LEMMA InitInvariant == Init => IInv
  <1> SUFFICES ASSUME Init PROVE IInv
    OBVIOUS
  <1> USE DEF Init
  <1>1. Idle \in Task /\ TaskReads(Idle) /\ TaskKnows(Idle)
    <2>1. "idle" \in PCs /\ "idle" \notin {"upsert", "pay"}
      BY DEF PCs
    <2>2. QED
      BY <2>1, BeginningKnows DEF Idle
  <1>2. SettlementTypes
    <2>1. rows \in [Days -> Settlement] /\ payouts \in [Days -> Payout]
      BY SettlementsAssumption DEF Settlement, SettlementStatuses, Payout
    <2>2. tasks \in [Tasks -> Task]
      BY <1>1
    <2>3. QED
      BY <2>1, <2>2, SettlementsAssumption DEF SettlementTypes
  <1>3. ReadFromLedger /\ KnownUnlessStale
    BY <1>1 DEF ReadFromLedger, KnownUnlessStale
  <1>4. PaidOutAsShown /\ PaidFromItsDay
    BY DEF PaidOutAsShown, PaidFromItsDay
  <1>5. QED
    BY <1>2, <1>3, <1>4 DEF IInv

\* A step that changes one task and writes no settlement.
LEMMA TaskStep ==
    ASSUME IInv,
           NEW t \in Tasks, NEW task \in Task, TaskReads(task), TaskKnows(task),
           Become(t, task),
           UNCHANGED <<today, occurred, booked, rows, payouts, raced>>,
           faults' \in 0 .. MaxFaults
    PROVE  IInv'
  <1> USE DEF IInv
  <1>1. tasks' \in [Tasks -> Task] /\ tasks'[t] = task /\ \A u \in Tasks \ {t} : tasks'[u] = tasks[u]
    BY DEF Become, SettlementTypes
  <1>2. SettlementTypes'
    BY <1>1 DEF SettlementTypes
  <1>3. ReadFromLedger'
    <2>1. \A u \in Tasks : TaskReads(tasks[u])'
      BY <1>1 DEF ReadFromLedger, TaskReads, OfDay
    <2>2. QED
      BY <2>1 DEF ReadFromLedger, OfDay
  <1>4. KnownUnlessStale'
    BY <1>1 DEF KnownUnlessStale, TaskKnows
  <1>5. PaidOutAsShown' /\ PaidFromItsDay'
    BY DEF PaidOutAsShown, PaidFromItsDay, OfDay
  <1>6. QED
    BY <1>2, <1>3, <1>4, <1>5

\* Booking disturbs nothing: what is in the ledger stays there.
LEMMA BookingStep ==
    ASSUME IInv, booked \subseteq booked', booked' \subseteq Entries,
           \A e \in booked' : occurred[e] # 0,
           UNCHANGED <<today, occurred, rows, payouts, tasks, raced, faults>>
    PROVE  IInv'
  <1> USE DEF IInv
  <1>1. SettlementTypes'
    BY DEF SettlementTypes
  <1>2. ReadFromLedger'
    <2>1. \A d \in Days : (rows[d].entries \subseteq OfDay(booked, d))'
      BY DEF ReadFromLedger, OfDay
    <2>2. \A u \in Tasks : TaskReads(tasks[u])'
      BY DEF ReadFromLedger, TaskReads, OfDay
    <2>3. QED
      BY <2>1, <2>2 DEF ReadFromLedger, OfDay
  <1>3. KnownUnlessStale' /\ PaidOutAsShown' /\ PaidFromItsDay'
    BY DEF KnownUnlessStale, TaskKnows, PaidOutAsShown, PaidFromItsDay, OfDay
  <1>4. QED
    BY <1>1, <1>2, <1>3

LEMMA OccurInvariant ==
    ASSUME IInv, NEW e \in Entries, Occur(e)
    PROVE  IInv'
  <1> USE DEF IInv, Occur
  <1>1. e \notin booked
    BY DEF ReadFromLedger
  <1>2. \A x \in booked : occurred'[x] = occurred[x]
    BY <1>1 DEF SettlementTypes
  <1>3. SettlementTypes'
    BY SettlementsAssumption DEF SettlementTypes
  <1>4. ReadFromLedger'
    <2>1. \A d \in Days : (rows[d].entries \subseteq OfDay(booked, d))'
      BY <1>2 DEF ReadFromLedger, OfDay
    <2>2. \A u \in Tasks : TaskReads(tasks[u])'
      BY <1>2 DEF ReadFromLedger, TaskReads, OfDay
    <2>3. QED
      BY <1>2, <2>1, <2>2 DEF ReadFromLedger, OfDay
  <1>5. KnownUnlessStale' /\ PaidOutAsShown'
    BY DEF KnownUnlessStale, TaskKnows, PaidOutAsShown
  <1>6. PaidFromItsDay'
    BY <1>2 DEF PaidFromItsDay, OfDay
  <1>7. QED
    BY <1>3, <1>4, <1>5, <1>6

LEMMA MaintainInvariant ==
    ASSUME IInv, NEW t \in Tasks, Maintain(t)
    PROVE  IInv'
  <1> USE DEF IInv, Maintain
  <1> DEFINE now == booked \cup {e \in Entries : occurred[e] # 0}
  <1>1. Beginning("entries") \in Task
    BY BeginningTyped DEF PCs
  <1>2. tasks' \in [Tasks -> Task]
    BY <1>1 DEF Become, SettlementTypes
  <1>3. SettlementTypes'
    BY <1>2 DEF SettlementTypes
  <1>4. ASSUME NEW u \in Tasks
        PROVE  /\ TaskReads(tasks[u])'
               /\ TaskKnows(tasks[u])'
    <2>1. CASE u = t
      <3>1. tasks'[u] = Beginning("entries")
        BY <2>1 DEF Become, SettlementTypes
      <3>2. Beginning("entries").pc = "entries" /\ Beginning("entries").taken = {}
        BY BeginningTyped DEF PCs
      <3>3. QED
        BY <3>1, <3>2 DEF TaskReads, TaskKnows
    <2>2. CASE u # t
      <3>1. tasks'[u] = tasks[u]
        BY <2>2 DEF Become, SettlementTypes
      <3>2. QED
        BY <3>1 DEF ReadFromLedger, KnownUnlessStale, TaskReads, TaskKnows, OfDay
    <2>3. QED
      BY <2>1, <2>2
  <1>5. ReadFromLedger' /\ KnownUnlessStale'
    BY <1>4 DEF ReadFromLedger, KnownUnlessStale, OfDay
  <1>6. PaidOutAsShown' /\ PaidFromItsDay'
    BY DEF PaidOutAsShown, PaidFromItsDay, OfDay
  <1>7. QED
    BY <1>3, <1>5, <1>6

-----------------------------------------------------------------------------
(* Steps that read                                                           *)

LEMMA Beginnings ==
    {"idle", "entries", "find", "snapread", "snap"} \subseteq PCs \ {"upsert", "pay"}
    BY DEF PCs

LEMMA ReadEntriesInvariant ==
    ASSUME IInv, NEW t \in Tasks, ReadEntries(t)
    PROVE  IInv'
  <1> DEFINE taken == {e \in booked : occurred[e] <= Cutoff}
             task == [Beginning("find") EXCEPT !.taken = taken, !.todo = {occurred[e] : e \in taken}]
  <1>1. {occurred[e] : e \in taken} \subseteq Days
    <2>1. \A e \in booked : occurred[e] \in Days
      BY SettlementsAssumption DEF IInv, SettlementTypes, ReadFromLedger, Days
    <2>2. QED
      BY <2>1
  <1>2. task \in Task /\ task.pc = "find" /\ task.taken = taken
    <2>1. Beginning("find") \in Task /\ Beginning("find").pc = "find"
      BY BeginningTyped DEF PCs
    <2>2. taken \in SUBSET Entries /\ {occurred[e] : e \in taken} \in SUBSET Days
      BY <1>1 DEF IInv, SettlementTypes
    <2> HIDE DEF taken
    <2>3. QED
      BY <2>1, <2>2 DEF Task
  <1>3. TaskReads(task) /\ TaskKnows(task)
    BY <1>2 DEF TaskReads, TaskKnows
  <1>4. Become(t, task) /\ UNCHANGED <<today, occurred, booked, rows, payouts, raced, faults>>
    BY DEF ReadEntries
  <1> HIDE DEF task
  <1>5. faults' \in 0 .. MaxFaults
    BY <1>4 DEF IInv, SettlementTypes
  <1>6. QED
    BY <1>2, <1>3, <1>4, <1>5, TaskStep

LEMMA FindInvariant ==
    ASSUME IInv, NEW t \in Tasks, Find(t)
    PROVE  IInv'
  <1>1. UNCHANGED <<today, occurred, booked, rows, payouts, raced, faults>> /\ tasks[t].pc = "find"
    BY DEF Find, At
  <1>2. tasks[t] \in Task /\ TaskReads(tasks[t]) /\ faults' \in 0 .. MaxFaults
    BY <1>1 DEF IInv, SettlementTypes, ReadFromLedger
  <1>3. CASE Become(t, Beginning("snapread"))
    <2>1. Beginning("snapread") \in Task /\ TaskReads(Beginning("snapread"))
                                         /\ TaskKnows(Beginning("snapread"))
      BY Beginnings, BeginningKnows
    <2>2. QED
      BY <1>1, <1>2, <1>3, <2>1, TaskStep
  <1>4. ASSUME NEW d \in Days, Locked(d), Become(t, [tasks[t] EXCEPT !.todo = @ \ {d}])
        PROVE  IInv'
    <2> DEFINE task == [tasks[t] EXCEPT !.todo = @ \ {d}]
    <2>1. task \in Task /\ task.pc = "find" /\ task.taken = tasks[t].taken
      BY <1>1, <1>2 DEF Task
    <2>2. TaskReads(task) /\ TaskKnows(task)
      BY <1>2, <2>1 DEF TaskReads, TaskKnows
    <2>3. Become(t, task)
      BY <1>4
    <2> HIDE DEF task
    <2>4. QED
      BY <1>1, <1>2, <2>1, <2>2, <2>3, TaskStep
  <1>5. ASSUME NEW d \in Days, ~Locked(d),
               Become(t, [tasks[t] EXCEPT !.todo = @ \ {d}, !.pc = "upsert", !.day = d])
        PROVE  IInv'
    <2> DEFINE task == [tasks[t] EXCEPT !.todo = @ \ {d}, !.pc = "upsert", !.day = d]
    <2>1. task \in Task /\ task.pc = "upsert" /\ task.taken = tasks[t].taken /\ task.day = d
      <3>1. d \in 0 .. MaxDay /\ "upsert" \in PCs
        BY SettlementsAssumption DEF PCs, Days
      <3>2. QED
        BY <1>1, <1>2, <3>1 DEF Task
    <2>2. TaskReads(task)
      BY <1>2, <2>1 DEF TaskReads
    <2>3. TaskKnows(task)
      BY <1>5, <2>1 DEF TaskKnows, Locked
    <2>4. Become(t, task)
      BY <1>5
    <2> HIDE DEF task
    <2>5. QED
      BY <1>1, <1>2, <2>1, <2>2, <2>3, <2>4, TaskStep
  <1>6. QED
    BY <1>3, <1>4, <1>5 DEF Find

LEMMA ReadClosingsInvariant ==
    ASSUME IInv, NEW t \in Tasks, ReadClosings(t)
    PROVE  IInv'
  <1> DEFINE task == [Beginning("snap") EXCEPT !.todo = LedgerDays]
  <1>1. LedgerDays \subseteq Days
    <2>1. \A e \in booked : occurred[e] \in Days
      BY SettlementsAssumption DEF IInv, SettlementTypes, ReadFromLedger, Days
    <2>2. {payouts[d].day : d \in Days} \ {0} \subseteq Days
      BY SettlementsAssumption DEF IInv, SettlementTypes, Payout, Days
    <2>3. QED
      BY <2>1, <2>2 DEF LedgerDays
  <1>2. task \in Task /\ task.pc = "snap" /\ task.taken = {}
    <2>1. /\ Beginning("snap") \in Task /\ Beginning("snap").pc = "snap"
          /\ Beginning("snap").taken = {}
      BY BeginningTyped DEF PCs
    <2>2. QED
      BY <1>1, <2>1 DEF Task
  <1>3. TaskReads(task) /\ TaskKnows(task)
    BY <1>2 DEF TaskReads, TaskKnows
  <1>4. Become(t, task) /\ UNCHANGED <<today, occurred, booked, rows, payouts, raced, faults>>
    BY DEF ReadClosings
  <1> HIDE DEF task
  <1>5. faults' \in 0 .. MaxFaults
    BY <1>4 DEF IInv, SettlementTypes
  <1>6. QED
    BY <1>2, <1>3, <1>4, <1>5, TaskStep

LEMMA SnapInvariant ==
    ASSUME IInv, NEW t \in Tasks, Snap(t)
    PROVE  IInv'
  <1>1. UNCHANGED <<today, occurred, booked, rows, payouts, raced, faults>> /\ tasks[t].pc = "snap"
    BY DEF Snap, At
  <1>2. tasks[t] \in Task /\ TaskReads(tasks[t]) /\ faults' \in 0 .. MaxFaults
    BY <1>1 DEF IInv, SettlementTypes, ReadFromLedger
  <1>3. CASE Become(t, Idle)
    <2>1. Idle \in Task /\ TaskReads(Idle) /\ TaskKnows(Idle)
      BY Beginnings, BeginningKnows DEF Idle
    <2>2. QED
      BY <1>1, <1>2, <1>3, <2>1, TaskStep
  <1>4. ASSUME NEW d \in Days, Become(t, [tasks[t] EXCEPT !.todo = @ \ {d}])
        PROVE  IInv'
    <2> DEFINE task == [tasks[t] EXCEPT !.todo = @ \ {d}]
    <2>1. task \in Task /\ task.pc = "snap" /\ task.taken = tasks[t].taken
      BY <1>1, <1>2 DEF Task
    <2>2. TaskReads(task) /\ TaskKnows(task)
      BY <1>2, <2>1 DEF TaskReads, TaskKnows
    <2>3. Become(t, task)
      BY <1>4
    <2> HIDE DEF task
    <2>4. QED
      BY <1>1, <1>2, <2>1, <2>2, <2>3, TaskStep
  <1>5. QED
    BY <1>3, <1>4 DEF Snap

LEMMA MarkPaidInvariant ==
    ASSUME IInv, NEW t \in Tasks, NEW d \in Days, MarkPaid(t, d)
    PROVE  IInv'
  <1>1. UNCHANGED <<today, occurred, booked, rows, payouts, raced, faults>>
    BY DEF MarkPaid
  <1>2. faults' \in 0 .. MaxFaults
    BY <1>1 DEF IInv, SettlementTypes
  <1>3. CASE Become(t, Beginning("snapread"))
    <2>1. Beginning("snapread") \in Task /\ TaskReads(Beginning("snapread"))
                                         /\ TaskKnows(Beginning("snapread"))
      BY Beginnings, BeginningKnows
    <2>2. QED
      BY <1>1, <1>2, <1>3, <2>1, TaskStep
  <1>4. ASSUME ~Locked(d),
               Become(t, [Beginning("pay") EXCEPT !.day = d, !.now = today, !.taken = rows[d].entries])
        PROVE  IInv'
    <2> DEFINE task == [Beginning("pay") EXCEPT !.day = d, !.now = today, !.taken = rows[d].entries]
    <2>1. /\ task \in Task /\ task.pc = "pay" /\ task.taken = rows[d].entries
          /\ task.day = d /\ task.now = today
      <3>1. Beginning("pay") \in Task /\ Beginning("pay").pc = "pay"
        BY BeginningTyped DEF PCs
      <3>2. d \in 0 .. MaxDay /\ today \in 0 .. MaxDay /\ rows[d].entries \in SUBSET Entries
        BY SettlementsAssumption DEF IInv, SettlementTypes, Settlement, Days
      <3>3. QED
        BY <3>1, <3>2 DEF Task
    <2>2. TaskReads(task)
      BY <2>1 DEF TaskReads, IInv, ReadFromLedger, OfDay
    <2>3. TaskKnows(task)
      BY <1>4, <2>1, SettlementsAssumption DEF TaskKnows, Locked, IInv, SettlementTypes
    <2>4. Become(t, task)
      BY <1>4
    <2> HIDE DEF task
    <2>5. QED
      BY <1>1, <1>2, <2>1, <2>2, <2>3, <2>4, TaskStep
  <1>5. QED
    BY <1>3, <1>4 DEF MarkPaid, Payable

LEMMA FailInvariant ==
    ASSUME IInv, NEW t \in Tasks, Fail(t)
    PROVE  IInv'
  <1>1. Idle \in Task /\ TaskReads(Idle) /\ TaskKnows(Idle)
    BY Beginnings, BeginningKnows DEF Idle
  <1>2. faults' \in 0 .. MaxFaults
    BY SettlementsAssumption DEF Fail, IInv, SettlementTypes
  <1>3. QED
    BY <1>1, <1>2, TaskStep DEF Fail

-----------------------------------------------------------------------------
(* Steps that write a settlement                                             *)

\* What WriteRow leaves of every task, and what it records.
LEMMA WriteRowEffect ==
    ASSUME IInv, NEW t \in Tasks, NEW d \in Days, NEW row \in Settlement, NEW task \in Task,
           row.entries \subseteq OfDay(booked, d), TaskReads(task), task.pc \notin {"upsert", "pay"},
           WriteRow(t, d, row, task),
           UNCHANGED <<today, occurred, booked, faults>>
    PROVE  /\ tasks' \in [Tasks -> Task] /\ rows' \in [Days -> Settlement] /\ raced' \subseteq Days
           /\ rows'[d] = row /\ \A x \in Days \ {d} : rows'[x] = rows[x]
           /\ raced \subseteq raced' /\ (tasks[t].stale => d \in raced')
           /\ ReadFromLedger' /\ KnownUnlessStale'
  <1> USE DEF WriteRow
  <1>1. /\ rows' \in [Days -> Settlement] /\ rows'[d] = row
        /\ \A x \in Days \ {d} : rows'[x] = rows[x]
    BY DEF IInv, SettlementTypes
  <1>2. raced' \subseteq Days /\ raced \subseteq raced' /\ (tasks[t].stale => d \in raced')
    BY DEF IInv, SettlementTypes
  <1>3. ASSUME NEW u \in Tasks
        PROVE  tasks'[u] \in Task /\ TaskReads(tasks[u])' /\ TaskKnows(tasks[u])'
    <2>1. tasks[u] \in Task /\ TaskReads(tasks[u]) /\ TaskKnows(tasks[u])
      BY DEF IInv, SettlementTypes, ReadFromLedger, KnownUnlessStale
    <2>2. CASE u = t
      <3>1. tasks'[u] = task
        BY <2>2
      <3>2. QED
        BY <3>1 DEF TaskReads, TaskKnows, OfDay
    <2>3. CASE u # t /\ tasks[u].day = d /\ row # rows[d]
      <3>1. tasks'[u] = [tasks[u] EXCEPT !.stale = TRUE]
        BY <2>3
      <3>2. QED
        BY <2>1, <3>1 DEF Task, TaskReads, TaskKnows, OfDay
    <2>4. CASE u # t /\ ~(tasks[u].day = d /\ row # rows[d])
      <3>1. tasks'[u] = tasks[u]
        BY <2>4
      <3>2. tasks[u].day \in Days => rows'[tasks[u].day] = rows[tasks[u].day]
        BY <1>1, <2>4
      <3>3. QED
        BY <2>1, <3>1, <3>2 DEF TaskReads, TaskKnows, OfDay
    <2>5. QED
      BY <2>2, <2>3, <2>4
  <1>4. tasks' \in [Tasks -> Task]
    <2>1. tasks' = [u \in Tasks |-> tasks'[u]]
      OBVIOUS
    <2>2. QED
      BY <1>3, <2>1
  <1>5. ReadFromLedger'
    <2>1. \A x \in Days : (rows[x].entries \subseteq OfDay(booked, x))'
      BY <1>1 DEF IInv, ReadFromLedger, OfDay
    <2>2. QED
      BY <1>3, <2>1 DEF IInv, ReadFromLedger
  <1>6. KnownUnlessStale'
    BY <1>3 DEF KnownUnlessStale
  <1>7. QED
    BY <1>1, <1>2, <1>4, <1>5, <1>6

LEMMA UpsertInvariant ==
    ASSUME IInv, NEW t \in Tasks, Upsert(t)
    PROVE  IInv' /\ (rows[tasks[t].day].status = "PAID" => tasks[t].day \in raced')
                 /\ \A x \in Days \ {tasks[t].day} : rows'[x] = rows[x]
  <1> DEFINE d == tasks[t].day
             row == [status |-> "PENDING", entries |-> OfDay(tasks[t].taken, d)]
             task == [tasks[t] EXCEPT !.pc = "find", !.day = 0, !.stale = FALSE]
  <1>1. tasks[t] \in Task /\ TaskReads(tasks[t]) /\ TaskKnows(tasks[t]) /\ tasks[t].pc = "upsert"
    BY DEF Upsert, At, IInv, SettlementTypes, ReadFromLedger, KnownUnlessStale
  <1>2. d \in Days
    BY <1>1 DEF TaskKnows
  <1>3. row \in Settlement /\ row.entries \subseteq OfDay(booked, d) /\ row.status = "PENDING"
    BY <1>1 DEF Settlement, SettlementStatuses, TaskReads, OfDay, Task
  <1>4. task \in Task /\ TaskReads(task) /\ task.pc \notin {"upsert", "pay"}
    <2>1. 0 \in 0 .. MaxDay /\ "find" \in PCs
      BY SettlementsAssumption DEF PCs
    <2>2. task \in Task /\ task.pc = "find" /\ task.taken = tasks[t].taken
      BY <1>1, <2>1 DEF Task
    <2>3. QED
      BY <1>1, <2>2 DEF TaskReads
  <1>5. WriteRow(t, d, row, task) /\ UNCHANGED <<today, occurred, booked, payouts, faults>>
    BY DEF Upsert
  <1>6. d = tasks[t].day
    OBVIOUS
  <1> HIDE DEF d, row, task
  <1>7. /\ tasks' \in [Tasks -> Task] /\ rows' \in [Days -> Settlement] /\ raced' \subseteq Days
        /\ rows'[d] = row /\ \A x \in Days \ {d} : rows'[x] = rows[x]
        /\ raced \subseteq raced' /\ (tasks[t].stale => d \in raced')
        /\ ReadFromLedger' /\ KnownUnlessStale'
    BY <1>2, <1>3, <1>4, <1>5, WriteRowEffect
  <1>8. SettlementTypes'
    BY <1>5, <1>7 DEF IInv, SettlementTypes
  <1>9. PaidOutAsShown'
    BY <1>3, <1>5, <1>7 DEF IInv, PaidOutAsShown
  <1>10. PaidFromItsDay'
    BY <1>5 DEF IInv, PaidFromItsDay, OfDay
  <1>11. rows[d].status = "PAID" => d \in raced'
    BY <1>1, <1>6, <1>7 DEF TaskKnows
  <1>12. QED
    BY <1>6, <1>7, <1>8, <1>9, <1>10, <1>11 DEF IInv

LEMMA PayInvariant ==
    ASSUME IInv, NEW t \in Tasks, Pay(t)
    PROVE  IInv' /\ (rows[tasks[t].day].status = "PAID" => tasks[t].day \in raced')
                 /\ \A x \in Days \ {tasks[t].day} : rows'[x] = rows[x]
  <1> DEFINE d == tasks[t].day
             row == [rows[d] EXCEPT !.status = "PAID"]
             payout == [day |-> tasks[t].now, entries |-> PaidOut(t)]
             task == Beginning("snapread")
  <1>1. tasks[t] \in Task /\ TaskReads(tasks[t]) /\ TaskKnows(tasks[t]) /\ tasks[t].pc = "pay"
    BY DEF Pay, At, IInv, SettlementTypes, ReadFromLedger, KnownUnlessStale
  <1>2. d \in Days
    BY <1>1 DEF TaskKnows
  <1>3. row \in Settlement /\ row.entries = rows[d].entries /\ row.entries \subseteq OfDay(booked, d)
    BY <1>2 DEF Settlement, SettlementStatuses, IInv, SettlementTypes, ReadFromLedger
  <1>4. task \in Task /\ TaskReads(task) /\ task.pc \notin {"upsert", "pay"}
    BY Beginnings, BeginningTyped DEF TaskReads
  <1>5. /\ WriteRow(t, d, row, task) /\ UNCHANGED <<today, occurred, booked, faults>>
        /\ payouts' = [payouts EXCEPT ![d] = payout]
    BY DEF Pay
  <1>6. /\ payout \in Payout /\ payout.day # 0 /\ payout.entries \subseteq OfDay(booked, d)
        /\ ~tasks[t].stale => payout.entries = rows[d].entries
    BY <1>1 DEF Payout, Task, PaidOut, TaskReads, TaskKnows
  <1>7. d = tasks[t].day
    OBVIOUS
  <1> HIDE DEF d, row, task, payout
  <1>8. /\ tasks' \in [Tasks -> Task] /\ rows' \in [Days -> Settlement] /\ raced' \subseteq Days
        /\ rows'[d] = row /\ \A x \in Days \ {d} : rows'[x] = rows[x]
        /\ raced \subseteq raced' /\ (tasks[t].stale => d \in raced')
        /\ ReadFromLedger' /\ KnownUnlessStale'
    BY <1>2, <1>3, <1>4, <1>5, WriteRowEffect
  <1>9. /\ payouts' \in [Days -> Payout] /\ payouts'[d] = payout
        /\ \A x \in Days \ {d} : payouts'[x] = payouts[x]
    BY <1>2, <1>5, <1>6 DEF IInv, SettlementTypes
  <1>10. SettlementTypes'
    BY <1>5, <1>8, <1>9 DEF IInv, SettlementTypes
  <1>11. PaidOutAsShown'
    BY <1>3, <1>6, <1>7, <1>8, <1>9 DEF IInv, PaidOutAsShown
  <1>12. PaidFromItsDay'
    BY <1>5, <1>6, <1>9 DEF IInv, PaidFromItsDay, OfDay
  <1>13. rows[d].status = "PAID" => d \in raced'
    BY <1>1, <1>7, <1>8 DEF TaskKnows
  <1>14. QED
    BY <1>7, <1>8, <1>10, <1>11, <1>12, <1>13 DEF IInv

-----------------------------------------------------------------------------
(* The theorems                                                              *)

LEMMA NextInvariant == IInv /\ [Next]_vars => IInv'
  <1> SUFFICES ASSUME IInv, [Next]_vars PROVE IInv'
    OBVIOUS
  <1>1. CASE Tick
    BY <1>1, SettlementsAssumption
       DEF Tick, IInv, SettlementTypes, ReadFromLedger, KnownUnlessStale, TaskReads, TaskKnows,
           PaidOutAsShown, PaidFromItsDay, OfDay
  <1>2. ASSUME NEW e \in Entries, Occur(e) PROVE IInv'
    BY <1>2, OccurInvariant
  <1>3. ASSUME NEW e \in Entries, Book(e) PROVE IInv'
    <2>1. booked \cup {e} \subseteq Entries /\ \A x \in booked \cup {e} : occurred[x] # 0
      BY <1>3 DEF Book, IInv, SettlementTypes, ReadFromLedger
    <2>2. QED
      BY <1>3, <2>1, BookingStep DEF Book
  <1>4. ASSUME NEW t \in Tasks, Maintain(t) PROVE IInv'
    BY <1>4, MaintainInvariant
  <1>5. ASSUME NEW t \in Tasks, Step(t) PROVE IInv'
    BY <1>5, ReadEntriesInvariant, FindInvariant, UpsertInvariant, ReadClosingsInvariant,
       SnapInvariant, PayInvariant DEF Step
  <1>6. ASSUME NEW t \in Tasks, Fail(t) PROVE IInv'
    BY <1>6, FailInvariant
  <1>7. ASSUME NEW t \in Admins, NEW d \in Days, MarkPaid(t, d) PROVE IInv'
    BY <1>7, MarkPaidInvariant DEF Tasks
  <1>8. CASE UNCHANGED vars
    BY <1>8 DEF vars, IInv, SettlementTypes, ReadFromLedger, KnownUnlessStale, TaskReads, TaskKnows,
                PaidOutAsShown, PaidFromItsDay, OfDay
  <1>9. QED
    BY <1>1, <1>2, <1>3, <1>4, <1>5, <1>6, <1>7, <1>8 DEF Next

\* In every reachable state, what tasks have read is in the ledger, and they know the
\* settlement they are about to write unless it has changed since.
THEOREM Invariance == Spec => []IInv
  <1>1. Init => IInv
    BY InitInvariant
  <1>2. IInv /\ [Next]_vars => IInv'
    BY NextInvariant
  <1>3. QED
    BY <1>1, <1>2, PTL DEF Spec

\* A settlement shown as PAID has a payout of exactly the amount it shows, unless a write
\* raced (markMerchantSettlementPaid, settlements.ts:295).
THEOREM PaidOutAsShownAlways == Spec => []PaidOutAsShown
  <1>1. IInv => PaidOutAsShown
    BY DEF IInv
  <1>2. QED
    BY <1>1, Invariance, PTL

\* Whatever races, a payout is made of entries of the settlement's day that are in the
\* ledger (syncMerchantSettlements, settlements.ts:78).
THEOREM PaidFromItsDayAlways == Spec => []PaidFromItsDay
  <1>1. IInv => PaidFromItsDay
    BY DEF IInv
  <1>2. QED
    BY <1>1, Invariance, PTL

\* A settlement that is PAID is written only by a task that looked at it before it was paid
\* (upsertMerchantSettlement, settlements.ts:122, 159).
THEOREM PaidStaysPaid == Spec => PaidIsFrozen
  <1> DEFINE Frozen == \A d \in Days : rows[d].status = "PAID" /\ d \notin raced' => rows'[d] = rows[d]
  <1>1. ASSUME IInv, [Next]_vars
        PROVE  Frozen
    <2>1. ASSUME NEW t \in Tasks, Upsert(t) \/ Pay(t) PROVE Frozen
      BY <1>1, <2>1, UpsertInvariant, PayInvariant
    <2>2. CASE UNCHANGED rows
      BY <2>2
    <2>3. QED
      BY <1>1, <2>1, <2>2
         DEF Next, vars, Step, Tick, Occur, Book, Maintain, Fail, MarkPaid, ReadEntries, Find,
             ReadClosings, Snap
  <1>2. QED
    BY <1>1, Invariance, PTL DEF Spec, PaidIsFrozen

=============================================================================
