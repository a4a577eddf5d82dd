---------------------- MODULE MerchantCallbacksProofs ----------------------
(***************************************************************************)
(* Theorems about MerchantCallbacks, for any tasks, notifications, timers    *)
(* and numbers of attempts and faults: a retry is always scheduled, the lease *)
(* excludes parallel deliveries, and what is delivered is current.            *)
(***************************************************************************)
EXTENDS MerchantCallbacks, TLAPS

-----------------------------------------------------------------------------
(* Rows, timers and tasks                                                    *)

LEMMA TimerTypes ==
    /\ Never \in Timers /\ 0 \in Timers /\ Retry \in Timers
    /\ \A age \in Nat : (IF Lease > age THEN Lease - age ELSE 0) \in Timers
    /\ \A next \in Timers : Elapsed(next) \in Timers /\ (next # Never => Elapsed(next) # Never)
  BY CallbacksAssumption DEF Timers, Never, Elapsed, Running

\* A row that waited has the same columns but for a timer that is null if it was.
LEMMA LaterRow ==
    ASSUME NEW r \in Row
    PROVE  /\ Later(r) \in Row
           /\ Later(r).callback = r.callback /\ Later(r).attempts = r.attempts
           /\ Later(r).status = r.status /\ Later(r).next = Elapsed(r.next)
           /\ Scheduled(r) => Scheduled(Later(r))
  BY TimerTypes DEF Later, Row, Scheduled

LEMMA FreshRow ==
    NewRow \in Row /\ Scheduled(NewRow) /\ NewRow.attempts = 0 /\ NewRow.status = "PENDING"
  BY CallbacksAssumption, TimerTypes
  DEF NewRow, Row, Scheduled, Statuses, CallbackStatuses

LEMMA HoldingTask ==
    ASSUME NEW op \in Operations, NEW pc \in PCs, NEW kind \in NoteKinds, NEW snap \in Row
    PROVE  /\ Holding(op, pc, kind, snap) \in Task
           /\ Holding(op, pc, kind, snap).pc = pc
           /\ Holding(op, pc, kind, snap).snap = snap
  BY CallbacksAssumption DEF Holding, Task

LEMMA IdleTask ==
    Idle \in Task /\ Idle.pc = "idle" /\ Idle.snap = NewRow
  BY HoldingTask, FreshRow DEF Idle, Operations, PCs, NoteKinds

LEMMA CountedUp ==
    ASSUME NEW n \in 0 .. MaxAttempts, NEW m \in 0 .. MaxAttempts, m <= n
    PROVE  /\ Counted(n) \in 0 .. MaxAttempts /\ n <= Counted(n)
           /\ m + 1 >= MaxAttempts => Counted(n) = MaxAttempts
  BY CallbacksAssumption DEF Counted

\* resolvePaymentStatusFromNotification ends in a status.
LEMMA ResolvedStatus ==
    ASSUME NEW current \in Statuses, NEW kind \in NoteKinds
    PROVE  ResolveStatus(current, kind) \in Statuses
  BY DEF ResolveStatus, Statuses, NoteKinds

-----------------------------------------------------------------------------
(* A retry is always scheduled                                               *)

\* A step that replaces one task and the row, if the row is scheduled and has at least as
\* many attempts as before.
LEMMA RowStep ==
    ASSUME ScheduleInv, NEW t \in Tasks,
           NEW task \in Task, tasks' = [tasks EXCEPT ![t] = task],
           row' \in Row, Scheduled(row'), row.attempts <= row'.attempts,
           task.snap.attempts <= row'.attempts, Scheduled(task.snap),
           form' = form, enabled' = enabled, switches' = switches,
           UNCHANGED creation, acknowledged' \in SUBSET Statuses,
           raced' \in BOOLEAN, faults' \in 0 .. MaxFaults
    PROVE  ScheduleInv'
  <1>1. TypeOK'
    BY DEF ScheduleInv, TypeOK, creation
  <1>2. RetryIsScheduled'
    BY DEF RetryIsScheduled, Scheduled
  <1>3. ASSUME NEW u \in Tasks
        PROVE  tasks'[u].snap.attempts <= row'.attempts /\ Scheduled(tasks'[u].snap)
    <2>1. CASE u = t
      BY <2>1 DEF ScheduleInv, TypeOK
    <2>2. CASE u # t
      <3>1. tasks'[u] = tasks[u] /\ tasks[u] \in Task
        BY <2>2 DEF ScheduleInv, TypeOK
      <3>2. tasks[u].snap.attempts <= row.attempts /\ Scheduled(tasks[u].snap)
        BY DEF ScheduleInv, SnapshotsAreScheduled
      <3>3. /\ tasks[u].snap.attempts \in 0 .. MaxAttempts
            /\ row.attempts \in 0 .. MaxAttempts /\ row'.attempts \in 0 .. MaxAttempts
        BY <3>1 DEF ScheduleInv, TypeOK, Task, Row
      <3> QED
        BY <3>1, <3>2, <3>3, CallbacksAssumption
    <2> QED
      BY <2>1, <2>2
  <1>4. SnapshotsAreScheduled'
    BY <1>3 DEF SnapshotsAreScheduled, Scheduled
  <1> QED
    BY <1>1, <1>2, <1>4 DEF ScheduleInv

\* A step of one task that leaves the row alone.
LEMMA TaskOnly ==
    ASSUME ScheduleInv, NEW t \in Tasks,
           NEW task \in Task, tasks' = [tasks EXCEPT ![t] = task],
           task.snap.attempts <= row.attempts, Scheduled(task.snap),
           row' = row, form' = form, enabled' = enabled, switches' = switches,
           UNCHANGED creation, acknowledged' \in SUBSET Statuses,
           raced' \in BOOLEAN, faults' \in 0 .. MaxFaults
    PROVE  ScheduleInv'
  <1>1. row \in Row /\ row.attempts <= row.attempts /\ Scheduled(row)
    BY CallbacksAssumption DEF ScheduleInv, TypeOK, RetryIsScheduled, Row
  <1> QED
    BY <1>1, RowStep

\* What is known of a task and the row.
LEMMA Known ==
    ASSUME ScheduleInv, NEW t \in Tasks
    PROVE  /\ tasks[t] \in Task /\ row \in Row /\ tasks[t].snap \in Row
           /\ row.attempts \in 0 .. MaxAttempts /\ 0 <= row.attempts
           /\ tasks[t].snap.attempts \in 0 .. MaxAttempts
           /\ tasks[t].snap.attempts <= row.attempts
           /\ row.attempts <= row.attempts
           /\ Scheduled(row) /\ Scheduled(tasks[t].snap)
           /\ enabled \in BOOLEAN /\ raced \in BOOLEAN
           /\ acknowledged \in SUBSET Statuses /\ faults \in 0 .. MaxFaults
  BY CallbacksAssumption
  DEF ScheduleInv, TypeOK, RetryIsScheduled, SnapshotsAreScheduled, Task, Row

\* A task that is idle or has just begun has read nothing.
LEMMA Unread ==
    ASSUME ScheduleInv
    PROVE  /\ Idle \in Task /\ Idle.snap.attempts <= row.attempts /\ Scheduled(Idle.snap)
           /\ \A op \in Operations :
                 LET task == Holding(op, "load", "pending", NewRow)
                 IN task \in Task /\ task.snap.attempts <= row.attempts /\ Scheduled(task.snap)
  <1>1. 0 <= row.attempts
    BY CallbacksAssumption DEF ScheduleInv, TypeOK, Row
  <1>2. ASSUME NEW op \in Operations
        PROVE  /\ Holding(op, "load", "pending", NewRow) \in Task
               /\ Holding(op, "load", "pending", NewRow).snap = NewRow
    BY HoldingTask, FreshRow DEF PCs, NoteKinds
  <1> QED
    BY <1>1, <1>2, IdleTask, FreshRow

\* A task that moves on keeps what it has read.
LEMMA MovedTask ==
    ASSUME NEW task \in Task, NEW pc \in PCs
    PROVE  /\ [task EXCEPT !.pc = pc] \in Task
           /\ [task EXCEPT !.pc = pc].snap = task.snap
           /\ [task EXCEPT !.pc = pc].pc = pc
           /\ [task EXCEPT !.pc = pc].age = task.age
  BY DEF Task

LEMMA FaultType ==
    ASSUME faults \in 0 .. MaxFaults, Fault
    PROVE  faults' \in 0 .. MaxFaults
  BY CallbacksAssumption DEF Fault

\* A task that only moves on.
LEMMA MoveOnly ==
    ASSUME ScheduleInv, NEW t \in Tasks, NEW pc \in PCs, GoTo(t, pc),
           row' = row, form' = form, enabled' = enabled, switches' = switches,
           UNCHANGED creation, acknowledged' = acknowledged,
           raced' = raced, faults' \in 0 .. MaxFaults
    PROVE  ScheduleInv'
  <1> DEFINE new == [tasks[t] EXCEPT !.pc = pc]
  <1>1. new \in Task /\ new.snap = tasks[t].snap
    BY Known, MovedTask
  <1>2. tasks' = [tasks EXCEPT ![t] = new]
    BY DEF GoTo, Become
  <1> HIDE DEF new
  <1> QED
    BY <1>1, <1>2, Known, TaskOnly

\* The clock changes neither what a task does nor what it has counted.
LEMMA TickedTask ==
    ASSUME ScheduleInv, Tick, NEW t \in Tasks
    PROVE  /\ tasks'[t] \in Task
           /\ tasks'[t].pc = tasks[t].pc
           /\ tasks'[t].snap.attempts = tasks[t].snap.attempts
           /\ tasks'[t].snap.status = tasks[t].snap.status
           /\ Scheduled(tasks'[t].snap)
           /\ tasks'[t].age = IF Dispatching(tasks[t]) THEN tasks[t].age + 1 ELSE tasks[t].age
  <1> DEFINE age == IF Dispatching(tasks[t]) THEN tasks[t].age + 1 ELSE tasks[t].age
  <1>1. tasks'[t] = Aged(tasks[t])
    BY DEF Tick
  <1>2. Aged(tasks[t]) = [tasks[t] EXCEPT !.snap = Later(tasks[t].snap), !.age = age]
    BY Known DEF Aged, Task
  <1>3. age \in 0 .. MaxAge
    BY Known, CallbacksAssumption DEF Tick, Task
  <1>4. /\ Later(tasks[t].snap) \in Row /\ Scheduled(Later(tasks[t].snap))
        /\ Later(tasks[t].snap).attempts = tasks[t].snap.attempts
        /\ Later(tasks[t].snap).status = tasks[t].snap.status
    BY Known, LaterRow
  <1> HIDE DEF age
  <1>5. /\ tasks'[t] \in Task /\ tasks'[t].snap = Later(tasks[t].snap)
        /\ tasks'[t].age = age /\ tasks'[t].pc = tasks[t].pc
    BY <1>1, <1>2, <1>3, <1>4, Known DEF Task
  <1> QED
    BY <1>4, <1>5 DEF age

LEMMA TickedRow ==
    ASSUME ScheduleInv
    PROVE  Later(row) \in Row /\ Scheduled(Later(row)) /\ Later(row).attempts = row.attempts
  BY Known, LaterRow DEF ScheduleInv, TypeOK, RetryIsScheduled

-----------------------------------------------------------------------------

LEMMA ScheduleInit == Init => ScheduleInv
  <1> SUFFICES ASSUME Init PROVE ScheduleInv
    OBVIOUS
  <1>1. TypeOK
    <2>1. form \in OrderForms
      BY CallbacksAssumption DEF Init
    <2>2. tasks \in [Tasks -> Task]
      BY IdleTask DEF Init
    <2>3. faults \in 0 .. MaxFaults /\ switches \in 0 .. MaxSwitches
      BY CallbacksAssumption DEF Init
    <2> QED
      BY <2>1, <2>2, <2>3, FreshRow DEF Init, TypeOK
  <1>2. RetryIsScheduled
    BY FreshRow DEF Init, RetryIsScheduled
  <1>3. SnapshotsAreScheduled
    BY FreshRow, IdleTask DEF Init, SnapshotsAreScheduled
  <1> QED
    BY <1>1, <1>2, <1>3 DEF ScheduleInv

LEMMA ScheduleStep ==
    ASSUME ScheduleInv, [Next]_vars
    PROVE  ScheduleInv'
  <1>1. ASSUME NEW t \in Tasks, ApplyWrite(t)
        PROVE  ScheduleInv'
    <2> DEFINE snap == tasks[t].snap
               status == ResolveStatus(snap.status, tasks[t].kind)
               queue == tasks[t].ok /\ Queues(snap, status)
               new == IF queue THEN Holding("apply", "load", "pending", NewRow) ELSE Idle
    <2>1. row' = [status |-> status,
                  callback |-> IF queue THEN "PENDING"
                               ELSE IF tasks[t].ok THEN snap.callback ELSE "NOT_REQUIRED",
                  attempts |-> row.attempts,
                  next |-> IF queue THEN 0 ELSE snap.next]
          /\ tasks' = [tasks EXCEPT ![t] = new]
      BY <1>1 DEF ApplyWrite, Become
    <2>2. status \in Statuses /\ queue \in BOOLEAN /\ snap.next \in Timers
          /\ snap.callback \in CallbackStatuses
      BY Known, ResolvedStatus DEF Task, Row, Queues, IsTerminal
    <2>3. Scheduled(snap) /\ snap.attempts <= row.attempts
          /\ snap.attempts \in 0 .. MaxAttempts /\ row.attempts \in 0 .. MaxAttempts
      BY Known
    <2>4. new \in Task /\ new.snap = NewRow
      BY HoldingTask, IdleTask, FreshRow DEF Operations, PCs, NoteKinds
    <2> HIDE DEF snap, status, queue, new
    <2>5. row' \in Row
      BY <2>1, <2>2, <2>3, TimerTypes DEF Row, CallbackStatuses
    <2>6. Scheduled(row')
      BY <2>1, <2>2, <2>3, CallbacksAssumption DEF Scheduled, Never
    <2>7. row'.attempts = row.attempts
      BY <2>1
    <2> QED
      BY <1>1, <2>1, <2>3, <2>4, <2>5, <2>6, <2>7, Known, FreshRow, RowStep
      DEF ApplyWrite, Interferes
  <1>2. ASSUME NEW t \in Tasks, Load(t)
        PROVE  ScheduleInv'
    <2>1. CASE ~DispatchTarget
      BY <1>2, <2>1, Known, MoveOnly DEF Load, PCs
    <2>2. CASE DispatchTarget /\ Skips(Forced(t))
      BY <1>2, <2>2, Known, Unread, TaskOnly DEF Load, Become
    <2>3. CASE DispatchTarget /\ ~Skips(Forced(t))
      <3> DEFINE new == [tasks[t] EXCEPT !.pc = "claim", !.snap = row]
      <3>1. new \in Task /\ new.snap = row
        BY Known DEF Task, PCs
      <3> QED
        BY <1>2, <2>3, <3>1, Known, TaskOnly DEF Load, Become
    <2> QED
      BY <2>1, <2>2, <2>3
  <1>3. ASSUME NEW t \in Tasks, Drop(t)
        PROVE  ScheduleInv'
    <2>1. row' \in Row /\ Scheduled(row') /\ row'.attempts = row.attempts
      BY <1>3, Known, TimerTypes DEF Drop, Row, Scheduled, CallbackStatuses
    <2> QED
      BY <1>3, <2>1, Known, Unread, RowStep DEF Drop, Become, Interferes
  <1>4. ASSUME NEW t \in Tasks, Claim(t)
        PROVE  ScheduleInv'
    <2>1. CASE Claimable(Forced(t))
      <3> DEFINE next == IF Lease > tasks[t].age THEN Lease - tasks[t].age ELSE 0
                 pc == IF HasRequest(tasks[t].snap.status) THEN "send" ELSE "drop"
      <3>1. tasks[t].age \in Nat
        BY Known, CallbacksAssumption DEF Task
      <3>2. next \in Timers /\ next # Never
        BY <3>1, TimerTypes, CallbacksAssumption DEF Never
      <3>3. pc \in PCs
        BY DEF PCs
      <3>4. /\ row' = [row EXCEPT !.callback = "PROCESSING", !.next = next]
            /\ tasks' = [tasks EXCEPT ![t] = [tasks[t] EXCEPT !.pc = pc]]
        BY <1>4, <2>1 DEF Claim, GoTo, Become
      <3> DEFINE new == [tasks[t] EXCEPT !.pc = pc]
      <3>6. new \in Task /\ new.snap = tasks[t].snap /\ tasks' = [tasks EXCEPT ![t] = new]
        BY <3>3, <3>4, Known, MovedTask
      <3> HIDE DEF next, pc, new
      <3>5. row' \in Row /\ Scheduled(row') /\ row'.attempts = row.attempts
        BY <3>2, <3>4, Known DEF Row, Scheduled, CallbackStatuses
      <3> QED
        BY <1>4, <3>5, <3>6, Known, RowStep DEF Claim
    <2>2. CASE ~Claimable(Forced(t))
      BY <1>4, <2>2, Known, Unread, TaskOnly DEF Claim, Become
    <2> QED
      BY <2>1, <2>2
  <1>5. ASSUME NEW t \in Tasks, SendAccepted(t) \/ SendRejected(t)
        PROVE  ScheduleInv'
    <2>1. CASE SendAccepted(t)
      <3> DEFINE new == [tasks[t] EXCEPT !.pc = "record", !.ok = TRUE]
      <3>1. new \in Task /\ new.snap = tasks[t].snap
        BY Known DEF Task, PCs
      <3>2. acknowledged' \in SUBSET Statuses
        BY <2>1, Known DEF SendAccepted, Row
      <3> QED
        BY <2>1, <3>1, <3>2, Known, TaskOnly DEF SendAccepted, Become
    <2>2. CASE SendRejected(t)
      BY <2>2, Known, FaultType, MoveOnly DEF SendRejected, PCs
    <2> QED
      BY <1>5, <2>1, <2>2
  <1>6. ASSUME NEW t \in Tasks, Record(t)
        PROVE  ScheduleInv'
    <2> DEFINE next == IF tasks[t].ok THEN Never ELSE NextAfterFailure(tasks[t].snap.attempts)
               callback == IF tasks[t].ok THEN "DELIVERED" ELSE "FAILED"
    <2>1. /\ Counted(row.attempts) \in 0 .. MaxAttempts
          /\ row.attempts <= Counted(row.attempts) /\ 0 <= Counted(row.attempts)
          /\ tasks[t].snap.attempts + 1 >= MaxAttempts => Counted(row.attempts) = MaxAttempts
      BY Known, CountedUp, CallbacksAssumption
    <2>2. next \in Timers /\ callback \in CallbackStatuses
      BY TimerTypes DEF NextAfterFailure, CallbackStatuses
    <2>3. callback # "DELIVERED" /\ Counted(row.attempts) < MaxAttempts => next # Never
      BY <2>1, CallbacksAssumption, Known DEF NextAfterFailure, Never
    <2>4. row' = [row EXCEPT !.callback = callback, !.attempts = Counted(row.attempts),
                             !.next = next]
      BY <1>6 DEF Record
    <2> HIDE DEF next, callback
    <2>5. row' \in Row /\ Scheduled(row') /\ row'.attempts = Counted(row.attempts)
      BY <2>1, <2>2, <2>3, <2>4, Known DEF Row, Scheduled
    <2> QED
      <3>1. /\ Idle \in Task /\ Idle.snap.attempts <= row'.attempts /\ Scheduled(Idle.snap)
            /\ row.attempts <= row'.attempts
        BY <2>1, <2>5, IdleTask, FreshRow
      <3> QED
        BY <1>6, <2>5, <3>1, Known, RowStep DEF Record, Become
  <1>7. ASSUME NEW t \in Tasks, Crash(t) \/ SelectDue(t) \/ RequestRetry(t)
        PROVE  ScheduleInv'
    <2>1. CASE Crash(t)
      BY <2>1, Known, Unread, FaultType, TaskOnly DEF Crash, Become
    <2>2. CASE SelectDue(t)
      BY <2>2, Known, Unread, TaskOnly DEF SelectDue, Become, Operations
    <2>3. CASE RequestRetry(t)
      BY <2>3, Known, Unread, TaskOnly DEF RequestRetry, Become, Operations
    <2> QED
      BY <1>7, <2>1, <2>2, <2>3
  <1>8. ASSUME NEW t \in Tasks, NEW kind \in Kinds, ApplyRead(t, kind)
        PROVE  ScheduleInv'
    <2> DEFINE new == [Holding("apply", "write", kind, row) EXCEPT !.ok = ApplyTarget]
    <2>1. ApplyTarget \in BOOLEAN
      BY DEF ApplyTarget
    <2>2. Holding("apply", "write", kind, row) \in Task /\ Holding("apply", "write", kind, row).snap = row
      BY Known, HoldingTask, CallbacksAssumption DEF Operations, PCs
    <2>3. new \in Task /\ new.snap = row
      BY <2>1, <2>2 DEF Task
    <2> QED
      BY <1>8, <2>3, Known, TaskOnly DEF ApplyRead, Become
  <1>9. CASE SwitchCallbacks
    <2>1. TypeOK'
      BY <1>9, CallbacksAssumption DEF SwitchCallbacks, ScheduleInv, TypeOK, creation
    <2> QED
      BY <1>9, <2>1
      DEF SwitchCallbacks, ScheduleInv, RetryIsScheduled, SnapshotsAreScheduled, Scheduled
  <1>10. CASE Tick
    <2>1. row' = Later(row) /\ row' \in Row /\ Scheduled(row') /\ row'.attempts = row.attempts
      BY <1>10, TickedRow DEF Tick
    <2>2. ASSUME NEW t \in Tasks
          PROVE  /\ tasks'[t] \in Task /\ tasks'[t].snap.attempts = tasks[t].snap.attempts
                 /\ Scheduled(tasks'[t].snap)
      BY <1>10, TickedTask
    <2>3. tasks' \in [Tasks -> Task]
      BY <1>10, <2>2 DEF Tick
    <2>4. TypeOK'
      BY <1>10, <2>1, <2>3 DEF Tick, ScheduleInv, TypeOK, creation
    <2>5. SnapshotsAreScheduled'
      BY <2>1, <2>2, Known DEF SnapshotsAreScheduled, Scheduled
    <2> QED
      BY <2>1, <2>4, <2>5 DEF ScheduleInv, RetryIsScheduled, Scheduled
  <1>11. CASE CreationEnds
    <2>1. PICK status \in {"PENDING", "PROCESSING", "FAILED"} : row' = [row EXCEPT !.status = status]
      BY <1>11, CallbacksAssumption DEF CreationEnds
    <2>2. row' \in Row /\ Scheduled(row') /\ row'.attempts = row.attempts
      BY <2>1 DEF ScheduleInv, TypeOK, RetryIsScheduled, Row, Scheduled, Statuses
    <2>3. overtaken' \in BOOLEAN
      BY <1>11, CallbacksAssumption DEF CreationEnds, IsTerminal, ScheduleInv, TypeOK
    <2>4. TypeOK'
      BY <1>11, <2>2, <2>3 DEF CreationEnds, ScheduleInv, TypeOK
    <2> QED
      BY <1>11, <2>2, <2>4
      DEF CreationEnds, ScheduleInv, RetryIsScheduled, SnapshotsAreScheduled, Scheduled
  <1>12. CASE UNCHANGED vars
    BY <1>12 DEF vars, ScheduleInv, TypeOK, RetryIsScheduled, SnapshotsAreScheduled, Scheduled
  <1> QED
    BY <1>1, <1>2, <1>3, <1>4, <1>5, <1>6, <1>7, <1>8, <1>9, <1>10, <1>11, <1>12 DEF Next, Step

-----------------------------------------------------------------------------
(* The lease                                                                 *)

\* Only what a task has read for its request makes it a claimer.
InTime(task) ==
    /\ task.pc = "load" => ~Claimed(task)
    /\ task.pc \in {"claim", "send", "record"} => Claimed(task)

LEMMA NotYetRead ==
    /\ InTime(Idle) /\ ~HoldsLease(Idle)
    /\ \A op \in Operations :
          LET task == Holding(op, "load", "pending", NewRow)
          IN InTime(task) /\ ~HoldsLease(task)
  <1>1. ~IsTerminal(NewRow.status)
    BY FreshRow DEF IsTerminal
  <1>2. ASSUME NEW op \in Operations
        PROVE  /\ Holding(op, "load", "pending", NewRow).snap = NewRow
               /\ Holding(op, "load", "pending", NewRow).pc = "load"
    BY HoldingTask, FreshRow DEF PCs, NoteKinds
  <1> QED
    BY <1>1, <1>2, IdleTask DEF InTime, HoldsLease, Claimed

\* A step that replaces one task: either it leaves the row alone and no task becomes a
\* holder, or nobody else holds the lease and the row shows that of the task, if it holds it.
LEMMA LeaseKept ==
    ASSUME ScheduleInv, LeaseInv, TypeOK', NEW t \in Tasks,
           NEW task, tasks' = [tasks EXCEPT ![t] = task], InTime(task),
           MaxAge < Lease /\ ~raced' => ~raced,
           MaxAge < Lease /\ ~raced' =>
              \/ /\ row' = row
                 /\ HoldsLease(task) => HoldsLease(tasks[t]) /\ task.age = tasks[t].age
              \/ /\ \A u \in Tasks \ {t} : ~HoldsLease(tasks[u])
                 /\ HoldsLease(task) =>
                       row'.callback = "PROCESSING" /\ row'.next = Lease - task.age
    PROVE  LeaseInv'
  <1>1. \A u \in Tasks : tasks'[u] = IF u = t THEN task ELSE tasks[u]
    BY DEF ScheduleInv, TypeOK
  <1>2. ClaimedInTime'
    BY <1>1 DEF LeaseInv, ClaimedInTime, InTime
  <1>3. ASSUME MaxAge < Lease, ~raced'
        PROVE  LeaseIsIntact'
    <2>1. LeaseIsIntact
      BY <1>3 DEF LeaseInv
    <2>2. CASE /\ row' = row
               /\ HoldsLease(task) => HoldsLease(tasks[t]) /\ task.age = tasks[t].age
      <3>1. \A u \in Tasks : HoldsLease(tasks'[u]) =>
               HoldsLease(tasks[u]) /\ tasks'[u].age = tasks[u].age
        BY <1>1, <2>2
      <3> QED
        BY <2>1, <2>2, <3>1 DEF LeaseIsIntact, HoldsLease, Claimed
    <2>3. CASE /\ \A u \in Tasks \ {t} : ~HoldsLease(tasks[u])
               /\ HoldsLease(task) =>
                     row'.callback = "PROCESSING" /\ row'.next = Lease - task.age
      <3>1. \A u \in Tasks \ {t} : ~HoldsLease(tasks'[u])
        BY <1>1, <2>3
      <3>2. tasks'[t] = task
        BY <1>1
      <3> QED
        BY <2>3, <3>1, <3>2 DEF LeaseIsIntact, HoldsLease, Claimed
    <2> QED
      BY <1>3, <2>2, <2>3
  <1> QED
    BY <1>2, <1>3 DEF LeaseInv

\* Whoever holds the lease keeps others from claiming the order.
LEMMA HolderExcludes ==
    ASSUME ScheduleInv, LeaseInv, MaxAge < Lease, ~raced,
           NEW u \in Tasks, HoldsLease(tasks[u]), NEW force
    PROVE  ~Claimable(force)
  <1>1. row.callback = "PROCESSING" /\ row.next = Lease - tasks[u].age
    BY DEF LeaseInv, LeaseIsIntact
  <1>2. tasks[u].age \in 0 .. MaxAge
    BY Known DEF Task
  <1>3. row.next # Never /\ row.next # 0
    BY <1>1, <1>2, CallbacksAssumption DEF Never
  <1> QED
    BY <1>1, <1>3 DEF Claimable, AutomaticallyDue

LEMMA MovedInTime ==
    ASSUME ScheduleInv, LeaseInv, NEW t \in Tasks, NEW pc \in {"drop", "send", "record"},
           tasks[t].pc \in {"load", "claim", "send"}, pc # "drop" => tasks[t].pc # "load"
    PROVE  InTime([tasks[t] EXCEPT !.pc = pc])
  BY Known DEF InTime, LeaseInv, ClaimedInTime, Claimed, Task

LEMMA LeaseInit == Init => LeaseInv
  BY ScheduleInit, NotYetRead, IdleTask
  DEF Init, ScheduleInv, LeaseInv, ClaimedInTime, InTime, LeaseIsIntact

LEMMA LeaseStep ==
    ASSUME ScheduleInv, LeaseInv, TypeOK', [Next]_vars
    PROVE  LeaseInv'
  <1>1. ASSUME NEW t \in Tasks, ApplyWrite(t)
        PROVE  LeaseInv'
    <2> DEFINE queue == tasks[t].ok /\ Queues(tasks[t].snap,
                             ResolveStatus(tasks[t].snap.status, tasks[t].kind))
               new == IF queue THEN Holding("apply", "load", "pending", NewRow) ELSE Idle
    <2>1. tasks' = [tasks EXCEPT ![t] = new] /\ raced' = (raced \/ Interferes(t))
      BY <1>1 DEF ApplyWrite, Become
    <2>2. InTime(new) /\ ~HoldsLease(new)
      BY NotYetRead DEF Operations
    <2>3. ~Interferes(t) => \A u \in Tasks \ {t} : ~HoldsLease(tasks[u])
      BY DEF Interferes, Dispatching, HoldsLease
    <2> HIDE DEF new
    <2> QED
      BY <2>1, <2>2, <2>3, LeaseKept
  <1>2. ASSUME NEW t \in Tasks, Load(t)
        PROVE  LeaseInv'
    <2>1. CASE ~DispatchTarget
      <3> DEFINE new == [tasks[t] EXCEPT !.pc = "drop"]
      <3>1. tasks' = [tasks EXCEPT ![t] = new] /\ row' = row /\ raced' = raced
        BY <1>2, <2>1 DEF Load, GoTo, Become
      <3>2. InTime(new) /\ ~HoldsLease(new)
        BY <1>2, Known DEF Load, At, LeaseInv, ClaimedInTime, Claimed, HoldsLease, InTime, Task
      <3> HIDE DEF new
      <3> QED
        BY <3>1, <3>2, LeaseKept
    <2>2. CASE DispatchTarget /\ Skips(Forced(t))
      BY <1>2, <2>2, NotYetRead, LeaseKept DEF Load, Become
    <2>3. CASE DispatchTarget /\ ~Skips(Forced(t))
      <3> DEFINE new == [tasks[t] EXCEPT !.pc = "claim", !.snap = row]
      <3>1. tasks' = [tasks EXCEPT ![t] = new] /\ row' = row /\ raced' = raced
        BY <1>2, <2>3 DEF Load, Become
      <3>2. new.pc = "claim" /\ new.snap = row /\ IsTerminal(row.status)
        BY <2>3, Known DEF Skips, Task
      <3>3. InTime(new) /\ ~HoldsLease(new)
        BY <3>2 DEF Claimed, HoldsLease, InTime
      <3> HIDE DEF new
      <3> QED
        BY <3>1, <3>3, LeaseKept
    <2> QED
      BY <2>1, <2>2, <2>3
  <1>3. ASSUME NEW t \in Tasks, Drop(t)
        PROVE  LeaseInv'
    <2>1. ~Interferes(t) => \A u \in Tasks \ {t} : ~HoldsLease(tasks[u])
      BY DEF Interferes, Dispatching, HoldsLease
    <2> QED
      BY <1>3, <2>1, NotYetRead, LeaseKept DEF Drop, Become
  <1>4. ASSUME NEW t \in Tasks, Claim(t)
        PROVE  LeaseInv'
    <2>1. CASE Claimable(Forced(t))
      <3> DEFINE pc == IF HasRequest(tasks[t].snap.status) THEN "send" ELSE "drop"
                 new == [tasks[t] EXCEPT !.pc = pc]
      <3>1. pc \in {"drop", "send"}
        OBVIOUS
      <3>2. InTime(new) /\ new.age = tasks[t].age
        BY <1>4, <3>1, Known, MovedInTime DEF Claim, At, Task
      <3>3. tasks' = [tasks EXCEPT ![t] = new] /\ raced' = raced
        BY <1>4, <2>1 DEF Claim, GoTo, Become
      <3>4. MaxAge < Lease /\ ~raced => \A u \in Tasks \ {t} : ~HoldsLease(tasks[u])
        BY <2>1, HolderExcludes
      <3>5. row'.callback = "PROCESSING" /\ (MaxAge < Lease => row'.next = Lease - tasks[t].age)
        <4> DEFINE next == IF Lease > tasks[t].age THEN Lease - tasks[t].age ELSE 0
        <4>1. MaxAge < Lease => next = Lease - tasks[t].age
          BY Known, CallbacksAssumption DEF Task
        <4>2. row' = [row EXCEPT !.callback = "PROCESSING", !.next = next]
          BY <1>4, <2>1 DEF Claim
        <4> HIDE DEF next
        <4> QED
          BY <4>1, <4>2, Known DEF Row
      <3> HIDE DEF pc, new
      <3> QED
        BY <3>2, <3>3, <3>4, <3>5, LeaseKept
    <2>2. CASE ~Claimable(Forced(t))
      BY <1>4, <2>2, NotYetRead, LeaseKept DEF Claim, Become
    <2> QED
      BY <2>1, <2>2
  <1>5. ASSUME NEW t \in Tasks, SendAccepted(t) \/ SendRejected(t)
        PROVE  LeaseInv'
    <2>1. tasks[t].pc = "send" /\ row' = row /\ raced' = raced /\ Claimed(tasks[t])
      BY <1>5 DEF SendAccepted, SendRejected, At, LeaseInv, ClaimedInTime
    <2>2. HoldsLease(tasks[t])
      BY <2>1 DEF HoldsLease
    <2>3. PICK ok \in BOOLEAN :
             tasks' = [tasks EXCEPT ![t] = [tasks[t] EXCEPT !.pc = "record", !.ok = ok]]
      <3>1. tasks[t].ok \in BOOLEAN /\ [tasks[t] EXCEPT !.pc = "record"] =
               [tasks[t] EXCEPT !.pc = "record", !.ok = tasks[t].ok]
        BY Known DEF Task
      <3> QED
        BY <1>5, <3>1 DEF SendAccepted, SendRejected, GoTo, Become
    <2> DEFINE new == [tasks[t] EXCEPT !.pc = "record", !.ok = ok]
    <2>4. InTime(new) /\ new.age = tasks[t].age
      BY <2>1, Known DEF Claimed, InTime, Task
    <2>5. tasks' = [tasks EXCEPT ![t] = new]
      BY <2>3
    <2> HIDE DEF new
    <2> QED
      BY <2>1, <2>2, <2>4, <2>5, LeaseKept
  <1>6. ASSUME NEW t \in Tasks, Record(t)
        PROVE  LeaseInv'
    <2>1. MaxAge < Lease /\ ~raced => \A u \in Tasks \ {t} : ~HoldsLease(tasks[u])
      BY <1>6 DEF Record, At, HoldsLease, LeaseInv, LeaseIsIntact
    <2> QED
      BY <1>6, <2>1, NotYetRead, LeaseKept DEF Record, Become
  <1>7. ASSUME NEW t \in Tasks, Crash(t) \/ SelectDue(t) \/ RequestRetry(t)
        PROVE  LeaseInv'
    <2>1. CASE Crash(t)
      BY <2>1, NotYetRead, LeaseKept DEF Crash, Become
    <2>2. CASE SelectDue(t)
      BY <2>2, NotYetRead, LeaseKept DEF SelectDue, Become, Operations
    <2>3. CASE RequestRetry(t)
      BY <2>3, NotYetRead, LeaseKept DEF RequestRetry, Become, Operations
    <2> QED
      BY <1>7, <2>1, <2>2, <2>3
  <1>8. ASSUME NEW t \in Tasks, NEW kind \in Kinds, ApplyRead(t, kind)
        PROVE  LeaseInv'
    <2> DEFINE new == [Holding("apply", "write", kind, row) EXCEPT !.ok = ApplyTarget]
    <2>1. new.pc = "write"
      BY Known, HoldingTask, CallbacksAssumption DEF Holding, Operations, PCs
    <2>2. InTime(new) /\ ~HoldsLease(new)
      BY <2>1 DEF InTime, HoldsLease
    <2>3. tasks' = [tasks EXCEPT ![t] = new] /\ row' = row /\ raced' = raced
      BY <1>8 DEF ApplyRead, Become
    <2> HIDE DEF new
    <2> QED
      BY <2>2, <2>3, LeaseKept
  <1>9. CASE SwitchCallbacks
    BY <1>9 DEF SwitchCallbacks, LeaseInv, ClaimedInTime, Claimed, LeaseIsIntact, HoldsLease
  <1>10. CASE Tick
    <2>1. ASSUME NEW t \in Tasks
          PROVE  /\ tasks'[t].pc = tasks[t].pc
                 /\ Claimed(tasks'[t]) = Claimed(tasks[t])
                 /\ HoldsLease(tasks'[t]) = HoldsLease(tasks[t])
                 /\ HoldsLease(tasks[t]) => tasks'[t].age = tasks[t].age + 1
      BY <1>10, TickedTask DEF Claimed, HoldsLease, Dispatching
    <2>2. ClaimedInTime'
      BY <2>1 DEF LeaseInv, ClaimedInTime
    <2>3. ASSUME MaxAge < Lease, ~raced'
          PROVE  LeaseIsIntact'
      <3>1. LeaseIsIntact
        BY <1>10, <2>3 DEF Tick, LeaseInv
      <3>2. row' = Later(row) /\ row \in Row
        BY <1>10, Known DEF Tick, ScheduleInv, TypeOK
      <3>3. row'.callback = row.callback /\ row'.next = Elapsed(row.next)
        BY <3>2, LaterRow
      <3>4. ASSUME NEW t \in Tasks, HoldsLease(tasks'[t])
            PROVE  /\ row'.callback = "PROCESSING" /\ row'.next = Lease - tasks'[t].age
                   /\ \A u \in Tasks \ {t} : ~HoldsLease(tasks'[u])
        <4>1. HoldsLease(tasks[t]) /\ tasks'[t].age = tasks[t].age + 1
          BY <2>1, <3>4
        <4>2. tasks[t].age \in 0 .. MaxAge
          BY Known DEF Task
        <4>3. row.next = Lease - tasks[t].age /\ row.callback = "PROCESSING"
              /\ \A u \in Tasks \ {t} : ~HoldsLease(tasks[u])
          BY <3>1, <4>1 DEF LeaseIsIntact
        <4>4. row'.next = Lease - tasks'[t].age
          BY <2>3, <3>3, <4>1, <4>2, <4>3, CallbacksAssumption DEF Elapsed, Running
        <4> QED
          BY <2>1, <3>3, <4>3, <4>4
      <3> QED
        BY <3>4 DEF LeaseIsIntact, HoldsLease, Claimed
    <2> QED
      BY <2>2, <2>3 DEF LeaseInv
  <1>11. CASE CreationEnds
    <2>1. UNCHANGED <<tasks, raced>> /\ row'.callback = row.callback /\ row'.next = row.next
      BY <1>11 DEF CreationEnds, ScheduleInv, TypeOK, Row
    <2> QED
      BY <2>1 DEF LeaseInv, ClaimedInTime, Claimed, LeaseIsIntact, HoldsLease
  <1>12. CASE UNCHANGED vars
    BY <1>12 DEF vars, LeaseInv, ClaimedInTime, Claimed, LeaseIsIntact, HoldsLease
  <1> QED
    BY <1>1, <1>2, <1>3, <1>4, <1>5, <1>6, <1>7, <1>8, <1>9, <1>10, <1>11, <1>12 DEF Next, Step

-----------------------------------------------------------------------------
(* What is delivered is current                                              *)

\* DeliveryHolds and TaskIsCurrent of a row's status, the acknowledged statuses and WrittenOver.
Holds(r, acks) == r.callback = "DELIVERED" => IsTerminal(r.status) /\ r.status \in acks

Current(task, status, acks, race) ==
    /\ task.pc \in {"load", "claim", "send"} => ~task.ok
    /\ task.pc = "record" /\ task.ok => task.snap.status \in acks
    /\ ~race /\ task.pc \in {"claim", "send", "record"} => status = task.snap.status
    /\ ~race /\ task.pc = "write" => Holds(task.snap, acks)

LEMMA CurrentForm ==
    /\ CurrentInv <=>
          /\ ~WrittenOver => Holds(row, acknowledged)
          /\ \A t \in Tasks : Current(tasks[t], row.status, acknowledged, WrittenOver)
    /\ CurrentInv' <=>
          /\ ~WrittenOver' => Holds(row', acknowledged')
          /\ \A t \in Tasks : Current(tasks'[t], row'.status, acknowledged', WrittenOver')
  BY DEF CurrentInv, DeliveryHolds, TaskIsCurrent, Holds, Current

\* A step that replaces one task, if nothing that was acknowledged is lost and no task that
\* dispatches sees another status, unless the row was written over.
LEMMA CurrentKept ==
    ASSUME ScheduleInv, CurrentInv, NEW t \in Tasks,
           NEW task, tasks' = [tasks EXCEPT ![t] = task],
           acknowledged \subseteq acknowledged', ~WrittenOver' => ~WrittenOver,
           ~WrittenOver' => Holds(row', acknowledged'),
           ~WrittenOver' => \A u \in Tasks \ {t} : Dispatching(tasks[u]) => row'.status = row.status,
           Current(task, row'.status, acknowledged', WrittenOver')
    PROVE  CurrentInv'
  <1>1. ASSUME NEW u \in Tasks
        PROVE  Current(tasks'[u], row'.status, acknowledged', WrittenOver')
    <2>1. CASE u = t
      BY <2>1 DEF ScheduleInv, TypeOK
    <2>2. CASE u # t
      <3>1. tasks'[u] = tasks[u]
        BY <2>2 DEF ScheduleInv, TypeOK
      <3>2. Current(tasks[u], row.status, acknowledged, WrittenOver)
        BY CurrentForm
      <3> QED
        BY <2>2, <3>1, <3>2 DEF Current, Holds, Dispatching
    <2> QED
      BY <2>1, <2>2
  <1> QED
    BY <1>1, CurrentForm

\* A task that has read nothing is current.
LEMMA UnreadIsCurrent ==
    ASSUME NEW status, NEW acks, NEW race
    PROVE  /\ Current(Idle, status, acks, race)
           /\ \A op \in Operations : Current(Holding(op, "load", "pending", NewRow), status, acks, race)
  BY DEF Current, Idle, Holding

\* A step of one task that writes neither the row nor an acknowledgement.
LEMMA CurrentAlone ==
    ASSUME ScheduleInv, CurrentInv, NEW t \in Tasks,
           NEW task, tasks' = [tasks EXCEPT ![t] = task],
           row' = row, acknowledged' = acknowledged, raced' = raced, UNCHANGED creation,
           Current(task, row.status, acknowledged, WrittenOver)
    PROVE  CurrentInv'
  <1>1. WrittenOver' = WrittenOver
    BY DEF WrittenOver, creation
  <1> QED
    BY <1>1, CurrentForm, CurrentKept

\* A final status stays final.
LEMMA FinalStaysFinal ==
    ASSUME NEW current, NEW kind \in NoteKinds, IsTerminal(current)
    PROVE  IsTerminal(ResolveStatus(current, kind))
  BY DEF ResolveStatus, IsTerminal, NoteKinds

LEMMA CurrentInit == Init => CurrentInv
  BY UnreadIsCurrent, CurrentForm DEF Init, Holds, NewRow

LEMMA CurrentStep ==
    ASSUME ScheduleInv, LeaseInv, CurrentInv, [Next]_vars
    PROVE  CurrentInv'
  <1>1. ASSUME NEW t \in Tasks, ApplyWrite(t)
        PROVE  CurrentInv'
    <2> DEFINE snap == tasks[t].snap
               status == ResolveStatus(snap.status, tasks[t].kind)
               queue == tasks[t].ok /\ Queues(snap, status)
               new == IF queue THEN Holding("apply", "load", "pending", NewRow) ELSE Idle
    <2>1. /\ row'.status = status
          /\ row'.callback = IF queue THEN "PENDING"
                             ELSE IF tasks[t].ok THEN snap.callback ELSE "NOT_REQUIRED"
          /\ tasks' = [tasks EXCEPT ![t] = new]
      BY <1>1 DEF ApplyWrite, Become
    <2>2. /\ acknowledged' = acknowledged /\ tasks[t].pc = "write"
          /\ WrittenOver' = (WrittenOver \/ Interferes(t))
      BY <1>1 DEF ApplyWrite, At, WrittenOver, creation
    <2>3. ASSUME ~WrittenOver' PROVE Holds(row', acknowledged')
      <3>1. Holds(snap, acknowledged)
        BY <2>2, <2>3, CurrentForm DEF Current
      <3>2. SUFFICES ASSUME row'.callback = "DELIVERED"
                     PROVE  IsTerminal(status) /\ status \in acknowledged
        BY <2>1, <2>2 DEF Holds
      <3>3. ~queue /\ tasks[t].ok /\ snap.callback = "DELIVERED"
        BY <2>1, <3>2
      <3>4. IsTerminal(snap.status) /\ snap.status \in acknowledged
        BY <3>1, <3>3 DEF Holds
      <3>5. IsTerminal(status)
        BY <3>4, FinalStaysFinal, Known DEF Task
      <3>6. snap.status = status
        BY <3>3, <3>4, <3>5 DEF Queues
      <3> QED
        BY <3>4, <3>5, <3>6
    <2>4. ~WrittenOver' => \A u \in Tasks \ {t} : ~Dispatching(tasks[u])
      BY <2>2 DEF Interferes
    <2>5. Current(new, row'.status, acknowledged', WrittenOver')
      BY UnreadIsCurrent DEF Operations
    <2> HIDE DEF new
    <2> QED
      BY <2>1, <2>2, <2>3, <2>4, <2>5, CurrentKept
  <1>2. ASSUME NEW t \in Tasks, Load(t)
        PROVE  CurrentInv'
    <2>1. ~tasks[t].ok
      BY <1>2, CurrentForm DEF Load, At, Current
    <2>2. CASE ~DispatchTarget
      <3> DEFINE new == [tasks[t] EXCEPT !.pc = "drop"]
      <3>1. tasks' = [tasks EXCEPT ![t] = new] /\ Current(new, row.status, acknowledged, WrittenOver)
        BY <1>2, <2>2, Known DEF Load, GoTo, Become, Current, Task
      <3> HIDE DEF new
      <3> QED
        BY <1>2, <3>1, CurrentAlone DEF Load
    <2>3. CASE DispatchTarget /\ Skips(Forced(t))
      BY <1>2, <2>3, UnreadIsCurrent, CurrentAlone DEF Load, Become
    <2>4. CASE DispatchTarget /\ ~Skips(Forced(t))
      <3> DEFINE new == [tasks[t] EXCEPT !.pc = "claim", !.snap = row]
      <3>1. tasks' = [tasks EXCEPT ![t] = new]
        BY <1>2, <2>4 DEF Load, Become
      <3>2. Current(new, row.status, acknowledged, WrittenOver)
        BY <2>1, Known DEF Current, Task
      <3> HIDE DEF new
      <3> QED
        BY <1>2, <3>1, <3>2, CurrentAlone DEF Load
    <2> QED
      BY <2>2, <2>3, <2>4
  <1>3. ASSUME NEW t \in Tasks, Drop(t)
        PROVE  CurrentInv'
    <2>1. row'.callback = "NOT_REQUIRED" /\ row'.status = row.status
      BY <1>3, Known DEF Drop, Row
    <2>2. WrittenOver' = (WrittenOver \/ Interferes(t))
      BY <1>3 DEF Drop, WrittenOver, creation
    <2> QED
      BY <1>3, <2>1, <2>2, UnreadIsCurrent, CurrentKept DEF Drop, Become, Holds
  <1>4. ASSUME NEW t \in Tasks, Claim(t)
        PROVE  CurrentInv'
    <2>1. CASE Claimable(Forced(t))
      <3> DEFINE pc == IF HasRequest(tasks[t].snap.status) THEN "send" ELSE "drop"
                 new == [tasks[t] EXCEPT !.pc = pc]
      <3>1. tasks' = [tasks EXCEPT ![t] = new]
        BY <1>4, <2>1 DEF Claim, GoTo, Become
      <3>2. row'.callback = "PROCESSING" /\ row'.status = row.status
        BY <1>4, <2>1, Known DEF Claim, Row
      <3>3. pc \in {"drop", "send"} /\ tasks[t].pc = "claim"
        BY <1>4 DEF Claim, At
      <3>4. new.pc = pc /\ new.snap = tasks[t].snap /\ new.ok = tasks[t].ok
        BY Known DEF Task
      <3>5. Current(tasks[t], row.status, acknowledged, WrittenOver)
        BY CurrentForm
      <3> HIDE DEF pc, new
      <3>6. Current(new, row.status, acknowledged, WrittenOver)
        BY <3>3, <3>4, <3>5 DEF Current
      <3>7. WrittenOver' = WrittenOver
        BY <1>4 DEF Claim, WrittenOver, creation
      <3> QED
        BY <1>4, <3>1, <3>2, <3>6, <3>7, CurrentKept DEF Claim, Holds
    <2>2. CASE ~Claimable(Forced(t))
      BY <1>4, <2>2, UnreadIsCurrent, CurrentAlone DEF Claim, Become
    <2> QED
      BY <2>1, <2>2
  <1>5. ASSUME NEW t \in Tasks, SendAccepted(t)
        PROVE  CurrentInv'
    <2> DEFINE new == [tasks[t] EXCEPT !.pc = "record", !.ok = TRUE]
    <2>1. tasks' = [tasks EXCEPT ![t] = new] /\ row' = row /\ WrittenOver' = WrittenOver
          /\ acknowledged' = acknowledged \cup {tasks[t].snap.status} /\ tasks[t].pc = "send"
      BY <1>5 DEF SendAccepted, Become, At, WrittenOver, creation
    <2>2. new.pc = "record" /\ new.snap = tasks[t].snap
      BY Known DEF Task
    <2>3. Current(tasks[t], row.status, acknowledged, WrittenOver) /\ (~WrittenOver => Holds(row, acknowledged))
      BY CurrentForm
    <2> HIDE DEF new
    <2>4. Current(new, row'.status, acknowledged', WrittenOver') /\ (~WrittenOver' => Holds(row', acknowledged'))
      BY <2>1, <2>2, <2>3 DEF Current, Holds
    <2> QED
      BY <2>1, <2>4, CurrentKept
  <1>6. ASSUME NEW t \in Tasks, SendRejected(t)
        PROVE  CurrentInv'
    <2> DEFINE new == [tasks[t] EXCEPT !.pc = "record"]
    <2>1. tasks' = [tasks EXCEPT ![t] = new] /\ tasks[t].pc = "send"
      BY <1>6 DEF SendRejected, GoTo, Become, At
    <2>2. new.pc = "record" /\ new.snap = tasks[t].snap /\ new.ok = tasks[t].ok
      BY Known DEF Task
    <2>3. Current(tasks[t], row.status, acknowledged, WrittenOver)
      BY CurrentForm
    <2> HIDE DEF new
    <2>4. Current(new, row.status, acknowledged, WrittenOver)
      BY <2>1, <2>2, <2>3 DEF Current
    <2> QED
      BY <1>6, <2>1, <2>4, CurrentAlone DEF SendRejected
  <1>7. ASSUME NEW t \in Tasks, Record(t)
        PROVE  CurrentInv'
    <2>1. /\ row'.callback = IF tasks[t].ok THEN "DELIVERED" ELSE "FAILED"
          /\ row'.status = row.status
      BY <1>7, Known DEF Record, Row
    <2>2. tasks[t].pc = "record" /\ WrittenOver' = WrittenOver /\ acknowledged' = acknowledged
          /\ tasks' = [tasks EXCEPT ![t] = Idle]
      BY <1>7 DEF Record, At, Become, WrittenOver, creation
    <2>3. Current(tasks[t], row.status, acknowledged, WrittenOver)
      BY CurrentForm
    <2>4. IsTerminal(tasks[t].snap.status)
      BY <2>2 DEF LeaseInv, ClaimedInTime, Claimed
    <2>5. ~WrittenOver' => Holds(row', acknowledged')
      BY <2>1, <2>2, <2>3, <2>4 DEF Current, Holds
    <2> QED
      BY <2>1, <2>2, <2>5, UnreadIsCurrent, CurrentKept
  <1>8. ASSUME NEW t \in Tasks, Crash(t) \/ SelectDue(t) \/ RequestRetry(t)
        PROVE  CurrentInv'
    <2>1. CASE Crash(t)
      BY <2>1, UnreadIsCurrent, CurrentAlone DEF Crash, Become
    <2>2. CASE SelectDue(t)
      BY <2>2, UnreadIsCurrent, CurrentAlone DEF SelectDue, Become, Operations
    <2>3. CASE RequestRetry(t)
      BY <2>3, UnreadIsCurrent, CurrentAlone DEF RequestRetry, Become, Operations
    <2> QED
      BY <1>8, <2>1, <2>2, <2>3
  <1>9. ASSUME NEW t \in Tasks, NEW kind \in Kinds, ApplyRead(t, kind)
        PROVE  CurrentInv'
    <2> DEFINE new == [Holding("apply", "write", kind, row) EXCEPT !.ok = ApplyTarget]
    <2>1. new.pc = "write" /\ new.snap = row
      BY DEF Holding
    <2>2. tasks' = [tasks EXCEPT ![t] = new]
      BY <1>9 DEF ApplyRead, Become
    <2>3. ~WrittenOver => Holds(row, acknowledged)
      BY CurrentForm
    <2> HIDE DEF new
    <2>4. Current(new, row.status, acknowledged, WrittenOver)
      BY <2>1, <2>3 DEF Current
    <2> QED
      BY <1>9, <2>2, <2>4, CurrentAlone DEF ApplyRead
  <1>10. CASE SwitchCallbacks
    BY <1>10, CurrentForm DEF SwitchCallbacks, WrittenOver, creation
  <1>11. CASE Tick
    <2>1. row'.callback = row.callback /\ row'.status = row.status
      BY <1>11, LaterRow DEF Tick, ScheduleInv, TypeOK
    <2>2. acknowledged' = acknowledged /\ WrittenOver' = WrittenOver
      BY <1>11 DEF Tick, WrittenOver, creation
    <2>3. ASSUME NEW t \in Tasks
          PROVE  Current(tasks'[t], row'.status, acknowledged', WrittenOver')
      <3>1. tasks'[t] = Aged(tasks[t]) /\ tasks[t] \in Task /\ tasks[t].snap \in Row
        BY <1>11, Known DEF Tick
      <3>2. /\ tasks'[t].pc = tasks[t].pc /\ tasks'[t].ok = tasks[t].ok
            /\ tasks'[t].snap = Later(tasks[t].snap)
        BY <3>1 DEF Aged, Task
      <3>3. /\ Later(tasks[t].snap).status = tasks[t].snap.status
            /\ Later(tasks[t].snap).callback = tasks[t].snap.callback
        BY <3>1, LaterRow
      <3>4. Current(tasks[t], row.status, acknowledged, WrittenOver)
        BY CurrentForm
      <3> QED
        BY <2>1, <2>2, <3>2, <3>3, <3>4 DEF Current, Holds
    <2>4. ~WrittenOver' => Holds(row', acknowledged')
      BY <2>1, <2>2, CurrentForm DEF Holds
    <2> QED
      BY <2>3, <2>4, CurrentForm
  <1>12. CASE CreationEnds
    <2>1. PICK status \in {"PENDING", "PROCESSING", "FAILED"} :
             /\ row' = [row EXCEPT !.status = status]
             /\ overtaken' = (overtaken \/ (IsTerminal(row.status) /\ row.status # status))
      BY <1>12, CallbacksAssumption DEF CreationEnds
    <2>2. UNCHANGED <<tasks, acknowledged, raced>>
      BY <1>12 DEF CreationEnds
    <2>3. row'.status = status /\ row'.callback = row.callback
      BY <2>1 DEF ScheduleInv, TypeOK, Row
    <2>4. ~WrittenOver' => ~WrittenOver /\ (IsTerminal(row.status) => row'.status = row.status)
      BY <2>1, <2>2, <2>3 DEF WrittenOver
    <2>5. ~WrittenOver' => Holds(row', acknowledged')
      BY <2>2, <2>3, <2>4, CurrentForm DEF Holds
    <2>6. ASSUME NEW t \in Tasks
          PROVE  Current(tasks'[t], row'.status, acknowledged', WrittenOver')
      <3>1. Current(tasks[t], row.status, acknowledged, WrittenOver)
        BY CurrentForm
      <3>2. tasks[t].pc \in {"claim", "send", "record"} => IsTerminal(tasks[t].snap.status)
        BY DEF LeaseInv, ClaimedInTime, Claimed
      <3> QED
        BY <2>2, <2>4, <3>1, <3>2 DEF Current
    <2> QED
      BY <2>5, <2>6, CurrentForm
  <1>13. CASE UNCHANGED vars
    BY <1>13, CurrentForm DEF vars, WrittenOver
  <1> QED
    BY <1>1, <1>2, <1>3, <1>4, <1>5, <1>6, <1>7, <1>8, <1>9, <1>10, <1>11, <1>12, <1>13 DEF Next, Step

-----------------------------------------------------------------------------

\* IInv is inductive; the lease and what is current rest on the types that ScheduleInv keeps.
THEOREM CallbacksInvariant == Spec => []IInv
  <1>1. Init => IInv
    BY ScheduleInit, LeaseInit, CurrentInit DEF IInv
  <1>2. IInv /\ [Next]_vars => IInv'
    <2> SUFFICES ASSUME IInv, [Next]_vars PROVE IInv'
      OBVIOUS
    <2>1. ScheduleInv'
      BY ScheduleStep DEF IInv
    <2>2. LeaseInv'
      BY <2>1, LeaseStep DEF IInv, ScheduleInv
    <2>3. CurrentInv'
      BY CurrentStep DEF IInv
    <2> QED
      BY <2>1, <2>2, <2>3 DEF IInv
  <1> QED
    BY <1>1, <1>2, PTL DEF Spec

\* No count, lease or status leaves its type, whatever handlers interleave or die.
THEOREM TypeCorrect == Spec => []TypeOK
  <1>1. IInv => TypeOK
    BY DEF IInv, ScheduleInv
  <1> QED
    BY <1>1, CallbacksInvariant, PTL

\* The order's retry is always scheduled, whatever is read stale and whoever dies.
THEOREM RetryTheorem == Spec => []RetryIsScheduled
  <1>1. IInv => RetryIsScheduled
    BY DEF IInv, ScheduleInv
  <1> QED
    BY <1>1, CallbacksInvariant, PTL

\* However many handlers, retries and ticks there are, parallel requests to the merchant
\* need a write that ignores the lease, if a dispatch ends before its lease does.
THEOREM LeaseTheorem == Spec => []DeliveriesOverlapOnlyByRequeue
  <1>1. IInv => DeliveriesOverlapOnlyByRequeue
    BY DEF IInv, LeaseInv, LeaseIsIntact, DeliveriesOverlapOnlyByRequeue, InFlight, HoldsLease
  <1> QED
    BY <1>1, CallbacksInvariant, PTL

\* However many notifications, retries and crashes there are, an order shown as DELIVERED was
\* acknowledged with the status it has, if its row was not written over: neither during a dispatch
\* nor, once it had a final status, by the end of its creation.
THEOREM CurrentTheorem == Spec => []DeliveredIsCurrent
  <1>1. IInv => DeliveredIsCurrent
    BY DEF IInv, CurrentInv, DeliveryHolds, DeliveredIsCurrent
  <1> QED
    BY <1>1, CallbacksInvariant, PTL

=============================================================================
