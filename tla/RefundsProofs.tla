--------------------------- MODULE RefundsProofs ---------------------------
(***************************************************************************)
(* Theorems about Refunds, for any refunds, requests, amounts and faults:     *)
(* what the merchant is shown and debited is what the provider has made, and  *)
(* the refunds of an order stay within its amount until one returns.          *)
(***************************************************************************)
EXTENDS Refunds, FiniteSetTheorems, WellFoundedInduction, TLAPS

-----------------------------------------------------------------------------
(* Tasks                                                                     *)

\* What a request in a given state has learnt of a success is true in "provider".
Learnt(task, made) ==
    /\ task.pc \in {"read", "write"} /\ task.note = "success" => made[task.refund] = "success"
    /\ task.pc = "write" /\ task.snap = "SUCCEEDED" => made[task.refund] = "success"

LEMMA BeginningTask ==
    ASSUME NEW op \in {"get", "create", "submit"}, NEW pc \in PCs,
           NEW r \in Refunds \cup {None}, NEW a \in {0} \cup Requests
    PROVE  /\ Beginning(op, pc, r, a) \in Task
           /\ Beginning(op, pc, r, a).pc = pc /\ Beginning(op, pc, r, a).refund = r
           /\ pc \notin {"read", "write"} => \A made : Learnt(Beginning(op, pc, r, a), made)
  BY DEF Beginning, Task, RefundStatuses, Answers, Learnt

LEMMA IdleTask ==
    Idle \in Task /\ Idle.pc = "idle" /\ \A made : Learnt(Idle, made)
  BY BeginningTask DEF Idle, PCs

LEMMA ProceedingTask ==
    ASSUME NEW task \in Task, NEW pc \in PCs \ {"read", "write"}, NEW made
    PROVE  /\ Beginning(task.op, pc, task.refund, task.amount) \in Task
           /\ Beginning(task.op, pc, task.refund, task.amount).refund = task.refund
           /\ Learnt(Beginning(task.op, pc, task.refund, task.amount), made)
  BY DEF Beginning, Task, RefundStatuses, Answers, Learnt

LEMMA MovedTask ==
    ASSUME NEW task \in Task, NEW pc \in PCs
    PROVE  /\ [task EXCEPT !.pc = pc] \in Task
           /\ [task EXCEPT !.pc = pc].pc = pc
           /\ [task EXCEPT !.pc = pc].refund = task.refund
           /\ pc \notin {"read", "write"} => \A made : Learnt([task EXCEPT !.pc = pc], made)
  BY DEF Task, Learnt

LEMMA Known ==
    ASSUME IInv, NEW t \in Tasks
    PROVE  /\ tasks[t] \in Task /\ Learnt(tasks[t], provider)
           /\ tasks[t].pc # "idle" => tasks[t].refund \in Refunds
           /\ refunds \in [Refunds -> Row] /\ booked \in SUBSET Refunds
           /\ provider \in [Refunds -> ProviderStates]
           /\ returned \in BOOLEAN /\ faults \in 0 .. MaxFaults
  BY DEF IInv, TypeOK, Working, LearntIsReal, Learnt

LEMMA FaultType ==
    ASSUME faults \in 0 .. MaxFaults, Fault
    PROVE  faults' \in 0 .. MaxFaults
  BY RefundsAssumption DEF Fault

LEMMA ResolvedStatus ==
    ASSUME NEW current, NEW note
    PROVE  /\ ResolveRefundStatus(current, note) \in {"SUCCEEDED", "FAILED", "PROCESSING"}
           /\ ResolveRefundStatus(current, note) = "SUCCEEDED" =>
                 note = "success" \/ current = "SUCCEEDED"
  BY DEF ResolveRefundStatus

-----------------------------------------------------------------------------
(* Steps                                                                     *)

\* A step of one task keeps the invariant if it keeps the types, the provider forgets no
\* success, and neither the task nor the tables claim a success that is not there.
LEMMA TaskStep ==
    ASSUME IInv, NEW t \in Tasks, NEW task \in Task, tasks' = [tasks EXCEPT ![t] = task],
           task.pc # "idle" => task.refund \in Refunds,
           Learnt(task, provider'),
           refunds' \in [Refunds -> Row], booked' \in SUBSET Refunds,
           provider' \in [Refunds -> ProviderStates],
           returned' \in BOOLEAN, faults' \in 0 .. MaxFaults,
           \A r \in Refunds : provider[r] = "success" => provider'[r] = "success",
           \A r \in Refunds : refunds'[r].status = "SUCCEEDED" \/ r \in booked'
                                 => provider'[r] = "success"
    PROVE  IInv'
  <1>1. TypeOK'
    BY DEF IInv, TypeOK
  <1>2. \A u \in Tasks : tasks'[u] = IF u = t THEN task ELSE tasks[u]
    BY DEF IInv, TypeOK
  <1>3. Working'
    BY <1>2 DEF IInv, Working
  <1>4. SuccessIsReal'
    BY DEF SuccessIsReal
  <1>5. ASSUME NEW u \in Tasks
        PROVE  Learnt(tasks'[u], provider')
    <2>1. CASE u = t
      BY <1>2, <2>1
    <2>2. CASE u # t
      <3>1. Learnt(tasks[u], provider) /\ (tasks[u].pc # "idle" => tasks[u].refund \in Refunds)
        BY Known
      <3> QED
        BY <1>2, <2>2, <3>1 DEF Learnt
    <2> QED
      BY <2>1, <2>2
  <1>6. LearntIsReal'
    BY <1>5 DEF LearntIsReal, Learnt
  <1> QED
    BY <1>1, <1>3, <1>4, <1>6 DEF IInv

\* A step that changes nothing but a task.
LEMMA TaskOnly ==
    ASSUME IInv, NEW t \in Tasks, NEW task \in Task, tasks' = [tasks EXCEPT ![t] = task],
           task.pc # "idle" => task.refund \in Refunds,
           Learnt(task, provider),
           refunds' = refunds, booked' = booked, provider' = provider,
           returned' = returned, faults' \in 0 .. MaxFaults
    PROVE  IInv'
  <1>1. \A r \in Refunds : refunds[r].status = "SUCCEEDED" \/ r \in booked
                              => provider[r] = "success"
    BY DEF IInv, SuccessIsReal
  <1> QED
    BY <1>1, Known, TaskStep

\* A step of a task that also changes one row, to a success only if there is one.
LEMMA RowStep ==
    ASSUME IInv, NEW t \in Tasks, NEW task \in Task, tasks' = [tasks EXCEPT ![t] = task],
           task.pc # "idle" => task.refund \in Refunds,
           Learnt(task, provider),
           NEW r \in Refunds, NEW row \in Row, refunds' = [refunds EXCEPT ![r] = row],
           row.status = "SUCCEEDED" => provider[r] = "success",
           booked' = booked, provider' = provider,
           returned' \in BOOLEAN, faults' = faults
    PROVE  IInv'
  <1>1. refunds' \in [Refunds -> Row]
    BY Known
  <1>2. \A s \in Refunds : refunds'[s].status = "SUCCEEDED" \/ s \in booked
                              => provider[s] = "success"
    BY Known DEF IInv, SuccessIsReal
  <1> QED
    BY <1>1, <1>2, Known, TaskStep

LEMMA InvariantInit == Init => IInv
  <1> SUFFICES ASSUME Init PROVE IInv
    OBVIOUS
  <1>1. NoRow \in Row /\ NoRow.status = "none"
    BY DEF NoRow, Row
  <1>2. TypeOK
    <2>1. faults \in 0 .. MaxFaults
      BY RefundsAssumption DEF Init
    <2> QED
      BY <1>1, <2>1, IdleTask DEF Init, TypeOK, ProviderStates
  <1>3. Working /\ LearntIsReal
    BY IdleTask DEF Init, Working, LearntIsReal, Learnt
  <1>4. SuccessIsReal
    BY <1>1 DEF Init, SuccessIsReal
  <1> QED
    BY <1>2, <1>3, <1>4 DEF IInv

LEMMA InvariantStep ==
    ASSUME IInv, [Next]_vars
    PROVE  IInv'
  <1>1. ASSUME NEW t \in Tasks, Query(t)
        PROVE  IInv'
    <2>1. tasks[t].refund \in Refunds
      BY <1>1, Known DEF Query, At
    <2>2. CASE Done(t)
      BY <1>1, <2>2, IdleTask, Known, TaskOnly DEF Query, Done, Become
    <2>3. CASE ~Done(t)
      <3>1. PICK note \in Answers :
              /\ note = "success" => provider[tasks[t].refund] = "success"
              /\ tasks' = [tasks EXCEPT ![t] = [tasks[t] EXCEPT !.pc = "read", !.note = note]]
        BY <1>1, <2>3, RefundsAssumption DEF Query, Standing, Become
      <3> DEFINE task == [tasks[t] EXCEPT !.pc = "read", !.note = note]
      <3>2. task \in Task /\ task.refund = tasks[t].refund /\ task.pc = "read" /\ task.note = note
        BY Known DEF Task, PCs
      <3>3. tasks' = [tasks EXCEPT ![t] = task]
        BY <3>1
      <3> HIDE DEF task
      <3>4. Learnt(task, provider)
        BY <3>1, <3>2 DEF Learnt
      <3> QED
        BY <1>1, <2>1, <3>2, <3>3, <3>4, Known, TaskOnly DEF Query
    <2> QED
      BY <2>2, <2>3
  <1>2. ASSUME NEW t \in Tasks, Read(t)
        PROVE  IInv'
    <2> DEFINE task == [tasks[t] EXCEPT !.pc = "write", !.snap = refunds[tasks[t].refund].status]
    <2>1. tasks[t].refund \in Refunds /\ tasks[t].pc = "read"
      BY <1>2, Known DEF Read, At
    <2>2. refunds[tasks[t].refund].status \in RefundStatuses \cup {"none"}
      BY <2>1, Known DEF Row
    <2>3. /\ task \in Task /\ task.refund = tasks[t].refund /\ task.pc = "write"
          /\ task.note = tasks[t].note /\ task.snap = refunds[tasks[t].refund].status
      BY <2>2, Known DEF Task, PCs
    <2>4. tasks' = [tasks EXCEPT ![t] = task]
      BY <1>2 DEF Read, Become, RowOf
    <2> HIDE DEF task
    <2>5. Learnt(task, provider)
      BY <2>1, <2>3, Known DEF Learnt, IInv, SuccessIsReal
    <2> QED
      BY <1>2, <2>1, <2>3, <2>4, <2>5, Known, TaskOnly DEF Read
  <1>3. ASSUME NEW t \in Tasks, Write(t)
        PROVE  IInv'
    <2> DEFINE r == tasks[t].refund
               status == ResolveRefundStatus(tasks[t].snap, tasks[t].note)
               row == [refunds[r] EXCEPT !.status = status]
               task == Beginning(tasks[t].op, IF status = "SUCCEEDED" THEN "book" ELSE "reload",
                                 r, tasks[t].amount)
    <2>1. r \in Refunds /\ tasks[t].pc = "write"
      BY <1>3, Known DEF Write, At
    <2>2. refunds' = [refunds EXCEPT ![r] = row] /\ tasks' = [tasks EXCEPT ![t] = task]
      BY <1>3 DEF Write, Proceed, Become
    <2>3. row \in Row /\ row.status = status
      BY <2>1, Known, ResolvedStatus DEF Row, RefundStatuses
    <2>4. status = "SUCCEEDED" => provider[r] = "success"
      BY <2>1, Known, ResolvedStatus DEF Learnt
    <2>5. task \in Task /\ task.refund = r /\ Learnt(task, provider)
      <3> DEFINE pc == IF status = "SUCCEEDED" THEN "book" ELSE "reload"
      <3>1. pc \in PCs \ {"read", "write"}
        BY DEF PCs
      <3>2. task = Beginning(tasks[t].op, pc, tasks[t].refund, tasks[t].amount)
        OBVIOUS
      <3> HIDE DEF pc, task
      <3> QED
        BY <3>1, <3>2, Known, ProceedingTask
    <2>6. returned' \in BOOLEAN
      BY <1>3, Known DEF Write
    <2> HIDE DEF r, status, row, task
    <2> QED
      BY <1>3, <2>1, <2>2, <2>3, <2>4, <2>5, <2>6, RowStep DEF Write
  <1>4. ASSUME NEW t \in Tasks, Book(t)
        PROVE  IInv'
    <2> DEFINE task == [tasks[t] EXCEPT !.pc = "reload"]
    <2>1. tasks[t].refund \in Refunds
      BY <1>4, Known DEF Book, At
    <2>2. task \in Task /\ task.refund = tasks[t].refund /\ Learnt(task, provider)
      BY Known, MovedTask DEF PCs
    <2>3. tasks' = [tasks EXCEPT ![t] = task]
      BY <1>4 DEF Book, GoTo, Become
    <2>4. booked' \in SUBSET Refunds /\ \A r \in Refunds :
             refunds[r].status = "SUCCEEDED" \/ r \in booked' => provider[r] = "success"
      BY <1>4, <2>1, Known DEF Book, RowOf, IInv, SuccessIsReal
    <2> HIDE DEF task
    <2> QED
      BY <1>4, <2>1, <2>2, <2>3, <2>4, Known, TaskStep DEF Book
  <1>5. ASSUME NEW t \in Tasks, Reload(t) \/ Check(t)
        PROVE  IInv'
    <2>1. tasks[t].refund \in Refunds
      BY <1>5, Known DEF Reload, Check, At
    <2>2. CASE Done(t)
      BY <1>5, <2>2, IdleTask, Known, TaskOnly DEF Reload, Check, Done, Become
    <2>3. CASE ~Done(t)
      <3>1. PICK pc \in {"check", "reset"} : GoTo(t, pc)
        BY <1>5, <2>3 DEF Reload, Check
      <3> DEFINE task == [tasks[t] EXCEPT !.pc = pc]
      <3>2. task \in Task /\ task.refund = tasks[t].refund /\ Learnt(task, provider)
        <4>1. pc \in PCs /\ pc \notin {"read", "write"}
          BY DEF PCs
        <4> QED
          BY <4>1, Known, MovedTask
      <3>3. tasks' = [tasks EXCEPT ![t] = task]
        BY <3>1 DEF GoTo, Become
      <3> HIDE DEF task
      <3> QED
        BY <1>5, <2>1, <3>2, <3>3, Known, TaskOnly DEF Reload, Check
    <2> QED
      BY <2>2, <2>3
  <1>6. ASSUME NEW t \in Tasks, Reserve(t) \/ Reset(t)
        PROVE  IInv'
    <2> DEFINE r == tasks[t].refund
               row == [status |-> "PENDING", amount |-> tasks[t].amount]
               task == Beginning("submit", "send", r, 0)
    <2>1. r \in Refunds
      BY <1>6, Known DEF Reserve, Reset, At
    <2>2. row \in Row /\ row.status = "PENDING"
      BY Known DEF Row, RefundStatuses, Task
    <2>3. task \in Task /\ task.refund = r /\ Learnt(task, provider)
      BY <2>1, BeginningTask DEF PCs
    <2>4. returned' \in BOOLEAN /\ booked' = booked /\ provider' = provider /\ faults' = faults
      BY <1>6, Known DEF Reserve, Reset
    <2>5. \/ refunds' = refunds /\ Done(t) /\ returned' = returned
          \/ refunds' = [refunds EXCEPT ![r] = row] /\ tasks' = [tasks EXCEPT ![t] = task]
      BY <1>6 DEF Reserve, Reset, Submit, Become
    <2> HIDE DEF r, row, task
    <2>6. CASE refunds' = refunds /\ Done(t) /\ returned' = returned
      BY <2>4, <2>6, IdleTask, Known, TaskOnly DEF Done, Become
    <2>7. CASE refunds' = [refunds EXCEPT ![r] = row] /\ tasks' = [tasks EXCEPT ![t] = task]
      BY <2>1, <2>2, <2>3, <2>4, <2>7, RowStep
    <2> QED
      BY <2>5, <2>6, <2>7
  <1>7. ASSUME NEW t \in Tasks, Send(t)
        PROVE  IInv'
    <2> DEFINE r == tasks[t].refund
    <2>1. r \in Refunds
      BY <1>7, Known DEF Send, At
    <2>2. PICK answer \in Submissions(r) :
            /\ provider' = [provider EXCEPT ![r] = answer]
            /\ tasks' = [tasks EXCEPT ![t] = [tasks[t] EXCEPT !.pc = "read", !.note = answer]]
      BY <1>7 DEF Send, Become
    <2>3. answer \in Answers /\ (provider[r] = "success" => answer = "success")
      BY <2>1, <2>2, Known DEF Submissions, Taken, Answers, ProviderStates
    <2> DEFINE task == [tasks[t] EXCEPT !.pc = "read", !.note = answer]
    <2>4. task \in Task /\ task.refund = r /\ task.pc = "read" /\ task.note = answer
      BY <2>3, Known DEF Task, PCs
    <2>5. tasks' = [tasks EXCEPT ![t] = task]
      BY <2>2
    <2> HIDE DEF r, task
    <2>6. provider' \in [Refunds -> ProviderStates] /\ Learnt(task, provider')
      BY <2>1, <2>2, <2>3, <2>4, Known DEF Learnt, ProviderStates
    <2>7. \A s \in Refunds : provider[s] = "success" => provider'[s] = "success"
      BY <2>1, <2>2, <2>3, Known
    <2> QED
      BY <1>7, <2>1, <2>4, <2>5, <2>6, <2>7, Known, TaskStep DEF Send, IInv, SuccessIsReal
  <1>8. ASSUME NEW t \in Tasks, SendFails(t) \/ StatementFails(t)
        PROVE  IInv'
    <2> DEFINE r == tasks[t].refund
               task == Beginning(tasks[t].op, "catch", r, tasks[t].amount)
    <2>1. r \in Refunds
      BY <1>8, Known DEF SendFails, StatementFails, At
    <2>2. task \in Task /\ task.refund = r /\ Learnt(task, provider')
      BY Known, ProceedingTask DEF PCs
    <2>3. /\ tasks' = [tasks EXCEPT ![t] = task] /\ refunds' = refunds /\ booked' = booked
          /\ returned' = returned /\ faults' \in 0 .. MaxFaults
      BY <1>8, Known, FaultType DEF SendFails, StatementFails, Proceed, Become
    <2>4. /\ provider' \in [Refunds -> ProviderStates]
          /\ \A s \in Refunds : provider[s] = "success" => provider'[s] = "success"
      BY <1>8, <2>1, Known DEF SendFails, StatementFails, Outcomes, Submissions, Taken, Answers,
                               ProviderStates
    <2> HIDE DEF r, task
    <2> QED
      BY <2>1, <2>2, <2>3, <2>4, Known, TaskStep DEF IInv, SuccessIsReal
  <1>9. ASSUME NEW t \in Tasks, Catch(t)
        PROVE  IInv'
    <2> DEFINE r == tasks[t].refund
               row == [refunds[r] EXCEPT !.status = "FAILED"]
    <2>1. r \in Refunds
      BY <1>9, Known DEF Catch, At
    <2>2. row \in Row /\ row.status = "FAILED"
      BY <2>1, Known DEF Row, RefundStatuses
    <2>3. refunds' = [refunds EXCEPT ![r] = row]
      BY <1>9 DEF Catch
    <2> HIDE DEF r, row
    <2> QED
      BY <1>9, <2>1, <2>2, <2>3, IdleTask, Known, RowStep DEF Catch, Done, Become
  <1>10. ASSUME NEW t \in Tasks, Crash(t)
         PROVE  IInv'
    BY <1>10, IdleTask, FaultType, Known, TaskOnly DEF Crash, Done, Become
  <1>11. ASSUME NEW t \in Tasks, NEW r \in Refunds,
                Get(t, r) \/ \E amount \in Requests : Create(t, r, amount)
         PROVE  IInv'
    <2>1. PICK op \in {"get", "create"}, pc \in {"query", "reserve"}, a \in {0} \cup Requests :
            tasks' = [tasks EXCEPT ![t] = Beginning(op, pc, r, a)]
      BY <1>11 DEF Get, Create, Become
    <2>2. Beginning(op, pc, r, a) \in Task /\ Beginning(op, pc, r, a).refund = r
          /\ Learnt(Beginning(op, pc, r, a), provider)
      BY BeginningTask DEF PCs
    <2> QED
      BY <1>11, <2>1, <2>2, Known, TaskOnly DEF Get, Create
  <1>kn. returned \in BOOLEAN
    BY DEF IInv, TypeOK
  <1>12. ASSUME NEW r \in Refunds, Settle(r) \/ Arrive(r) \/ Backfill(r)
         PROVE  IInv'
    <2>1. /\ provider' \in [Refunds -> ProviderStates] /\ booked' \subseteq Refunds
          /\ \A s \in Refunds : provider[s] = "success" => provider'[s] = "success"
          /\ \A s \in Refunds : refunds[s].status = "SUCCEEDED" \/ s \in booked'
                                   => provider'[s] = "success"
      BY <1>12 DEF Settle, Arrive, OnItsWay, Backfill, Backfills, IInv, TypeOK, SuccessIsReal, Answers,
                   ProviderStates
    <2>2. tasks' = tasks /\ refunds' = refunds /\ returned' \in BOOLEAN /\ faults' = faults
      BY <1>12, <1>kn DEF Settle, Arrive, Backfill
    <2> QED
      BY <2>1, <2>2 DEF IInv, TypeOK, Working, SuccessIsReal, LearntIsReal
  <1>13. CASE UNCHANGED vars
    BY <1>13 DEF vars, IInv, TypeOK, Working, SuccessIsReal, LearntIsReal
  <1> QED
    BY <1>1, <1>2, <1>3, <1>4, <1>5, <1>6, <1>7, <1>8, <1>9, <1>10, <1>11, <1>12, <1>13
    DEF Next, Step

\* What Refunds keeps in its variables and what its requests have learnt.
THEOREM RefundsInvariant == Spec => []IInv
  BY InvariantInit, InvariantStep, PTL DEF Spec

\* No amount, status or answer leaves its type, whatever requests interleave or fail.
THEOREM TypeCorrect == Spec => []TypeOK
  <1>1. IInv => TypeOK
    BY DEF IInv
  <1> QED
    BY <1>1, RefundsInvariant, PTL

\* No interleaving of stale answers, stale rows, retries, lost answers and crashes shows or
\* debits a refund that the provider has not made.
THEOREM RealTheorem == Spec => []SuccessIsReal
  <1>1. IInv => SuccessIsReal
    BY DEF IInv
  <1> QED
    BY <1>1, RefundsInvariant, PTL

-----------------------------------------------------------------------------
(* Totals.  Induction is over the subsets of a finite set: a set of them has a *)
(* smallest one.                                                             *)

Pick(s) == CHOOSE x \in s : TRUE

\* g is the table of the sums of rows over the subsets of S.
Adds(rows, S, g) ==
    g = [s \in SUBSET S |-> IF s = {} THEN 0 ELSE rows[Pick(s)].amount + g[s \ {Pick(s)}]]

LEMMA Smallest ==
    ASSUME NEW S, IsFiniteSet(S), NEW B, B \subseteq SUBSET S, B # {}
    PROVE  \E T \in B : \A U \in B : U \subseteq T => U = T
  <1>1. IsWellFoundedOn(StrictSubsetOrdering(S), FiniteSubsetsOf(S))
    BY FS_StrictSubsetOrderingWellFounded
  <1>2. FiniteSubsetsOf(S) = SUBSET S
    BY FS_FiniteSubsetsOfFinite
  <1>3. PICK T \in B : \A U \in B : <<U, T>> \notin StrictSubsetOrdering(S)
    BY <1>1, <1>2, WFMin
  <1>4. QED
    BY <1>3 DEF StrictSubsetOrdering

LEMMA PickMember ==
    ASSUME NEW s, s # {}
    PROVE  Pick(s) \in s
  BY DEF Pick

LEMMA TotalIsAdded ==
    ASSUME NEW rows, NEW S
    PROVE  Total(rows, S) = (CHOOSE g : Adds(rows, S, g))[S]
  BY DEF Total, MapThenSumSet, MapThenFoldSet, Adds, Pick

LEMMA TableUnique ==
    ASSUME NEW rows, NEW S, IsFiniteSet(S), NEW T \in SUBSET S,
           NEW g, Adds(rows, S, g), NEW h, Adds(rows, T, h)
    PROVE  \A s \in SUBSET T : g[s] = h[s]
  <1> DEFINE B == {s \in SUBSET T : g[s] # h[s]}
  <1>1. SUFFICES ASSUME B # {} PROVE FALSE
    OBVIOUS
  <1>2. PICK s \in B : \A u \in B : u \subseteq s => u = s
    <2>1. B \subseteq SUBSET S /\ IsFiniteSet(S)
      BY FS_Subset
    <2>2. QED
      <3> HIDE DEF B
      <3> QED BY <1>1, <2>1, Smallest
  <1>3. \A u \in SUBSET T :
           /\ g[u] = IF u = {} THEN 0 ELSE rows[Pick(u)].amount + g[u \ {Pick(u)}]
           /\ h[u] = IF u = {} THEN 0 ELSE rows[Pick(u)].amount + h[u \ {Pick(u)}]
    BY DEF Adds
  <1>4. s # {}
    BY <1>3
  <1>5. s \ {Pick(s)} \notin B
    BY <1>2, <1>4, PickMember
  <1>6. QED
    BY <1>3, <1>4, <1>5

LEMMA TableExists ==
    ASSUME NEW rows, NEW S, IsFiniteSet(S)
    PROVE  \E g : Adds(rows, S, g)
  <1> DEFINE B == {T \in SUBSET S : ~\E g : Adds(rows, T, g)}
  <1>1. SUFFICES ASSUME B # {} PROVE FALSE
    OBVIOUS
  <1>2. PICK T \in B : \A U \in B : U \subseteq T => U = T
    <2>1. B \subseteq SUBSET S /\ IsFiniteSet(S)
      BY FS_Subset
    <2>2. QED
      <3> HIDE DEF B
      <3> QED BY <1>1, <2>1, Smallest
  <1> DEFINE F(u) == CHOOSE g : Adds(rows, u, g)
             rest(s) == s \ {Pick(s)}
             total == [s \in SUBSET T |-> IF s = {} THEN 0 ELSE rows[Pick(s)].amount + F(rest(s))[rest(s)]]
  <1>3. ASSUME NEW s \in SUBSET T, s # {}
        PROVE  rest(s) \in SUBSET T /\ rest(s) \notin B /\ Adds(rows, rest(s), F(rest(s)))
    <2>1. rest(s) \subseteq T /\ rest(s) # T
      BY <1>3, PickMember
    <2>2. rest(s) \notin B
      BY <1>2, <2>1
    <2>3. \E g : Adds(rows, rest(s), g)
      BY <2>1, <2>2
    <2>4. QED
      BY <2>1, <2>2, <2>3
  <1>4. ASSUME NEW s \in SUBSET T, s # {}
        PROVE  total[rest(s)] = F(rest(s))[rest(s)]
    <2> DEFINE u == rest(s)
    <2>1. u \in SUBSET T /\ Adds(rows, u, F(u)) /\ IsFiniteSet(u)
      BY <1>3, <1>4, FS_Subset
    <2>2. F(u)[u] = IF u = {} THEN 0 ELSE rows[Pick(u)].amount + F(u)[rest(u)]
      <3> HIDE DEF F, u
      <3> QED BY <2>1 DEF Adds
    <2>3. total[u] = IF u = {} THEN 0 ELSE rows[Pick(u)].amount + F(rest(u))[rest(u)]
      <3> HIDE DEF F, u
      <3> QED BY <2>1
    <2>4. ASSUME u # {} PROVE F(u)[rest(u)] = F(rest(u))[rest(u)]
      <3>1. Adds(rows, rest(u), F(rest(u)))
        BY <1>3, <2>1, <2>4
      <3> HIDE DEF F, u
      <3> QED BY <2>1, <3>1, TableUnique
    <2>5. QED
      <3> HIDE DEF F, u, total
      <3> QED BY <2>2, <2>3, <2>4 DEF u
  <1>5. Adds(rows, T, total)
    <2>1. \A s \in SUBSET T : IF s = {} THEN TRUE ELSE total[rest(s)] = F(rest(s))[rest(s)]
      BY <1>4
    <2>2. total = [s \in SUBSET T |-> IF s = {} THEN 0 ELSE rows[Pick(s)].amount + total[rest(s)]]
      <3> HIDE DEF F, rest
      <3> QED BY <2>1
    <2>3. QED
      <3> HIDE DEF total
      <3> QED BY <2>2 DEF Adds
  <1>6. QED
    BY <1>2, <1>5

LEMMA TotalTable ==
    ASSUME NEW rows, NEW S, IsFiniteSet(S), NEW g, Adds(rows, S, g), NEW T \in SUBSET S
    PROVE  Total(rows, T) = g[T]
  <1>1. IsFiniteSet(T)
    BY FS_Subset
  <1> DEFINE h == CHOOSE h : Adds(rows, T, h)
  <1>2. Adds(rows, T, h)
    BY <1>1, TableExists
  <1>3. Total(rows, T) = h[T]
    BY TotalIsAdded
  <1>4. QED
    <2> HIDE DEF h
    <2> QED BY <1>2, <1>3, TableUnique

LEMMA TotalEmpty ==
    ASSUME NEW rows
    PROVE  Total(rows, {}) = 0
  <1>1. IsFiniteSet({})
    BY FS_EmptySet
  <1>2. PICK g : Adds(rows, {}, g)
    BY <1>1, TableExists
  <1>3. Total(rows, {}) = g[{}]
    BY <1>1, <1>2, TotalTable
  <1>4. QED
    BY <1>2, <1>3 DEF Adds

LEMMA TotalStep ==
    ASSUME NEW rows, NEW S, IsFiniteSet(S), S # {}
    PROVE  Total(rows, S) = rows[Pick(S)].amount + Total(rows, S \ {Pick(S)})
  <1>1. PICK g : Adds(rows, S, g)
    BY TableExists
  <1>2. Total(rows, S) = g[S] /\ Total(rows, S \ {Pick(S)}) = g[S \ {Pick(S)}]
    BY <1>1, TotalTable
  <1>3. QED
    BY <1>1, <1>2 DEF Adds

LEMMA TotalNat ==
    ASSUME NEW rows, NEW S, IsFiniteSet(S), \A x \in S : rows[x].amount \in Nat
    PROVE  Total(rows, S) \in Nat
  <1> DEFINE B == {T \in SUBSET S : Total(rows, T) \notin Nat}
  <1>1. SUFFICES ASSUME B # {} PROVE FALSE
    OBVIOUS
  <1>2. PICK T \in B : \A U \in B : U \subseteq T => U = T
    <2>1. B \subseteq SUBSET S /\ IsFiniteSet(S)
      BY FS_Subset
    <2>2. QED
      <3> HIDE DEF B
      <3> QED BY <1>1, <2>1, Smallest
  <1>3. T # {}
    BY TotalEmpty
  <1>4. Pick(T) \in T /\ Total(rows, T \ {Pick(T)}) \in Nat
    BY <1>2, <1>3, PickMember
  <1>5. Total(rows, T) = rows[Pick(T)].amount + Total(rows, T \ {Pick(T)})
    BY <1>3, FS_Subset, TotalStep
  <1>6. QED
    BY <1>4, <1>5

LEMMA TotalRemove ==
    ASSUME NEW rows, NEW S, IsFiniteSet(S), \A x \in S : rows[x].amount \in Nat, NEW x \in S
    PROVE  Total(rows, S) = rows[x].amount + Total(rows, S \ {x})
  <1> DEFINE B == {T \in SUBSET S : \E y \in T : Total(rows, T) # rows[y].amount + Total(rows, T \ {y})}
  <1>1. SUFFICES ASSUME B # {} PROVE FALSE
    OBVIOUS
  <1>2. PICK T \in B : \A U \in B : U \subseteq T => U = T
    <2>1. B \subseteq SUBSET S /\ IsFiniteSet(S)
      BY FS_Subset
    <2>2. QED
      <3> HIDE DEF B
      <3> QED BY <1>1, <2>1, Smallest
  <1>3. PICK y \in T : Total(rows, T) # rows[y].amount + Total(rows, T \ {y})
    OBVIOUS
  <1> DEFINE p == Pick(T)
             R == T \ {y, p}
  <1>4. IsFiniteSet(T) /\ IsFiniteSet(T \ {y}) /\ IsFiniteSet(R)
    BY FS_Subset
  <1>5. p \in T /\ Total(rows, T) = rows[p].amount + Total(rows, T \ {p})
    BY <1>3, <1>4, PickMember, TotalStep
  <1>6. p # y
    BY <1>3, <1>5
  <1>7. T \ {p} \notin B /\ T \ {y} \notin B
    BY <1>2, <1>3, <1>5
  <1>8. Total(rows, T \ {p}) = rows[y].amount + Total(rows, R)
    <2>1. y \in T \ {p} /\ (T \ {p}) \ {y} = R
      BY <1>3, <1>6
    <2>2. QED
      BY <1>7, <2>1
  <1>9. Total(rows, T \ {y}) = rows[p].amount + Total(rows, R)
    <2>1. p \in T \ {y} /\ (T \ {y}) \ {p} = R
      BY <1>5, <1>6
    <2>2. QED
      BY <1>7, <2>1
  <1>10. rows[p].amount \in Nat /\ rows[y].amount \in Nat /\ Total(rows, R) \in Nat
    BY <1>4, <1>5, TotalNat
  <1>11. QED
    <2> HIDE DEF p, R
    <2> QED BY <1>3, <1>5, <1>8, <1>9, <1>10

LEMMA TotalSame ==
    ASSUME NEW rows, NEW other, NEW S, IsFiniteSet(S), \A x \in S : rows[x].amount = other[x].amount
    PROVE  Total(rows, S) = Total(other, S)
  <1> DEFINE B == {T \in SUBSET S : Total(rows, T) # Total(other, T)}
  <1>1. SUFFICES ASSUME B # {} PROVE FALSE
    OBVIOUS
  <1>2. PICK T \in B : \A U \in B : U \subseteq T => U = T
    <2>1. B \subseteq SUBSET S /\ IsFiniteSet(S)
      BY FS_Subset
    <2>2. QED
      <3> HIDE DEF B
      <3> QED BY <1>1, <2>1, Smallest
  <1>3. T # {}
    BY TotalEmpty
  <1>4. Pick(T) \in T /\ Total(rows, T \ {Pick(T)}) = Total(other, T \ {Pick(T)})
    BY <1>2, <1>3, PickMember
  <1>5. /\ Total(rows, T) = rows[Pick(T)].amount + Total(rows, T \ {Pick(T)})
        /\ Total(other, T) = other[Pick(T)].amount + Total(other, T \ {Pick(T)})
    BY <1>3, FS_Subset, TotalStep
  <1>6. QED
    BY <1>4, <1>5

\* Rows that are worth nothing may be left out.
LEMMA TotalIgnores ==
    ASSUME NEW rows, NEW S, IsFiniteSet(S), \A x \in S : rows[x].amount \in Nat,
           NEW T \in SUBSET S, \A x \in S \ T : rows[x].amount = 0
    PROVE  Total(rows, S) = Total(rows, T)
  <1> DEFINE B == {U \in SUBSET S : T \subseteq U /\ Total(rows, U) # Total(rows, T)}
  <1>1. SUFFICES ASSUME B # {} PROVE FALSE
    OBVIOUS
  <1>2. PICK U \in B : \A V \in B : V \subseteq U => V = U
    <2>1. B \subseteq SUBSET S /\ IsFiniteSet(S)
      OBVIOUS
    <2>2. QED
      <3> HIDE DEF B
      <3> QED BY <1>1, <2>1, Smallest
  <1>3. PICK x \in U \ T : TRUE
    OBVIOUS
  <1>4. U \ {x} \notin B
    BY <1>2, <1>3
  <1>5. IsFiniteSet(U) /\ IsFiniteSet(U \ {x})
    BY FS_Subset
  <1>6. Total(rows, U) = rows[x].amount + Total(rows, U \ {x}) /\ Total(rows, U \ {x}) \in Nat
    BY <1>3, <1>5, TotalRemove, TotalNat
  <1>7. QED
    BY <1>3, <1>4, <1>6

-----------------------------------------------------------------------------
(* The budget of the order                                                   *)

\* The total of the refunds that have not failed.
Open(rows) == Total(rows, {r \in Refunds : rows[r].status # "FAILED"})

LEMMA AmountsAreNumbers ==
    ASSUME NEW rows \in [Refunds -> Row], NEW S \in SUBSET Refunds
    PROVE  IsFiniteSet(S) /\ \A r \in S : rows[r].amount \in Nat
  <1>1. IsFiniteSet(S)
    BY RefundsAssumption, FS_Subset
  <1>2. \A r \in S : rows[r].amount \in {0} \cup Requests
    BY DEF Row
  <1>3. {0} \cup Requests \subseteq Nat
    BY RefundsAssumption
  <1>4. QED
    BY <1>1, <1>2, <1>3

\* A refund that keeps its amount and does not come back from FAILED adds nothing.
LEMMA OpenKept ==
    ASSUME NEW rows \in [Refunds -> Row], NEW r \in Refunds, NEW row \in Row,
           NEW later \in [Refunds -> Row],
           \A x \in Refunds : later[x] = IF x = r THEN row ELSE rows[x],
           row.amount = rows[r].amount, rows[r].status = "FAILED" => row.status = "FAILED"
    PROVE  Open(later) <= Open(rows) /\ Open(later) \in Nat /\ Open(rows) \in Nat
  <1> DEFINE S == {x \in Refunds : rows[x].status # "FAILED"}
             T == {x \in Refunds : later[x].status # "FAILED"}
  <1>1. IsFiniteSet(S) /\ IsFiniteSet(T) /\ \A x \in Refunds : rows[x].amount \in Nat
    BY AmountsAreNumbers
  <1>2. Total(later, T) = Total(rows, T)
    <2>1. \A x \in T : later[x].amount = rows[x].amount
      OBVIOUS
    <2>2. QED
      <3> HIDE DEF T
      <3> QED BY <1>1, <2>1, TotalSame
  <1>3. Total(rows, S) \in Nat /\ Total(rows, T) \in Nat
    BY <1>1, TotalNat
  <1>4. CASE row.status = "FAILED" /\ rows[r].status # "FAILED"
    <2>1. r \in S /\ T = S \ {r}
      BY <1>4
    <2>2. Total(rows, S) = rows[r].amount + Total(rows, T)
      BY <1>1, <2>1, TotalRemove
    <2>3. Open(later) = Total(later, T) /\ Open(rows) = Total(rows, S)
      BY DEF Open
    <2>4. QED
      <3> HIDE DEF S, T
      <3> QED BY <1>1, <1>2, <1>3, <2>2, <2>3
  <1>5. CASE ~(row.status = "FAILED" /\ rows[r].status # "FAILED")
    <2>1. T = S
      BY <1>5
    <2>2. Open(later) = Total(later, T) /\ Open(rows) = Total(rows, S)
      BY DEF Open
    <2>3. QED
      <3> HIDE DEF S, T
      <3> QED BY <1>2, <1>3, <2>1, <2>2
  <1>6. QED
    BY <1>4, <1>5

\* A refund that is inserted adds its amount.
LEMMA OpenInserted ==
    ASSUME NEW rows \in [Refunds -> Row], NEW r \in Refunds, NEW row \in Row,
           NEW later \in [Refunds -> Row],
           \A x \in Refunds : later[x] = IF x = r THEN row ELSE rows[x],
           rows[r].status = "none", rows[r].amount = 0, row.status # "FAILED"
    PROVE  Open(later) = row.amount + Open(rows)
  <1> DEFINE S == {x \in Refunds : rows[x].status # "FAILED"}
  <1>1. r \in S /\ S = {x \in Refunds : later[x].status # "FAILED"}
    OBVIOUS
  <1>3. /\ IsFiniteSet(S) /\ IsFiniteSet(S \ {r})
        /\ \A x \in S : rows[x].amount \in Nat /\ later[x].amount \in Nat
    BY AmountsAreNumbers
  <1>4. Total(rows, S) = 0 + Total(rows, S \ {r}) /\ Total(rows, S \ {r}) \in Nat
    BY <1>1, <1>3, TotalRemove, TotalNat
  <1>5. Total(later, S) = row.amount + Total(later, S \ {r})
    BY <1>1, <1>3, TotalRemove
  <1>6. Total(later, S \ {r}) = Total(rows, S \ {r})
    <2>1. \A x \in S \ {r} : later[x].amount = rows[x].amount
      OBVIOUS
    <2>2. QED
      <3> HIDE DEF S
      <3> QED BY <1>3, <2>1, TotalSame
  <1>7. QED
    <2>1. Open(rows) = Total(rows, S) /\ Open(later) = Total(later, S)
      BY <1>1 DEF Open
    <2> HIDE DEF S
    <2> QED BY <1>4, <1>5, <1>6, <2>1

\* What has not failed is reserved, or has no row.
LEMMA OpenIsReserved ==
    ASSUME refunds \in [Refunds -> Row],
           \A r \in Refunds : refunds[r].status = "none" => refunds[r].amount = 0
    PROVE  Open(refunds) = Reserved(Refunds) /\ Open(refunds) \in Nat
  <1> DEFINE S == {r \in Refunds : refunds[r].status # "FAILED"}
             T == {r \in Refunds : refunds[r].status \in Reserving}
  <1>1. IsFiniteSet(S) /\ \A r \in S : refunds[r].amount \in Nat
    BY AmountsAreNumbers
  <1>2. T \in SUBSET S /\ \A r \in S \ T : refunds[r].amount = 0
    BY DEF Reserving, Row, RefundStatuses
  <1>3. Total(refunds, S) = Total(refunds, T) /\ Total(refunds, S) \in Nat
    BY <1>1, <1>2, TotalIgnores, TotalNat
  <1>4. QED
    BY <1>3 DEF Open, Reserved

-----------------------------------------------------------------------------
(* What keeps the budget                                                     *)

Founded(task, rows) ==
    /\ task.pc \notin {"idle", "reserve"} => rows[task.refund].status # "none"
    /\ task.op = "submit" => task.pc \notin {"idle", "reserve"}

\* What a request relies on, as long as no refund has returned.
Relies(task, rows, made) ==
    /\ task.pc = "send" => /\ task.op = "submit"
                           /\ made[task.refund] = "none" /\ rows[task.refund].status # "FAILED"
    /\ task.pc \in {"read", "write"} /\ task.note = "failed" => made[task.refund] = "failed"
    /\ task.pc = "catch" => task.op = "submit"
    /\ task.pc \in {"check", "reset"} => rows[task.refund].status = "FAILED"

LEMMA BudgetKnown ==
    ASSUME IInv, BudgetInv
    PROVE  /\ \A t \in Tasks : Founded(tasks[t], refunds)
           /\ \A r \in Refunds :
                 refunds[r].status = "none" => refunds[r].amount = 0 /\ provider[r] = "none"
           /\ ~returned =>
                 /\ \A r \in Refunds : refunds[r].status = "FAILED" => ~Taken(r)
                 /\ \A r \in Refunds : provider[r] # "again"
                 /\ \A t \in Tasks : Relies(tasks[t], refunds, provider)
                 /\ \A t, u \in Tasks :
                       Submits(t) /\ Submits(u) /\ tasks[t].refund = tasks[u].refund => t = u
                 /\ Open(refunds) <= Amount + 1
  <1>1. FailedIsFree => Refunded = Open(refunds)
    <2>1. ASSUME FailedIsFree
          PROVE  {r \in Refunds : refunds[r].status # "FAILED" \/ Taken(r)}
                    = {r \in Refunds : refunds[r].status # "FAILED"}
      BY <2>1 DEF FailedIsFree
    <2>2. QED
      BY <2>1 DEF Refunded, Open
  <1>2. QED
    BY <1>1 DEF BudgetInv, RowsAreThere, FailedIsFree, SubmittedOnce, FailureIsKnown,
                Founded, Relies, RowOf, Submits

\* A step of one task keeps the budget if the task and the tables still fit.
LEMMA BudgetStep ==
    ASSUME IInv, IInv', BudgetInv, NEW t \in Tasks, NEW task, tasks' = [tasks EXCEPT ![t] = task],
           Founded(task, refunds'),
           \A r \in Refunds : refunds[r].status # "none" => refunds'[r].status # "none",
           \A r \in Refunds :
              refunds'[r].status = "none" => refunds'[r].amount = 0 /\ provider'[r] = "none",
           returned => returned',
           ~returned' =>
              /\ \A r \in Refunds : refunds'[r].status = "FAILED" => ~Taken(r)'
              /\ \A r \in Refunds : provider'[r] # "again"
              /\ \A u \in Tasks \ {t} : Relies(tasks[u], refunds', provider')
              /\ Relies(task, refunds', provider')
              /\ task.op = "submit" =>
                    \/ Submits(t) /\ task.refund = tasks[t].refund
                    \/ \A u \in Tasks \ {t} : Submits(u) => tasks[u].refund # task.refund
              /\ Open(refunds') <= Amount + 1
    PROVE  BudgetInv'
  <1>1. \A u \in Tasks : tasks'[u] = IF u = t THEN task ELSE tasks[u]
    BY DEF IInv, TypeOK
  <1>2. \A u \in Tasks : Founded(tasks'[u], refunds')
    <2>1. \A u \in Tasks \ {t} : Founded(tasks[u], refunds')
      BY BudgetKnown, Known DEF Founded
    <2>2. QED
      BY <1>1, <2>1
  <1>3. RowsAreThere'
    BY <1>2 DEF RowsAreThere, Founded, RowOf, Submits
  <1>4. ASSUME ~returned'
        PROVE  FailedIsFree' /\ SubmittedOnce' /\ FailureIsKnown' /\ (Refunded <= Amount + 1)'
    <2>1. \A u \in Tasks : Relies(tasks'[u], refunds', provider')
      BY <1>1, <1>4
    <2>2. \A u, v \in Tasks :
             Submits(u)' /\ Submits(v)' /\ tasks'[u].refund = tasks'[v].refund => u = v
      BY <1>1, <1>4, BudgetKnown DEF Submits
    <2>3. SubmittedOnce' /\ FailureIsKnown'
      BY <1>4, <2>1, <2>2 DEF SubmittedOnce, FailureIsKnown, Relies, RowOf, Submits
    <2>4. FailedIsFree'
      BY <1>4 DEF FailedIsFree
    <2>5. Refunded' = Open(refunds')
      <3>1. {r \in Refunds : refunds'[r].status # "FAILED" \/ Taken(r)'}
               = {r \in Refunds : refunds'[r].status # "FAILED"}
        BY <2>4 DEF FailedIsFree
      <3>2. QED
        BY <3>1 DEF Refunded, Open
    <2>6. QED
      BY <1>4, <2>3, <2>4, <2>5
  <1>5. QED
    BY <1>3, <1>4 DEF BudgetInv

\* A step that changes nothing but a task.
LEMMA BudgetTask ==
    ASSUME IInv, IInv', BudgetInv, NEW t \in Tasks, NEW task, tasks' = [tasks EXCEPT ![t] = task],
           refunds' = refunds, provider' = provider, returned' = returned,
           Founded(task, refunds),
           ~returned => Relies(task, refunds, provider),
           task.op = "submit" => Submits(t) /\ task.refund = tasks[t].refund
    PROVE  BudgetInv'
  BY BudgetKnown, BudgetStep DEF Taken

\* A step that also changes the status of a row, to FAILED only if the provider does not have
\* the refund and no other request is about to send it.
LEMMA BudgetRow ==
    ASSUME IInv, IInv', BudgetInv, NEW t \in Tasks, NEW task, tasks' = [tasks EXCEPT ![t] = task],
           NEW r \in Refunds, NEW row \in Row,
           \A s \in Refunds : refunds'[s] = IF s = r THEN row ELSE refunds[s],
           row.amount = refunds[r].amount, row.status # "none", refunds[r].status # "none",
           provider' = provider, returned => returned',
           Founded(task, refunds'),
           task.op = "submit" => Submits(t) /\ task.refund = tasks[t].refund,
           ~returned' =>
              /\ refunds[r].status = "FAILED" => row.status = "FAILED"
              /\ row.status = "FAILED" =>
                    ~Taken(r) /\ \A u \in Tasks \ {t} : At(u, "send") => tasks[u].refund # r
              /\ Relies(task, refunds', provider)
    PROVE  BudgetInv'
  <1>1. refunds \in [Refunds -> Row] /\ refunds' \in [Refunds -> Row]
    BY DEF IInv, TypeOK
  <1>2. \A s \in Refunds :
           /\ refunds[s].status # "none" => refunds'[s].status # "none"
           /\ refunds'[s].status = "none" => refunds'[s].amount = 0 /\ provider'[s] = "none"
    BY <1>1, BudgetKnown
  <1>3. ASSUME ~returned'
        PROVE  /\ \A s \in Refunds : refunds'[s].status = "FAILED" => ~Taken(s)'
               /\ \A s \in Refunds : provider'[s] # "again"
               /\ \A u \in Tasks \ {t} : Relies(tasks[u], refunds', provider')
               /\ Open(refunds') <= Amount + 1
    <2>1. \A s \in Refunds : refunds'[s].status = "FAILED" => ~Taken(s)'
      BY <1>1, <1>3, BudgetKnown DEF Taken
    <2>2. \A u \in Tasks \ {t} : Relies(tasks[u], refunds', provider')
      <3>1. ASSUME NEW u \in Tasks \ {t}
            PROVE  Relies(tasks[u], refunds', provider)
        <4>1. Relies(tasks[u], refunds, provider)
          BY <1>3, BudgetKnown
        <4>2. tasks[u].pc # "idle" => tasks[u].refund \in Refunds
          BY Known
        <4>3. QED
          BY <1>1, <1>3, <4>1, <4>2 DEF Relies, At
      <3>2. QED
        BY <3>1
    <2>3. Open(refunds') <= Open(refunds) /\ Open(refunds') \in Nat /\ Open(refunds) \in Nat
      BY <1>1, <1>3, OpenKept
    <2>4. Open(refunds) <= Amount + 1
      BY <1>3, BudgetKnown
    <2>5. Open(refunds') <= Amount + 1
      BY <2>3, <2>4, RefundsAssumption
    <2>6. \A s \in Refunds : provider'[s] # "again"
      BY <1>3, BudgetKnown
    <2>7. QED
      BY <2>1, <2>2, <2>5, <2>6
  <1>4. QED
    BY <1>2, <1>3, BudgetStep

\* A step that changes a task and what the provider knows of a refund.
LEMMA BudgetProvider ==
    ASSUME IInv, IInv', BudgetInv, NEW t \in Tasks, NEW task, tasks' = [tasks EXCEPT ![t] = task],
           refunds' = refunds, returned' = returned, At(t, "send"),
           NEW state, provider' = [provider EXCEPT ![tasks[t].refund] = state],
           Founded(task, refunds),
           task.refund = tasks[t].refund,
           ~returned => Relies(task, refunds, provider') /\ state # "again"
    PROVE  BudgetInv'
  <1> DEFINE r == tasks[t].refund
  <1>1. r \in Refunds /\ provider \in [Refunds -> ProviderStates]
    BY Known DEF At
  <1>2. \A s \in Refunds : provider'[s] = IF s = r THEN state ELSE provider[s]
    BY <1>1
  <1>3. refunds[r].status # "none"
    BY BudgetKnown DEF Founded, At
  <1>4. \A s \in Refunds : refunds'[s].status = "none" => refunds'[s].amount = 0 /\ provider'[s] = "none"
    BY <1>2, <1>3, BudgetKnown
  <1>5. ASSUME ~returned
        PROVE  /\ Submits(t)
               /\ \A s \in Refunds : refunds'[s].status = "FAILED" => ~Taken(s)'
               /\ \A s \in Refunds : provider'[s] # "again"
               /\ \A u \in Tasks \ {t} : Relies(tasks[u], refunds', provider')
               /\ Open(refunds') <= Amount + 1
    <2>1. Submits(t) /\ provider[r] = "none" /\ refunds[r].status # "FAILED"
      BY <1>5, BudgetKnown DEF Relies, At, Submits
    <2>2. \A s \in Refunds : refunds[s].status = "FAILED" => ~Taken(s)'
      BY <1>2, <1>5, <2>1, BudgetKnown DEF Taken
    <2>3. ASSUME NEW u \in Tasks \ {t}
          PROVE  Relies(tasks[u], refunds, provider')
      <3>1. Relies(tasks[u], refunds, provider)
        BY <1>5, BudgetKnown
      <3>2. tasks[u].pc # "idle" => tasks[u].refund \in Refunds
        BY Known
      <3>3. tasks[u].op = "submit" => tasks[u].refund # r
        BY <1>5, <2>1, BudgetKnown DEF Submits
      <3>4. QED
        BY <1>2, <2>1, <3>1, <3>2, <3>3 DEF Relies
    <2>4. Open(refunds) <= Amount + 1
      BY <1>5, BudgetKnown
    <2>5. \A s \in Refunds : provider'[s] # "again"
      BY <1>2, <1>5, BudgetKnown
    <2>6. QED
      BY <2>1, <2>2, <2>3, <2>4, <2>5
  <1>6. QED
    BY <1>4, <1>5, BudgetStep

LEMMA IdleFits ==
    /\ Idle.op = "get" /\ Idle.pc = "idle"
    /\ \A rows, made : Founded(Idle, rows) /\ Relies(Idle, rows, made)
  BY DEF Idle, Beginning, Founded, Relies

LEMMA BudgetBegins == Init => BudgetInv
  <1> SUFFICES ASSUME Init PROVE BudgetInv
    OBVIOUS
  <1>1. RowsAreThere
    BY DEF Init, RowsAreThere, Idle, Beginning, NoRow, Submits
  <1>2. FailedIsFree /\ SubmittedOnce /\ FailureIsKnown
    BY DEF Init, FailedIsFree, SubmittedOnce, FailureIsKnown, Idle, Beginning, NoRow, Submits
  <1>3. Refunded <= Amount + 1
    <2> DEFINE S == {r \in Refunds : refunds[r].status # "FAILED" \/ Taken(r)}
    <2>1. S \in SUBSET Refunds /\ IsFiniteSet(S) /\ \A r \in S : refunds[r].amount = 0
      BY RefundsAssumption, FS_Subset DEF Init, NoRow
    <2>2. Total(refunds, S) = Total(refunds, {})
      <3> HIDE DEF S
      <3> QED BY <2>1, TotalIgnores
    <2>3. Total(refunds, S) = 0
      BY <2>2, TotalEmpty
    <2>4. QED
      BY <2>3, RefundsAssumption DEF Refunded
  <1>4. QED
    BY <1>1, <1>2, <1>3 DEF BudgetInv

LEMMA BudgetNext ==
    ASSUME IInv, BudgetInv, [Next]_vars
    PROVE  BudgetInv'
  <1> IInv'
    BY InvariantStep
  <1>1. ASSUME NEW t \in Tasks, Query(t)
        PROVE  BudgetInv'
    <2>2. CASE Done(t)
      BY <1>1, <2>2, BudgetTask, IdleFits DEF Query, Done, Become
    <2>3. CASE ~Done(t)
      <3>1. PICK note \in Answers :
               /\ note = "failed" => provider[tasks[t].refund] \in {"failed", "again"}
               /\ tasks' = [tasks EXCEPT ![t] = [tasks[t] EXCEPT !.pc = "read", !.note = note]]
        BY <1>1, <2>3, RefundsAssumption DEF Query, Standing, Become
      <3> DEFINE task == [tasks[t] EXCEPT !.pc = "read", !.note = note]
      <3>2. /\ task.refund = tasks[t].refund /\ task.pc = "read" /\ task.note = note
            /\ task.op = tasks[t].op
        BY Known DEF Task
      <3>0. tasks[t].refund \in Refunds
        BY <1>1, Known DEF Query, At
      <3>3. Founded(task, refunds) /\ (~returned => Relies(task, refunds, provider))
        BY <1>1, <3>0, <3>1, <3>2, BudgetKnown DEF Founded, Relies, Query, At
      <3>4. tasks' = [tasks EXCEPT ![t] = task]
        BY <3>1
      <3> HIDE DEF task
      <3> QED BY <1>1, <3>2, <3>3, <3>4, BudgetTask DEF Query, Submits
    <2>4. QED
      BY <2>2, <2>3
  <1>2. ASSUME NEW t \in Tasks, Read(t)
        PROVE  BudgetInv'
    <2> DEFINE task == [tasks[t] EXCEPT !.pc = "write", !.snap = refunds[tasks[t].refund].status]
    <2>1. /\ task.refund = tasks[t].refund /\ task.pc = "write" /\ task.note = tasks[t].note
          /\ task.op = tasks[t].op
      BY Known DEF Task
    <2>2. Founded(task, refunds)
      BY <1>2, <2>1, BudgetKnown DEF Founded, Read, At
    <2>3. ~returned => Relies(task, refunds, provider)
      BY <1>2, <2>1, BudgetKnown DEF Relies, Read, At
    <2>4. tasks' = [tasks EXCEPT ![t] = task]
      BY <1>2 DEF Read, Become, RowOf
    <2> HIDE DEF task
    <2> QED BY <1>2, <2>1, <2>2, <2>3, <2>4, BudgetTask DEF Read, Submits
  <1>3. ASSUME NEW t \in Tasks, Write(t)
        PROVE  BudgetInv'
    <2> DEFINE r == tasks[t].refund
               status == ResolveRefundStatus(tasks[t].snap, tasks[t].note)
               row == [refunds[r] EXCEPT !.status = status]
               pc == IF status = "SUCCEEDED" THEN "book" ELSE "reload"
               task == Beginning(tasks[t].op, pc, r, tasks[t].amount)
    <2>1. r \in Refunds /\ tasks[t].pc = "write" /\ refunds \in [Refunds -> Row]
      BY <1>3, Known DEF Write, At
    <2>2. /\ refunds' = [refunds EXCEPT ![r] = row] /\ tasks' = [tasks EXCEPT ![t] = task]
          /\ provider' = provider
          /\ returned' = (returned \/ (refunds[r].status = "FAILED" /\ status # "FAILED"))
      BY <1>3 DEF Write, Proceed, Become, RowOf
    <2>3. row \in Row /\ row.status = status /\ row.amount = refunds[r].amount
      BY <2>1, ResolvedStatus DEF Row, RefundStatuses
    <2>4. status # "none" /\ (status = "FAILED" => tasks[t].note = "failed")
      BY DEF ResolveRefundStatus
    <2>5. refunds[r].status # "none"
      BY <2>1, BudgetKnown DEF Founded
    <2>6. task.pc \in {"book", "reload"} /\ task.refund = r /\ task.op = tasks[t].op
      BY DEF Beginning
    <2> HIDE DEF row, task, pc, status
    <2>7. \A s \in Refunds : refunds'[s] = IF s = r THEN row ELSE refunds[s]
      BY <2>1, <2>2
    <2>8. Founded(task, refunds') /\ Relies(task, refunds', provider')
      BY <2>1, <2>3, <2>4, <2>6, <2>7 DEF Founded, Relies
    <2>9. ASSUME ~returned'
          PROVE  /\ refunds[r].status = "FAILED" => row.status = "FAILED"
                 /\ row.status = "FAILED" =>
                       ~Taken(r) /\ \A u \in Tasks \ {t} : At(u, "send") => tasks[u].refund # r
      <3>1. row.status = "FAILED" => provider[r] = "failed"
        BY <2>1, <2>2, <2>3, <2>4, <2>9, BudgetKnown DEF Relies
      <3>2. \A u \in Tasks : At(u, "send") => provider[tasks[u].refund] = "none"
        BY <2>2, <2>9, BudgetKnown DEF Relies, At
      <3>3. QED
        BY <2>2, <2>3, <2>9, <3>1, <3>2 DEF Taken
    <2>10. task.op = "submit" => Submits(t)
      BY <2>6 DEF Submits
    <2> HIDE DEF r
    <2>11. QED
      BY <2>1, <2>2, <2>3, <2>4, <2>5, <2>6, <2>7, <2>8, <2>9, <2>10, BudgetRow DEF r
  <1>4. ASSUME NEW t \in Tasks, Book(t) \/ Reload(t) \/ Check(t)
        PROVE  BudgetInv'
    <2>1. CASE Done(t)
      BY <1>4, <2>1, BudgetTask, IdleFits DEF Book, Reload, Check, Done, Become
    <2>2. CASE ~Done(t)
      <3>1. PICK pc \in {"reload", "check", "reset"} :
               /\ GoTo(t, pc)
               /\ pc # "reload" => \/ At(t, "check")
                                   \/ /\ tasks[t].op # "submit"
                                      /\ refunds[tasks[t].refund].status = "FAILED"
        BY <1>4, <2>2 DEF Book, Reload, Check, RowOf
      <3> DEFINE task == [tasks[t] EXCEPT !.pc = pc]
      <3>2. task.refund = tasks[t].refund /\ task.pc = pc /\ task.op = tasks[t].op
        BY Known DEF Task
      <3>3. Founded(task, refunds) /\ (~returned => Relies(task, refunds, provider))
        BY <1>4, <3>1, <3>2, BudgetKnown DEF Founded, Relies, Book, Reload, Check, At
      <3>4. tasks' = [tasks EXCEPT ![t] = task]
        BY <3>1 DEF GoTo, Become
      <3> HIDE DEF task
      <3> QED BY <1>4, <3>2, <3>3, <3>4, BudgetTask DEF Book, Reload, Check, Submits
    <2>3. QED
      BY <2>1, <2>2
  <1>5. ASSUME NEW t \in Tasks, Reserve(t)
        PROVE  BudgetInv'
    <2> DEFINE r == tasks[t].refund
               row == [status |-> "PENDING", amount |-> tasks[t].amount]
               task == Beginning("submit", "send", r, 0)
    <2>1. /\ r \in Refunds /\ refunds \in [Refunds -> Row] /\ refunds' \in [Refunds -> Row]
          /\ tasks[t] \in Task /\ provider' = provider /\ returned' = returned
      BY <1>5, Known DEF Reserve, At, IInv, TypeOK
    <2>2. CASE Done(t) /\ refunds' = refunds
      BY <1>5, <2>2, BudgetTask, IdleFits DEF Reserve, Done, Become
    <2>3. CASE ~(Done(t) /\ refunds' = refunds)
      <3>1. PICK slip \in Slips :
               /\ refunds[r].status = "none" /\ Fits(tasks[t].amount, Refunds, slip)
               /\ refunds' = [refunds EXCEPT ![r] = row]
               /\ tasks' = [tasks EXCEPT ![t] = task]
        BY <1>5, <2>3 DEF Reserve, RowOf, Submit, Become
      <3>2. /\ row \in Row /\ row.status = "PENDING" /\ row.amount = tasks[t].amount
            /\ row.amount \in Nat
        <4>1. {0} \cup Requests \subseteq Nat
          BY RefundsAssumption
        <4>2. QED
          BY <2>1, <4>1 DEF Row, RefundStatuses, Task
      <3>3. task.pc = "send" /\ task.refund = r /\ task.op = "submit" /\ task.note = "processing"
        BY DEF Beginning
      <3> HIDE DEF row, task
      <3>4. \A s \in Refunds : refunds'[s] = IF s = r THEN row ELSE refunds[s]
        BY <2>1, <3>1
      <3>5. refunds[r].amount = 0 /\ provider[r] = "none"
        BY <2>1, <3>1, BudgetKnown
      <3>6. \A s \in Refunds :
               /\ refunds[s].status # "none" => refunds'[s].status # "none"
               /\ refunds'[s].status = "none" => refunds'[s].amount = 0 /\ provider'[s] = "none"
               /\ refunds'[s].status = "FAILED" => refunds[s].status = "FAILED"
        BY <2>1, <3>2, <3>4, BudgetKnown
      <3>7. Founded(task, refunds') /\ Relies(task, refunds', provider')
        BY <2>1, <3>2, <3>3, <3>4, <3>5 DEF Founded, Relies
      <3>8. \A u \in Tasks : tasks[u].pc \notin {"idle", "reserve"} => tasks[u].refund # r
        BY <3>1, BudgetKnown DEF Founded
      <3>9. \A u \in Tasks : Submits(u) => tasks[u].refund # r
        BY <3>8, BudgetKnown DEF Founded, Submits
      <3>10. ASSUME ~returned
             PROVE  \A u \in Tasks : Relies(tasks[u], refunds', provider')
        <4>1. ASSUME NEW u \in Tasks
              PROVE  Relies(tasks[u], refunds', provider)
          <5>1. Relies(tasks[u], refunds, provider)
            BY <3>10, BudgetKnown
          <5>2. tasks[u].pc # "idle" => tasks[u].refund \in Refunds
            BY Known
          <5>3. QED
            BY <3>4, <3>8, <5>1, <5>2 DEF Relies
        <4>2. QED
          BY <2>1, <4>1
      <3>11. Open(refunds') <= Amount + 1
        <4>1. Open(refunds') = row.amount + Open(refunds)
          <5>1. refunds[r].status = "none" /\ row.status # "FAILED"
            BY <3>1, <3>2
          <5> HIDE DEF r
          <5> QED BY <2>1, <3>2, <3>4, <3>5, <5>1, OpenInserted
        <4>2. Open(refunds) = Reserved(Refunds) /\ Open(refunds) \in Nat
          BY <2>1, BudgetKnown, OpenIsReserved
        <4>3. QED
          BY <3>1, <3>2, <4>1, <4>2, RefundsAssumption DEF Fits, Slips
      <3>12. /\ \A s \in Refunds : refunds[s].status = "FAILED" /\ ~returned => ~Taken(s)'
             /\ ~returned => \A s \in Refunds : provider'[s] # "again"
        BY <2>1, BudgetKnown DEF Taken
      <3> HIDE DEF r
      <3>13. QED
        BY <2>1, <3>1, <3>3, <3>6, <3>7, <3>9, <3>10, <3>11, <3>12, BudgetStep
    <2>4. QED
      BY <2>2, <2>3
  <1>6. ASSUME NEW t \in Tasks, Reset(t)
        PROVE  BudgetInv'
    <2> DEFINE r == tasks[t].refund
               row == [status |-> "PENDING", amount |-> tasks[t].amount]
               task == Beginning("submit", "send", r, 0)
    <2>1. r \in Refunds /\ refunds \in [Refunds -> Row] /\ tasks[t].pc = "reset"
      BY <1>6, Known DEF Reset, At
    <2>2. /\ refunds' = [refunds EXCEPT ![r] = row] /\ tasks' = [tasks EXCEPT ![t] = task]
          /\ provider' = provider
      BY <1>6 DEF Reset, Submit, Become
    <2>3. returned'
      BY <1>6, <2>1, BudgetKnown DEF Reset, Relies, RowOf
    <2>4. row.status = "PENDING" /\ task.pc = "send" /\ task.refund = r
      BY DEF Beginning
    <2> HIDE DEF row, task
    <2>5. \A s \in Refunds :
             /\ refunds[s].status # "none" => refunds'[s].status # "none"
             /\ refunds'[s].status = "none" => refunds'[s].amount = 0 /\ provider'[s] = "none"
      BY <2>1, <2>2, <2>4, BudgetKnown
    <2>6. Founded(task, refunds')
      BY <2>1, <2>2, <2>4 DEF Founded
    <2>7. QED
      BY <2>2, <2>3, <2>5, <2>6, BudgetStep
  <1>7. ASSUME NEW t \in Tasks, Send(t)
        PROVE  BudgetInv'
    <2> DEFINE r == tasks[t].refund
    <2>1. PICK answer \in Submissions(r) :
             /\ provider' = [provider EXCEPT ![r] = answer]
             /\ tasks' = [tasks EXCEPT ![t] = [tasks[t] EXCEPT !.pc = "read", !.note = answer]]
      BY <1>7 DEF Send, Become
    <2> DEFINE task == [tasks[t] EXCEPT !.pc = "read", !.note = answer]
    <2>2. /\ task.refund = r /\ task.pc = "read" /\ task.note = answer /\ task.op = tasks[t].op
      BY Known DEF Task
    <2>3. tasks' = [tasks EXCEPT ![t] = task] /\ At(t, "send") /\ refunds' = refunds
          /\ returned' = returned
      BY <1>7, <2>1 DEF Send
    <2> HIDE DEF task
    <2>4. r \in Refunds /\ provider \in [Refunds -> ProviderStates]
      BY <2>3, Known DEF At
    <2>5. Founded(task, refunds)
      BY <2>2, <2>3, BudgetKnown DEF Founded, At
    <2>6. ~returned => Relies(task, refunds, provider') /\ answer # "again"
      BY <2>1, <2>2, <2>3, <2>4, BudgetKnown DEF Relies, Submissions, Answers, Taken
    <2>7. QED
      BY <2>1, <2>2, <2>3, <2>5, <2>6, BudgetProvider
  <1>8. ASSUME NEW t \in Tasks, SendFails(t)
        PROVE  BudgetInv'
    <2> DEFINE r == tasks[t].refund
               task == Beginning(tasks[t].op, "catch", r, tasks[t].amount)
    <2>1. PICK state \in Outcomes(r) :
             /\ provider' = [provider EXCEPT ![r] = state]
             /\ tasks' = [tasks EXCEPT ![t] = task]
      BY <1>8 DEF SendFails, Proceed, Become
    <2>2. task.refund = r /\ task.pc = "catch" /\ task.op = tasks[t].op
      BY DEF Beginning
    <2> HIDE DEF task
    <2>3. At(t, "send") /\ refunds' = refunds /\ returned' = returned
      BY <1>8 DEF SendFails
    <2>4. Founded(task, refunds)
      BY <2>2, <2>3, BudgetKnown DEF Founded, At
    <2>5. ~returned => Relies(task, refunds, provider') /\ state # "again"
      BY <2>1, <2>2, <2>3, BudgetKnown DEF Relies, At, Outcomes, Submissions, Answers, Taken
    <2>6. QED
      BY <2>1, <2>2, <2>3, <2>4, <2>5, BudgetProvider
  <1>9. ASSUME NEW t \in Tasks, StatementFails(t)
        PROVE  BudgetInv'
    <2> DEFINE task == Beginning(tasks[t].op, "catch", tasks[t].refund, tasks[t].amount)
    <2>1. task.refund = tasks[t].refund /\ task.pc = "catch" /\ task.op = "submit" /\ Submits(t)
      BY <1>9 DEF StatementFails, Beginning, Submits
    <2>2. /\ tasks' = [tasks EXCEPT ![t] = task] /\ refunds' = refunds /\ provider' = provider
          /\ returned' = returned /\ tasks[t].pc \notin {"idle", "reserve"}
      BY <1>9 DEF StatementFails, Proceed, Become
    <2> HIDE DEF task
    <2>3. Founded(task, refunds) /\ Relies(task, refunds, provider)
      BY <2>1, <2>2, BudgetKnown DEF Founded, Relies
    <2>4. QED
      BY <2>1, <2>2, <2>3, BudgetTask
  <1>10. ASSUME NEW t \in Tasks, Catch(t)
         PROVE  BudgetInv'
    <2> DEFINE r == tasks[t].refund
               row == [refunds[r] EXCEPT !.status = "FAILED"]
    <2>1. r \in Refunds /\ tasks[t].pc = "catch" /\ refunds \in [Refunds -> Row]
      BY <1>10, Known DEF Catch, At
    <2>2. /\ refunds' = [refunds EXCEPT ![r] = row] /\ tasks' = [tasks EXCEPT ![t] = Idle]
          /\ provider' = provider /\ returned' = (returned \/ Taken(r))
      BY <1>10 DEF Catch, Done, Become
    <2>3. row \in Row /\ row.status = "FAILED" /\ row.amount = refunds[r].amount
      BY <2>1 DEF Row, RefundStatuses
    <2>4. refunds[r].status # "none"
      BY <2>1, BudgetKnown DEF Founded
    <2> HIDE DEF row
    <2>5. \A s \in Refunds : refunds'[s] = IF s = r THEN row ELSE refunds[s]
      BY <2>1, <2>2
    <2>6. ASSUME ~returned'
          PROVE  ~Taken(r) /\ \A u \in Tasks \ {t} : At(u, "send") => tasks[u].refund # r
      <3>1. Submits(t)
        BY <2>1, <2>2, <2>6, BudgetKnown DEF Relies, Submits
      <3>2. \A u \in Tasks : At(u, "send") => Submits(u)
        BY <2>2, <2>6, BudgetKnown DEF Relies, At, Submits
      <3>3. QED
        BY <2>2, <2>6, <3>1, <3>2, BudgetKnown
    <2>7. /\ Founded(Idle, refunds') /\ Relies(Idle, refunds', provider')
          /\ Idle.op # "submit" /\ (returned => returned')
      BY <2>2, IdleFits
    <2> HIDE DEF r
    <2>8. QED
      BY <2>1, <2>2, <2>3, <2>4, <2>5, <2>6, <2>7, BudgetRow
  <1>11. ASSUME NEW t \in Tasks, Crash(t)
         PROVE  BudgetInv'
    BY <1>11, BudgetTask, IdleFits DEF Crash, Done, Become
  <1>12. ASSUME NEW t \in Tasks, NEW r \in Refunds,
                Get(t, r) \/ \E amount \in Requests : Create(t, r, amount)
         PROVE  BudgetInv'
    <2>1. PICK op \in {"get", "create"}, pc \in {"query", "reserve"}, a \in {0} \cup Requests :
             /\ tasks' = [tasks EXCEPT ![t] = Beginning(op, pc, r, a)]
             /\ pc = "reserve" \/ refunds[r].status # "none"
      BY <1>12 DEF Get, Create, Become
    <2> DEFINE task == Beginning(op, pc, r, a)
    <2>2. task.op = op /\ task.pc = pc /\ task.refund = r
      BY DEF Beginning
    <2>3. tasks' = [tasks EXCEPT ![t] = task]
      BY <2>1
    <2> HIDE DEF task
    <2>4. Founded(task, refunds) /\ Relies(task, refunds, provider)
      BY <2>1, <2>2 DEF Founded, Relies
    <2>5. QED
      BY <1>12, <2>2, <2>3, <2>4, BudgetTask DEF Get, Create
  <1>13. ASSUME NEW r \in Refunds, Settle(r)
         PROVE  BudgetInv'
    <2>1. /\ refunds' = refunds /\ tasks' = tasks /\ returned' = returned
          /\ provider[r] = "processing"
      BY <1>13 DEF Settle
    <2>2. PICK answer \in {"success", "failed"} : provider' = [provider EXCEPT ![r] = answer]
      BY <1>13 DEF Settle
    <2>3. \A s \in Refunds : provider'[s] = IF s = r THEN answer ELSE provider[s]
      BY <2>2 DEF IInv, TypeOK
    <2>4. \A s \in Refunds : (provider'[s] = "none" <=> provider[s] = "none") /\ (Taken(s)' => Taken(s))
      BY <2>1, <2>2, <2>3 DEF Taken
    <2>5. \A t \in Tasks : tasks[t].pc \in {"send", "read", "write"} => tasks[t].refund \in Refunds
      BY Known
    <2>6. RowsAreThere'
      BY <2>1, <2>4 DEF BudgetInv, RowsAreThere, RowOf, Submits
    <2>7. ASSUME ~returned
          PROVE  FailedIsFree' /\ SubmittedOnce' /\ FailureIsKnown'
      <3>1. FailedIsFree /\ SubmittedOnce /\ FailureIsKnown
        BY <2>7 DEF BudgetInv
      <3>2. FailedIsFree'
        BY <2>1, <2>4, <3>1 DEF FailedIsFree
      <3>3. SubmittedOnce'
        BY <2>1, <2>3, <2>4, <2>5, <3>1 DEF SubmittedOnce, RowOf, Submits
      <3>4. FailureIsKnown'
        BY <2>1, <2>3, <2>5, <3>1 DEF FailureIsKnown, RowOf, Submits
      <3>5. QED
        BY <3>2, <3>3, <3>4
    <2>8. ASSUME FailedIsFree, FailedIsFree'
          PROVE  Refunded' = Refunded
      <3>1. {s \in Refunds : refunds'[s].status # "FAILED" \/ Taken(s)'}
               = {s \in Refunds : refunds[s].status # "FAILED" \/ Taken(s)}
        BY <2>1, <2>8 DEF FailedIsFree
      <3>2. QED
        BY <2>1, <3>1 DEF Refunded
    <2>9. QED
      BY <2>1, <2>6, <2>7, <2>8 DEF BudgetInv
  <1>13a. ASSUME NEW r \in Refunds, Arrive(r)
          PROVE  BudgetInv'
    <2>1. /\ refunds' = refunds /\ tasks' = tasks /\ (returned => returned')
          /\ provider[r] \in {"late", "again"}
      BY <1>13a DEF Arrive, OnItsWay
    <2>2. PICK answer \in Answers :
             /\ provider' = [provider EXCEPT ![r] = answer]
             /\ returned' = (returned \/ (refunds[r].status = "FAILED" /\ answer # "failed"))
      BY <1>13a DEF Arrive
    <2>3. \A s \in Refunds : provider'[s] = IF s = r THEN answer ELSE provider[s]
      BY <2>2 DEF IInv, TypeOK
    <2>4. \A t \in Tasks : tasks[t].pc \in {"send", "read", "write"} => tasks[t].refund \in Refunds
      BY Known
    <2>5. RowsAreThere'
      BY <2>1, <2>3 DEF BudgetInv, RowsAreThere, RowOf, Submits
    <2>6. ASSUME ~returned'
          PROVE  FailedIsFree' /\ SubmittedOnce' /\ FailureIsKnown' /\ Refunded' = Refunded
      <3>1. FailedIsFree /\ SubmittedOnce /\ FailureIsKnown
        BY <2>1, <2>6 DEF BudgetInv
      <3>2. refunds[r].status = "FAILED" => answer = "failed"
        BY <2>2, <2>6
      <3>3. FailedIsFree'
        BY <2>1, <2>3, <3>1, <3>2 DEF FailedIsFree, Taken
      <3>4. SubmittedOnce'
        BY <2>1, <2>3, <2>4, <3>1 DEF SubmittedOnce, RowOf, Submits, Answers
      <3>5. FailureIsKnown'
        BY <2>1, <2>3, <2>4, <3>1 DEF FailureIsKnown, RowOf, Submits
      <3>6. {s \in Refunds : refunds'[s].status # "FAILED" \/ Taken(s)'}
               = {s \in Refunds : refunds[s].status # "FAILED" \/ Taken(s)}
        BY <2>1, <3>1, <3>3 DEF FailedIsFree
      <3>7. QED
        BY <2>1, <3>3, <3>4, <3>5, <3>6 DEF Refunded
    <2>7. QED
      BY <2>1, <2>5, <2>6 DEF BudgetInv
  <1>14. ASSUME NEW r \in Refunds, Backfill(r)
         PROVE  BudgetInv'
    BY <1>14 DEF Backfill, BudgetInv, RowsAreThere, FailedIsFree, SubmittedOnce, FailureIsKnown,
                 Refunded, Taken, RowOf, Submits
  <1>15. CASE UNCHANGED vars
    BY <1>15 DEF vars, BudgetInv, RowsAreThere, FailedIsFree, SubmittedOnce, FailureIsKnown,
                 Refunded, Taken, RowOf, Submits
  <1>16. QED
    BY <1>1, <1>2, <1>3, <1>4, <1>5, <1>6, <1>7, <1>8, <1>9, <1>10, <1>11, <1>12, <1>13,
       <1>13a, <1>14, <1>15
    DEF Next, Step

\* The reservations hold because requests keep to an order: one request submits a refund, once;
\* and until a refund comes back from FAILED, a FAILED refund is one the provider does not have.
THEOREM BudgetInvariant == Spec => [](IInv /\ BudgetInv)
  BY InvariantInit, InvariantStep, BudgetBegins, BudgetNext, PTL DEF Spec

\* Whatever requests race, the refunds of an order stay within its amount, but for the cent of
\* the tolerance, until one comes back from FAILED or is FAILED although the provider has it.
THEOREM RefundedTheorem == Spec => []RefundedUnlessReturned
  <1>1. BudgetInv => RefundedUnlessReturned
    BY DEF BudgetInv, RefundedUnlessReturned
  <1>2. QED
    BY <1>1, BudgetInvariant, PTL

=============================================================================
