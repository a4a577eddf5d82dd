------------------------ MODULE PaymentOrdersProofs ------------------------
(***************************************************************************)
(* Proofs about PaymentOrders, for any number of orders, tasks and faults.  *)
(*                                                                         *)
(* The argument for both safety properties is the same: the rows alone are   *)
(* not inductive, because a write takes its values from a snapshot read some  *)
(* time before.  IInv therefore asks of every snapshot, and of every           *)
(* notification a task holds, what the properties ask of the rows.  Evidence   *)
(* is never withdrawn (outbox only grows), so what was founded when it was     *)
(* read still is when it is written.                                           *)
(***************************************************************************)
EXTENDS PaymentOrders, TLAPS

\* The status functions stay within the enum.
LEMMA ResolveStatusType ==
    ASSUME NEW s \in Statuses \cup {"ABSENT"}, NEW k \in NoteKinds
    PROVE  /\ ResolveStatus(s, k) \in Statuses \cup {"ABSENT"}
           /\ ResolveStatus(s, k) = "SUCCEEDED" => k = "success" \/ s = "SUCCEEDED"
           /\ IsTerminal(s) => MayBecome(s, ResolveStatus(s, k))
  BY DEF ResolveStatus, Statuses, NoteKinds, IsTerminal, MayBecome

\* Evidence of payment survives as long as no notification is withdrawn.
LEMMA PaidIsStable ==
    ASSUME NEW o \in Orders, TypeOK, TypeOK', outbox[o] \subseteq outbox'[o], Paid(o)
    PROVE  Paid(o)'
  BY DEF Paid

\* An idle task, and one that has just begun, rest on nothing.
LEMMA NothingInHand ==
    /\ NoRow \in Row /\ Stamped(NoRow) /\ NoRow.status = "ABSENT"
    /\ NoNote \in Notes /\ NoNote.kind = "pending"
    /\ ExpiredNote \in Notes /\ ExpiredNote.kind = "closed"
  BY DEF NoRow, Inserted, Row, Stamped, NoNote, ExpiredNote, Notes, NoteKinds, Amounts

LEMMA IdleTask == Idle \in Task /\ Founded(Idle)
  <1>1. Idle \in Task
    BY NothingInHand DEF Idle, Task, Operations, PCs, Phases
  <1>2. Founded(Idle)
    BY NothingInHand DEF Idle, Founded
  <1> QED
    BY <1>1, <1>2

\* The evidence a notification in hand must rest on.
LEMMA HoldingTask ==
    ASSUME NEW op \in Operations, NEW pc \in PCs \ {"idle", "write", "capture"},
           NEW o \in Orders, NEW ph \in Phases, NEW note \in Notes,
           note.kind = "success" /\ note.amount # "other" => Paid(o)
    PROVE  Holding(op, pc, o, ph, note) \in Task /\ Founded(Holding(op, pc, o, ph, note))
  BY NothingInHand DEF Holding, Task, Founded

LEMMA FreshTask ==
    ASSUME NEW op \in Operations, NEW pc \in PCs \ {"idle", "write", "capture"},
           NEW o \in Orders, NEW ph \in Phases
    PROVE  Run(op, pc, o, ph) \in Task /\ Founded(Run(op, pc, o, ph))
  BY HoldingTask, NothingInHand DEF Run

\* A task whose apply returned, or threw, goes on founded.
LEMMA ContinuedTask ==
    ASSUME NEW task \in Task, Founded(task), task.order \in Orders
    PROVE  /\ Returned(task) \in Task /\ Founded(Returned(task))
           /\ Threw(task) \in Task /\ Founded(Threw(task))
  <1>1. /\ NoRow \in Row /\ Stamped(NoRow) /\ NoRow.status = "ABSENT"
        /\ NoNote \in Notes /\ NoNote.kind = "pending"
        /\ ExpiredNote \in Notes /\ ExpiredNote.kind = "closed"
    BY NothingInHand
  <1>2. task.phase \in Phases
    BY DEF Task
  <1> DEFINE Next1 == [task EXCEPT !.pc = "reload", !.note = NoNote, !.snap = NoRow]
             Next2 == Holding("expire", "read", task.order, "final", ExpiredNote)
  <1>3. Next1 \in Task /\ Founded(Next1)
    BY <1>1 DEF Task, Founded, PCs
  <1>4. Next2 \in Task /\ Founded(Next2)
    BY <1>1, HoldingTask DEF Operations, PCs, Phases
  <1>5. Returned(task) \in {Next1, Idle}
    BY <1>2 DEF Returned, Phases
  <1>6. Threw(task) \in {Next1, Next2, Idle}
    BY DEF Threw
  <1> QED
    BY <1>3, <1>4, <1>5, <1>6, IdleTask

-----------------------------------------------------------------------------
(* Every step of a task changes at most its own record, the row and trade of  *)
(* one order and the ledger, and withdraws no notification.                   *)

LEMMA TaskStep ==
    ASSUME IInv,
           NEW t \in Tasks, NEW new \in Task, Founded(new),
           tasks' = [tasks EXCEPT ![t] = new],
           NEW o \in Orders,
           NEW row \in Row, Stamped(row), row.status = "SUCCEEDED" => Paid(o),
           rows' = [rows EXCEPT ![o] = row],
           NEW s \in TradeStates, s = "paid" => Paid(o),
           trade' = [trade EXCEPT ![o] = s],
           ledger' \in SUBSET Entries,
           \A p \in Orders : <<p, "capture">> \in ledger' =>
                                <<p, "capture">> \in ledger \/ Paid(p),
           outbox' = outbox, acked' \in SUBSET Orders, expired' = expired,
           faults' \in 0 .. MaxFaults
    PROVE  IInv'
  <1>1. TypeOK'
    BY DEF IInv, TypeOK
  <1>2. \A p \in Orders : Paid(p)' = Paid(p)
    BY DEF Paid
  <1>3. MoneyFollowsEvidence'
    BY <1>2 DEF IInv, TypeOK, MoneyFollowsEvidence
  <1>4. TerminalIsStamped'
    BY DEF IInv, TypeOK, TerminalIsStamped, Stamped
  <1>5. TradeIsFounded'
    BY <1>2 DEF IInv, TypeOK, TradeIsFounded
  <1>6. ASSUME NEW u \in Tasks
        PROVE  Founded(tasks[u])'
    <2>1. CASE u = t
      <3>1. tasks'[u] = new
        BY <2>1 DEF IInv, TypeOK
      <3> QED
        BY <3>1 DEF Founded, Paid, Stamped
    <2>2. CASE u # t
      <3>1. tasks'[u] = tasks[u]
        BY <2>2 DEF IInv, TypeOK
      <3> QED
        BY <3>1 DEF IInv, Founded, Paid, Stamped
    <2> QED
      BY <2>1, <2>2
  <1> QED
    BY <1>1, <1>3, <1>4, <1>5, <1>6 DEF IInv

\* The step of a task that writes neither a row, nor a trade, nor the ledger.
LEMMA TaskOnly ==
    ASSUME IInv,
           NEW t \in Tasks, NEW new \in Task, Founded(new),
           tasks' = [tasks EXCEPT ![t] = new],
           NEW o \in Orders,
           UNCHANGED <<rows, trade, ledger, outbox, expired>>,
           acked' \in SUBSET Orders, faults' \in 0 .. MaxFaults
    PROVE  IInv'
  <1>1. /\ rows[o] \in Row /\ Stamped(rows[o])
        /\ rows[o].status = "SUCCEEDED" => Paid(o)
        /\ rows' = [rows EXCEPT ![o] = rows[o]]
    BY DEF IInv, TypeOK, TerminalIsStamped, MoneyFollowsEvidence
  <1>2. /\ trade[o] \in TradeStates
        /\ trade[o] = "paid" => Paid(o)
        /\ trade' = [trade EXCEPT ![o] = trade[o]]
    BY DEF IInv, TypeOK, TradeIsFounded
  <1>3. ledger' \in SUBSET Entries /\ ledger' = ledger
    BY DEF IInv, TypeOK
  <1> QED
    BY <1>1, <1>2, <1>3, TaskStep

\* The step of a task that writes only its order's row.
LEMMA RowStep ==
    ASSUME IInv,
           NEW t \in Tasks, NEW new \in Task, Founded(new),
           tasks' = [tasks EXCEPT ![t] = new],
           NEW o \in Orders,
           NEW row \in Row, Stamped(row), row.status = "SUCCEEDED" => Paid(o),
           rows' = [rows EXCEPT ![o] = row],
           UNCHANGED <<trade, ledger, outbox, expired, faults>>,
           acked' \in SUBSET Orders
    PROVE  IInv'
  <1>1. /\ trade[o] \in TradeStates
        /\ trade[o] = "paid" => Paid(o)
        /\ trade' = [trade EXCEPT ![o] = trade[o]]
    BY DEF IInv, TypeOK, TradeIsFounded
  <1>2. /\ ledger' \in SUBSET Entries /\ ledger' = ledger
        /\ faults' \in 0 .. MaxFaults
    BY DEF IInv, TypeOK
  <1> QED
    BY <1>1, <1>2, TaskStep

\* The step of a task that writes only its order's trade, or counts a fault.
LEMMA TradeStep ==
    ASSUME IInv,
           NEW t \in Tasks, NEW new \in Task, Founded(new),
           tasks' = [tasks EXCEPT ![t] = new],
           NEW o \in Orders,
           NEW s \in TradeStates \ {"paid"}, trade' = [trade EXCEPT ![o] = s],
           UNCHANGED <<rows, ledger, outbox, acked, expired>>,
           faults' \in 0 .. MaxFaults
    PROVE  IInv'
  <1>1. /\ rows[o] \in Row /\ Stamped(rows[o])
        /\ rows[o].status = "SUCCEEDED" => Paid(o)
        /\ rows' = [rows EXCEPT ![o] = rows[o]]
    BY DEF IInv, TypeOK, TerminalIsStamped, MoneyFollowsEvidence
  <1>2. ledger' \in SUBSET Entries /\ ledger' = ledger /\ acked' \in SUBSET Orders
    BY DEF IInv, TypeOK
  <1> QED
    BY <1>1, <1>2, TaskStep

\* The step of a task that writes an entry to the ledger, or deletes that of a fee of zero.
LEMMA LedgerStep ==
    ASSUME IInv,
           NEW t \in Tasks, NEW new \in Task, Founded(new),
           tasks' = [tasks EXCEPT ![t] = new],
           NEW o \in Orders, NEW type \in {"capture", "fee"},
           ledger' \in {ledger \cup {<<o, type>>}, ledger \ {<<o, type>>}},
           type = "capture" => Paid(o),
           UNCHANGED <<rows, trade, outbox, expired, faults>>,
           acked' \in SUBSET Orders
    PROVE  IInv'
  <1>1. /\ rows[o] \in Row /\ Stamped(rows[o])
        /\ rows[o].status = "SUCCEEDED" => Paid(o)
        /\ rows' = [rows EXCEPT ![o] = rows[o]]
    BY DEF IInv, TypeOK, TerminalIsStamped, MoneyFollowsEvidence
  <1>2. /\ trade[o] \in TradeStates
        /\ trade[o] = "paid" => Paid(o)
        /\ trade' = [trade EXCEPT ![o] = trade[o]]
    BY DEF IInv, TypeOK, TradeIsFounded
  <1>3. ledger' \in SUBSET Entries
    BY DEF IInv, TypeOK, Entries
  <1>4. \A p \in Orders : <<p, "capture">> \in ledger' => <<p, "capture">> \in ledger \/ Paid(p)
    OBVIOUS
  <1>5. faults' \in 0 .. MaxFaults
    BY DEF IInv, TypeOK
  <1> QED
    BY <1>1, <1>2, <1>3, <1>4, <1>5, TaskStep

\* What is known of a task that runs, and of the row of its order.
LEMMA RunningTask ==
    ASSUME IInv, NEW t \in Tasks, tasks[t].pc # "idle"
    PROVE  /\ tasks[t] \in Task /\ Founded(tasks[t])
           /\ tasks[t].order \in Orders
           /\ rows[tasks[t].order] \in Row /\ Stamped(rows[tasks[t].order])
           /\ rows[tasks[t].order].status = "SUCCEEDED" => Paid(tasks[t].order)
           /\ AckedAfter(tasks[t]) \in SUBSET Orders
           /\ acked \in SUBSET Orders /\ faults \in 0 .. MaxFaults
  BY DEF IInv, TypeOK, TerminalIsStamped, MoneyFollowsEvidence, Founded, AckedAfter

\* A task that moves on to another program point, having settled what that point needs.
LEMMA MovedTask ==
    ASSUME NEW task \in Task, Founded(task), task.order \in Orders,
           NEW pc \in PCs \ {"idle"}, pc = "capture" => Paid(task.order),
           pc = "write" /\ task.note.kind = "success" => task.note.amount # "other"
    PROVE  [task EXCEPT !.pc = pc] \in Task /\ Founded([task EXCEPT !.pc = pc])
  BY DEF Task, Founded

\* A fault counted is a fault within the bound.
LEMMA FaultType ==
    ASSUME IInv, Fault
    PROVE  faults' \in 0 .. MaxFaults
  BY FaultsAssumption DEF IInv, TypeOK, Fault

-----------------------------------------------------------------------------
(* The inductive step, one lemma for each part of the next-state relation.   *)

LEMMA StepKeepsIInv ==
    ASSUME IInv, NEW t \in Tasks, Step(t)
    PROVE  IInv'
  <1> DEFINE task == tasks[t]
             o == task.order
  <1>1. CASE CreateProviderReturns(t)
    <2>1. [task EXCEPT !.pc = "createWrite"] \in Task /\ Founded([task EXCEPT !.pc = "createWrite"])
      BY <1>1, RunningTask, MovedTask DEF CreateProviderReturns, At, PCs
    <2>2. faults' \in 0 .. MaxFaults
      BY <1>1, RunningTask DEF CreateProviderReturns, At
    <2> QED
      BY <1>1, <2>1, <2>2, RunningTask, TradeStep
         DEF CreateProviderReturns, At, GoTo, TradeStates
  <1>2. CASE CreateWrite(t)
    <2>1. PICK result \in CreateResults :
             rows' = [rows EXCEPT ![o] = Created(rows[o], result)]
      BY <1>2 DEF CreateWrite
    <2> DEFINE row == Created(rows[o], result)
    <2>2. row \in Row /\ row.status \in Active
      BY <1>2, RunningTask
         DEF CreateWrite, At, Row, Created, StatusFromCreatePayment, Statuses, Active
    <2>3. Stamped(row) /\ row.status # "SUCCEEDED"
      BY <2>2 DEF Stamped, Active
    <2>4. rows' = [rows EXCEPT ![o] = row]
      BY <2>1
    <2> HIDE DEF row
    <2> QED
      BY <1>2, <2>2, <2>3, <2>4, RunningTask, IdleTask, RowStep DEF CreateWrite, At, env
  <1>3. CASE CreateFail(t)
    <2> DEFINE row == [rows[o] EXCEPT !.status = "FAILED"]
    <2>1. row \in Row /\ Stamped(row) /\ row.status # "SUCCEEDED"
      BY <1>3, RunningTask DEF CreateFail, At, Row, Statuses, Stamped
    <2>2. rows' = [rows EXCEPT ![o] = row]
      BY <1>3 DEF CreateFail
    <2> HIDE DEF row
    <2> QED
      BY <1>3, <2>1, <2>2, RunningTask, IdleTask, RowStep DEF CreateFail, At, env
  <1>4. CASE Query(t)
    <2>1. PICK note \in QueryAnswers(o) : tasks' = [tasks EXCEPT ![t] = [@ EXCEPT !.note = note, !.pc = "read"]]
      BY <1>4 DEF Query
    <2>2. note \in Notes /\ (note.kind = "success" /\ note.amount # "other" => Paid(o))
      <3>1. o \in Orders /\ trade[o] \in TradeStates
        BY <1>4, RunningTask DEF Query, At, IInv, TypeOK
      <3>2. note \in Notes
        BY <2>1, <3>1 DEF QueryAnswers, Notes, NoteKinds, Amounts, TradeStates
      <3>3. note.kind = "success" /\ note.amount # "other" => trade[o] = "paid"
        BY <2>1, <3>1 DEF QueryAnswers, TradeStates
      <3> QED
        BY <3>1, <3>2, <3>3 DEF IInv, TradeIsFounded
    <2> DEFINE new == [task EXCEPT !.note = note, !.pc = "read"]
    <2>3. new \in Task /\ Founded(new)
      BY <1>4, <2>2, RunningTask DEF Query, At, Task, Founded, PCs
    <2>4. tasks' = [tasks EXCEPT ![t] = new]
      BY <2>1
    <2> HIDE DEF new
    <2> QED
      BY <1>4, <2>3, <2>4, RunningTask, TaskOnly DEF Query, At, env
  <1>5. CASE Reload(t)
    <2>1. PICK new \in {Idle, ExpireTask(o), Run(task.op, "shut", o, "close")} :
             tasks' = [tasks EXCEPT ![t] = new]
      BY <1>5 DEF Reload
    <2>2. task.op \in Operations
      BY <1>5, RunningTask DEF Reload, At, Task
    <2>3. new \in Task /\ Founded(new)
      BY <1>5, <2>1, <2>2, RunningTask, IdleTask, FreshTask
         DEF Reload, At, ExpireTask, Operations, PCs, Phases
    <2> QED
      BY <1>5, <2>1, <2>3, RunningTask, TaskOnly DEF Reload, At, env
  <1>6. CASE ShutTrade(t)
    <2> DEFINE note == [kind |-> "closed",
                        amount |-> IF rows[o].channel = "usdt" THEN "base" ELSE "absent"]
               new == [task EXCEPT !.pc = "read", !.note = note]
    <2>1. note \in Notes /\ note.kind = "closed"
      BY DEF Notes, NoteKinds, Amounts
    <2>2. tasks' = [tasks EXCEPT ![t] = new]
      BY <1>6 DEF ShutTrade
    <2> HIDE DEF note
    <2>3. new \in Task /\ Founded(new)
      BY <1>6, <2>1, RunningTask DEF ShutTrade, At, Task, Founded, PCs
    <2> HIDE DEF new
    <2>4. CASE UNCHANGED trade
      BY <1>6, <2>2, <2>3, <2>4, RunningTask, TaskOnly DEF ShutTrade, At
    <2>5. CASE trade' = [trade EXCEPT ![o] = "closed"]
      BY <1>6, <2>2, <2>3, <2>5, RunningTask, TradeStep DEF ShutTrade, At, TradeStates
    <2> QED
      BY <1>6, <2>4, <2>5 DEF ShutTrade
  <1>7. CASE ShutUnsupported(t)
    BY <1>7, RunningTask, ContinuedTask, TaskOnly DEF ShutUnsupported, At, Abort, env
  <1>8. CASE ApplyRead(t)
    <2>1. CASE AmountMatches(rows[o], task.note)
      <3> DEFINE new == [task EXCEPT !.pc = "write", !.snap = rows[o]]
      <3>1. tasks' = [tasks EXCEPT ![t] = new]
        BY <1>8, <2>1 DEF ApplyRead
      <3>2. task.note.kind = "success" => task.note.amount # "other"
        BY <2>1 DEF AmountMatches, Expected
      <3>3. new \in Task /\ Founded(new)
        BY <1>8, <3>2, RunningTask DEF ApplyRead, At, Task, Founded, PCs
      <3> HIDE DEF new
      <3> QED
        BY <1>8, <3>1, <3>3, RunningTask, TaskOnly DEF ApplyRead, At, env
    <2>2. CASE ~AmountMatches(rows[o], task.note)
      BY <1>8, <2>2, RunningTask, ContinuedTask, TaskOnly DEF ApplyRead, At, Abort, env
    <2> QED
      BY <2>1, <2>2
  <1>9. CASE ApplyWrite(t)
    <2> DEFINE row == Applied(rows[o], task.snap, task.note.kind)
               new == [task EXCEPT !.pc = "dispatch", !.snap = row]
    <2>1. row \in Row /\ Stamped(row) /\ (row.status = "SUCCEEDED" => Paid(o))
      <3>1. task.note.kind \in NoteKinds /\ task.snap \in Row
        BY <1>9, RunningTask DEF ApplyWrite, At, Task, Notes
      <3>2. task.snap.status \in Statuses \cup {"ABSENT"}
        BY <3>1 DEF Row
      <3>3. row \in Row
        BY <1>9, <3>1, <3>2, RunningTask, ResolveStatusType
           DEF ApplyWrite, At, Row, Applied, IsTerminal
      <3>4. row.status = ResolveStatus(task.snap.status, task.note.kind)
        BY <1>9, RunningTask DEF ApplyWrite, At, Row, Applied
      <3>5. /\ row.paidAt = (task.note.kind = "success" \/ task.snap.paidAt)
            /\ row.completedAt = (IsTerminal(row.status) \/ task.snap.completedAt)
        BY <1>9, <3>4, RunningTask DEF ApplyWrite, At, Row, Applied
      <3>6. row.status = "SUCCEEDED" => task.note.kind = "success" \/ task.snap.status = "SUCCEEDED"
        BY <3>1, <3>2, <3>4, ResolveStatusType
      <3>7. Stamped(row)
        BY <1>9, <3>5, <3>6, RunningTask DEF ApplyWrite, At, Founded, Stamped, IsTerminal
      <3>8. row.status = "SUCCEEDED" => Paid(o)
        BY <1>9, <3>6, RunningTask DEF ApplyWrite, At, Founded
      <3> QED
        BY <3>3, <3>7, <3>8
    <2>2. rows' = [rows EXCEPT ![o] = row]
      BY <1>9 DEF ApplyWrite
    <2>3. CASE IsTerminal(row.status)
      <3>1. tasks' = [tasks EXCEPT ![t] = new]
        BY <1>9, <2>3 DEF ApplyWrite
      <3> HIDE DEF row
      <3>2. new \in Task /\ Founded(new)
        BY <1>9, <2>1, RunningTask DEF ApplyWrite, At, Task, Founded, PCs
      <3>3. acked' = acked
        BY <1>9, <2>3 DEF ApplyWrite, row
      <3> HIDE DEF new
      <3> QED
        BY <1>9, <2>1, <2>2, <3>1, <3>2, <3>3, RunningTask, RowStep DEF ApplyWrite, At
    <2>4. CASE ~IsTerminal(row.status)
      <3>1. Continue(t)
        BY <1>9, <2>4 DEF ApplyWrite
      <3> HIDE DEF row
      <3> QED
        BY <1>9, <2>1, <2>2, <3>1, RunningTask, ContinuedTask, RowStep
           DEF ApplyWrite, At, Continue
    <2> QED
      BY <2>3, <2>4
  <1>10. CASE DispatchReturns(t)
    <2>1. CASE task.snap.status = "SUCCEEDED"
      <3>1. [task EXCEPT !.pc = "ledger"] \in Task /\ Founded([task EXCEPT !.pc = "ledger"])
        BY <1>10, RunningTask, MovedTask DEF DispatchReturns, At, PCs
      <3> QED
        BY <1>10, <2>1, <3>1, RunningTask, TaskOnly DEF DispatchReturns, At, GoTo
    <2>2. CASE task.snap.status # "SUCCEEDED"
      BY <1>10, <2>2, RunningTask, ContinuedTask, TaskOnly DEF DispatchReturns, At, Continue
    <2> QED
      BY <2>1, <2>2
  <1>11. CASE LedgerRead(t)
    <2>1. CASE rows[o].status = "SUCCEEDED"
      <3>1. [task EXCEPT !.pc = "capture"] \in Task /\ Founded([task EXCEPT !.pc = "capture"])
        BY <1>11, <2>1, RunningTask, MovedTask DEF LedgerRead, At, PCs
      <3> QED
        BY <1>11, <2>1, <3>1, RunningTask, TaskOnly DEF LedgerRead, At, GoTo
    <2>2. CASE rows[o].status # "SUCCEEDED"
      BY <1>11, <2>2, RunningTask, ContinuedTask, TaskOnly DEF LedgerRead, At, Continue
    <2> QED
      BY <2>1, <2>2
  <1>12. CASE UpsertCapture(t)
    <2>1. [task EXCEPT !.pc = "fee"] \in Task /\ Founded([task EXCEPT !.pc = "fee"])
      BY <1>12, RunningTask, MovedTask DEF UpsertCapture, At, PCs
    <2>2. Paid(o)
      BY <1>12, RunningTask DEF UpsertCapture, At, Founded
    <2> QED
      BY <1>12, <2>1, <2>2, RunningTask, LedgerStep DEF UpsertCapture, At, GoTo, Entries, env
  <1>13. CASE UpsertFee(t)
    BY <1>13, RunningTask, ContinuedTask, LedgerStep DEF UpsertFee, At, Continue, Entries
  <1> QED
    BY <1>1, <1>2, <1>3, <1>4, <1>5, <1>6, <1>7, <1>8, <1>9, <1>10, <1>11, <1>12, <1>13
       DEF Step

LEMMA FailKeepsIInv ==
    ASSUME IInv, NEW t \in Tasks, Fail(t)
    PROVE  IInv'
  <1> DEFINE task == tasks[t]
             o == task.order
             failed == [task EXCEPT !.pc = "createFail"]
  <1>1. CASE CreateProviderThrows(t)
    <2>1. failed \in Task /\ Founded(failed)
      BY <1>1, RunningTask, MovedTask DEF CreateProviderThrows, At, PCs
    <2>2. faults' \in 0 .. MaxFaults
      BY <1>1, RunningTask DEF CreateProviderThrows, At
    <2>3. PICK s \in {"none", "open"} : trade' = [trade EXCEPT ![o] = s]
      BY <1>1 DEF CreateProviderThrows
    <2> QED
      BY <1>1, <2>1, <2>2, <2>3, RunningTask, TradeStep
         DEF CreateProviderThrows, At, GoTo, TradeStates
  <1>2. CASE CreateWriteThrows(t)
    <2>1. failed \in Task /\ Founded(failed)
      BY <1>2, RunningTask, MovedTask DEF CreateWriteThrows, At, PCs
    <2> QED
      BY <1>2, <2>1, RunningTask, FaultType, TaskOnly DEF CreateWriteThrows, At, GoTo
  <1>3. CASE QueryFails(t)
    <2>1. faults' \in 0 .. MaxFaults
      BY <1>3, RunningTask, FaultType DEF QueryFails, At
    <2> QED
      BY <1>3, <2>1, RunningTask, ContinuedTask, TaskOnly DEF QueryFails, At, Abort
  <1>4. CASE ShutFails(t)
    <2>1. faults' \in 0 .. MaxFaults
      BY <1>4, RunningTask, FaultType DEF ShutFails, At
    <2>2. CASE UNCHANGED trade
      BY <1>4, <2>1, <2>2, RunningTask, ContinuedTask, TaskOnly DEF ShutFails, At, Abort
    <2>3. CASE trade' = [trade EXCEPT ![o] = "closed"]
      BY <1>4, <2>1, <2>3, RunningTask, ContinuedTask, TradeStep
         DEF ShutFails, At, Abort, TradeStates
    <2> QED
      BY <1>4, <2>2, <2>3 DEF ShutFails
  <1>5. CASE ApplyThrows(t)
    BY <1>5, RunningTask, ContinuedTask, FaultType, TaskOnly DEF ApplyThrows, Abort
  <1>6. CASE Crash(t)
    BY <1>6, RunningTask, IdleTask, FaultType, TaskOnly DEF Crash, At
  <1> QED
    BY <1>1, <1>2, <1>3, <1>4, <1>5, <1>6 DEF Fail

LEMMA BeginKeepsIInv ==
    ASSUME IInv, NEW t \in Tasks, NEW o \in Orders, Begin(t, o)
    PROVE  IInv'
  <1>1. acked \in SUBSET Orders /\ faults \in 0 .. MaxFaults
    BY DEF IInv, TypeOK
  <1>2. CASE CreateInsert(t, o)
    <2>1. PICK channel \in Channels, quoted \in BOOLEAN, fee \in BOOLEAN :
             rows' = [rows EXCEPT ![o] = Inserted("PENDING", channel, quoted, fee)]
      BY <1>2 DEF CreateInsert
    <2> DEFINE row == Inserted("PENDING", channel, quoted, fee)
    <2>2. row \in Row /\ Stamped(row) /\ row.status # "SUCCEEDED"
      BY ChannelAssumption DEF Inserted, Row, Statuses, Stamped
    <2> HIDE DEF row
    <2>3. rows' = [rows EXCEPT ![o] = row]
      BY <2>1 DEF row
    <2>4. /\ Run("create", "provider", o, "final") \in Task
          /\ Founded(Run("create", "provider", o, "final"))
      BY FreshTask DEF Operations, PCs, Phases
    <2> QED
      BY <1>1, <1>2, <2>2, <2>3, <2>4, RowStep DEF CreateInsert, env
  <1>3. CASE StartLookup(t, o)
    <2>1. /\ Run("lookup", "query", o, "sync") \in Task
          /\ Founded(Run("lookup", "query", o, "sync"))
      BY FreshTask DEF Operations, PCs, Phases
    <2> QED
      BY <1>1, <1>3, <2>1, TaskOnly DEF StartLookup, env
  <1>4. CASE StartExpire(t, o)
    <2>1. ExpireTask(o) \in Task /\ Founded(ExpireTask(o))
      BY FreshTask DEF ExpireTask, Operations, PCs, Phases
    <2> QED
      BY <1>1, <1>4, <2>1, TaskOnly DEF StartExpire, env
  <1>5. CASE StartClose(t, o)
    <2>1. PICK new \in {Run("close", "query", o, "sync"), Run("close", "shut", o, "close")} :
             tasks' = [tasks EXCEPT ![t] = new]
      BY <1>5 DEF StartClose
    <2>2. new \in Task /\ Founded(new)
      BY <2>1, FreshTask DEF Operations, PCs, Phases
    <2> QED
      BY <1>1, <1>5, <2>1, <2>2, TaskOnly DEF StartClose, env
  <1>6. CASE StartBackfill(t, o)
    <2>1. /\ Run("backfill", "ledger", o, "final") \in Task
          /\ Founded(Run("backfill", "ledger", o, "final"))
      BY FreshTask DEF Operations, PCs, Phases
    <2> QED
      BY <1>1, <1>6, <2>1, TaskOnly DEF StartBackfill, env
  <1>7. ASSUME NEW note \in outbox[o], Deliver(t, o, note)
        PROVE  IInv'
    <2> DEFINE new == Holding("notify", "read", o, "final", note)
    <2>1. note \in Notes /\ (note.kind = "success" /\ note.amount # "other" => Paid(o))
      BY <1>7 DEF IInv, TypeOK, Paid
    <2>2. new \in Task /\ Founded(new)
      BY <2>1, HoldingTask DEF Operations, PCs, Phases
    <2> QED
      BY <1>1, <1>7, <2>2, TaskOnly DEF Deliver, env
  <1> QED
    BY <1>2, <1>3, <1>4, <1>5, <1>6, <1>7 DEF Begin

\* Whatever happens outside leaves the rows, the ledger and the tasks alone, and never
\* withdraws a notification.
LEMMA WorldKeepsIInv ==
    ASSUME IInv, NEW o \in Orders, World(o)
    PROVE  IInv'
  <1>1. UNCHANGED <<rows, ledger, tasks, acked, faults>>
    BY DEF World, Pay, Mispay, FailUpstream, CloseUpstream, PassExpiry
  <1>2. \A p \in Orders : outbox'[p] \in SUBSET Notes /\ outbox[p] \subseteq outbox'[p]
    <2>1. rows[o].quoted \in BOOLEAN /\ \A p \in Orders : outbox[p] \in SUBSET Notes
      BY DEF IInv, TypeOK, Row
    <2>2. /\ [kind |-> "success", amount |-> Expected(rows[o])] \in Notes
          /\ [kind |-> "success", amount |-> "other"] \in Notes
          /\ [kind |-> "failure", amount |-> "absent"] \in Notes
          /\ [kind |-> "closed", amount |-> "absent"] \in Notes
      BY <2>1 DEF Notes, NoteKinds, Amounts, Expected
    <2> QED
      BY <2>1, <2>2
         DEF IInv, TypeOK, World, Pay, Mispay, FailUpstream, CloseUpstream, PassExpiry
  <1>3. TypeOK'
    <2>1. outbox' \in [Orders -> SUBSET Notes]
      BY <1>2 DEF IInv, TypeOK, World, Pay, Mispay, FailUpstream, CloseUpstream, PassExpiry
    <2>2. trade' \in [Orders -> TradeStates] /\ expired' \in SUBSET Orders
      BY DEF IInv, TypeOK, TradeStates, World, Pay, Mispay, FailUpstream, CloseUpstream,
             PassExpiry
    <2> QED
      BY <1>1, <2>1, <2>2 DEF IInv, TypeOK
  <1>4. \A p \in Orders : Paid(p) => Paid(p)'
    BY <1>2 DEF Paid
  <1>5. TradeIsFounded'
    <2>1. CASE Pay(o)
      <3> DEFINE note == [kind |-> "success", amount |-> Expected(rows[o])]
      <3>0. note \in outbox'[o]
        BY <2>1 DEF Pay, IInv, TypeOK
      <3>1. Paid(o)'
        BY <3>0 DEF Paid, Expected
      <3> QED
        BY <1>4, <2>1, <3>1 DEF Pay, TradeIsFounded, IInv, TypeOK
    <2>2. CASE ~Pay(o)
      BY <1>4, <2>2 DEF World, Mispay, FailUpstream, CloseUpstream, PassExpiry,
                        TradeIsFounded, IInv, TypeOK
    <2> QED
      BY <2>1, <2>2
  <1>6. MoneyFollowsEvidence' /\ TerminalIsStamped'
    BY <1>1, <1>4 DEF IInv, MoneyFollowsEvidence, TerminalIsStamped, Stamped
  <1>7. ASSUME NEW u \in Tasks
        PROVE  Founded(tasks[u])'
    <2>1. CASE tasks[u].pc = "idle"
      BY <1>1, <2>1, NothingInHand DEF IInv, Founded, Stamped
    <2>2. CASE tasks[u].pc # "idle"
      BY <1>1, <1>4, <2>2 DEF IInv, Founded, Stamped
    <2> QED
      BY <2>1, <2>2
  <1> QED
    BY <1>3, <1>5, <1>6, <1>7 DEF IInv

-----------------------------------------------------------------------------
(* The theorems                                                              *)

LEMMA InitIInv == Init => IInv
  <1> SUFFICES ASSUME Init PROVE IInv
    OBVIOUS
  <1>1. TypeOK
    BY NothingInHand, IdleTask, FaultsAssumption DEF Init, TypeOK, TradeStates
  <1>2. MoneyFollowsEvidence /\ TerminalIsStamped /\ TradeIsFounded
    BY NothingInHand DEF Init, MoneyFollowsEvidence, TerminalIsStamped, TradeIsFounded
  <1>3. \A t \in Tasks : Founded(tasks[t])
    BY IdleTask DEF Init
  <1> QED
    BY <1>1, <1>2, <1>3 DEF IInv

LEMMA NextKeepsIInv == IInv /\ [Next]_vars => IInv'
  <1> SUFFICES ASSUME IInv, [Next]_vars PROVE IInv'
    OBVIOUS
  <1>1. CASE UNCHANGED vars
    BY <1>1 DEF vars, IInv, TypeOK, MoneyFollowsEvidence, TerminalIsStamped, Stamped,
                TradeIsFounded, Founded, Paid
  <1>2. CASE Next
    BY <1>2, StepKeepsIInv, FailKeepsIInv, BeginKeepsIInv, WorldKeepsIInv DEF Next
  <1> QED
    BY <1>1, <1>2

THEOREM Invariance == Spec => []IInv
  BY InitIInv, NextKeepsIInv, PTL DEF Spec

\* Every variable keeps its type, whatever the number of orders, tasks and faults.
THEOREM TypeCorrect == Spec => []TypeOK
  <1>1. IInv => TypeOK
    BY DEF IInv
  <1> QED
    BY <1>1, Invariance, PTL

\* An order is SUCCEEDED, or booked in the ledger, only if it was paid in full: no
\* interleaving of stale reads, late writes and crashes of the handlers makes up a payment.
THEOREM EvidenceTheorem == Spec => []MoneyFollowsEvidence
  <1>1. IInv => MoneyFollowsEvidence
    BY DEF IInv
  <1> QED
    BY <1>1, Invariance, PTL

\* The dates a settlement is computed from are set on every SUCCEEDED order, although any
\* stale writer may erase them from the row.
THEOREM StampedTheorem == Spec => []TerminalIsStamped
  <1>1. IInv => TerminalIsStamped
    BY DEF IInv
  <1> QED
    BY <1>1, Invariance, PTL

\* A terminal order is undone only by a write that rests on a stale read, or by the late
\* writes of its creation: the handlers of one order, serialised, follow status.ts.
THEOREM StaleTheorem == Spec => OnlyStaleWritesUndo
  <1> DEFINE Undone(o) == IsTerminal(rows[o].status) /\ ~MayBecome(rows[o].status, rows'[o].status)
  <1>1. ASSUME IInv, NEW o \in Orders, Undone(o), NEW t \in Tasks, Step(t) \/ Fail(t)
        PROVE  StaleWriter(o)
    <2>1. rows' # rows
      BY <1>1 DEF MayBecome
    <2>2. \/ CreateWrite(t) \/ CreateFail(t) \/ ApplyWrite(t)
      BY <1>1, <2>1
         DEF Step, Fail, env, Fault, CreateProviderReturns, Query, Reload, ShutTrade, ShutUnsupported,
             ApplyRead, DispatchReturns, LedgerRead, UpsertCapture, UpsertFee,
             CreateProviderThrows, CreateWriteThrows, QueryFails, ShutFails, ApplyThrows, Crash
    <2>3. tasks[t].order = o
      BY <1>1, <2>2 DEF IInv, TypeOK, MayBecome, CreateWrite, CreateFail, ApplyWrite
    <2>4. CASE CreateWrite(t) \/ CreateFail(t)
      BY <2>3, <2>4 DEF CreateWrite, CreateFail, At, StaleWriter
    <2>5. CASE ApplyWrite(t)
      <3> DEFINE read == tasks[t].snap.status
                 kind == tasks[t].note.kind
      <3>1. tasks[t] \in Task /\ rows[o] \in Row
        BY <2>5, <2>3, RunningTask, <1>1 DEF ApplyWrite, At
      <3>2. read \in Statuses \cup {"ABSENT"} /\ kind \in NoteKinds
        BY <3>1 DEF Task, Row, Notes
      <3>3. rows'[o].status = ResolveStatus(read, kind)
        BY <1>1, <2>3, <2>5, <3>1 DEF ApplyWrite, Applied, Row, IInv, TypeOK
      <3>4. read # rows[o].status
        BY <1>1, <3>2, <3>3, ResolveStatusType
      <3> QED
        BY <2>3, <2>5, <3>4 DEF ApplyWrite, At, StaleWriter
    <2> QED
      BY <2>2, <2>4, <2>5
  <1>2. ASSUME IInv, NEW o \in Orders, Undone(o),
               NEW t \in Tasks, NEW p \in Orders, Begin(t, p)
        PROVE  FALSE
    <2>1. rows' # rows
      BY <1>2 DEF MayBecome
    <2>2. CreateInsert(t, p)
      BY <1>2, <2>1 DEF Begin, StartLookup, StartExpire, StartClose, StartBackfill, Deliver
    <2>3. p = o
      BY <1>2, <2>2 DEF CreateInsert, IInv, TypeOK, MayBecome
    <2> QED
      BY <1>2, <2>2, <2>3 DEF CreateInsert, Exists, IsTerminal
  <1>3. ASSUME IInv, [Next]_vars, NEW o \in Orders, Undone(o)
        PROVE  StaleWriter(o)
    <2>1. CASE UNCHANGED vars
      BY <1>3, <2>1 DEF vars, MayBecome
    <2>2. CASE \E p \in Orders : World(p)
      <3>1. rows' = rows
        BY <2>2 DEF World, Pay, Mispay, FailUpstream, CloseUpstream, PassExpiry
      <3> QED
        BY <1>3, <3>1 DEF MayBecome
    <2> QED
      BY <1>1, <1>2, <1>3, <2>1, <2>2 DEF Next
  <1>4. IInv /\ [Next]_vars =>
           [\A o \in Orders :
              IsTerminal(rows[o].status) /\ ~MayBecome(rows[o].status, rows'[o].status)
                 => StaleWriter(o)]_vars
    BY <1>3
  <1> QED
    BY <1>4, Invariance, PTL DEF Spec, OnlyStaleWritesUndo

-----------------------------------------------------------------------------
(* The promise of Payments.  IInv says why a status or an entry may be        *)
(* written; OrdersAreThere that the order it is written for is in the table   *)
(* and that a capture is there before its fee.                                *)

LEMMA ResolveStatusIsThere ==
    ASSUME NEW s \in Statuses \cup {"ABSENT"}, NEW k \in NoteKinds
    PROVE  ResolveStatus(s, k) \in Statuses
  BY DEF ResolveStatus, Statuses, NoteKinds, IsTerminal

\* A task that has returned, thrown or been reloaded is idle, or serves the same order, and
\* is not about to book a fee.
LEMMA NextTask ==
    ASSUME NEW task \in Task, NEW new,
           new \in {Idle, Returned(task), Threw(task), ExpireTask(task.order),
                    Run(task.op, "shut", task.order, "close")}
    PROVE  (new.pc # "idle" => new.order = task.order) /\ new.pc # "fee"
  <1>1. task.phase \in Phases
    BY DEF Task
  <1>2. new \in {Idle, [task EXCEPT !.pc = "reload", !.note = NoNote, !.snap = NoRow],
                 Holding("expire", "read", task.order, "final", ExpiredNote),
                 Run("expire", "query", task.order, "sync"),
                 Run("expire", "shut", task.order, "close"),
                 Run(task.op, "shut", task.order, "close")}
    BY <1>1 DEF Returned, Threw, ExpireTask, Phases
  <1>3. CASE new = [task EXCEPT !.pc = "reload", !.note = NoNote, !.snap = NoRow]
    BY <1>3 DEF Task
  <1>4. CASE new = Idle
    BY <1>4 DEF Idle
  <1> QED
    BY <1>2, <1>3, <1>4 DEF Run, Holding

\* What a step of a task does to the task: it goes on with its order or ends, and stands
\* before the fee only when it has just booked the capture.
LEMMA TaskGoesOn ==
    ASSUME IInv, NEW t \in Tasks, Step(t) \/ Fail(t)
    PROVE  /\ ~At(t, "idle")
           /\ \A u \in Tasks \ {t} : tasks'[u] = tasks[u]
           /\ tasks'[t].pc # "idle" => tasks'[t].order = tasks[t].order
           /\ tasks'[t].pc = "fee" => UpsertCapture(t)
  <1> DEFINE task == tasks[t]
  <1>1. task \in Task /\ tasks \in [Tasks -> Task]
    BY DEF IInv, TypeOK
  <1>2. ~At(t, "idle")
    BY DEF Step, Fail, At, CreateProviderReturns, CreateWrite, CreateFail, Query, Reload, ShutTrade,
           ShutUnsupported, ApplyRead, ApplyWrite, DispatchReturns, LedgerRead, UpsertCapture,
           UpsertFee, CreateProviderThrows, CreateWriteThrows, QueryFails, ShutFails,
           ApplyThrows, Crash
  <1>3. ASSUME NEW new, tasks' = [tasks EXCEPT ![t] = new],
               new \in {Idle, Returned(task), Threw(task), ExpireTask(task.order),
                        Run(task.op, "shut", task.order, "close")}
        PROVE  /\ \A u \in Tasks \ {t} : tasks'[u] = tasks[u]
               /\ tasks'[t].pc # "idle" => tasks'[t].order = task.order
               /\ tasks'[t].pc # "fee"
    BY <1>1, <1>3, NextTask
  <1>4. ASSUME NEW pc, GoTo(t, pc)
        PROVE  /\ \A u \in Tasks \ {t} : tasks'[u] = tasks[u]
               /\ tasks'[t].order = task.order /\ tasks'[t].pc = pc
    BY <1>1, <1>4 DEF GoTo, Task
  <1>5. CASE CreateWrite(t) \/ CreateFail(t) \/ Crash(t)
    BY <1>2, <1>3, <1>5 DEF CreateWrite, CreateFail, Crash
  <1>6. CASE QueryFails(t) \/ ShutFails(t) \/ ShutUnsupported(t) \/ ApplyThrows(t) \/ UpsertFee(t)
    BY <1>2, <1>3, <1>6 DEF QueryFails, ShutFails, ShutUnsupported, ApplyThrows, UpsertFee, Abort,
                            Continue
  <1>7. CASE Reload(t)
    BY <1>2, <1>3, <1>7 DEF Reload
  <1>8. CASE \/ CreateProviderReturns(t) \/ CreateProviderThrows(t) \/ CreateWriteThrows(t)
             \/ UpsertCapture(t)
    BY <1>2, <1>4, <1>8 DEF CreateProviderReturns, CreateProviderThrows, CreateWriteThrows,
                            UpsertCapture
  <1>9. CASE DispatchReturns(t) \/ LedgerRead(t)
    BY <1>2, <1>3, <1>4, <1>9 DEF DispatchReturns, LedgerRead, Continue
  <1>10. CASE Query(t) \/ ShutTrade(t)
    BY <1>1, <1>2, <1>10 DEF Query, ShutTrade, Task
  <1>11. CASE ApplyRead(t)
    <2>1. CASE Abort(t)
      BY <1>2, <1>3, <2>1 DEF Abort
    <2>2. CASE ~Abort(t)
      BY <1>1, <1>2, <1>11, <2>2 DEF ApplyRead, Task
    <2> QED
      BY <2>1, <2>2
  <1>12. CASE ApplyWrite(t)
    <2>1. CASE Continue(t)
      BY <1>2, <1>3, <2>1 DEF Continue
    <2>2. CASE ~Continue(t)
      BY <1>1, <1>2, <1>12, <2>2 DEF ApplyWrite, Task
    <2> QED
      BY <2>1, <2>2
  <1> QED
    BY <1>5, <1>6, <1>7, <1>8, <1>9, <1>10, <1>11, <1>12 DEF Step, Fail

\* What it does to the tables and to the provider: it touches its own order only.
LEMMA TaskTouches ==
    ASSUME IInv, OrdersAreThere, NEW t \in Tasks, Step(t) \/ Fail(t)
    PROVE  /\ \A p \in Orders \ {tasks[t].order} : rows'[p] = rows[p] /\ trade'[p] = trade[p]
           /\ rows' = rows \/ rows'[tasks[t].order].status \in Statuses
           /\ \A p \in Orders : rows'[p].fee = rows[p].fee
           /\ ledger \subseteq ledger' /\ outbox' = outbox
           /\ \/ ledger' = ledger
              \/ UpsertCapture(t) /\ ledger' = ledger \cup {<<tasks[t].order, "capture">>}
              \/ /\ UpsertFee(t) /\ ledger' = ledger \cup {<<tasks[t].order, "fee">>}
                 /\ rows[tasks[t].order].fee
           /\ UpsertCapture(t) => <<tasks[t].order, "capture">> \in ledger'
  <1> DEFINE o == tasks[t].order
  <1>1. /\ rows \in [Orders -> Row] /\ trade \in [Orders -> TradeStates]
        /\ ~At(t, "idle") => o \in Orders
    BY RunningTask DEF IInv, TypeOK, At
  <1>2. CASE CreateWrite(t) \/ CreateFail(t) \/ ApplyWrite(t)
    <2>1. PICK row \in Row : /\ rows' = [rows EXCEPT ![o] = row] /\ row.status \in Statuses
                             /\ row.fee = rows[o].fee
      <3>1. CASE CreateWrite(t)
        <4>1. PICK result \in CreateResults : rows' = [rows EXCEPT ![o] = Created(rows[o], result)]
          BY <3>1 DEF CreateWrite
        <4>2. /\ Created(rows[o], result) \in Row /\ Created(rows[o], result).status \in Statuses
              /\ Created(rows[o], result).fee = rows[o].fee
          BY <3>1, RunningTask
             DEF CreateWrite, At, Row, Created, StatusFromCreatePayment, Statuses
        <4> QED
          BY <4>1, <4>2
      <3>2. CASE CreateFail(t)
        <4>1. /\ [rows[o] EXCEPT !.status = "FAILED"] \in Row
              /\ [rows[o] EXCEPT !.status = "FAILED"].status \in Statuses
              /\ [rows[o] EXCEPT !.status = "FAILED"].fee = rows[o].fee
          BY <1>1, <3>2 DEF CreateFail, At, Row, Statuses
        <4> QED
          BY <3>2, <4>1 DEF CreateFail
      <3>3. CASE ApplyWrite(t)
        <4> DEFINE kind == tasks[t].note.kind
                   read == tasks[t].snap
        <4>1. kind \in NoteKinds /\ read \in Row
          BY <3>3, RunningTask DEF ApplyWrite, At, Task, Notes
        <4>2. ResolveStatus(read.status, kind) \in Statuses
          BY <4>1, ResolveStatusIsThere DEF Row
        <4> HIDE DEF kind, read
        <4>3. /\ Applied(rows[o], read, kind) \in Row
              /\ Applied(rows[o], read, kind).status \in Statuses
              /\ Applied(rows[o], read, kind).fee = rows[o].fee
          BY <1>1, <3>3, <4>1, <4>2 DEF ApplyWrite, At, Applied, Row, IsTerminal
        <4> QED
          BY <3>3, <4>3 DEF ApplyWrite, kind, read
      <3> QED
        BY <1>2, <3>1, <3>2, <3>3
    <2> QED
      BY <1>1, <1>2, <2>1
         DEF CreateWrite, CreateFail, ApplyWrite, UpsertCapture, UpsertFee, At, env
  <1>3. CASE UpsertCapture(t)
    BY <1>3 DEF UpsertCapture, env
  <1>6. CASE UpsertFee(t)
    <2>1. UNCHANGED <<rows, trade, outbox>> /\ o \in Orders /\ ~UpsertCapture(t)
      BY <1>1, <1>6 DEF UpsertFee, UpsertCapture, At
    <2>2. CASE rows[o].fee
      BY <1>6, <2>1, <2>2 DEF UpsertFee
    <2>3. CASE ~rows[o].fee
      <3>1. <<o, "fee">> \notin ledger
        BY <2>1, <2>3 DEF OrdersAreThere
      <3>2. ledger' = ledger
        BY <1>6, <2>3, <3>1 DEF UpsertFee
      <3> QED
        BY <2>1, <3>2
    <2> QED
      BY <2>2, <2>3
  <1>4. CASE CreateProviderReturns(t) \/ CreateProviderThrows(t) \/ ShutTrade(t) \/ ShutFails(t)
    BY <1>1, <1>4 DEF CreateProviderReturns, CreateProviderThrows, ShutTrade, ShutFails, At,
                      UpsertCapture
  <1>5. CASE \/ Query(t) \/ Reload(t) \/ ShutUnsupported(t) \/ ApplyRead(t) \/ DispatchReturns(t)
             \/ LedgerRead(t) \/ CreateWriteThrows(t) \/ QueryFails(t) \/ ApplyThrows(t) \/ Crash(t)
    <2>1. UNCHANGED <<rows, trade, ledger, outbox>>
      BY <1>5 DEF Query, Reload, ShutUnsupported, ApplyRead, DispatchReturns, LedgerRead,
                  CreateWriteThrows, QueryFails, ApplyThrows, Crash, env
    <2>2. UpsertCapture(t) => <<o, "capture">> \in ledger'
      BY DEF UpsertCapture
    <2> QED
      BY <2>1, <2>2
  <1> QED
    BY <1>2, <1>3, <1>6, <1>4, <1>5 DEF Step, Fail

LEMMA ThereNext ==
    ASSUME IInv, OrdersAreThere, [Next]_vars
    PROVE  OrdersAreThere'
  <1>1. ASSUME NEW t \in Tasks, Step(t) \/ Fail(t)
        PROVE  OrdersAreThere'
    <2> DEFINE o == tasks[t].order
    <2>1. /\ o \in Orders /\ rows[o].status # "ABSENT"
          /\ \A u \in Tasks \ {t} : tasks'[u] = tasks[u]
          /\ tasks'[t].pc # "idle" => tasks'[t].order = o
          /\ tasks'[t].pc = "fee" => UpsertCapture(t)
      BY <1>1, TaskGoesOn, RunningTask DEF OrdersAreThere, At, Exists
    <2>2. /\ \A p \in Orders \ {o} : rows'[p] = rows[p] /\ trade'[p] = trade[p]
          /\ rows'[o].status # "ABSENT"
          /\ \A p \in Orders : rows'[p].fee = rows[p].fee
          /\ \A p \in Orders : <<p, "fee">> \in ledger' =>
                                <<p, "fee">> \in ledger \/ (p = o /\ rows[o].fee)
          /\ ledger \subseteq ledger' /\ outbox' = outbox
          /\ UpsertCapture(t) => <<o, "capture">> \in ledger'
      BY <1>1, <2>1, TaskTouches DEF Statuses
    <2>3. \A u \in Tasks : tasks[u].pc # "idle" => tasks[u].order \in Orders
      BY DEF IInv, Founded
    <2> HIDE DEF o
    <2>4. \A p \in Orders : rows[p].status # "ABSENT" => rows'[p].status # "ABSENT"
      BY <2>2
    <2>5. ASSUME NEW u \in Tasks
          PROVE  /\ tasks'[u].pc # "idle" => rows'[tasks'[u].order].status # "ABSENT"
                 /\ tasks'[u].pc = "fee" => <<tasks'[u].order, "capture">> \in ledger'
      BY <2>1, <2>2, <2>3, <2>4 DEF OrdersAreThere, At, Exists
    <2> QED
      BY <2>2, <2>4, <2>5 DEF OrdersAreThere, At, Exists
  <1>2. ASSUME NEW t \in Tasks, NEW o \in Orders, Begin(t, o)
        PROVE  OrdersAreThere'
    <2>1. /\ UNCHANGED <<ledger, trade, outbox>>
          /\ \A u \in Tasks \ {t} : tasks'[u] = tasks[u]
          /\ tasks'[t].order = o /\ tasks'[t].pc # "fee"
      BY <1>2 DEF Begin, CreateInsert, StartLookup, StartExpire, StartClose, StartBackfill,
                  Deliver, ExpireTask, Run, Holding, env, IInv, TypeOK
    <2>2. /\ rows'[o].status # "ABSENT" /\ \A p \in Orders \ {o} : rows'[p] = rows[p]
          /\ <<o, "fee">> \in ledger => rows'[o].fee
      <3>1. CASE CreateInsert(t, o)
        BY <3>1 DEF CreateInsert, Inserted, OrdersAreThere, IInv, TypeOK
      <3>2. CASE \E note \in outbox[o] : Deliver(t, o, note)
        BY <3>2 DEF Deliver, OrdersAreThere, Exists
      <3>3. CASE StartLookup(t, o) \/ StartExpire(t, o) \/ StartClose(t, o) \/ StartBackfill(t, o)
        BY <3>3 DEF StartLookup, StartExpire, StartClose, StartBackfill, Exists, Active,
                    OrdersAreThere
      <3> QED
        BY <1>2, <3>1, <3>2, <3>3 DEF Begin
    <2>3. \A u \in Tasks : tasks[u].pc # "idle" => tasks[u].order \in Orders
      BY DEF IInv, Founded
    <2> QED
      BY <2>1, <2>2, <2>3 DEF OrdersAreThere, At, Exists
  <1>3. ASSUME NEW o \in Orders, World(o)
        PROVE  OrdersAreThere'
    <2>1. UNCHANGED <<rows, tasks, ledger>>
      BY <1>3 DEF World, Pay, Mispay, FailUpstream, CloseUpstream, PassExpiry
    <2>2. \A p \in Orders : trade'[p] # trade[p] \/ outbox'[p] # outbox[p] => Exists(p)
      BY <1>3 DEF World, Pay, Mispay, FailUpstream, CloseUpstream, PassExpiry, OrdersAreThere,
                  IInv, TypeOK
    <2> QED
      BY <2>1, <2>2 DEF OrdersAreThere, At, Exists
  <1>4. CASE UNCHANGED vars
    BY <1>4 DEF vars, OrdersAreThere, At, Exists
  <1> QED
    BY <1>1, <1>2, <1>3, <1>4 DEF Next

LEMMA ThereBegins == Init => OrdersAreThere
  BY NothingInHand DEF Init, OrdersAreThere, At, Exists, Idle, NoRow, Inserted

LEMMA PromiseStep ==
    ASSUME IInv, IInv', OrdersAreThere, [Next]_vars
    PROVE  [Promise!Next]_<<Shown, Reported, ledger>>
  <1>1. rows \in [Orders -> Row] /\ rows' \in [Orders -> Row]
    BY DEF IInv, TypeOK
  <1>2. ASSUME NEW t \in Tasks, Step(t) \/ Fail(t)
        PROVE  [Promise!Next]_<<Shown, Reported, ledger>>
    <2> DEFINE o == tasks[t].order
    <2>1. ~At(t, "idle") /\ o \in Orders /\ rows[o].status # "ABSENT"
      BY <1>2, TaskGoesOn, RunningTask DEF OrdersAreThere, At, Exists
    <2>2. /\ \A p \in Orders \ {o} : rows'[p] = rows[p]
          /\ rows' = rows \/ rows'[o].status \in Statuses
          /\ outbox' = outbox
          /\ \/ ledger' = ledger
             \/ UpsertCapture(t) /\ ledger' = ledger \cup {<<o, "capture">>}
             \/ UpsertFee(t) /\ ledger' = ledger \cup {<<o, "fee">>}
      BY <1>2, TaskTouches
    <2>3. Reported' = Reported
      BY <2>2 DEF Reported, Paid
    <2>4. CASE ledger' # ledger
      <3>1. PICK type \in {"capture", "fee"} :
               /\ ledger' = ledger \cup {<<o, type>>}
               /\ type = "fee" => At(t, "fee")
               /\ type = "capture" => At(t, "capture")
        BY <2>2, <2>4 DEF UpsertCapture, UpsertFee
      <3>2. Shown' = Shown
        BY <2>2, <2>4 DEF UpsertCapture, UpsertFee, Shown
      <3>3. type = "fee" => <<o, "capture">> \in ledger
        BY <3>1 DEF OrdersAreThere
      <3>4. Paid(o)
        BY <2>1, <3>1, <3>3 DEF IInv, Founded, MoneyFollowsEvidence, At
      <3>5. o \in Reported
        BY <2>1, <3>4 DEF Reported
      <3> HIDE DEF o
      <3>6. Promise!Book(o, type)
        BY <2>3, <3>1, <3>2, <3>3, <3>5 DEF Promise!Book
      <3> QED
        BY <2>1, <3>6 DEF o, Promise!Next
    <2>5. CASE ledger' = ledger /\ rows' # rows
      <3> DEFINE new == rows'[o].status
      <3>1. new \in Statuses /\ ledger' = ledger
        BY <2>2, <2>5
      <3>2. new = "SUCCEEDED" => o \in Reported
        BY <2>1, <2>3 DEF IInv, MoneyFollowsEvidence, Reported
      <3>3. Shown' = [Shown EXCEPT ![o] = new] /\ Shown[o] # "ABSENT"
        BY <1>1, <2>1, <2>2 DEF Shown
      <3> HIDE DEF new, o
      <3>4. Promise!Change(o, new)
        BY <2>3, <3>1, <3>2, <3>3 DEF Promise!Change, Promise!There
      <3> QED
        BY <2>1, <3>1, <3>4 DEF Promise!Next, Promise!Statuses, Statuses
    <2>6. CASE ledger' = ledger /\ rows' = rows
      BY <2>2, <2>3, <2>6 DEF Shown
    <2> QED
      BY <2>4, <2>5, <2>6
  <1>3. ASSUME NEW t \in Tasks, NEW o \in Orders, CreateInsert(t, o)
        PROVE  Promise!Next
    <2>1. /\ UNCHANGED <<ledger, outbox>> /\ rows[o].status = "ABSENT"
          /\ rows'[o].status = "PENDING" /\ \A p \in Orders \ {o} : rows'[p] = rows[p]
      BY <1>1, <1>3 DEF CreateInsert, Exists, Inserted, env
    <2>2. Reported' = Reported
      BY <2>1 DEF Reported, Paid
    <2>3. Shown[o] = "ABSENT" /\ Shown' = [Shown EXCEPT ![o] = "PENDING"]
      BY <1>1, <2>1 DEF Shown
    <2>4. Promise!Place(o)
      BY <2>1, <2>2, <2>3 DEF Promise!Place, Promise!There
    <2> QED
      BY <2>4 DEF Promise!Next
  <1>4. ASSUME NEW t \in Tasks, NEW o \in Orders, Begin(t, o), ~CreateInsert(t, o)
        PROVE  UNCHANGED <<Shown, Reported, ledger>>
    <2>1. UNCHANGED <<rows, ledger, outbox>>
      BY <1>4 DEF Begin, StartLookup, StartExpire, StartClose, StartBackfill, Deliver, env
    <2> QED
      BY <2>1 DEF Shown, Reported, Paid
  <1>5. ASSUME NEW o \in Orders, Pay(o)
        PROVE  Promise!Next
    <2> DEFINE note == [kind |-> "success", amount |-> Expected(rows[o])]
    <2>1. /\ outbox \in [Orders -> SUBSET Notes] /\ UNCHANGED <<rows, ledger>>
          /\ outbox' = [outbox EXCEPT ![o] = @ \cup {note}]
      BY <1>5 DEF Pay, IInv, TypeOK
    <2>2. note.kind = "success" /\ note.amount # "other"
      BY DEF Expected
    <2> HIDE DEF note
    <2>3. Reported' = Reported \cup {o}
      BY <2>1, <2>2 DEF Reported, Paid
    <2>4. Shown' = Shown /\ Shown[o] # "ABSENT"
      BY <1>5, <2>1 DEF Shown, Pay, OrdersAreThere, Exists
    <2>5. Promise!Report(o)
      BY <2>1, <2>3, <2>4 DEF Promise!Report, Promise!There
    <2> QED
      BY <2>5 DEF Promise!Next
  <1>6. ASSUME NEW o \in Orders, Mispay(o) \/ FailUpstream(o) \/ CloseUpstream(o) \/ PassExpiry(o)
        PROVE  UNCHANGED <<Shown, Reported, ledger>>
    <2>1. /\ UNCHANGED <<rows, ledger>>
          /\ outbox' = outbox \/ \E note :
                /\ ~(note.kind = "success" /\ note.amount # "other")
                /\ outbox' = [outbox EXCEPT ![o] = @ \cup {note}]
      BY <1>6 DEF Mispay, FailUpstream, CloseUpstream, PassExpiry
    <2>2. outbox \in [Orders -> SUBSET Notes]
      BY DEF IInv, TypeOK
    <2>3. Reported' = Reported
      BY <2>1, <2>2 DEF Reported, Paid
    <2> QED
      BY <2>1, <2>3 DEF Shown
  <1>7. CASE UNCHANGED vars
    BY <1>7 DEF vars, Shown, Reported, Paid
  <1> QED
    BY <1>2, <1>3, <1>4, <1>5, <1>6, <1>7 DEF Next, World

\* The handlers of payment orders implement the promise of Payments, for any number of orders,
\* concurrent handlers and faults: what is stale may be written, but no payment is made up, no
\* order and no entry is lost, and no fee is booked without its capture.
THEOREM PromiseTheorem == Spec => PaymentsKept
  <1>1. Init => Promise!Init
    BY NothingInHand DEF Init, Promise!Init, Shown, Reported, Paid
  <1>2. IInv /\ IInv' /\ OrdersAreThere /\ [Next]_vars => [Promise!Next]_<<Shown, Reported, ledger>>
    BY PromiseStep
  <1>3. Spec => []OrdersAreThere
    <2>1. IInv /\ OrdersAreThere /\ [Next]_vars => OrdersAreThere'
      BY ThereNext
    <2> QED
      BY <2>1, ThereBegins, Invariance, PTL DEF Spec
  <1> QED
    BY <1>1, <1>2, <1>3, Invariance, PTL DEF Spec, PaymentsKept, Promise!Spec

=============================================================================
