--------------------------- MODULE OnchainProofs ---------------------------
(***************************************************************************)
(* Theorems about OnchainDeposits, for any orders, deposits, confirmations,   *)
(* overlap and faults: no deposit behind the cursor is missed, and a deposit  *)
(* made in time credits its order.                                           *)
(***************************************************************************)
EXTENDS OnchainDeposits, TLAPS

LEMMA Known ==
    ASSUME IInv, NEW t \in TaskNames
    PROVE  /\ tasks \in [TaskNames -> Task] /\ tasks[t] \in Task /\ TaskKnows(tasks[t])
           /\ blocks \in [Deposits -> 0 .. Horizon + 1] /\ deposits \in [Deposits -> Deposit]
           /\ rows \in [Orders -> Row] /\ head \in 0 .. Horizon /\ Horizon \in Nat
           /\ cursor \in (0 .. Horizon) \cup {None} /\ first \in (0 .. Horizon) \cup {None}
           /\ straddled \subseteq Orders /\ spoilt \subseteq Deposits
           /\ credited \subseteq Deposits \X Orders /\ faults \in 0 .. MaxFaults
    BY DepositsAssumption DEF IInv, TypeOK, Heights

LEMMA IdleTask ==
    Idle \in Task /\ TaskKnows(Idle) /\ Idle.pc = "idle"
    BY DepositsAssumption DEF Idle, Task, TaskKnows, Heights

LEMMA InitInvariant == Init => IInv
  <1> SUFFICES ASSUME Init PROVE IInv
    OBVIOUS
  <1>1. TypeOK
    <2>1. rows \in [Orders -> Row]
      BY DepositsAssumption DEF Init, Row, Heights
    <2>2. deposits \in [Deposits -> Deposit]
      BY DEF Init, Deposit, DepositStatuses
    <2>3. tasks \in [TaskNames -> Task]
      BY IdleTask DEF Init
    <2>4. QED
      BY <2>1, <2>2, <2>3, DepositsAssumption DEF Init, TypeOK, Heights
  <1>2. \A t \in TaskNames : tasks[t] = Idle
    BY DEF Init
  <1>3. "scan" \in TaskNames
    BY DEF TaskNames
  <1>4. ScanCovers
    BY <1>2, <1>3, IdleTask DEF ScanCovers, Scanning
  <1>5. QED
    BY <1>1, <1>2, <1>4, IdleTask DEF IInv, Init, NoDepositIsMissed

\* What the worker does to deposits and tasks between the moves of the cursor.
LEMMA WorkerStep ==
    ASSUME IInv, UNCHANGED <<chain, scanned>>,
           NEW t \in TaskNames, NEW task \in Task, TaskKnows(task), Become(t, task),
           rows' \in [Orders -> Row], straddled' \subseteq Orders, spoilt' \subseteq Deposits,
           credited' \subseteq Deposits \X Orders, faults' \in 0 .. MaxFaults,
           deposits' \in [Deposits -> Deposit],
           \A d \in Deposits : deposits[d].status # "none" => deposits'[d].status # "none",
           t = "scan" /\ task.pc \in Scanning =>
               /\ tasks["scan"].pc \in Scanning
               /\ task.from = tasks["scan"].from /\ task.safe = tasks["scan"].safe
               /\ \A d \in tasks["scan"].todo \ task.todo : deposits'[d].status # "none"
    PROVE  IInv'
  <1>1. tasks' \in [TaskNames -> Task] /\ tasks'[t] = task
            /\ \A u \in TaskNames \ {t} : tasks'[u] = tasks[u]
    BY Known DEF Become
  <1>2. TypeOK'
    BY <1>1 DEF IInv, TypeOK, chain, scanned
  <1>3. NoDepositIsMissed'
    BY DEF IInv, NoDepositIsMissed, chain, scanned
  <1>4. \A u \in TaskNames : TaskKnows(tasks'[u])
    BY <1>1 DEF IInv
  <1>5. ScanCovers'
    <2>1. CASE t = "scan"
      BY <2>1, <1>1 DEF IInv, ScanCovers, chain, scanned
    <2>2. CASE t # "scan"
      <3>1. tasks'["scan"] = tasks["scan"]
        BY <2>2, <1>1 DEF TaskNames
      <3>2. QED
        BY <3>1 DEF IInv, ScanCovers, chain, scanned
    <2>3. QED
      BY <2>1, <2>2
  <1>6. QED
    BY <1>2, <1>3, <1>4, <1>5 DEF IInv, TaskKnows, chain, scanned

\* What leaves the worker alone.
LEMMA OrderStep ==
    ASSUME IInv, UNCHANGED <<chain, deposits, scanned, tasks, history, faults>>,
           rows' \in [Orders -> Row], straddled' \subseteq Orders
    PROVE  IInv'
  <1>1. TypeOK'
    BY DEF IInv, TypeOK, chain, scanned, history
  <1>2. QED
    BY <1>1 DEF IInv, NoDepositIsMissed, ScanCovers, TaskKnows, chain, scanned

LEMMA ChainStep ==
    ASSUME IInv, NewBlock \/ \E d \in Deposits : Transfer(d)
    PROVE  IInv'
  <1>1. CASE NewBlock
    <2>1. head' = head + 1 /\ head' \in Heights
      BY <1>1, "scan" \in TaskNames, Known DEF NewBlock, Heights, TaskNames
    <2>2. TypeOK'
      BY <1>1, <2>1 DEF IInv, TypeOK, NewBlock, orders, scanned, history
    <2>3. ScanCovers'
      <3>1. tasks["scan"] \in Task /\ head \in Nat
        BY Known DEF TaskNames
      <3>2. tasks["scan"].safe \in Nat
        BY <3>1 DEF Task, Heights
      <3>3. QED
        BY <1>1, <2>1, <3>1, <3>2 DEF IInv, ScanCovers, NewBlock, scanned
    <2>4. cursor' # None => cursor' <= head'
      BY <1>1, <2>1, Known DEF IInv, NewBlock, scanned, TaskNames
    <2>5. QED
      BY <1>1, <2>2, <2>3, <2>4 DEF IInv, NoDepositIsMissed, TaskKnows, NewBlock, scanned
  <1>2. ASSUME NEW d \in Deposits, Transfer(d)
        PROVE  IInv'
    <2>1. blocks' = [blocks EXCEPT ![d] = head + 1] /\ head \in Nat /\ head + 1 \in 0 .. Horizon + 1
      BY <1>2, Known DEF Transfer, TaskNames
    <2>2. TypeOK'
      BY <1>2, <2>1 DEF IInv, TypeOK, Transfer, orders, scanned, history
    <2>3. /\ \A x \in Deposits : x # d => blocks'[x] = blocks[x]
          /\ blocks'[d] = head + 1
      BY <2>1, <1>2, Known DEF TaskNames
    <2>4. NoDepositIsMissed'
      <3>1. CASE cursor = None
        BY <3>1, <1>2 DEF NoDepositIsMissed, Transfer, scanned
      <3>2. CASE cursor # None
        <4>1. cursor \in Nat /\ first \in Nat /\ cursor <= head
          BY <3>2, Known, DepositsAssumption DEF IInv, TaskNames
        <4>2. blocks'[d] \notin first .. cursor
          BY <4>1, <2>1, <2>3
        <4>3. QED
          BY <3>2, <4>2, <2>3, <1>2 DEF IInv, NoDepositIsMissed, Transfer, scanned
      <3>3. QED
        BY <3>1, <3>2
    <2>5. ScanCovers'
      <3>1. tasks["scan"] \in Task
        BY Known DEF TaskNames
      <3>2. tasks["scan"].safe \in Nat /\ tasks["scan"].from \in Nat
        BY <3>1 DEF Task, Heights
      <3>3. tasks["scan"].pc \in Scanning =>
                blocks'[d] \notin tasks["scan"].from .. tasks["scan"].safe
        BY <3>2, <2>1, <2>3 DEF IInv, ScanCovers
      <3>4. QED
        BY <3>3, <2>3, <1>2 DEF IInv, ScanCovers, Transfer, scanned
    <2>6. QED
      BY <1>2, <2>2, <2>4, <2>5 DEF IInv, TaskKnows, Transfer, scanned
  <1>3. QED
    BY <1>1, <1>2

-----------------------------------------------------------------------------
(* Orders                                                                    *)

LEMMA OrdersInvariant ==
    ASSUME IInv, NEW o \in Orders, Place(o) \/ Choose(o) \/ Store(o)
    PROVE  IInv'
  <1>1. rows[o] \in Row /\ rows \in [Orders -> Row] /\ straddled \subseteq Orders /\ head \in Heights
    BY Known DEF TaskNames, Heights
  <1>2. CASE Place(o)
    <2>1. rows' \in [Orders -> Row]
      BY <1>1, <1>2 DEF Place, Row
    <2>2. QED
      BY <2>1, <1>1, <1>2, OrderStep DEF Place
  <1>3. CASE Choose(o)
    <2>1. PICK tail \in Tails :
              rows' = [rows EXCEPT ![o].status = "chosen", ![o].tail = tail]
      <3>1. PICK offset \in Tails :
                rows' = [rows EXCEPT ![o].status = "chosen", ![o].tail = (Start[o] + offset) % Slots]
        BY <1>3 DEF Choose
      <3>2. Slots \in Nat /\ Slots > 0 /\ Start[o] + offset \in Nat
        BY DepositsAssumption DEF Tails
      <3>3. (Start[o] + offset) % Slots \in Tails
        BY <3>2 DEF Tails
      <3>4. QED
        BY <3>1, <3>3
    <2>2. rows' \in [Orders -> Row]
      BY <2>1, <1>1 DEF Row
    <2>3. straddled' \subseteq Orders
      BY <1>1, <1>3 DEF Choose
    <2>4. QED
      BY <2>2, <2>3, <1>3, OrderStep DEF Choose
  <1>4. CASE Store(o)
    <2>1. rows' \in [Orders -> Row]
      BY <1>1, <1>4 DEF Store, Row
    <2>2. straddled' \subseteq Orders
      BY <1>1, <1>4 DEF Store
    <2>3. QED
      BY <2>1, <2>2, <1>4, OrderStep DEF Store
  <1>5. QED
    BY <1>2, <1>3, <1>4

-----------------------------------------------------------------------------
(* The worker                                                                *)

\* All tasks become idle, or begin.
LEMMA Resets ==
    ASSUME IInv, UNCHANGED <<chain, orders, deposits, scanned, credited>>,
           NEW pc \in {"idle", "start"}, tasks' = [t \in TaskNames |-> [Idle EXCEPT !.pc = pc]],
           spoilt' \subseteq Deposits, faults' \in 0 .. MaxFaults
    PROVE  IInv'
  <1>1. [Idle EXCEPT !.pc = pc] \in Task /\ [Idle EXCEPT !.pc = pc].pc = pc
    BY IdleTask DEF Task, Idle
  <1>2. tasks' \in [TaskNames -> Task] /\ \A t \in TaskNames : tasks'[t].pc = pc
    BY <1>1
  <1>3. TypeOK'
    BY <1>2 DEF IInv, TypeOK, chain, orders, scanned
  <1>4. ScanCovers'
    BY <1>2 DEF ScanCovers, Scanning, TaskNames
  <1>5. \A t \in TaskNames : TaskKnows(tasks'[t])
    BY <1>2 DEF TaskKnows
  <1>6. QED
    BY <1>3, <1>4, <1>5 DEF IInv, NoDepositIsMissed, TaskKnows, chain, scanned

LEMMA RangeInvariant ==
    ASSUME IInv, Range
    PROVE  IInv'
  <1> DEFINE safe == head - Confirmations + 1
             from == FromBlock(safe)
             task == [Idle EXCEPT !.pc = "next", !.todo = InBlocks(from, safe), !.from = from,
                        !.safe = safe]
  <1>1. "scan" \in TaskNames /\ head \in 0 .. Horizon /\ Horizon \in Nat
            /\ Confirmations \in Nat /\ Confirmations > 0 /\ Overlap \in Nat /\ Overlap > 0
    BY Known, DepositsAssumption DEF TaskNames
  <1>2. CASE head < Confirmations
    <2>1. Become("scan", Idle)
      BY <1>2 DEF Range
    <2>2. QED
      BY <1>1, <2>1, IdleTask, WorkerStep, Known DEF Range, orders, history, Scanning
  <1>3. CASE ~(head < Confirmations)
    <2>1. safe \in 0 .. Horizon /\ safe <= head
      BY <1>1, <1>3
    <2>2. from \in 0 .. Horizon /\ (cursor # None => from <= cursor + 1)
      <3>1. CASE cursor = None
        BY <2>1, <3>1 DEF FromBlock
      <3>2. CASE cursor # None
        <4>1. cursor \in 0 .. Horizon
          BY <3>2, <1>1, Known
        <4>2. QED
          BY <4>1, <3>2, <1>1 DEF FromBlock
      <3>3. QED
        BY <3>1, <3>2
    <2>3. Become("scan", task)
      BY <1>3 DEF Range
    <2>4. task \in Task /\ TaskKnows(task) /\ task.pc = "next"
              /\ task.from = from /\ task.safe = safe /\ task.todo = InBlocks(from, safe)
      BY <2>1, <2>2, IdleTask DEF Task, Idle, TaskKnows, Heights, InBlocks
    <2>5. tasks' \in [TaskNames -> Task] /\ tasks'["scan"] = task
              /\ \A u \in TaskNames \ {"scan"} : tasks'[u] = tasks[u]
      BY <1>1, <2>3, <2>4, Known DEF Become
    <2> HIDE DEF task, safe, from
    <2>6. TypeOK'
      BY <2>5 DEF IInv, TypeOK, Range, chain, orders, scanned, history
    <2>7. \A u \in TaskNames : TaskKnows(tasks'[u])
      BY <2>4, <2>5 DEF IInv
    <2>8. ScanCovers'
      BY <2>1, <2>2, <2>4, <2>5 DEF ScanCovers, InBlocks, Range, chain, scanned
    <2>9. QED
      BY <2>6, <2>7, <2>8 DEF IInv, NoDepositIsMissed, TaskKnows, Range, chain, scanned
  <1>4. QED
    BY <1>2, <1>3

LEMMA ListInvariant ==
    ASSUME IInv, List
    PROVE  IInv'
  <1>1. "rematch" \in TaskNames
    BY DEF TaskNames
  <1>2. PICK task \in Task : /\ Become("rematch", task) /\ TaskKnows(task)
    <2>1. [Idle EXCEPT !.pc = "next", !.todo = {d \in Deposits : deposits[d].status = "CONFIRMED"}]
              \in Task
      BY IdleTask DEF Task, Idle
    <2>2. QED
      BY <2>1 DEF List, TaskKnows, Idle
  <1>3. QED
    BY <1>1, <1>2, WorkerStep, Known DEF List, orders, history

\* A task that goes on with the deposits that are left.
LEMMA Proceeding ==
    ASSUME IInv, NEW t \in TaskNames, tasks[t].pc \in Scanning
    PROVE  LET task == [tasks[t] EXCEPT !.pc = "next", !.deposit = None, !.order = None]
           IN  /\ task \in Task /\ TaskKnows(task) /\ task.todo = tasks[t].todo
               /\ task.from = tasks[t].from /\ task.safe = tasks[t].safe
    BY Known DEF Task, TaskKnows

LEMMA TakeInvariant ==
    ASSUME IInv, NEW t \in TaskNames, NEW d \in Deposits, Take(t, d)
    PROVE  IInv'
  <1>1. tasks[t] \in Task /\ tasks[t].pc = "next" /\ deposits \in [Deposits -> Deposit]
    BY Known DEF Take, At
  <1>2. PICK task : /\ Become(t, task)
                    /\ task = [tasks[t] EXCEPT !.todo = @ \ {d},
                                 !.pc = IF t = "scan" /\ deposits[d].order # None THEN "next"
                                        ELSE "look",
                                 !.deposit = IF t = "scan" /\ deposits[d].order # None THEN None
                                             ELSE d]
    BY DEF Take
  <1>3. task \in Task /\ TaskKnows(task) /\ task.from = tasks[t].from /\ task.safe = tasks[t].safe
            /\ task.todo = tasks[t].todo \ {d}
    BY <1>1, <1>2 DEF Task, TaskKnows
  <1>4. deposits' \in [Deposits -> Deposit]
            /\ \A x \in Deposits : deposits[x].status # "none" => deposits'[x].status # "none"
    BY <1>1 DEF Take, Deposit, DepositStatuses
  <1>5. t = "scan" => deposits'[d].status # "none"
    BY <1>1 DEF Take, Deposit, DepositStatuses
  <1>6. t = "scan" => \A x \in tasks["scan"].todo \ task.todo : deposits'[x].status # "none"
    BY <1>3, <1>5
  <1>7. QED
    BY <1>1, <1>2, <1>3, <1>4, <1>6, WorkerStep, Known DEF Take, orders, history, Scanning

LEMMA LookInvariant ==
    ASSUME IInv, NEW t \in TaskNames, Look(t)
    PROVE  IInv'
  <1>1. tasks[t] \in Task /\ tasks[t].pc = "look" /\ TaskKnows(tasks[t])
    BY Known DEF Look, At
  <1>2. PICK task \in Task : /\ Become(t, task) /\ TaskKnows(task)
                             /\ task.from = tasks[t].from /\ task.safe = tasks[t].safe
                             /\ task.todo = tasks[t].todo
    <2>1. CASE \E o \in Candidates(tasks[t].deposit) :
                   Become(t, [tasks[t] EXCEPT !.pc = "apply", !.order = o])
      <3>1. PICK o \in Orders : Become(t, [tasks[t] EXCEPT !.pc = "apply", !.order = o])
        BY <2>1 DEF Candidates
      <3>2. [tasks[t] EXCEPT !.pc = "apply", !.order = o] \in Task
        BY <1>1 DEF Task
      <3>3. QED
        BY <1>1, <3>1, <3>2 DEF Task, TaskKnows
    <2>2. CASE Proceed(t)
      BY <1>1, <2>2, Proceeding DEF Proceed, Scanning
    <2>3. QED
      BY <2>1, <2>2 DEF Look
  <1>3. QED
    BY <1>1, <1>2, WorkerStep, Known DEF Look, orders, history, Scanning

LEMMA ApplyInvariant ==
    ASSUME IInv, NEW t \in TaskNames, Apply(t)
    PROVE  IInv'
  <1>1. tasks[t] \in Task /\ tasks[t].pc = "apply" /\ tasks[t].deposit \in Deposits
            /\ tasks[t].order \in Orders
    BY Known DEF Apply, At, TaskKnows
  <1>2. PICK task \in Task : /\ Become(t, task) /\ TaskKnows(task)
                             /\ task.from = tasks[t].from /\ task.safe = tasks[t].safe
                             /\ task.todo = tasks[t].todo
    <2>1. [tasks[t] EXCEPT !.pc = "mark"] \in Task
      BY <1>1 DEF Task
    <2>2. Become(t, [tasks[t] EXCEPT !.pc = "mark"])
      BY DEF Apply
    <2>3. QED
      BY <1>1, <2>1, <2>2 DEF Task, TaskKnows
  <1>3. rows' \in [Orders -> Row]
    BY <1>1, Known DEF Apply, Row
  <1>4. credited' \subseteq Deposits \X Orders
    BY <1>1, Known DEF Apply
  <1>5. QED
    BY <1>1, <1>2, <1>3, <1>4, WorkerStep, Known DEF Apply, Scanning

LEMMA MarkInvariant ==
    ASSUME IInv, NEW t \in TaskNames, Mark(t)
    PROVE  IInv'
  <1>1. tasks[t] \in Task /\ tasks[t].pc = "mark" /\ tasks[t].deposit \in Deposits
            /\ tasks[t].order \in Orders /\ deposits \in [Deposits -> Deposit]
    BY Known DEF Mark, At, TaskKnows
  <1>2. PICK task \in Task : /\ Become(t, task) /\ TaskKnows(task)
                             /\ task.from = tasks[t].from /\ task.safe = tasks[t].safe
                             /\ task.todo = tasks[t].todo
    BY <1>1, Proceeding DEF Mark, Proceed, Scanning
  <1>3. deposits' \in [Deposits -> Deposit]
            /\ \A x \in Deposits : deposits[x].status # "none" => deposits'[x].status # "none"
    BY <1>1 DEF Mark, Deposit, DepositStatuses
  <1>4. QED
    BY <1>1, <1>2, <1>3, WorkerStep, Known DEF Mark, orders, history, Scanning

\* The cursor moves over the blocks of a scan that holds nothing any more.
LEMMA FinishInvariant ==
    ASSUME IInv, NEW t \in TaskNames, Finish(t)
    PROVE  IInv'
  <1>1. tasks[t] \in Task /\ tasks[t].pc = "next" /\ tasks[t].todo = {}
            /\ deposits \in [Deposits -> Deposit] /\ blocks \in [Deposits -> 0 .. Horizon + 1]
    BY Known DEF Finish, At
  <1>2. CASE t # "scan"
    BY <1>2, IdleTask, WorkerStep, Known DEF Finish, chain, orders, scanned, history
  <1>3. CASE t = "scan"
    <2> DEFINE scan == tasks["scan"]
    <2>1. scan \in Task /\ scan.pc = "next" /\ scan.todo = {} /\ Become("scan", Idle)
              /\ cursor' = scan.safe
              /\ first' = IF first = None THEN scan.from ELSE first
      BY <1>1, <1>3 DEF Finish
    <2>2. scan.from \in 0 .. Horizon /\ scan.safe \in 0 .. Horizon /\ scan.safe <= head
              /\ Horizon \in Nat
              /\ (cursor # None => scan.from <= cursor + 1)
              /\ \A d \in Deposits :
                     blocks[d] \in scan.from .. scan.safe => deposits[d].status # "none"
      BY <2>1, DepositsAssumption DEF IInv, ScanCovers, Scanning, Task, Heights
    <2>3. tasks' \in [TaskNames -> Task] /\ tasks'["scan"] = Idle
              /\ \A u \in TaskNames \ {"scan"} : tasks'[u] = tasks[u]
      BY <1>3, <2>1, IdleTask, Known DEF Become
    <2> HIDE DEF scan
    <2>4. UNCHANGED <<chain, orders, deposits, history, faults>>
      BY DEF Finish
    <2>5. cursor' \in Heights /\ first' \in Heights \cup {None}
      BY <2>1, <2>2, Known DEF Heights
    <2>6. TypeOK'
      BY <2>3, <2>4, <2>5 DEF IInv, TypeOK, chain, orders, history
    <2>7. \A u \in TaskNames : TaskKnows(tasks'[u])
      BY <2>3, IdleTask DEF IInv
    <2>8. ScanCovers'
      BY <2>3, IdleTask DEF ScanCovers, Scanning
    <2>9. \A d \in Deposits : blocks[d] \in first' .. cursor' => deposits[d].status # "none"
      <3>1. CASE first = None
        BY <3>1, <2>1, <2>2
      <3>2. CASE first # None
        <4>1. cursor \in Nat /\ first \in Nat
          BY <3>2, Known, DepositsAssumption DEF IInv
        <4>2. cursor # None
          BY <3>2 DEF IInv
        <4>3. \A d \in Deposits : blocks[d] \in first .. cursor => deposits[d].status # "none"
          BY <4>2 DEF IInv, NoDepositIsMissed
        <4>4. QED
          BY <4>1, <4>2, <4>3, <3>2, <2>1, <2>2, <1>1
      <3>3. QED
        BY <3>1, <3>2
    <2>10. cursor' # None /\ first' # None
      BY <2>1, <2>2, DepositsAssumption
    <2>11. QED
      BY <2>1, <2>2, <2>4, <2>6, <2>7, <2>8, <2>9, <2>10
         DEF IInv, NoDepositIsMissed, TaskKnows, chain
  <1>4. QED
    BY <1>2, <1>3

LEMMA SpoilTyped ==
    ASSUME IInv, NEW names \in SUBSET TaskNames, Spoil(names)
    PROVE  spoilt' \subseteq Deposits
  <1>1. \A t \in TaskNames : At(t, "mark") => tasks[t].deposit \in Deposits
    BY Known DEF At, TaskKnows
  <1>2. spoilt \subseteq Deposits
    BY Known DEF TaskNames
  <1>3. QED
    BY <1>1, <1>2 DEF Spoil

LEMMA FaultInvariant ==
    ASSUME IInv, Crash \/ \E t \in TaskNames : Fail(t)
    PROVE  IInv'
  <1>1. MaxFaults \in Nat /\ faults \in 0 .. MaxFaults
    BY Known, DepositsAssumption DEF TaskNames
  <1>2. CASE Crash
    <2>1. spoilt' \subseteq Deposits
      BY <1>2, SpoilTyped DEF Crash
    <2>2. faults' \in 0 .. MaxFaults
      BY <1>1, <1>2 DEF Crash
    <2>3. Idle = [Idle EXCEPT !.pc = "idle"]
      BY DEF Idle
    <2>4. tasks' = [t \in TaskNames |-> [Idle EXCEPT !.pc = "idle"]]
      BY <1>2, <2>3 DEF Crash
    <2>5. QED
      BY <1>2, <2>1, <2>2, <2>4, Resets DEF Crash
  <1>3. ASSUME NEW t \in TaskNames, Fail(t)
        PROVE  IInv'
    <2>1. spoilt' \subseteq Deposits
      BY <1>3, SpoilTyped DEF Fail
    <2>2. faults' \in 0 .. MaxFaults
      BY <1>1, <1>3 DEF Fail
    <2>3. QED
      BY <1>3, <2>1, <2>2, IdleTask, WorkerStep, Known DEF Fail, orders, Scanning
  <1>4. QED
    BY <1>2, <1>3

-----------------------------------------------------------------------------

LEMMA NextInvariant == IInv /\ [Next]_vars => IInv'
  <1> SUFFICES ASSUME IInv, [Next]_vars PROVE IInv'
    OBVIOUS
  <1>1. CASE NewBlock \/ \E d \in Deposits : Transfer(d)
    BY <1>1, ChainStep
  <1>2. CASE Begin
    <2>1. spoilt \subseteq Deposits /\ faults \in 0 .. MaxFaults
      BY Known DEF TaskNames
    <2>2. QED
      BY <1>2, <2>1, Resets DEF Begin, history
  <1>3. CASE Crash \/ \E t \in TaskNames : Fail(t)
    BY <1>3, FaultInvariant
  <1>4. ASSUME NEW o \in Orders, Place(o) \/ Choose(o) \/ Store(o)
        PROVE  IInv'
    BY <1>4, OrdersInvariant
  <1>5. ASSUME NEW t \in TaskNames, Work(t)
        PROVE  IInv'
    BY <1>5, RangeInvariant, ListInvariant, TakeInvariant, LookInvariant, ApplyInvariant,
       MarkInvariant, FinishInvariant DEF Work
  <1>6. CASE UNCHANGED vars
    BY <1>6 DEF vars, IInv, TypeOK, NoDepositIsMissed, ScanCovers, TaskKnows
  <1>7. QED
    BY <1>1, <1>2, <1>3, <1>4, <1>5, <1>6 DEF Next

-----------------------------------------------------------------------------
(* Credits                                                                   *)

LEMMA Sizes ==
    ASSUME IInv
    PROVE  /\ \A o \in Orders : rows[o] \in Row /\ rows[o].created \in Nat /\ ExpireAt(o) \in Nat
           /\ \A d \in Deposits : blocks[d] \in Nat /\ For[d] \in Orders /\ deposits[d] \in Deposit
           /\ head \in Nat /\ Horizon \in Nat /\ head <= Horizon /\ Lifetime \in Nat
  <1>1. "scan" \in TaskNames
    BY DEF TaskNames
  <1>2. rows \in [Orders -> Row] /\ blocks \in [Deposits -> 0 .. Horizon + 1] /\ head \in 0 .. Horizon
            /\ deposits \in [Deposits -> Deposit] /\ Horizon \in Nat
    BY <1>1, Known
  <1>3. Lifetime \in Nat /\ For \in [Deposits -> Orders]
    BY DepositsAssumption
  <1>4. \A o \in Orders : rows[o] \in Row /\ rows[o].created \in Nat
    BY <1>2 DEF Row, Heights
  <1>5. \A o \in Orders : ExpireAt(o) \in Nat
    BY <1>3, <1>4 DEF ExpireAt
  <1>6. QED
    BY <1>2, <1>3, <1>4, <1>5

\* A deposit that is found for two orders was made in the time of both: there is one.
LEMMA OneOrderIsFound ==
    ASSUME IInv, CreditInv, straddled = {}, NEW d \in Deposits,
           NEW o \in Orders, NEW x \in Orders, Found(d, o), Found(d, x)
    PROVE  o = x
  <1>1. SUFFICES ASSUME o # x PROVE FALSE
    OBVIOUS
  <1>2. /\ Stored(o) /\ rows[o].created < blocks[d] /\ blocks[d] <= ExpireAt(o)
        /\ Stored(x) /\ rows[x].created < blocks[d] /\ blocks[d] <= ExpireAt(x)
        /\ rows[o].tail = rows[x].tail
    BY DEF CreditInv, DepositsFit
  <1>3. Apart(o, x) \/ Apart(x, o)
    BY <1>1, <1>2 DEF CreditInv, AmountsApart
  <1>4. QED
    BY <1>2, <1>3, Sizes DEF Apart

LEMMA CreditInit == Init => CreditInv
  <1> SUFFICES ASSUME Init PROVE CreditInv
    OBVIOUS
  <1>1. /\ \A t \in TaskNames : tasks[t].pc = "idle" /\ tasks[t].todo = {}
        /\ \A o \in Orders : rows[o].status = "none" /\ rows[o].created = 0
        /\ \A d \in Deposits : deposits[d].status = "none" /\ deposits[d].order = None /\ ~Made(d)
        /\ credited = {} /\ head = 0
    BY DepositsAssumption DEF Init, Idle, Made
  <1>2. \A d \in Deposits, o \in Orders : ~Found(d, o)
    BY <1>1 DEF Found, Finds
  <1>3. SeenAreMined /\ CreditsComeFirst /\ MatchedIsCredited
    BY <1>1 DEF SeenAreMined, CreditsComeFirst, MatchedIsCredited, At
  <1>4. DepositsFit
    BY <1>1, <1>2 DEF DepositsFit
  <1>5. AmountsApart
    BY <1>1 DEF AmountsApart, Stored
  <1>6. QED
    BY <1>3, <1>4, <1>5 DEF CreditInv

\* A step of the worker that finds no order and credits none: tasks may forget what they found.
LEMMA QuietStep ==
    ASSUME IInv, CreditInv, UNCHANGED <<chain, orders, credited>>, spoilt \subseteq spoilt',
           \A d \in Deposits : deposits'[d].order = deposits[d].order
                               /\ (deposits'[d].status # "none" => Mined(d)),
           \A t \in TaskNames :
               /\ \A d \in tasks'[t].todo : Mined(d)
               /\ tasks'[t].pc \in {"look", "apply", "mark"} => Mined(tasks'[t].deposit)
               /\ tasks'[t].pc \in {"apply", "mark"} => tasks'[t] = tasks[t]
               /\ tasks[t].pc = "mark" => tasks'[t] = tasks[t] \/ tasks[t].deposit \in spoilt'
    PROVE  CreditInv'
  <1>1. ASSUME NEW d \in Deposits, NEW o \in Orders, Found(d, o)' PROVE Found(d, o)
    BY <1>1 DEF Found, Finds
  <1>2. SeenAreMined'
    BY DEF SeenAreMined, Mined, chain
  <1>3. DepositsFit'
    BY <1>1 DEF CreditInv, DepositsFit, Made, Mined, Stored, ExpireAt, chain, orders
  <1>4. AmountsApart'
    BY <1>1 DEF CreditInv, AmountsApart, Apart, Stored, ExpireAt, chain, orders
  <1>5. CreditsComeFirst'
    BY DEF CreditInv, CreditsComeFirst, At, orders
  <1>6. MatchedIsCredited'
    <2>1. credited' = credited /\ straddled' = straddled /\ credited \subseteq Deposits \X Orders
      BY Known DEF orders, TaskNames
    <2>2. \A d \in Deposits : deposits'[d].order # None => <<d, deposits'[d].order>> \in credited'
      BY <2>1 DEF CreditInv, MatchedIsCredited
    <2>3. ASSUME straddled = {}, NEW pair \in credited
          PROVE  \/ pair[1] \in spoilt'
                 \/ deposits'[pair[1]].order = pair[2]
                 \/ \E t \in TaskNames : tasks'[t].pc = "mark" /\ tasks'[t].deposit = pair[1]
      <3>1. \/ pair[1] \in spoilt
            \/ deposits[pair[1]].order = pair[2]
            \/ \E t \in TaskNames : tasks[t].pc = "mark" /\ tasks[t].deposit = pair[1]
        BY <2>3 DEF CreditInv, MatchedIsCredited, At
      <3>2. pair[1] \in Deposits
        BY <2>1, <2>3
      <3>3. QED
        BY <3>1, <3>2
    <2>4. QED
      BY <2>1, <2>2, <2>3 DEF MatchedIsCredited, At
  <1>7. QED
    BY <1>2, <1>3, <1>4, <1>5, <1>6 DEF CreditInv

\* The same for a step of one task.
LEMMA QuietTask ==
    ASSUME IInv, CreditInv, UNCHANGED <<chain, orders, history>>,
           NEW t \in TaskNames, NEW task, Become(t, task), tasks[t].pc # "mark",
           \A d \in task.todo : Mined(d),
           task.pc \notin {"apply", "mark"},
           task.pc = "look" => Mined(task.deposit),
           \A d \in Deposits : deposits'[d].order = deposits[d].order
                               /\ (deposits'[d].status # "none" => Mined(d))
    PROVE  CreditInv'
  <1>1. tasks'[t] = task /\ \A u \in TaskNames \ {t} : tasks'[u] = tasks[u]
    BY Known DEF Become
  <1>2. \A u \in TaskNames : /\ \A d \in tasks[u].todo : Mined(d)
                             /\ tasks[u].pc \in {"look", "apply", "mark"} => Mined(tasks[u].deposit)
    BY DEF CreditInv, SeenAreMined
  <1>3. QED
    BY <1>1, <1>2, QuietStep DEF history

LEMMA Seen ==
    ASSUME CreditInv
    PROVE  /\ \A d \in Deposits : deposits[d].status # "none" => Mined(d)
           /\ \A t \in TaskNames :
                  /\ \A d \in tasks[t].todo : Mined(d)
                  /\ tasks[t].pc \in {"look", "apply", "mark"} => Mined(tasks[t].deposit)
    BY DEF CreditInv, SeenAreMined

LEMMA QuietTasks ==
    ASSUME IInv, CreditInv, NEW t \in TaskNames,
           \/ t = "scan" /\ Range
           \/ t = "rematch" /\ List
           \/ \E d \in Deposits : Take(t, d)
           \/ Look(t) /\ Proceed(t)
           \/ Finish(t)
    PROVE  CreditInv'
  <1>1. Idle.pc = "idle" /\ Idle.todo = {}
    BY DEF Idle
  <1>2. CASE t = "scan" /\ Range
    <2> DEFINE safe == head - Confirmations + 1
               from == FromBlock(safe)
               task == IF head < Confirmations THEN Idle
                       ELSE [Idle EXCEPT !.pc = "next", !.todo = InBlocks(from, safe),
                               !.from = from, !.safe = safe]
    <2>1. Become(t, task) /\ tasks[t].pc = "start" /\ deposits' = deposits
              /\ UNCHANGED <<chain, orders, history>>
      BY <1>2 DEF Range, At
    <2>2. task.pc \in {"idle", "next"} /\ task.todo \subseteq InBlocks(from, safe)
      BY <1>1 DEF Idle, InBlocks
    <2>3. safe <= head /\ safe \in Int
      BY Sizes, DepositsAssumption
    <2>4. from \in Int
      <3>1. cursor # None => cursor \in Nat
        BY Known
      <3>2. QED
        BY <2>3, <3>1, DepositsAssumption DEF FromBlock
    <2>5. ASSUME NEW d \in InBlocks(from, safe) PROVE Mined(d)
      <3>1. d \in Deposits /\ blocks[d] \in from .. safe
        BY DEF InBlocks
      <3> HIDE DEF from, safe
      <3>2. blocks[d] <= safe
        BY <3>1, <2>3, <2>4
      <3>3. QED
        BY <3>1, <3>2, <2>3, Sizes DEF Mined
    <2> HIDE DEF task, from, safe
    <2>6. QED
      BY <2>1, <2>2, <2>5, Seen, QuietTask
  <1>3. CASE t = "rematch" /\ List
    <2> DEFINE task == [Idle EXCEPT !.pc = "next",
                          !.todo = {d \in Deposits : deposits[d].status = "CONFIRMED"}]
    <2>1. Become(t, task) /\ tasks[t].pc = "start" /\ deposits' = deposits
              /\ UNCHANGED <<chain, orders, history>>
      BY <1>3 DEF List, At
    <2>2. task.pc = "next" /\ task.todo = {d \in Deposits : deposits[d].status = "CONFIRMED"}
      BY DEF Idle
    <2> HIDE DEF task
    <2>3. \A d \in task.todo : Mined(d)
      BY <2>2, Seen
    <2>4. QED
      BY <2>1, <2>2, <2>3, Seen, QuietTask
  <1>4. ASSUME NEW d \in Deposits, Take(t, d) PROVE CreditInv'
    <2> DEFINE known == t = "scan" /\ deposits[d].order # None
               task == [tasks[t] EXCEPT !.todo = @ \ {d},
                          !.pc = IF known THEN "next" ELSE "look",
                          !.deposit = IF known THEN None ELSE d]
    <2>1. Become(t, task) /\ tasks[t].pc = "next" /\ d \in tasks[t].todo
              /\ UNCHANGED <<chain, orders, history>>
      BY <1>4 DEF Take, At, scanned
    <2>2. task.todo \subseteq tasks[t].todo /\ task.pc \in {"next", "look"}
              /\ (task.pc = "look" => task.deposit = d)
      BY Known DEF Task
    <2>3. Mined(d) /\ \A x \in tasks[t].todo : Mined(x)
      BY <2>1, Seen
    <2>4. \A x \in Deposits : deposits'[x].order = deposits[x].order
                              /\ (deposits'[x].status # "none" => Mined(x))
      BY <1>4, <2>3, Known, Seen DEF Take, Deposit
    <2> HIDE DEF task, known
    <2>5. QED
      BY <2>1, <2>2, <2>3, <2>4, QuietTask
  <1>5. CASE Look(t) /\ Proceed(t)
    <2> DEFINE task == [tasks[t] EXCEPT !.pc = "next", !.deposit = None, !.order = None]
    <2>1. Become(t, task) /\ tasks[t].pc = "look" /\ deposits' = deposits
              /\ UNCHANGED <<chain, orders, history>>
      BY <1>5 DEF Look, At, Proceed
    <2>2. task.pc = "next" /\ task.todo = tasks[t].todo
      BY Known DEF Task
    <2> HIDE DEF task
    <2>3. QED
      BY <2>1, <2>2, Seen, QuietTask
  <1>6. CASE Finish(t)
    BY <1>1, <1>6, Seen, QuietTask DEF Finish, At
  <1>7. QED
    BY <1>2, <1>3, <1>4, <1>5, <1>6

LEMMA CreditFaults ==
    ASSUME IInv, CreditInv, Begin \/ Crash \/ \E t \in TaskNames : Fail(t)
    PROVE  CreditInv'
  <1>1. Idle.pc = "idle" /\ Idle.todo = {}
    BY DEF Idle
  <1>2. CASE Begin
    <2>1. \A t \in TaskNames : tasks[t].pc = "idle" /\ tasks'[t].pc = "start" /\ tasks'[t].todo = {}
      BY <1>2 DEF Begin, At, Idle
    <2>2. QED
      BY <1>2, <2>1, Seen, QuietStep DEF Begin, history
  <1>3. CASE Crash
    <2>1. \A t \in TaskNames : tasks'[t].pc = "idle" /\ tasks'[t].todo = {}
      BY <1>1, <1>3 DEF Crash
    <2>2. \A t \in TaskNames : tasks[t].pc = "mark" => tasks[t].deposit \in spoilt'
      BY <1>3 DEF Crash, Spoil, At
    <2>3. spoilt \subseteq spoilt'
      BY <1>3 DEF Crash, Spoil
    <2>4. QED
      BY <1>3, <2>1, <2>2, <2>3, Seen, QuietStep DEF Crash
  <1>4. ASSUME NEW t \in TaskNames, Fail(t) PROVE CreditInv'
    <2>1. tasks'[t] = Idle /\ \A u \in TaskNames \ {t} : tasks'[u] = tasks[u]
      BY <1>4, Known DEF Fail, Become
    <2>2. spoilt \subseteq spoilt' /\ (tasks[t].pc = "mark" => tasks[t].deposit \in spoilt')
      BY <1>4 DEF Fail, Spoil, At
    <2>3. QED
      BY <1>1, <1>4, <2>1, <2>2, Seen, QuietStep DEF Fail
  <1>5. QED
    BY <1>2, <1>3, <1>4

\* Orders stay apart if the one that came first keeps its deposits.
LEMMA StayApart ==
    ASSUME NEW o \in Orders, NEW x \in Orders, Apart(o, x),
           rows'[o].created = rows[o].created, rows'[x].created = rows[x].created,
           rows[o].status = "SUCCEEDED" =>
               /\ rows'[o].status = "SUCCEEDED"
               /\ \A d \in Deposits : Found(d, o)' => Found(d, o) /\ blocks'[d] = blocks[d]
    PROVE  Apart(o, x)'
    BY DEF Apart, ExpireAt

\* An order is found that is open: no other came after it.
LEMMA LookFinds ==
    ASSUME IInv, CreditInv, NEW t \in TaskNames, Look(t), ~Proceed(t)
    PROVE  CreditInv'
  <1> DEFINE d == tasks[t].deposit
  <1>1. PICK o \in Candidates(d) : Become(t, [tasks[t] EXCEPT !.pc = "apply", !.order = o])
    BY DEF Look
  <1>2. /\ UNCHANGED <<chain, orders, deposits, history>> /\ tasks[t].pc = "look"
        /\ o \in Orders /\ d \in Deposits
    BY Known DEF Look, At, TaskKnows, Candidates
  <1>3. /\ tasks'[t].pc = "apply" /\ tasks'[t].todo = tasks[t].todo
        /\ tasks'[t].deposit = d /\ tasks'[t].order = o
        /\ \A u \in TaskNames \ {t} : tasks'[u] = tasks[u]
    BY <1>1, Known DEF Become, Task
  <1>4. rows[o].status = "OPEN" /\ rows[o].tail = rows[For[d]].tail
            /\ rows[o].created < blocks[d] /\ blocks[d] <= ExpireAt(o) /\ Mined(d)
    BY <1>1, <1>2, Seen DEF Candidates
  <1> HIDE DEF d
  <1>5. ASSUME NEW e \in Deposits, NEW x \in Orders, Found(e, x)' PROVE Found(e, x) \/ (e = d /\ x = o)
    BY <1>2, <1>3, <1>5 DEF Found, Finds, history
  <1>6. SeenAreMined'
    BY <1>2, <1>3, Seen DEF SeenAreMined, Mined, chain, d
  <1>7. DepositsFit'
    BY <1>2, <1>4, <1>5 DEF CreditInv, DepositsFit, Made, Mined, Stored, ExpireAt, chain, orders
  <1>8. AmountsApart'
    <2>1. ASSUME NEW a \in Orders, NEW x \in Orders, Apart(a, x) PROVE Apart(a, x)'
      BY <1>2, <1>4, <1>5, <2>1, StayApart DEF chain, orders
    <2>2. QED
      BY <1>2, <2>1 DEF CreditInv, AmountsApart, Stored, orders
  <1>9. CreditsComeFirst'
    BY <1>2, <1>3 DEF CreditInv, CreditsComeFirst, At, orders, history
  <1>10. MatchedIsCredited'
    <2>1. \A u \in TaskNames : tasks[u].pc = "mark" => tasks'[u] = tasks[u]
      BY <1>2, <1>3
    <2>2. QED
      BY <1>2, <2>1 DEF CreditInv, MatchedIsCredited, At, orders, history
  <1>11. QED
    BY <1>6, <1>7, <1>8, <1>9, <1>10 DEF CreditInv

\* What is credited was found before.
LEMMA ApplyCredits ==
    ASSUME IInv, CreditInv, NEW t \in TaskNames, Apply(t)
    PROVE  CreditInv'
  <1> DEFINE d == tasks[t].deposit
             o == tasks[t].order
  <1>1. tasks[t].pc = "apply" /\ d \in Deposits /\ o \in Orders
    BY Known DEF Apply, At, TaskKnows
  <1>2. /\ UNCHANGED <<chain, straddled, deposits, spoilt>>
        /\ credited' = credited \cup {<<d, o>>}
        /\ \A x \in Orders : /\ rows'[x].tail = rows[x].tail /\ rows'[x].created = rows[x].created
                             /\ rows'[x].status = IF x = o THEN "SUCCEEDED" ELSE rows[x].status
    BY <1>1, Known DEF Apply, Row
  <1>3. /\ tasks'[t].pc = "mark" /\ tasks'[t].todo = tasks[t].todo
        /\ tasks'[t].deposit = d /\ tasks'[t].order = o
        /\ \A u \in TaskNames \ {t} : tasks'[u] = tasks[u]
    BY Known DEF Apply, Become, Task
  <1>4. Found(d, o) /\ Stored(o)
    <2>1. Found(d, o)
      BY <1>1 DEF Found, Finds
    <2>2. QED
      BY <1>1, <2>1 DEF CreditInv, DepositsFit
  <1> HIDE DEF d, o
  <1>5. ASSUME NEW e \in Deposits, NEW x \in Orders, Found(e, x)' PROVE Found(e, x)
    BY <1>2, <1>3, <1>4, <1>5 DEF Found, Finds, d, o
  <1>6. \A x \in Orders : /\ Stored(x)' <=> Stored(x)
                          /\ rows'[x].status = "chosen" <=> rows[x].status = "chosen"
                          /\ ExpireAt(x)' = ExpireAt(x)
    BY <1>2, <1>4 DEF Stored, ExpireAt
  <1>7. SeenAreMined'
    BY <1>1, <1>2, <1>3, Seen DEF SeenAreMined, Mined, chain, d
  <1>8. DepositsFit'
    BY <1>2, <1>5, <1>6, Sizes DEF CreditInv, DepositsFit, Made, Mined, chain
  <1>9. AmountsApart'
    <2>1. ASSUME NEW a \in Orders, NEW x \in Orders, Apart(a, x) PROVE Apart(a, x)'
      BY <1>2, <1>5, <2>1, StayApart DEF chain
    <2>2. QED
      BY <1>2, <1>6, <2>1 DEF CreditInv, AmountsApart
  <1>10. CreditsComeFirst'
    BY <1>1, <1>2, <1>3 DEF CreditInv, CreditsComeFirst, At
  <1>11. MatchedIsCredited'
    <2>1. \A u \in TaskNames : tasks[u].pc = "mark" => tasks'[u] = tasks[u]
      BY <1>1, <1>3
    <2>2. \A x \in Deposits :
              deposits'[x].order # None => <<x, deposits'[x].order>> \in credited'
      BY <1>2 DEF CreditInv, MatchedIsCredited
    <2>3. ASSUME straddled = {}, NEW pair \in credited'
          PROVE  \/ pair[1] \in spoilt'
                 \/ deposits'[pair[1]].order = pair[2]
                 \/ \E u \in TaskNames : tasks'[u].pc = "mark" /\ tasks'[u].deposit = pair[1]
      <3>1. CASE pair = <<d, o>>
        BY <1>3, <3>1
      <3>2. CASE pair \in credited
        BY <1>2, <2>1, <2>3, <3>2 DEF CreditInv, MatchedIsCredited, At
      <3>3. QED
        BY <1>2, <3>1, <3>2
    <2>4. QED
      BY <1>2, <2>2, <2>3 DEF MatchedIsCredited, At
  <1>12. QED
    BY <1>7, <1>8, <1>9, <1>10, <1>11 DEF CreditInv

\* A deposit is marked with the one order it has credited.
LEMMA MarkMatches ==
    ASSUME IInv, CreditInv, NEW t \in TaskNames, Mark(t)
    PROVE  CreditInv'
  <1> DEFINE d == tasks[t].deposit
             o == tasks[t].order
  <1>1. tasks[t].pc = "mark" /\ d \in Deposits /\ o \in Orders
    BY Known DEF Mark, At, TaskKnows
  <1>2. /\ UNCHANGED <<chain, orders, history>>
        /\ deposits' = [deposits EXCEPT ![d] = [status |-> "MATCHED", order |-> o]]
    BY DEF Mark
  <1>3. /\ tasks'[t].pc = "next" /\ tasks'[t].todo = tasks[t].todo
        /\ \A u \in TaskNames \ {t} : tasks'[u] = tasks[u]
    BY Known DEF Mark, Proceed, Become, Task
  <1>4. <<d, o>> \in credited /\ Mined(d)
    BY <1>1, Seen DEF CreditInv, CreditsComeFirst, At
  <1>5. /\ deposits'[d].status = "MATCHED" /\ deposits'[d].order = o
        /\ \A x \in Deposits \ {d} : deposits'[x] = deposits[x]
    BY <1>1, <1>2, Known
  <1>7. \A u \in TaskNames : tasks[u].pc = "mark" => tasks'[u] = tasks[u] \/ tasks[u].deposit = d
    BY <1>3
  <1> HIDE DEF d, o
  <1>8. ASSUME NEW e \in Deposits, NEW x \in Orders, Found(e, x)' PROVE Found(e, x)
    BY <1>2, <1>3, <1>8 DEF Found, Finds, history
  <1>9. SeenAreMined'
    BY <1>2, <1>3, <1>4, <1>5, Seen DEF SeenAreMined, Mined, chain
  <1>10. DepositsFit'
    BY <1>2, <1>8 DEF CreditInv, DepositsFit, Made, Mined, Stored, ExpireAt, chain, orders
  <1>11. AmountsApart'
    <2>1. ASSUME NEW a \in Orders, NEW x \in Orders, Apart(a, x) PROVE Apart(a, x)'
      BY <1>2, <1>8, <2>1, StayApart DEF chain, orders
    <2>2. QED
      BY <1>2, <2>1 DEF CreditInv, AmountsApart, Stored, orders
  <1>12. CreditsComeFirst'
    BY <1>2, <1>3 DEF CreditInv, CreditsComeFirst, At, orders, history
  <1>13. MatchedIsCredited'
    <2>1. \A x \in Deposits :
              deposits'[x].order # None => <<x, deposits'[x].order>> \in credited'
      BY <1>2, <1>4, <1>5 DEF CreditInv, MatchedIsCredited, history
    <2>2. ASSUME straddled = {}, NEW pair \in credited
          PROVE  \/ pair[1] \in spoilt
                 \/ deposits'[pair[1]].order = pair[2]
                 \/ \E u \in TaskNames : tasks'[u].pc = "mark" /\ tasks'[u].deposit = pair[1]
      <3>1. pair[1] \in Deposits /\ pair[2] \in Orders /\ pair = <<pair[1], pair[2]>>
        BY <2>2, Known
      <3>2. CASE pair[1] = d
        <4>1. Found(d, o) /\ Found(d, pair[2])
          BY <1>4, <2>2, <3>1, <3>2 DEF Found
        <4>2. pair[2] = o
          BY <1>1, <2>2, <3>1, <4>1, OneOrderIsFound DEF d, o
        <4>3. QED
          BY <1>5, <3>2, <4>2
      <3>3. CASE pair[1] # d
        <4>1. \/ pair[1] \in spoilt
              \/ deposits[pair[1]].order = pair[2]
              \/ \E u \in TaskNames : tasks[u].pc = "mark" /\ tasks[u].deposit = pair[1]
          BY <2>2 DEF CreditInv, MatchedIsCredited, At
        <4>2. QED
          BY <1>5, <1>7, <3>1, <3>3, <4>1
      <3>4. QED
        BY <3>2, <3>3
    <2>3. QED
      BY <1>2, <2>1, <2>2 DEF MatchedIsCredited, At, orders, history
  <1>14. QED
    BY <1>9, <1>10, <1>11, <1>12, <1>13 DEF CreditInv

\* A deposit that is found is in a block, and its order is stored.
LEMMA FoundIsMined ==
    ASSUME IInv, CreditInv, NEW d \in Deposits, NEW o \in Orders, Found(d, o)
    PROVE  Mined(d) /\ Made(d) /\ Stored(o) /\ Stored(For[d])
  <1>1. Mined(d) /\ Stored(o)
    BY DEF CreditInv, DepositsFit
  <1>2. Made(d)
    BY <1>1, Sizes DEF Mined, Made
  <1>3. QED
    BY <1>1, <1>2 DEF CreditInv, DepositsFit

LEMMA BlockFits ==
    ASSUME IInv, CreditInv, NewBlock
    PROVE  CreditInv'
  <1>1. /\ head' = head + 1 /\ head \in Nat
        /\ UNCHANGED <<orders, blocks, deposits, tasks, history>>
    BY Sizes DEF NewBlock
  <1>2. ASSUME NEW d \in Deposits, Mined(d) PROVE Mined(d)'
    BY <1>1, <1>2, Sizes DEF Mined
  <1>3. ASSUME NEW d \in Deposits, NEW o \in Orders
        PROVE  Found(d, o)' <=> Found(d, o)
    BY <1>1 DEF Found, Finds, history
  <1>4. SeenAreMined'
    <2>1. \A t \in TaskNames : /\ tasks[t].todo \subseteq Deposits
                               /\ tasks[t].pc \in {"look", "apply", "mark"} => tasks[t].deposit \in Deposits
      BY Known DEF Task, TaskKnows
    <2>2. QED
      BY <1>1, <1>2, <2>1, Seen DEF SeenAreMined
  <1>5. DepositsFit'
    <2>1. \A o \in Orders : rows'[o].created <= head'
      BY <1>1, Sizes DEF CreditInv, DepositsFit, orders
    <2>2. QED
      BY <1>1, <1>2, <1>3, <2>1 DEF CreditInv, DepositsFit, Made, Stored, ExpireAt, orders
  <1>6. AmountsApart'
    <2>1. ASSUME NEW a \in Orders, NEW x \in Orders, Apart(a, x) PROVE Apart(a, x)'
      BY <1>1, <1>3, <2>1, StayApart DEF orders
    <2>2. QED
      BY <1>1, <2>1 DEF CreditInv, AmountsApart, Stored, orders
  <1>7. CreditsComeFirst' /\ MatchedIsCredited'
    BY <1>1 DEF CreditInv, CreditsComeFirst, MatchedIsCredited, At, orders, history
  <1>8. QED
    BY <1>4, <1>5, <1>6, <1>7 DEF CreditInv

\* A deposit that is made now is known to nobody.
LEMMA TransferFits ==
    ASSUME IInv, CreditInv, NEW d \in Deposits, Transfer(d)
    PROVE  CreditInv'
  <1>1. /\ UNCHANGED <<head, orders, deposits, tasks, history>>
        /\ blocks'[d] = head + 1 /\ \A x \in Deposits \ {d} : blocks'[x] = blocks[x]
        /\ ~Made(d) /\ Stored(For[d])
    BY Known DEF Transfer, Stored, TaskNames
  <1>2. ~Mined(d)
    BY <1>1, Sizes DEF Mined, Made
  <1>3. ASSUME NEW x \in Deposits, Mined(x) PROVE Mined(x)' /\ blocks'[x] = blocks[x] /\ x # d
    BY <1>1, <1>2, <1>3 DEF Mined
  <1>4. ASSUME NEW x \in Deposits, NEW o \in Orders, Found(x, o)'
        PROVE  Found(x, o) /\ Mined(x)
    <2>1. Found(x, o)
      BY <1>1, <1>4 DEF Found, Finds, history
    <2>2. QED
      BY <2>1, FoundIsMined
  <1>5. SeenAreMined'
    <2>1. \A t \in TaskNames : /\ tasks[t].todo \subseteq Deposits
                               /\ tasks[t].pc \in {"look", "apply", "mark"} => tasks[t].deposit \in Deposits
      BY Known DEF Task, TaskKnows
    <2>2. QED
      BY <1>1, <1>3, <2>1, Seen DEF SeenAreMined
  <1>6. DepositsFit'
    <2>1. \A x \in Deposits : Made(x)' => Stored(For[x]) /\ rows[For[x]].created < blocks'[x]
      <3>1. rows[For[d]].created < head + 1
        BY Sizes DEF CreditInv, DepositsFit
      <3>2. QED
        BY <1>1, <3>1 DEF CreditInv, DepositsFit, Made
    <2>2. QED
      BY <1>1, <1>3, <1>4, <2>1 DEF CreditInv, DepositsFit, Stored, ExpireAt, orders
  <1>7. AmountsApart'
    <2>1. ASSUME NEW a \in Orders, NEW x \in Orders, Apart(a, x) PROVE Apart(a, x)'
      BY <1>1, <1>3, <1>4, <2>1, StayApart DEF orders
    <2>2. QED
      BY <1>1, <2>1 DEF CreditInv, AmountsApart, Stored, orders
  <1>8. CreditsComeFirst' /\ MatchedIsCredited'
    BY <1>1 DEF CreditInv, CreditsComeFirst, MatchedIsCredited, At, orders, history
  <1>9. QED
    BY <1>5, <1>6, <1>7, <1>8 DEF CreditInv

\* A step of an order that is not stored: what is found is about other orders.
LEMMA OrderFits ==
    ASSUME IInv, CreditInv, NEW o \in Orders, ~Stored(o),
           UNCHANGED <<chain, deposits, tasks, history>>, straddled \subseteq straddled',
           \A x \in Orders \ {o} : rows'[x] = rows[x],
           rows'[o].created <= head, rows'[o].status # "SUCCEEDED", AmountsApart'
    PROVE  CreditInv'
  <1>1. ASSUME NEW d \in Deposits, NEW x \in Orders, Found(d, x)'
        PROVE  Found(d, x) /\ x # o /\ For[d] # o
    <2>1. Found(d, x)
      BY <1>1 DEF Found, Finds, history
    <2>2. QED
      BY <2>1, FoundIsMined
  <1>2. SeenAreMined'
    BY Seen DEF SeenAreMined, Mined, chain
  <1>3. DepositsFit'
    <2>1. \A x \in Orders : rows'[x].created <= head'
      BY DEF CreditInv, DepositsFit, chain
    <2>2. \A d \in Deposits : Made(d)' => Stored(For[d])' /\ rows'[For[d]].created < blocks'[d]
      BY Sizes DEF CreditInv, DepositsFit, Made, Stored, chain
    <2>3. \A d \in Deposits, x \in Orders :
              Found(d, x)' =>
                  /\ Mined(d)' /\ Stored(x)' /\ rows'[x].tail = rows'[For[d]].tail
                  /\ rows'[x].created < blocks'[d] /\ blocks'[d] <= ExpireAt(x)'
      BY <1>1, Sizes DEF CreditInv, DepositsFit, Mined, Stored, ExpireAt, chain
    <2>4. QED
      BY <2>1, <2>2, <2>3 DEF DepositsFit
  <1>4. CreditsComeFirst'
    BY DEF CreditInv, CreditsComeFirst, At, history
  <1>5. MatchedIsCredited'
    BY DEF CreditInv, MatchedIsCredited, At, history
  <1>6. QED
    BY <1>2, <1>3, <1>4, <1>5 DEF CreditInv

LEMMA PlaceFits ==
    ASSUME IInv, CreditInv, NEW o \in Orders, Place(o)
    PROVE  CreditInv'
  <1>1. /\ UNCHANGED <<chain, straddled, deposits, tasks, history>> /\ rows[o].status = "none"
        /\ rows'[o].status = "new" /\ rows'[o].created = head
        /\ \A x \in Orders \ {o} : rows'[x] = rows[x]
    BY Known DEF Place, Row, TaskNames
  <1>2. ~Stored(o)
    BY <1>1 DEF Stored
  <1>3. AmountsApart'
    <2>1. ASSUME NEW a \in Orders \ {o}, NEW x \in Orders \ {o}, Apart(a, x) PROVE Apart(a, x)'
      <3>1. \A d \in Deposits : Found(d, a)' => Found(d, a) /\ blocks'[d] = blocks[d]
        BY <1>1 DEF Found, Finds, history, chain
      <3>2. QED
        BY <1>1, <2>1, <3>1, StayApart
    <2>2. QED
      BY <1>1, <2>1 DEF CreditInv, AmountsApart, Stored
  <1>4. QED
    BY <1>1, <1>2, <1>3, Sizes, OrderFits

\* The amount is chosen at once: the orders that have it are paid or their time is over.
LEMMA ChooseFits ==
    ASSUME IInv, CreditInv, NEW o \in Orders, Choose(o)
    PROVE  CreditInv'
  <1>1. PICK tail : tail \notin Occupied(o)
                    /\ rows' = [rows EXCEPT ![o].status = "chosen", ![o].tail = tail]
    BY DEF Choose
  <1>2. /\ UNCHANGED <<chain, deposits, tasks, history>> /\ rows[o].status = "new"
        /\ straddled' = IF head > rows[o].created THEN straddled \cup {o} ELSE straddled
    BY DEF Choose
  <1>3. /\ rows'[o].status = "chosen" /\ rows'[o].tail = tail /\ rows'[o].created = rows[o].created
        /\ \A x \in Orders \ {o} : rows'[x] = rows[x]
    BY <1>1, Known DEF Row, TaskNames
  <1>4. ~Stored(o)
    BY <1>2 DEF Stored
  <1>5. AmountsApart'
    <2>1. SUFFICES ASSUME straddled' = {}, NEW a \in Orders, NEW x \in Orders, a # x,
                          rows'[a].tail = rows'[x].tail, Stored(a)',
                          Stored(x)' \/ rows'[x].status = "chosen"
                   PROVE  Apart(a, x)' \/ Apart(x, a)'
      BY DEF AmountsApart
    <2>2. straddled = {} /\ head <= rows[o].created
      BY <1>2, <2>1, Sizes
    <2>3. a # o /\ Stored(a)
      BY <1>3, <2>1 DEF Stored
    <2>4. ASSUME NEW b \in Orders, NEW c \in Orders, Apart(b, c) PROVE Apart(b, c)'
      <3>1. \A d \in Deposits : Found(d, b)' => Found(d, b) /\ blocks'[d] = blocks[d]
        BY <1>2 DEF Found, Finds, history, chain
      <3>2. rows[b].status = "SUCCEEDED" => rows'[b].status = "SUCCEEDED"
        BY <1>2, <1>3
      <3>3. rows'[b].created = rows[b].created /\ rows'[c].created = rows[c].created
        BY <1>3
      <3>4. QED
        BY <2>4, <3>1, <3>2, <3>3, StayApart
    <2>5. CASE x = o
      <3>1. rows[a].tail = tail
        BY <1>3, <2>1, <2>3, <2>5
      <3>2. CASE rows[a].status = "OPEN"
        <4>1. ~(ExpireAt(a) >= head)
          BY <1>1, <2>3, <3>1, <3>2 DEF Occupied
        <4>2. Apart(a, o)
          BY <2>2, <4>1, Sizes DEF Apart
        <4>3. QED
          BY <2>4, <2>5, <4>2
      <3>3. CASE rows[a].status = "SUCCEEDED"
        <4>1. \A d \in Deposits : Found(d, a) => blocks[d] <= rows[o].created
          BY <2>2, FoundIsMined, Sizes DEF Mined
        <4>2. Apart(a, o)
          BY <3>3, <4>1 DEF Apart
        <4>3. QED
          BY <2>4, <2>5, <4>2
      <3>4. QED
        BY <2>3, <3>2, <3>3 DEF Stored
    <2>6. CASE x # o
      BY <1>3, <2>1, <2>2, <2>3, <2>4, <2>6 DEF CreditInv, AmountsApart, Stored
    <2>7. QED
      BY <2>5, <2>6
  <1>6. rows'[o].created <= head
    BY <1>3 DEF CreditInv, DepositsFit
  <1>7. straddled \subseteq straddled'
    BY <1>2
  <1>8. QED
    BY <1>2, <1>3, <1>4, <1>5, <1>6, <1>7, OrderFits

\* The amount is stored at once: no other order has chosen before.
LEMMA StoreFits ==
    ASSUME IInv, CreditInv, NEW o \in Orders, Store(o)
    PROVE  CreditInv'
  <1>1. /\ UNCHANGED <<chain, deposits, tasks, history>> /\ rows[o].status = "chosen"
        /\ straddled' = straddled \cup {x \in Orders \ {o} : rows[x].status = "chosen"}
        /\ rows'[o].status = "OPEN" /\ rows'[o].tail = rows[o].tail
        /\ rows'[o].created = rows[o].created
        /\ \A x \in Orders \ {o} : rows'[x] = rows[x]
    BY Known DEF Store, Row, TaskNames
  <1>2. ~Stored(o)
    BY <1>1 DEF Stored
  <1>3. AmountsApart'
    <2>1. SUFFICES ASSUME straddled' = {}, NEW a \in Orders, NEW x \in Orders, a # x,
                          rows'[a].tail = rows'[x].tail, Stored(a)',
                          Stored(x)' \/ rows'[x].status = "chosen"
                   PROVE  Apart(a, x)' \/ Apart(x, a)'
      BY DEF AmountsApart
    <2>2. straddled = {} /\ \A b \in Orders \ {o} : rows[b].status # "chosen"
      BY <1>1, <2>1
    <2>3. rows[a].tail = rows[x].tail
      BY <1>1, <2>1
    <2>4. (a = o \/ Stored(a)) /\ (x = o \/ Stored(x))
      BY <1>1, <2>1, <2>2 DEF Stored
    <2>5. Apart(a, x) \/ Apart(x, a)
      BY <1>1, <2>1, <2>2, <2>3, <2>4 DEF CreditInv, AmountsApart
    <2>6. ASSUME NEW b \in Orders, NEW c \in Orders, Apart(b, c) PROVE Apart(b, c)'
      <3>1. \A d \in Deposits : Found(d, b)' => Found(d, b) /\ blocks'[d] = blocks[d]
        BY <1>1 DEF Found, Finds, history, chain
      <3>2. rows[b].status = "SUCCEEDED" => rows'[b].status = "SUCCEEDED"
        BY <1>1
      <3>3. rows'[b].created = rows[b].created /\ rows'[c].created = rows[c].created
        BY <1>1
      <3>4. QED
        BY <2>6, <3>1, <3>2, <3>3, StayApart
    <2>7. QED
      BY <2>5, <2>6
  <1>4. rows'[o].created <= head
    BY <1>1 DEF CreditInv, DepositsFit
  <1>5. straddled \subseteq straddled' /\ rows'[o].status # "SUCCEEDED"
    BY <1>1
  <1>6. QED
    BY <1>1, <1>2, <1>3, <1>4, <1>5, OrderFits

LEMMA CreditNext == IInv /\ CreditInv /\ [Next]_vars => CreditInv'
  <1> SUFFICES ASSUME IInv, CreditInv, [Next]_vars PROVE CreditInv'
    OBVIOUS
  <1>1. CASE NewBlock
    BY <1>1, BlockFits
  <1>2. ASSUME NEW d \in Deposits, Transfer(d) PROVE CreditInv'
    BY <1>2, TransferFits
  <1>3. CASE Begin \/ Crash \/ \E t \in TaskNames : Fail(t)
    BY <1>3, CreditFaults
  <1>4. ASSUME NEW o \in Orders, Place(o) \/ Choose(o) \/ Store(o) PROVE CreditInv'
    BY <1>4, PlaceFits, ChooseFits, StoreFits
  <1>5. ASSUME NEW t \in TaskNames, Work(t) PROVE CreditInv'
    BY <1>5, QuietTasks, LookFinds, ApplyCredits, MarkMatches DEF Work
  <1>6. CASE UNCHANGED vars
    BY <1>6 DEF vars, CreditInv, SeenAreMined, DepositsFit, AmountsApart, CreditsComeFirst,
       MatchedIsCredited, Mined, Made, Stored, Found, Finds, Apart, ExpireAt, At
  <1>7. QED
    BY <1>1, <1>2, <1>3, <1>4, <1>5, <1>6 DEF Next

\* If the deposit came in time, its order could have been found as well: it was paid before.
LEMMA CreditsAreRight == IInv /\ CreditInv => RightOrderIsCredited
  <1> SUFFICES ASSUME IInv, CreditInv, straddled = {}, NEW pair \in credited
               PROVE  pair[2] = For[pair[1]] \/ ~InTime(pair[1]) \/ Again(pair[1])
    BY DEF RightOrderIsCredited
  <1> DEFINE d == pair[1]
             x == pair[2]
             f == For[d]
  <1>1. d \in Deposits /\ x \in Orders /\ f \in Orders /\ pair = <<d, x>>
    BY Known, Sizes DEF TaskNames
  <1> SUFFICES ASSUME x # f, InTime(d) PROVE Again(d)
    OBVIOUS
  <1>2. Found(d, x)
    BY <1>1 DEF Found
  <1>3. /\ Stored(x) /\ rows[x].tail = rows[f].tail
        /\ rows[x].created < blocks[d] /\ blocks[d] <= ExpireAt(x)
    BY <1>1, <1>2 DEF CreditInv, DepositsFit
  <1>4. Stored(f) /\ rows[f].created < blocks[d] /\ blocks[d] <= ExpireAt(f)
    BY <1>1 DEF CreditInv, DepositsFit, InTime
  <1>5. ~Apart(x, f)
    BY <1>1, <1>2, <1>3, <1>4, Sizes DEF Apart
  <1>6. Apart(f, x)
    BY <1>1, <1>3, <1>4, <1>5 DEF CreditInv, AmountsApart
  <1>7. rows[f].status = "SUCCEEDED" /\ \A e \in Deposits : Found(e, f) => blocks[e] <= rows[x].created
    BY <1>1, <1>3, <1>4, <1>6, Sizes DEF Apart
  <1>8. PICK e \in Deposits : <<e, f>> \in credited
    BY <1>1, <1>7 DEF CreditInv, CreditsComeFirst
  <1>9. blocks[e] <= rows[x].created
    BY <1>7, <1>8 DEF Found
  <1>10. e # d
    BY <1>1, <1>3, <1>9, Sizes
  <1>11. QED
    BY <1>8, <1>10 DEF Again

-----------------------------------------------------------------------------
(* The theorems                                                              *)

\* The scan leaves no gap behind the cursor (onchain/service.ts:597-606, 695).
THEOREM Invariance == Spec => []IInv
  <1>1. QED
    BY InitInvariant, NextInvariant, PTL DEF Spec

\* Every deposit of a block between the first one scanned and the cursor has a row, for any
\* overlap and confirmations, whatever fails (onchain/service.ts:597, 695).
THEOREM NoDepositIsMissedAlways == Spec => []NoDepositIsMissed
  <1>1. IInv => NoDepositIsMissed
    BY DEF IInv
  <1>2. QED
    BY <1>1, Invariance, PTL

\* Deposits are matched to orders of their amount and time, orders of one amount follow each
\* other, and what is marked was credited before (onchain/service.ts:383-496).
THEOREM CreditInvariance == Spec => [](IInv /\ CreditInv)
  <1>1. Init => IInv /\ CreditInv
    BY InitInvariant, CreditInit
  <1>2. IInv /\ CreditInv /\ [Next]_vars => IInv' /\ CreditInv'
    BY NextInvariant, CreditNext
  <1>3. QED
    BY <1>1, <1>2, PTL DEF Spec

\* A deposit credits the order it was made for, for any number of orders and deposits, unless it
\* came late, was the second one, or an amount was not chosen and stored at once
\* (onchain/service.ts:383-496, 998).
THEOREM RightOrderIsCreditedAlways == Spec => []RightOrderIsCredited
  <1>1. QED
    BY CreditInvariance, CreditsAreRight, PTL

\* Credits and MATCHED deposits agree, unless an error came between
\* (onchain/service.ts:467, 482).
THEOREM MatchedIsCreditedAlways == Spec => []MatchedIsCredited
  <1>1. IInv /\ CreditInv => MatchedIsCredited
    BY DEF CreditInv
  <1>2. QED
    BY <1>1, CreditInvariance, PTL

\* Every variable keeps its type (onchain/service.ts:546-706).
THEOREM TypeCorrect == Spec => []TypeOK
  <1>1. IInv => TypeOK
    BY DEF IInv
  <1>2. QED
    BY <1>1, Invariance, PTL

=============================================================================
