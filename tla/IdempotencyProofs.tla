------------------------- MODULE IdempotencyProofs -------------------------
(***************************************************************************)
(* Theorems about Idempotency, for any requests, payloads, leases and faults: *)
(* the first result is reused, and one payload is executed.                   *)
(***************************************************************************)
EXTENDS Idempotency, TLAPS

-----------------------------------------------------------------------------
(* Tasks                                                                     *)

\* A request that goes on beyond the look-up belongs to the record r.
Belongs(task, r) ==
    task.pc \in {"replay", "claim", "run", "finish"} =>
        r.status # "none" /\ task.payload = r.payload

LEMMA AnyPayloadType == AnyPayload \in Payloads
  BY IdempotencyAssumption DEF AnyPayload

LEMMA IdleTask ==
    /\ Idle \in Task /\ Idle.pc = "idle" /\ ~Executing(Idle)
    /\ \A r : Belongs(Idle, r)
  BY AnyPayloadType, IdempotencyAssumption
  DEF Idle, Arriving, Task, PCs, IdempotencyStatus, Results, Executing, Belongs

LEMMA MovedTask ==
    ASSUME NEW task \in Task, NEW pc \in PCs
    PROVE  /\ [task EXCEPT !.pc = pc] \in Task
           /\ [task EXCEPT !.pc = pc].pc = pc
           /\ [task EXCEPT !.pc = pc].payload = task.payload
           /\ [task EXCEPT !.pc = pc].age = task.age
  BY DEF Task

LEMMA Known ==
    ASSUME IInv, NEW t \in Tasks
    PROVE  /\ tasks[t] \in Task /\ record \in Record /\ Belongs(tasks[t], record)
           /\ tasks[t].payload \in Payloads /\ tasks[t].age \in 0 .. MaxAge
           /\ runs \in 0 .. MaxRuns /\ executed \in SUBSET Payloads
           /\ answers \in SUBSET [payload : Payloads, result : Results]
           /\ faults \in 0 .. MaxFaults
  BY DEF IInv, TypeOK, PayloadInv, Belongs, Task

LEMMA FaultType ==
    ASSUME faults \in 0 .. MaxFaults, Fault
    PROVE  faults' \in 0 .. MaxFaults
  BY IdempotencyAssumption DEF Fault

\* Whoever executes keeps others from claiming the record, and nothing is answered yet.
LEMMA ExecutorExcludes ==
    ASSUME IInv, MaxAge < Lease, NEW u \in Tasks, Executing(tasks[u])
    PROVE  /\ record.status = "PROCESSING" /\ answers = {}
           /\ \A t \in Tasks : ~Claimable(t) /\ tasks[t].pc # "replay"
           /\ \A t \in Tasks \ {u} : ~Executing(tasks[t])
  <1>1. record.status = "PROCESSING" /\ record.lease = Lease - tasks[u].age
        /\ \A t \in Tasks \ {u} : ~Executing(tasks[t])
    BY DEF IInv, LeaseIsExclusive
  <1>2. tasks[u].age \in 0 .. MaxAge /\ \A t \in Tasks : tasks[t].age \in 0 .. MaxAge
    BY Known
  <1>3. record.lease > 0
    BY <1>1, <1>2, IdempotencyAssumption
  <1>4. ASSUME NEW t \in Tasks
        PROVE  ~Claimable(t)
    <2>1. ~(record.lease <= -tasks[t].age)
      <3>1. MaxAge \in Nat /\ Lease \in Nat
        BY IdempotencyAssumption
      <3> QED
        BY <1>1, <1>2, <1>3, <3>1
    <2> QED
      BY <1>1, <2>1 DEF Claimable
  <1>5. answers = {} /\ \A t \in Tasks : tasks[t].pc # "replay"
    BY <1>1 DEF IInv, AnswersAreRecorded, At, Final
  <1> QED
    BY <1>1, <1>4, <1>5

-----------------------------------------------------------------------------
(* Steps                                                                     *)

\* A step that changes nothing but a task, which does not start to execute.
LEMMA TaskOnly ==
    ASSUME IInv, NEW t \in Tasks, NEW task \in Task, tasks' = [tasks EXCEPT ![t] = task],
           Belongs(task, record),
           Executing(task) => Executing(tasks[t]) /\ task.age = tasks[t].age,
           task.pc = "replay" => record.status \in Final,
           record' = record, runs' = runs, executed' = executed, answers' = answers,
           faults' \in 0 .. MaxFaults
    PROVE  IInv'
  <1>1. TypeOK'
    BY DEF IInv, TypeOK
  <1>2. \A u \in Tasks : tasks'[u] = IF u = t THEN task ELSE tasks[u]
    BY DEF IInv, TypeOK
  <1>3. PayloadInv'
    BY <1>2 DEF IInv, PayloadInv, Belongs
  <1>4. ASSUME MaxAge < Lease
        PROVE  LeaseIsExclusive' /\ AnswersAreRecorded'
    <2>1. LeaseIsExclusive /\ AnswersAreRecorded
      BY <1>4 DEF IInv
    <2>2. \A u \in Tasks : Executing(tasks'[u]) =>
             Executing(tasks[u]) /\ tasks'[u].age = tasks[u].age
      BY <1>2
    <2>3. LeaseIsExclusive'
      BY <2>1, <2>2 DEF LeaseIsExclusive, Executing
    <2>4. AnswersAreRecorded'
      BY <1>2, <2>1 DEF AnswersAreRecorded, At
    <2> QED
      BY <2>3, <2>4
  <1> QED
    BY <1>1, <1>3, <1>4 DEF IInv

\* A request inserts or claims the record, if it has the record's payload, and within the
\* lease nobody executes and nothing was answered.
LEMMA LeaseTaken ==
    ASSUME IInv, NEW t \in Tasks, record' = Leased(t), GoTo(t, "run"),
           record.status # "none" => tasks[t].payload = record.payload,
           MaxAge < Lease => /\ \A u \in Tasks : ~Executing(tasks[u]) /\ tasks[u].pc # "replay"
                             /\ answers = {},
           runs' = runs, executed' = executed, answers' = answers, faults' = faults
    PROVE  IInv'
  <1> DEFINE task == [tasks[t] EXCEPT !.pc = "run"]
  <1>1. task \in Task /\ task.pc = "run" /\ task.payload = tasks[t].payload /\ task.age = tasks[t].age
    BY Known, MovedTask DEF PCs
  <1>2. tasks' = [tasks EXCEPT ![t] = task]
    BY DEF GoTo, Become
  <1> HIDE DEF task
  <1>3. /\ record' \in Record /\ record'.status = "PROCESSING"
        /\ record'.payload = tasks[t].payload /\ record'.lease = Lease - tasks[t].age
    BY Known, IdempotencyAssumption DEF Leased, Record, IdempotencyStatus, Results
  <1>4. TypeOK'
    BY <1>1, <1>2, <1>3 DEF IInv, TypeOK
  <1>5. \A u \in Tasks : tasks'[u] = IF u = t THEN task ELSE tasks[u]
    BY <1>2 DEF IInv, TypeOK
  <1>6. PayloadInv'
    <2>1. ASSUME NEW u \in Tasks
          PROVE  Belongs(tasks'[u], record')
      BY <1>1, <1>3, <1>5, Known DEF Belongs
    <2>2. \A p \in executed : p = record'.payload
      BY <1>3 DEF IInv, PayloadInv
    <2> QED
      BY <1>3, <2>1, <2>2 DEF PayloadInv, Belongs
  <1>7. ASSUME MaxAge < Lease
        PROVE  LeaseIsExclusive' /\ AnswersAreRecorded'
    <2>1. \A u \in Tasks : Executing(tasks'[u]) => u = t
      BY <1>5, <1>7
    <2>2. LeaseIsExclusive'
      BY <1>1, <1>3, <1>5, <2>1 DEF LeaseIsExclusive, Executing
    <2>3. AnswersAreRecorded'
      BY <1>1, <1>5, <1>7 DEF AnswersAreRecorded, At
    <2> QED
      BY <2>2, <2>3
  <1> QED
    BY <1>4, <1>6, <1>7 DEF IInv

LEMMA InvariantInit == Init => IInv
  <1> SUFFICES ASSUME Init PROVE IInv
    OBVIOUS
  <1>1. TypeOK
    <2>1. record \in Record
      BY AnyPayloadType, IdempotencyAssumption DEF Init, Record, Results
    <2>2. runs \in 0 .. MaxRuns /\ faults \in 0 .. MaxFaults
      BY IdempotencyAssumption DEF Init
    <2> QED
      BY <2>1, <2>2, IdleTask DEF Init, TypeOK
  <1>2. \A t \in Tasks : tasks[t].pc = "idle"
    BY IdleTask DEF Init
  <1> QED
    BY <1>1, <1>2 DEF Init, IInv, PayloadInv, LeaseIsExclusive, AnswersAreRecorded, Executing, At

LEMMA InvariantStep ==
    ASSUME IInv, [Next]_vars
    PROVE  IInv'
  <1>1. ASSUME NEW t \in Tasks, NEW payload \in Payloads, Arrive(t, payload)
        PROVE  IInv'
    <2>1. /\ Arriving("look", payload) \in Task
          /\ ~Executing(Arriving("look", payload)) /\ Arriving("look", payload).pc = "look"
      BY IdempotencyAssumption DEF Arriving, Task, PCs, IdempotencyStatus, Results, Executing
    <2> QED
      BY <1>1, <2>1, Known, TaskOnly DEF Arrive, Become, Belongs
  <1>2. ASSUME NEW t \in Tasks, Look(t)
        PROVE  IInv'
    <2>1. CASE Done(t)
      BY <1>2, <2>1, IdleTask, Known, TaskOnly DEF Look, Done, Become
    <2>2. CASE ~Done(t)
      <3>1. PICK pc \in {"insert", "replay", "claim"} :
              /\ GoTo(t, pc)
              /\ pc = "replay" => record.status \in Final
              /\ pc # "insert" => record.status # "none" /\ tasks[t].payload = record.payload
        BY <1>2, <2>2 DEF Look, Conflicts
      <3> DEFINE task == [tasks[t] EXCEPT !.pc = pc]
      <3>2. task \in Task /\ task.pc = pc /\ task.payload = tasks[t].payload
        <4>1. pc \in PCs
          BY DEF PCs
        <4> QED
          BY <4>1, Known, MovedTask
      <3>3. tasks' = [tasks EXCEPT ![t] = task]
        BY <3>1 DEF GoTo, Become
      <3> HIDE DEF task
      <3> QED
        BY <1>2, <3>1, <3>2, <3>3, Known, TaskOnly DEF Look, Belongs, Executing
    <2> QED
      BY <2>1, <2>2
  <1>3. ASSUME NEW t \in Tasks, Insert(t)
        PROVE  IInv'
    <2>1. CASE record.status = "none"
      <3>1. answers = {} /\ \A u \in Tasks : ~Executing(tasks[u]) /\ tasks[u].pc # "replay"
        BY <2>1 DEF IInv, PayloadInv, Executing
      <3> QED
        BY <1>3, <2>1, <3>1, LeaseTaken DEF Insert
    <2>2. CASE record.status # "none"
      <3> DEFINE task == [tasks[t] EXCEPT !.pc = "look"]
      <3>1. task \in Task /\ task.pc = "look"
        BY Known, MovedTask DEF PCs
      <3>2. tasks' = [tasks EXCEPT ![t] = task]
        BY <1>3, <2>2 DEF Insert, GoTo, Become
      <3> HIDE DEF task
      <3> QED
        BY <1>3, <2>2, <3>1, <3>2, Known, TaskOnly DEF Insert, Belongs, Executing
    <2> QED
      BY <2>1, <2>2
  <1>4. ASSUME NEW t \in Tasks, Claim(t)
        PROVE  IInv'
    <2>1. CASE record.payload = tasks[t].payload /\ Claimable(t)
      <3>1. ASSUME MaxAge < Lease
            PROVE  /\ \A u \in Tasks : ~Executing(tasks[u]) /\ tasks[u].pc # "replay"
                   /\ answers = {}
        <4>1. \A u \in Tasks : ~Executing(tasks[u])
          BY <2>1, <3>1, ExecutorExcludes
        <4>2. record.status \notin Final
          BY <2>1 DEF Claimable, Final
        <4> QED
          BY <3>1, <4>1, <4>2 DEF IInv, AnswersAreRecorded, At
      <3> QED
        BY <1>4, <2>1, <3>1, LeaseTaken DEF Claim
    <2>2. CASE ~(record.payload = tasks[t].payload /\ Claimable(t))
      BY <1>4, <2>2, IdleTask, Known, TaskOnly DEF Claim, Done, Become
    <2> QED
      BY <2>1, <2>2
  <1>5. ASSUME NEW t \in Tasks, Replay(t)
        PROVE  IInv'
    <2> DEFINE answer == [payload |-> tasks[t].payload, result |-> record.result]
    <2>1. record.status # "none" /\ tasks[t].payload = record.payload
      BY <1>5, Known DEF Replay, At, Belongs
    <2>2. answer \in [payload : Payloads, result : Results]
      BY Known DEF Record
    <2>3. answers' = answers \cup {answer} /\ tasks' = [tasks EXCEPT ![t] = Idle]
      BY <1>5 DEF Replay, Done, Become
    <2>4. \A u \in Tasks : tasks'[u] = IF u = t THEN Idle ELSE tasks[u]
      BY <2>3 DEF IInv, TypeOK
    <2>5. TypeOK'
      BY <1>5, <2>2, <2>3, IdleTask DEF Replay, IInv, TypeOK
    <2>6. PayloadInv'
      BY <1>5, <2>1, <2>4, IdleTask DEF Replay, IInv, PayloadInv
    <2>7. ASSUME MaxAge < Lease
          PROVE  LeaseIsExclusive' /\ AnswersAreRecorded'
      <3>1. LeaseIsExclusive /\ AnswersAreRecorded
        BY <2>7 DEF IInv
      <3>2. LeaseIsExclusive'
        BY <1>5, <2>4, <3>1, IdleTask DEF Replay, LeaseIsExclusive, Executing
      <3>3. record.status \in Final
        BY <1>5, <3>1 DEF Replay, AnswersAreRecorded
      <3>4. AnswersAreRecorded'
        BY <1>5, <2>1, <2>3, <2>4, <3>1, <3>3, IdleTask DEF Replay, AnswersAreRecorded, At
      <3> QED
        BY <3>2, <3>4
    <2> QED
      BY <2>5, <2>6, <2>7 DEF IInv
  <1>6. ASSUME NEW t \in Tasks, Run(t)
        PROVE  IInv'
    <2>1. PICK outcome \in IdempotencyStatus :
            tasks' = [tasks EXCEPT ![t] =
                        [tasks[t] EXCEPT !.pc = "finish", !.outcome = outcome, !.result = runs']]
      BY <1>6 DEF Run, Become, IdempotencyStatus
    <2> DEFINE task == [tasks[t] EXCEPT !.pc = "finish", !.outcome = outcome, !.result = runs']
    <2>2. runs' \in 0 .. MaxRuns
      <3>1. runs \in 0 .. MaxRuns /\ runs < MaxRuns /\ runs' = runs + 1 /\ MaxRuns \in Nat
        BY <1>6, Known, IdempotencyAssumption DEF Run
      <3> QED
        BY <3>1
    <2>3. task \in Task /\ task.pc = "finish" /\ task.payload = tasks[t].payload
          /\ task.age = tasks[t].age
      BY <2>2, Known DEF Task, PCs, Results
    <2>4. tasks' = [tasks EXCEPT ![t] = task]
      BY <2>1
    <2> HIDE DEF task
    <2>5. \A u \in Tasks : tasks'[u] = IF u = t THEN task ELSE tasks[u]
      BY <2>4 DEF IInv, TypeOK
    <2>6. tasks[t].pc = "run" /\ record.status # "none" /\ tasks[t].payload = record.payload
      BY <1>6, Known DEF Run, At, Belongs
    <2>7. TypeOK'
      <3>1. faults' \in 0 .. MaxFaults
        BY <1>6, Known, FaultType DEF Run
      <3> QED
        BY <1>6, <2>2, <2>3, <2>4, <3>1, Known DEF Run, IInv, TypeOK
    <2>8. PayloadInv'
      BY <1>6, <2>3, <2>5, <2>6 DEF Run, IInv, PayloadInv
    <2>9. ASSUME MaxAge < Lease
          PROVE  LeaseIsExclusive' /\ AnswersAreRecorded'
      <3>1. LeaseIsExclusive /\ AnswersAreRecorded
        BY <2>9 DEF IInv
      <3>2. \A u \in Tasks : Executing(tasks'[u]) =>
               Executing(tasks[u]) /\ tasks'[u].age = tasks[u].age
        BY <2>3, <2>5, <2>6 DEF Executing
      <3>3. LeaseIsExclusive'
        BY <1>6, <3>1, <3>2 DEF Run, LeaseIsExclusive, Executing
      <3>4. AnswersAreRecorded'
        BY <1>6, <2>3, <2>5, <3>1 DEF Run, AnswersAreRecorded, At
      <3> QED
        BY <3>3, <3>4
    <2> QED
      BY <2>7, <2>8, <2>9 DEF IInv
  <1>7. ASSUME NEW t \in Tasks, Finish(t)
        PROVE  IInv'
    <2> DEFINE outcome == tasks[t].outcome
               result == tasks[t].result
    <2>1. /\ record' = [record EXCEPT !.status = outcome, !.result = result, !.lease = 0]
          /\ answers' = IF outcome \in Final
                        THEN answers \cup {[payload |-> tasks[t].payload, result |-> result]}
                        ELSE answers
          /\ tasks' = [tasks EXCEPT ![t] = Idle]
      BY <1>7 DEF Finish, Done, Become
    <2>2. outcome \in IdempotencyStatus /\ result \in Results
      BY Known DEF Task
    <2>3. tasks[t].payload \in Payloads /\ tasks[t].payload = record.payload /\ Executing(tasks[t])
      BY <1>7, Known DEF Finish, At, Belongs, Executing
    <2> HIDE DEF outcome, result
    <2>4. /\ record' \in Record /\ record'.status = outcome /\ record'.result = result
          /\ record'.payload = record.payload
      <3>1. 0 \in -MaxAge .. Lease
        BY IdempotencyAssumption
      <3> QED
        BY <2>1, <2>2, <3>1, Known DEF Record
    <2>5. \A u \in Tasks : tasks'[u] = IF u = t THEN Idle ELSE tasks[u]
      BY <2>1 DEF IInv, TypeOK
    <2>6. TypeOK'
      BY <1>7, <2>1, <2>2, <2>3, <2>4, IdleTask, Known DEF Finish, IInv, TypeOK
    <2>7. PayloadInv'
      <3>1. record'.status # "none"
        BY <2>2, <2>4 DEF IdempotencyStatus, Final
      <3>2. \A u \in Tasks : Belongs(tasks'[u], record')
        BY <2>4, <2>5, <3>1, IdleTask, Known DEF Belongs
      <3> QED
        BY <1>7, <2>4, <3>1, <3>2 DEF Finish, IInv, PayloadInv, Belongs
    <2>8. ASSUME MaxAge < Lease
          PROVE  LeaseIsExclusive' /\ AnswersAreRecorded'
      <3>1. answers = {} /\ \A u \in Tasks : tasks[u].pc # "replay"
        BY <2>3, <2>8, ExecutorExcludes
      <3>2. \A u \in Tasks : ~Executing(tasks'[u]) /\ tasks'[u].pc # "replay"
        BY <2>3, <2>5, <2>8, <3>1, ExecutorExcludes, IdleTask
      <3>3. LeaseIsExclusive'
        BY <3>2 DEF LeaseIsExclusive, Executing
      <3>4. AnswersAreRecorded'
        BY <2>1, <2>3, <2>4, <3>1, <3>2 DEF AnswersAreRecorded, At
      <3> QED
        BY <3>3, <3>4
    <2> QED
      BY <2>6, <2>7, <2>8 DEF IInv
  <1>8. ASSUME NEW t \in Tasks, FinishFails(t) \/ Crash(t)
        PROVE  IInv'
    <2>1. faults' \in 0 .. MaxFaults
      BY <1>8, Known, FaultType DEF FinishFails, Crash
    <2>2. CASE Done(t)
      BY <1>8, <2>1, <2>2, IdleTask, Known, TaskOnly DEF FinishFails, Crash, Done, Become
    <2>3. CASE ~Done(t)
      <3> DEFINE task == [tasks[t] EXCEPT !.outcome = "FAILED_RETRYABLE"]
      <3>1. task \in Task /\ task.pc = tasks[t].pc /\ task.payload = tasks[t].payload
            /\ task.age = tasks[t].age
        BY Known DEF Task, IdempotencyStatus
      <3>2. tasks' = [tasks EXCEPT ![t] = task] /\ tasks[t].pc = "finish"
        BY <1>8, <2>3 DEF FinishFails, Crash, Become, At
      <3> HIDE DEF task
      <3> QED
        BY <1>8, <2>1, <3>1, <3>2, Known, TaskOnly DEF FinishFails, Crash, Belongs, Executing
    <2> QED
      BY <2>2, <2>3
  <1>9. CASE Tick
    <2> DEFINE lease == IF record.status = "PROCESSING" /\ record.lease > -MaxAge
                        THEN record.lease - 1 ELSE record.lease
    <2>1. record' = [record EXCEPT !.lease = lease]
      BY <1>9 DEF Tick
    <2>2. record \in Record /\ record.lease \in -MaxAge .. Lease
      BY DEF IInv, TypeOK, Record
    <2>3. lease \in -MaxAge .. Lease
      BY <2>2, IdempotencyAssumption
    <2>4. record.status = "PROCESSING" /\ record.lease > 0 => lease = record.lease - 1
      BY <2>2, IdempotencyAssumption
    <2> HIDE DEF lease
    <2>5. /\ record' \in Record /\ record'.status = record.status
          /\ record'.payload = record.payload /\ record'.result = record.result
          /\ record'.lease = lease
      BY <2>1, <2>2, <2>3 DEF Record
    <2>6. ASSUME NEW t \in Tasks
          PROVE  /\ tasks'[t] \in Task /\ tasks'[t].pc = tasks[t].pc
                 /\ tasks'[t].payload = tasks[t].payload
                 /\ Executing(tasks[t]) => tasks'[t].age = tasks[t].age + 1
      <3>1. CASE At(t, "idle")
        BY <1>9, <3>1, Known DEF Tick, At, Executing
      <3>2. CASE ~At(t, "idle")
        <4> DEFINE age == tasks[t].age + 1
        <4>1. age \in 0 .. MaxAge
          BY <1>9, <3>2, Known, IdempotencyAssumption DEF Tick
        <4>2. tasks'[t] = [tasks[t] EXCEPT !.age = age]
          BY <1>9, <3>2 DEF Tick
        <4> QED
          BY <4>1, <4>2, Known DEF Task
      <3> QED
        BY <3>1, <3>2
    <2>7. TypeOK'
      <3>1. tasks' \in [Tasks -> Task]
        BY <1>9, <2>6 DEF Tick
      <3> QED
        BY <1>9, <2>5, <3>1 DEF Tick, IInv, TypeOK
    <2>8. PayloadInv'
      BY <1>9, <2>5, <2>6 DEF Tick, IInv, PayloadInv
    <2>9. ASSUME MaxAge < Lease
          PROVE  LeaseIsExclusive' /\ AnswersAreRecorded'
      <3>1. LeaseIsExclusive /\ AnswersAreRecorded
        BY <2>9 DEF IInv
      <3>2. ASSUME NEW t \in Tasks, Executing(tasks'[t])
            PROVE  /\ record'.status = "PROCESSING" /\ record'.lease = Lease - tasks'[t].age
                   /\ \A u \in Tasks \ {t} : ~Executing(tasks'[u])
        <4>1. Executing(tasks[t]) /\ tasks'[t].age = tasks[t].age + 1
          BY <2>6, <3>2 DEF Executing
        <4>2. record.status = "PROCESSING" /\ record.lease = Lease - tasks[t].age
              /\ \A u \in Tasks \ {t} : ~Executing(tasks[u])
          BY <3>1, <4>1 DEF LeaseIsExclusive
        <4>3. tasks[t].age \in 0 .. MaxAge
          BY Known
        <4>4. lease = Lease - tasks'[t].age
          BY <2>4, <2>9, <4>1, <4>2, <4>3, IdempotencyAssumption
        <4> QED
          BY <2>5, <2>6, <4>2, <4>4 DEF Executing
      <3>3. LeaseIsExclusive'
        BY <3>2 DEF LeaseIsExclusive, Executing
      <3>4. AnswersAreRecorded'
        BY <1>9, <2>5, <2>6, <3>1 DEF Tick, AnswersAreRecorded, At
      <3> QED
        BY <3>3, <3>4
    <2> QED
      BY <2>7, <2>8, <2>9 DEF IInv
  <1>10. CASE UNCHANGED vars
    BY <1>10 DEF vars, IInv, TypeOK, PayloadInv, LeaseIsExclusive, AnswersAreRecorded, Executing, At
  <1> QED
    BY <1>1, <1>2, <1>3, <1>4, <1>5, <1>6, <1>7, <1>8, <1>9, <1>10 DEF Next, Step

\* What relates the record, the requests and the answers at all times.
THEOREM IdempotencyInvariant == Spec => []IInv
  BY InvariantInit, InvariantStep, PTL DEF Spec

\* A lease is never longer than Lease, and a request never older than MaxAge.
THEOREM TypeCorrect == Spec => []TypeOK
  <1>1. IInv => TypeOK
    BY DEF IInv
  <1> QED
    BY <1>1, IdempotencyInvariant, PTL

\* For any number of concurrent and retried requests, crashes and failed writes, every client
\* that gets a result for the key gets the same one, if requests end within their lease.
THEOREM ReuseTheorem == Spec => []ReusedWithinLease
  <1>1. IInv => ReusedWithinLease
    BY DEF IInv, AnswersAreRecorded, ReusedWithinLease, FirstResultIsReused
  <1> QED
    BY <1>1, IdempotencyInvariant, PTL

\* A step within the lease decides the answer, tells it, or does nothing of the kind.
LEMMA PromiseStep ==
    ASSUME MaxAge < Lease, IInv, IInv', [Next]_vars
    PROVE  [Promise!Next]_<<Decided, answers>>
  <1>1. AnswersAreRecorded
    BY DEF IInv
  <1>2. ASSUME NEW t \in Tasks, Insert(t) \/ Claim(t)
        PROVE  UNCHANGED <<Decided, answers>>
    <2>1. answers' = answers
      BY <1>2 DEF Insert, Claim
    <2>2. CASE record' = record
      BY <2>1, <2>2 DEF Decided
    <2>3. CASE record' = Leased(t) /\ record.status \notin Final
      <3>1. record'.status \notin Final
        BY <2>3 DEF Leased, Final
      <3> QED
        BY <2>1, <2>3, <3>1 DEF Decided
    <2> QED
      BY <1>2, <2>2, <2>3 DEF Insert, Claim, Claimable, Final
  <1>3. ASSUME NEW t \in Tasks, Replay(t)
        PROVE  Promise!Tell
    <2>1. record.status \in Final /\ record' = record /\ tasks[t].payload = record.payload
      BY <1>1, <1>3, Known DEF Replay, AnswersAreRecorded, At, Belongs
    <2>2. Decided = {[payload |-> record.payload, result |-> record.result]} /\ Decided' = Decided
      BY <2>1 DEF Decided
    <2>3. answers' = answers \cup Decided
      BY <1>3, <2>1, <2>2 DEF Replay
    <2> QED
      BY <2>2, <2>3 DEF Promise!Tell
  <1>4. ASSUME NEW t \in Tasks, Finish(t)
        PROVE  [Promise!Next]_<<Decided, answers>>
    <2> DEFINE answer == [payload |-> tasks[t].payload, result |-> tasks[t].result]
    <2>1. /\ Executing(tasks[t]) /\ tasks[t].payload = record.payload
          /\ tasks[t].payload \in Payloads /\ tasks[t].result \in Results
      BY <1>4, Known DEF Finish, At, Belongs, Executing, Task
    <2>2. Decided = {}
      BY <2>1, ExecutorExcludes DEF Decided, Final
    <2>3. /\ record'.status = tasks[t].outcome /\ record'.payload = record.payload
          /\ record'.result = tasks[t].result
      BY <1>4, Known DEF Finish, Record
    <2>4. CASE tasks[t].outcome \in Final
      <3>1. Decided' = {answer} /\ answers' = answers \cup {answer}
        BY <1>4, <2>1, <2>3, <2>4 DEF Decided, Finish
      <3>2. answer \in [payload : Payloads, result : Results]
        BY <2>1
      <3> HIDE DEF answer
      <3> QED
        BY <2>2, <3>1, <3>2 DEF Promise!Next, Promise!Decide
    <2>5. CASE tasks[t].outcome \notin Final
      <3>1. Decided' = {} /\ answers' = answers
        BY <1>4, <2>3, <2>5 DEF Decided, Finish
      <3> QED
        BY <2>2, <3>1
    <2> QED
      BY <2>4, <2>5
  <1>5. ASSUME NEW t \in Tasks, Look(t) \/ Run(t) \/ FinishFails(t) \/ Crash(t)
                                 \/ \E payload \in Payloads : Arrive(t, payload)
        PROVE  UNCHANGED <<Decided, answers>>
    BY <1>5 DEF Look, Run, FinishFails, Crash, Arrive, Decided
  <1>6. CASE Tick
    <2>1. /\ record'.status = record.status /\ record'.payload = record.payload
          /\ record'.result = record.result
      BY <1>6 DEF Tick, IInv, TypeOK, Record
    <2> QED
      BY <1>6, <2>1 DEF Tick, Decided
  <1>7. CASE UNCHANGED vars
    BY <1>7 DEF vars, Decided
  <1> QED
    BY <1>2, <1>3, <1>4, <1>5, <1>6, <1>7 DEF Next, Step, Promise!Next

\* Claims, finishes and replays implement the promise of a single result, if requests end
\* within their lease.
THEOREM PromiseTheorem ==
    ASSUME MaxAge < Lease
    PROVE  Spec => SingleResultKept
  <1>1. Init => Promise!Init
    BY DEF Init, Promise!Init, Decided, Final
  <1>2. IInv /\ IInv' /\ [Next]_vars => [Promise!Next]_<<Decided, answers>>
    BY PromiseStep
  <1> QED
    BY <1>1, <1>2, IdempotencyInvariant, PTL DEF Spec, SingleResultKept, Promise!Spec

\* Whatever becomes of the lease, the command of one payload only is executed.
THEOREM OnePayloadTheorem == Spec => []OnePayloadRuns
  <1>1. IInv => OnePayloadRuns
    BY DEF IInv, PayloadInv, OnePayloadRuns
  <1> QED
    BY <1>1, IdempotencyInvariant, PTL

=============================================================================
