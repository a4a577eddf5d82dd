---------------------------- MODULE Idempotency ----------------------------
(***************************************************************************)
(* The requests that carry one idempotency key of a merchant in one scope:   *)
(* lib/idempotency/service.ts and the write routes around it, such as        *)
(* app/api/payments/refunds/route.ts.                                        *)
(*                                                                         *)
(* A request executes its command only after it has inserted the record of   *)
(* the key or has claimed it with a conditional update; both lease it for a  *)
(* time.  The updates that end an execution are by id and ask for no lease.  *)
(* What a command does is not modelled, only that it runs and how it ends.   *)
(*                                                                         *)
(* Time is kept as timers: "lease" is the number of ticks until              *)
(* leaseExpiresAt, negative once it has passed.                              *)
(***************************************************************************)
EXTENDS Integers

CONSTANTS
    Tasks,       \* concurrent requests
    Payloads,    \* what the requests ask for, told apart by requestHash
    Lease,       \* IDEMPOTENCY_LEASE_SECONDS, in ticks
    MaxAge,      \* the longest a request takes from its "now" to its last write
    MaxRuns,     \* bound on executions of the command
    MaxFaults    \* bound on errors other than AppError, failed writes and crashes

ASSUME IdempotencyAssumption ==
    /\ Payloads # {}
    /\ {Lease, MaxAge, MaxRuns} \subseteq Nat \ {0}
    /\ MaxFaults \in Nat

VARIABLES
    record,    \* the row of MerchantIdempotencyRecord
    tasks,     \* what every request is doing
    runs,      \* the number of executions so far
    executed,  \* the payloads of the executions
    answers,   \* the results given to clients, with the payloads they had asked for
    faults

vars == <<record, tasks, runs, executed, answers, faults>>

-----------------------------------------------------------------------------

Final == {"SUCCEEDED", "FAILED_FINAL"}

IdempotencyStatus == Final \cup {"PROCESSING", "FAILED_RETRYABLE"}

\* A result is known by the number of the execution it comes from; 0 is the empty body.
Results == 0 .. MaxRuns

\* "none" is the status of a key without a record.
Record == [status : IdempotencyStatus \cup {"none"}, payload : Payloads,
           result : Results, lease : -MaxAge .. Lease]

PCs == {"idle", "look", "insert", "replay", "claim", "run", "finish"}

Task == [pc : PCs, payload : Payloads, outcome : IdempotencyStatus,
         result : Results, age : 0 .. MaxAge]

Arriving(pc, payload) ==
    [pc |-> pc, payload |-> payload, outcome |-> "PROCESSING", result |-> 0, age |-> 0]

AnyPayload == CHOOSE p \in Payloads : TRUE

Idle == Arriving("idle", AnyPayload)

At(t, pc) == tasks[t].pc = pc

Become(t, task) == tasks' = [tasks EXCEPT ![t] = task]

GoTo(t, pc) == Become(t, [tasks[t] EXCEPT !.pc = pc])

Done(t) == Become(t, Idle)

Fault == faults < MaxFaults /\ faults' = faults + 1

\* The record is leased from the "now" of the request, which is "age" ago.
Leased(t) ==
    [status |-> "PROCESSING", payload |-> tasks[t].payload, result |-> 0,
     lease |-> Lease - tasks[t].age]

Init ==
    /\ record = [status |-> "none", payload |-> AnyPayload, result |-> 0, lease |-> 0]
    /\ tasks = [t \in Tasks |-> Idle]
    /\ runs = 0
    /\ executed = {}
    /\ answers = {}
    /\ faults = 0

-----------------------------------------------------------------------------
(* beginMerchantIdempotencyCommand                                           *)

\* A request arrives; its "now" is taken before the record is looked up.
Arrive(t, payload) ==
    /\ At(t, "idle")
    /\ Become(t, Arriving("look", payload))
    /\ UNCHANGED <<record, runs, executed, answers, faults>>

\* existing.requestHash differs.
Conflicts(payload) == record.payload # payload

\* findUnique: a key without a record is inserted, a conflict ends the request, a final
\* result is replayed, anything else may be claimed.
Look(t) ==
    /\ At(t, "look")
    /\ IF record.status = "none" THEN GoTo(t, "insert")
       ELSE IF Conflicts(tasks[t].payload) THEN Done(t)
       ELSE GoTo(t, IF record.status \in Final THEN "replay" ELSE "claim")
    /\ UNCHANGED <<record, runs, executed, answers, faults>>

\* Mutant: the record is inserted or overwritten.
InsertOverwriting(t) ==
    /\ At(t, "insert")
    /\ record' = Leased(t) /\ GoTo(t, "run")
    /\ UNCHANGED <<runs, executed, answers, faults>>

\* create; if another request was faster its unique key makes this one look again.
Insert(t) ==
    /\ At(t, "insert")
    /\ IF record.status = "none"
       THEN record' = Leased(t) /\ GoTo(t, "run")
       ELSE UNCHANGED record /\ GoTo(t, "look")
    /\ UNCHANGED <<runs, executed, answers, faults>>

\* The answer is what the row holds at the update of replayCount.
Replay(t) ==
    /\ At(t, "replay")
    /\ answers' = answers \cup {[payload |-> tasks[t].payload, result |-> record.result]}
    /\ Done(t)
    /\ UNCHANGED <<record, runs, executed, faults>>

\* Mutant: an execution that never ended is not taken over.
ClaimableOnceFailed(t) == record.status = "FAILED_RETRYABLE"

\* Mutant: whatever is not final may be claimed.
ClaimableAlways(t) == record.status \notin Final

\* The condition of the claim; leaseExpiresAt is compared with the request's "now".
Claimable(t) ==
    \/ record.status = "FAILED_RETRYABLE"
    \/ record.status = "PROCESSING" /\ record.lease <= -tasks[t].age

\* The conditional update: the loser is told that the request is in progress.
Claim(t) ==
    /\ At(t, "claim")
    /\ IF record.payload = tasks[t].payload /\ Claimable(t)
       THEN record' = Leased(t) /\ GoTo(t, "run")
       ELSE UNCHANGED record /\ Done(t)
    /\ UNCHANGED <<runs, executed, answers, faults>>

-----------------------------------------------------------------------------
(* The route                                                                 *)

\* The command returns, throws an AppError, or throws something else.
Run(t) ==
    /\ At(t, "run")
    /\ runs < MaxRuns
    /\ runs' = runs + 1
    /\ executed' = executed \cup {tasks[t].payload}
    /\ \/ \E outcome \in Final :
             /\ Become(t, [tasks[t] EXCEPT !.pc = "finish", !.outcome = outcome, !.result = runs'])
             /\ UNCHANGED faults
       \/ /\ Fault
          /\ Become(t, [tasks[t] EXCEPT !.pc = "finish", !.outcome = "FAILED_RETRYABLE", !.result = runs'])
    /\ UNCHANGED <<record, answers>>

\* finishMerchantIdempotencySuccess, ...FinalError and ...RetryableError update the record
\* by its id; then the client is answered, after a retryable error with no result.
Finish(t) ==
    LET task == tasks[t]
    IN
    /\ At(t, "finish")
    /\ record' = [record EXCEPT !.status = task.outcome, !.result = task.result, !.lease = 0]
    /\ answers' = IF task.outcome \in Final
                  THEN answers \cup {[payload |-> task.payload, result |-> task.result]}
                  ELSE answers
    /\ Done(t)
    /\ UNCHANGED <<runs, executed, faults>>

\* The update throws: after a success the catch block records a retryable error instead,
\* inside the catch block the request ends.
FinishFails(t) ==
    /\ At(t, "finish")
    /\ Fault
    /\ IF tasks[t].outcome = "SUCCEEDED"
       THEN Become(t, [tasks[t] EXCEPT !.outcome = "FAILED_RETRYABLE"])
       ELSE Done(t)
    /\ UNCHANGED <<record, runs, executed, answers>>

\* The process dies, or a statement before the execution throws.
Crash(t) ==
    /\ ~At(t, "idle")
    /\ Fault
    /\ Done(t)
    /\ UNCHANGED <<record, runs, executed, answers>>

-----------------------------------------------------------------------------

\* Time passes, unless a request has used up the time it may take.
Tick ==
    /\ \A t \in Tasks : ~At(t, "idle") => tasks[t].age < MaxAge
    /\ record' = [record EXCEPT !.lease = IF record.status = "PROCESSING" /\ @ > -MaxAge
                                          THEN @ - 1 ELSE @]
    /\ tasks' = [t \in Tasks |-> IF At(t, "idle") THEN tasks[t]
                                 ELSE [tasks[t] EXCEPT !.age = @ + 1]]
    /\ UNCHANGED <<runs, executed, answers, faults>>

Step(t) == Look(t) \/ Insert(t) \/ Replay(t) \/ Claim(t) \/ Run(t) \/ Finish(t)

Next ==
    \/ \E t \in Tasks : Step(t) \/ FinishFails(t) \/ Crash(t)
    \/ \E t \in Tasks, payload \in Payloads : Arrive(t, payload)
    \/ Tick

Spec == Init /\ [][Next]_vars

\* A request that runs goes on, and the clock advances.  Nothing obliges a client to retry.
Fairness == (\A t \in Tasks : WF_vars(Step(t))) /\ WF_vars(Tick)

FairSpec == Spec /\ Fairness

-----------------------------------------------------------------------------
(* Properties                                                                *)

TypeOK ==
    /\ record \in Record
    /\ tasks \in [Tasks -> Task]
    /\ runs \in 0 .. MaxRuns
    /\ executed \subseteq Payloads
    /\ answers \subseteq [payload : Payloads, result : Results]
    /\ faults \in 0 .. MaxFaults

\* All clients that get a result for the key get the same one, and had asked for the same:
\* "Repeated requests with the same key and the same business payload reuse the first result,
\* while the same key with a different payload returns a conflict" (lib/openapi.ts:86).
FirstResultIsReused == \A a, b \in answers : a = b

\* They do as long as no request outlives its lease, whatever is retried, crashes, or fails
\* to be recorded (idempotency/service.ts:199, 274).
ReusedWithinLease == MaxAge < Lease => FirstResultIsReused

\* The answer that the record holds.
Decided ==
    IF record.status \in Final THEN {[payload |-> record.payload, result |-> record.result]} ELSE {}

Promise == INSTANCE SingleResult
    WITH Answers <- [payload : Payloads, result : Results], decided <- Decided, told <- answers

\* Within the lease, the protocol of claims, finishes and replays implements the promise: the
\* final state of the record is decided once and never written again, although the updates
\* that finish a request are by id (idempotency/service.ts:274, 303, 330).
SingleResultKept == Promise!Spec

\* The command runs for one payload only, although two payloads may race to insert the record
\* and executions may outlive their leases (idempotency/service.ts:144).
OnePayloadRuns == \A p, q \in executed : p = q

\* A key that was used gets its final result if the client retries, even if the execution
\* that holds the lease has died (idempotency/service.ts:207).
KeyIsResolved ==
    \A p \in Payloads :
        SF_vars(\E t \in Tasks : Arrive(t, p))
            => (record.status # "none" /\ record.payload = p ~> record.status \in Final)

-----------------------------------------------------------------------------
(* The inductive invariant behind the safety properties.                     *)

Executing(task) == task.pc \in {"run", "finish"}

\* Who goes on beyond the look-up, and what was executed or answered, has the payload of
\* the record.
PayloadInv ==
    /\ record.status = "none" => executed = {} /\ answers = {}
    /\ \A p \in executed : p = record.payload
    /\ \A t \in Tasks : tasks[t].pc \in {"replay", "claim", "run", "finish"} =>
          record.status # "none" /\ tasks[t].payload = record.payload

\* The record shows the lease of the only request that executes.
LeaseIsExclusive ==
    \A t \in Tasks : Executing(tasks[t]) =>
        /\ record.status = "PROCESSING" /\ record.lease = Lease - tasks[t].age
        /\ \A u \in Tasks \ {t} : ~Executing(tasks[u])

\* The result that was answered is the final one of the record.
AnswersAreRecorded ==
    /\ \A t \in Tasks : At(t, "replay") => record.status \in Final
    /\ \A a \in answers : record.status \in Final
                            /\ a = [payload |-> record.payload, result |-> record.result]

IInv ==
    /\ TypeOK
    /\ PayloadInv
    /\ MaxAge < Lease => LeaseIsExclusive /\ AnswersAreRecorded

=============================================================================
