------------------------------ MODULE Refunds ------------------------------
(***************************************************************************)
(* The refunds of one paid order: lib/refunds/service.ts, status.ts and the  *)
(* refund entries of lib/finance/ledger.ts.                                  *)
(*                                                                         *)
(* Creating a refund reserves balance, calls the provider, and writes what   *)
(* the provider answers; these are separate statements that requests for the *)
(* same refund or for others run between.  Only the insertion of a new       *)
(* refund locks the order row.  The order stays SUCCEEDED.                   *)
(*                                                                         *)
(* Amounts are in cents.  They are compared as floating point numbers with a *)
(* tolerance of 0.01, so that one cent may pass or not: the slip.            *)
(***************************************************************************)
EXTENDS Integers, FiniteSets, FiniteSetsExt

CONSTANTS
    Refunds,        \* external refund ids
    None,           \* the refund of no request
    Tasks,          \* concurrent requests
    Amount,         \* the amount of the order
    Requests,       \* the amounts asked for
    UnknownAnswers, \* a query for a refund the provider does not have is answered
                    \* "processing" (Alipay) instead of an error (WeChat Pay)
    MaxFaults       \* bound on lost answers, failed statements and crashes

ASSUME RefundsAssumption ==
    /\ IsFiniteSet(Refunds)
    /\ None \notin Refunds
    /\ Amount \in Nat \ {0}
    /\ Requests \subseteq Nat \ {0}
    /\ UnknownAnswers \subseteq {"processing"}
    /\ MaxFaults \in Nat

VARIABLES
    refunds,   \* the rows of PaymentRefund
    booked,    \* the refunds that have a ledger entry
    provider,  \* what the provider has made of each refund
    tasks,     \* what every request is doing
    returned,  \* history: a FAILED refund has left that status, or the provider had taken it
               \* over when it was given that status, or did so afterwards
    faults

vars == <<refunds, booked, provider, tasks, returned, faults>>

-----------------------------------------------------------------------------

RefundStatuses == {"PENDING", "PROCESSING", "SUCCEEDED", "FAILED"}

Answers == {"processing", "success", "failed"}

\* "none" is the status of a refund that has no row.
Row == [status : RefundStatuses \cup {"none"}, amount : {0} \cup Requests]

NoRow == [status |-> "none", amount |-> 0]

PCs == {"idle", "query", "read", "write", "book", "reload",
        "reserve", "check", "reset", "send", "catch"}

\* "submit" is a creation that has entered the try block around the provider call.
Task == [op : {"get", "create", "submit"}, pc : PCs, refund : Refunds \cup {None},
         amount : {0} \cup Requests, snap : RefundStatuses \cup {"none"}, note : Answers]

Beginning(op, pc, r, a) ==
    [op |-> op, pc |-> pc, refund |-> r, amount |-> a, snap |-> "none", note |-> "processing"]

Idle == Beginning("get", "idle", None, 0)

At(t, pc) == tasks[t].pc = pc

Become(t, task) == tasks' = [tasks EXCEPT ![t] = task]

GoTo(t, pc) == Become(t, [tasks[t] EXCEPT !.pc = pc])

\* Go on, with no further use for what was read.
Proceed(t, pc) == Become(t, Beginning(tasks[t].op, pc, tasks[t].refund, tasks[t].amount))

\* The try block around the provider call.
Submit(t) == Become(t, Beginning("submit", "send", tasks[t].refund, 0))

Done(t) == Become(t, Idle)

RowOf(t) == refunds[tasks[t].refund]

Fault == faults < MaxFaults /\ faults' = faults + 1

Slips == {0, 1}

Init ==
    /\ refunds = [r \in Refunds |-> NoRow]
    /\ booked = {}
    /\ provider = [r \in Refunds |-> "none"]
    /\ tasks = [t \in Tasks |-> Idle]
    /\ returned = FALSE
    /\ faults = 0

-----------------------------------------------------------------------------
(* The balance                                                               *)

\* Mutant: a refund the provider has taken over is no longer reserved.
ReservingSent == {"PENDING", "SUCCEEDED"}

\* The statuses whose amounts are reserved.
Reserving == {"PENDING", "PROCESSING", "SUCCEEDED"}

\* What a set of refunds amounts to in the table "rows".
Total(rows, set) == MapThenSumSet(LAMBDA r : rows[r].amount, set)

\* The amounts reserved by a set of refunds.
Reserved(set) == Total(refunds, {r \in set : refunds[r].status \in Reserving})

\* assertRefundAmount, given what others have reserved.
Fits(amount, others, slip) == amount <= Amount - Reserved(others) + slip

\* assertExistingRefundMatches.
Matches(row, amount, slip) == amount - row.amount \in -slip .. slip

-----------------------------------------------------------------------------
(* What a notification of the provider makes of a row                        *)

\* Mutant: a refund that has failed remains so.
ResolveFailedIsFinal(current, note) ==
    CASE current \in {"SUCCEEDED", "FAILED"} -> current
      [] note = "success" -> "SUCCEEDED"
      [] note = "failed" -> "FAILED"
      [] OTHER -> "PROCESSING"

\* Mutant: acceptance is taken for success.
ResolveEagerly(current, note) == IF note = "failed" THEN "FAILED" ELSE "SUCCEEDED"

\* resolveRefundStatus.
ResolveRefundStatus(current, note) ==
    CASE note = "success" \/ current = "SUCCEEDED" -> "SUCCEEDED"
      [] note = "failed" /\ current # "SUCCEEDED" -> "FAILED"
      [] OTHER -> "PROCESSING"

\* findUnique of applyPaymentRefundNotificationById ...
Read(t) ==
    /\ At(t, "read")
    /\ Become(t, [tasks[t] EXCEPT !.pc = "write", !.snap = RowOf(t).status])
    /\ UNCHANGED <<refunds, booked, provider, returned, faults>>

\* ... and its update.
Write(t) ==
    LET status == ResolveRefundStatus(tasks[t].snap, tasks[t].note)
    IN
    /\ At(t, "write")
    /\ refunds' = [refunds EXCEPT ![tasks[t].refund].status = status]
    /\ returned' = (returned \/ (RowOf(t).status = "FAILED" /\ status # "FAILED"))
    /\ Proceed(t, IF status = "SUCCEEDED" THEN "book" ELSE "reload")
    /\ UNCHANGED <<booked, provider, faults>>

\* syncPaymentRefundLedgerEntries reads the row again.
Book(t) ==
    /\ At(t, "book")
    /\ booked' = IF RowOf(t).status = "SUCCEEDED" THEN booked \cup {tasks[t].refund} ELSE booked
    /\ GoTo(t, "reload")
    /\ UNCHANGED <<refunds, provider, returned, faults>>

\* loadPaymentRefundById: a creation goes on only with a refund that has failed.
Reload(t) ==
    /\ At(t, "reload")
    /\ IF tasks[t].op = "create" /\ RowOf(t).status = "FAILED" THEN GoTo(t, "check") ELSE Done(t)
    /\ UNCHANGED <<refunds, booked, provider, returned, faults>>

-----------------------------------------------------------------------------
(* What the provider has of a refund                                         *)

\* It has none, although a submission is on its way ("late"), or has failed it, although
\* another submission is on its way ("again"): the client has given up on the answer.
ProviderStates == Answers \cup {"none", "late", "again"}

OnItsWay(r) == provider[r] \in {"late", "again"}

\* The provider has the refund and has not refused it.
Taken(r) == provider[r] \in {"processing", "success"}

\* What a query finds.
Standing(r) ==
    CASE provider[r] = "late" -> "none" [] provider[r] = "again" -> "failed" [] OTHER -> provider[r]

\* What the provider may make of a submission: it knows a refund by its external id.
Submissions(r) == IF Taken(r) THEN {provider[r]} ELSE Answers

\* What a submission may have done when the client gives up: nothing, all, or nothing yet.
Outcomes(r) ==
    {provider[r]} \cup Submissions(r)
        \cup (CASE provider[r] = "none" -> {"late"} [] provider[r] = "failed" -> {"again"} [] OTHER -> {})

-----------------------------------------------------------------------------
(* Requests                                                                  *)

\* getMerchantPaymentRefund.
Get(t, r) ==
    /\ At(t, "idle")
    /\ refunds[r].status # "none"
    /\ Become(t, Beginning("get", "query", r, 0))
    /\ UNCHANGED <<refunds, booked, provider, returned, faults>>

\* createMerchantPaymentRefund, up to the look-up of an existing refund.
Create(t, r, amount) ==
    /\ At(t, "idle")
    /\ \/ /\ refunds[r].status = "none"
          /\ Become(t, Beginning("create", "reserve", r, amount))
       \/ /\ refunds[r].status # "none"
          /\ \E slip \in Slips : Matches(refunds[r], amount, slip)
          /\ Become(t, Beginning("create", "query", r, amount))
    /\ UNCHANGED <<refunds, booked, provider, returned, faults>>

\* syncPaymentRefundFromProvider: the provider's answer, or its error, which ends the request.
Query(t) ==
    LET known == Standing(tasks[t].refund)
    IN
    /\ At(t, "query")
    /\ \/ \E note \in Answers \cap (IF known = "none" THEN UnknownAnswers ELSE {known}) :
              Become(t, [tasks[t] EXCEPT !.pc = "read", !.note = note])
       \/ known = "none" /\ UnknownAnswers = {} /\ Done(t)
    /\ UNCHANGED <<refunds, booked, provider, returned, faults>>

\* The transaction that locks the order, sums the reserved amounts and inserts the refund;
\* an error ends the request.
Reserve(t) ==
    LET r == tasks[t].refund
    IN
    /\ At(t, "reserve")
    /\ \E slip \in Slips :
         IF RowOf(t).status = "none" /\ Fits(tasks[t].amount, Refunds, slip)
         THEN /\ refunds' = [refunds EXCEPT ![r] = [status |-> "PENDING", amount |-> tasks[t].amount]]
              /\ Submit(t)
         ELSE UNCHANGED refunds /\ Done(t)
    /\ UNCHANGED <<booked, provider, returned, faults>>

\* For a refund that has failed the balance is read without a lock ...
Check(t) ==
    /\ At(t, "check")
    /\ \E slip \in Slips :
         IF Fits(tasks[t].amount, Refunds \ {tasks[t].refund}, slip) THEN GoTo(t, "reset") ELSE Done(t)
    /\ UNCHANGED <<refunds, booked, provider, returned, faults>>

\* ... and the row becomes PENDING whatever it is by then.
Reset(t) ==
    /\ At(t, "reset")
    /\ refunds' = [refunds EXCEPT ![tasks[t].refund] =
                     [status |-> "PENDING", amount |-> tasks[t].amount]]
    /\ returned' = (returned \/ RowOf(t).status = "FAILED")
    /\ Submit(t)
    /\ UNCHANGED <<booked, provider, faults>>

\* provider.createRefund.
Send(t) ==
    LET r == tasks[t].refund
    IN
    /\ At(t, "send")
    /\ \E answer \in Submissions(r) :
         /\ provider' = [provider EXCEPT ![r] = answer]
         /\ Become(t, [tasks[t] EXCEPT !.pc = "read", !.note = answer])
    /\ UNCHANGED <<refunds, booked, returned, faults>>

\* It throws: the provider refuses, or its answer is lost or comes too late.
SendFails(t) ==
    LET r == tasks[t].refund
    IN
    /\ At(t, "send")
    /\ Fault
    /\ \E state \in Outcomes(r) : provider' = [provider EXCEPT ![r] = state]
    /\ Proceed(t, "catch")
    /\ UNCHANGED <<refunds, booked, returned>>

\* A statement of the try block throws.
StatementFails(t) ==
    /\ tasks[t].op = "submit" /\ tasks[t].pc \in {"read", "write", "book", "reload"}
    /\ Fault
    /\ Proceed(t, "catch")
    /\ UNCHANGED <<refunds, booked, provider, returned>>

\* The catch block, whatever the provider has made of the refund.
Catch(t) ==
    /\ At(t, "catch")
    /\ refunds' = [refunds EXCEPT ![tasks[t].refund].status = "FAILED"]
    /\ returned' = (returned \/ Taken(tasks[t].refund))
    /\ Done(t)
    /\ UNCHANGED <<booked, provider, faults>>

\* The process dies, or a statement outside of the try block throws.
Crash(t) ==
    /\ ~At(t, "idle")
    /\ Fault
    /\ Done(t)
    /\ UNCHANGED <<refunds, booked, provider, returned>>

-----------------------------------------------------------------------------
(* The provider and the finance worker                                       *)

\* The provider ends a refund it processes.
Settle(r) ==
    /\ provider[r] = "processing"
    /\ \E answer \in {"success", "failed"} : provider' = [provider EXCEPT ![r] = answer]
    /\ UNCHANGED <<refunds, booked, tasks, returned, faults>>

\* It gets a submission the client has given up on.
Arrive(r) ==
    /\ OnItsWay(r)
    /\ \E answer \in Answers :
         /\ provider' = [provider EXCEPT ![r] = answer]
         /\ returned' = (returned \/ (refunds[r].status = "FAILED" /\ answer # "failed"))
    /\ UNCHANGED <<refunds, booked, tasks, faults>>

\* The refunds backfillMerchantLedgerEntries selects.
Backfills(r) == refunds[r].status = "SUCCEEDED"

Backfill(r) ==
    /\ Backfills(r)
    /\ booked' = booked \cup {r}
    /\ UNCHANGED <<refunds, provider, tasks, returned, faults>>

-----------------------------------------------------------------------------

Step(t) ==
    \/ Query(t) \/ Read(t) \/ Write(t) \/ Book(t) \/ Reload(t)
    \/ Reserve(t) \/ Check(t) \/ Reset(t) \/ Send(t) \/ Catch(t)

Next ==
    \/ \E t \in Tasks : Step(t) \/ SendFails(t) \/ StatementFails(t) \/ Crash(t)
    \/ \E t \in Tasks, r \in Refunds : Get(t, r)
    \/ \E t \in Tasks, r \in Refunds, amount \in Requests : Create(t, r, amount)
    \/ \E r \in Refunds : Settle(r) \/ Arrive(r) \/ Backfill(r)

Spec == Init /\ [][Next]_vars

\* A request that runs goes on, and the finance worker runs again and again.  Nothing
\* obliges the provider or the merchant.
Fairness ==
    /\ \A t \in Tasks : WF_vars(Step(t))
    /\ \A r \in Refunds : WF_vars(Backfill(r))

FairSpec == Spec /\ Fairness

-----------------------------------------------------------------------------
(* Properties                                                                *)

TypeOK ==
    /\ refunds \in [Refunds -> Row]
    /\ booked \subseteq Refunds
    /\ provider \in [Refunds -> ProviderStates]
    /\ tasks \in [Tasks -> Task]
    /\ returned \in BOOLEAN
    /\ faults \in 0 .. MaxFaults

\* What the merchant has asked to refund, without what it was told has failed and the
\* provider does not have either.
Refunded == Total(refunds, {r \in Refunds : refunds[r].status # "FAILED" \/ Taken(r)})

\* The "sum(refunds) <= order.amount" invariant (refunds/service.ts:357) holds, but for the cent
\* of the tolerance, and of the money the provider moves as well as of the rows, as long as no
\* refund comes back from FAILED or is FAILED only for want of an answer (461): the lock (367)
\* makes concurrent creations of different refunds see each other, and the notifications that
\* race with them move no balance.
RefundedUnlessReturned == ~returned => Refunded <= Amount + 1

\* A refund shown as SUCCEEDED, or debited from the merchant, is one the provider has made,
\* although both are written from answers and rows read earlier (refunds/service.ts:179).
SuccessIsReal ==
    \A r \in Refunds : refunds[r].status = "SUCCEEDED" \/ r \in booked => provider[r] = "success"

\* A refund that succeeds is debited, even if the request dies between its update and the
\* ledger (refunds/service.ts:205), unless it is overwritten first.
SucceededIsBooked ==
    \A r \in Refunds :
        refunds[r].status = "SUCCEEDED" ~> r \in booked \/ refunds[r].status # "SUCCEEDED"

\* A refund the provider has made is debited if the merchant asks for it again and again,
\* even if the answer was lost and the catch block (refunds/service.ts:461) failed it.
RefundIsBooked ==
    \A r \in Refunds :
        SF_vars(\E t \in Tasks : Get(t, r)) => (provider[r] = "success" ~> r \in booked)

-----------------------------------------------------------------------------
(* The inductive invariant behind SuccessIsReal.                             *)

\* What a request has learnt of a success is true for good.
LearntIsReal ==
    \A t \in Tasks :
        /\ tasks[t].pc \in {"read", "write"} /\ tasks[t].note = "success"
               => provider[tasks[t].refund] = "success"
        /\ tasks[t].pc = "write" /\ tasks[t].snap = "SUCCEEDED"
               => provider[tasks[t].refund] = "success"

\* A request that runs is about a refund.
Working == \A t \in Tasks : tasks[t].pc # "idle" => tasks[t].refund \in Refunds

IInv == TypeOK /\ Working /\ SuccessIsReal /\ LearntIsReal

-----------------------------------------------------------------------------
(* The inductive invariant behind RefundedUnlessReturned.                    *)

Submits(t) == tasks[t].op = "submit"

\* A request that has looked a refund up finds its row, and a refund without a row is worth
\* nothing and unknown to the provider.
RowsAreThere ==
    /\ \A t \in Tasks :
          /\ tasks[t].pc \notin {"idle", "reserve"} => RowOf(t).status # "none"
          /\ Submits(t) => tasks[t].pc \notin {"idle", "reserve"}
    /\ \A r \in Refunds : refunds[r].status = "none" => refunds[r].amount = 0 /\ provider[r] = "none"

\* A refund is FAILED only if the provider does not have it ...
FailedIsFree == \A r \in Refunds : refunds[r].status = "FAILED" => ~Taken(r)

\* ... and will not get it: one request submits it, once ...
SubmittedOnce ==
    /\ \A t, u \in Tasks : Submits(t) /\ Submits(u) /\ tasks[t].refund = tasks[u].refund => t = u
    /\ \A t \in Tasks : tasks[t].pc = "send" =>
           Submits(t) /\ provider[tasks[t].refund] = "none" /\ RowOf(t).status # "FAILED"
    /\ \A r \in Refunds : provider[r] # "again"

\* ... what a request has learnt of a failure is true, only who submits can be refused, and
\* who retries has seen a failure that lasts.
FailureIsKnown ==
    \A t \in Tasks :
        /\ tasks[t].pc \in {"read", "write"} /\ tasks[t].note = "failed"
               => provider[tasks[t].refund] = "failed"
        /\ tasks[t].pc = "catch" => Submits(t)
        /\ tasks[t].pc \in {"check", "reset"} => RowOf(t).status = "FAILED"

BudgetInv ==
    /\ RowsAreThere
    /\ ~returned => FailedIsFree /\ SubmittedOnce /\ FailureIsKnown /\ Refunded <= Amount + 1

=============================================================================
