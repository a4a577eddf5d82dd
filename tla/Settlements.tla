---------------------------- MODULE Settlements ----------------------------
(***************************************************************************)
(* The daily settlements and balance snapshots of one merchant in one        *)
(* currency: lib/finance/settlements.ts, lib/finance/calculations.ts and     *)
(* scripts/finance-worker.ts.                                                *)
(*                                                                         *)
(* A maintenance run reads the ledger once, then looks at the settlement of  *)
(* each day and writes it in a later statement.  An administrator reads a    *)
(* settlement and pays it in a transaction that takes no lock on what it     *)
(* read.  Both then rewrite the snapshots.                                   *)
(*                                                                         *)
(* The amounts of a settlement are sums over ledger entries of its day; the  *)
(* model keeps the set of those entries, from which every amount follows.    *)
(***************************************************************************)
EXTENDS Integers, FiniteSets, FiniteSetsExt

CONSTANTS
    Entries,    \* the captures, fees and refunds that may occur
    Amount,     \* what each adds to the balance, negative for a debit
    Follows,    \* what must have occurred before: a payment before its refund
    Workers,    \* finance workers
    Admins,     \* requests of administrators
    Hold,       \* SETTLEMENT_HOLD_DAYS
    MaxDay,     \* bound on time
    MaxFaults   \* bound on errors and crashes

Tasks == Workers \cup Admins
Days == 1 .. MaxDay

ASSUME SettlementsAssumption ==
    /\ IsFiniteSet(Entries)
    /\ Amount \in [Entries -> Int]
    /\ Follows \in [Entries -> SUBSET Entries]
    /\ Hold \in Nat
    /\ MaxDay \in Nat \ {0}
    /\ MaxFaults \in Nat

VARIABLES
    today,
    occurred,  \* the day of paidAt or refundedAt, 0 if it has not occurred
    booked,    \* the entries that are in the ledger
    rows,      \* the settlement of each day
    payouts,   \* the ledger entry settlement:payout:<id> of each day
    snaps,     \* the closing balance of each day, 0 where there is no snapshot
    tasks,
    closings,  \* the closing balances each task has computed
    raced,     \* history: the days whose settlement was written by a task after it had
               \* changed under it
    faults

balances == <<snaps, closings>>

vars == <<today, occurred, booked, rows, payouts, balances, tasks, raced, faults>>

-----------------------------------------------------------------------------

\* The code never writes PROCESSING or FAILED.
SettlementStatuses == {"none", "PENDING", "PAID"}

Settlement == [status : SettlementStatuses, entries : SUBSET Entries]

\* Day 0: there is no payout.
Payout == [day : 0 .. MaxDay, entries : SUBSET Entries]

PCs == {"idle", "entries", "find", "upsert", "pay", "snapread", "snap"}

\* What a task has read: the entries, the days it has left, the
\* settlement it is about and the date; "stale" is history: that settlement has changed
\* since it was read.
Task == [pc : PCs, taken : SUBSET Entries, todo : SUBSET Days,
         day : 0 .. MaxDay, now : 0 .. MaxDay, stale : BOOLEAN]

NoClosings == [d \in Days |-> 0]

Beginning(pc) ==
    [pc |-> pc, taken |-> {}, todo |-> {}, day |-> 0, now |-> 0, stale |-> FALSE]

Idle == Beginning("idle")

At(t, pc) == tasks[t].pc = pc

Become(t, task) == tasks' = [tasks EXCEPT ![t] = task]

Init ==
    /\ today = 1
    /\ occurred = [e \in Entries |-> 0]
    /\ booked = {}
    /\ rows = [d \in Days |-> [status |-> "none", entries |-> {}]]
    /\ payouts = [d \in Days |-> [day |-> 0, entries |-> {}]]
    /\ snaps = NoClosings
    /\ tasks = [t \in Tasks |-> Idle]
    /\ closings = [t \in Tasks |-> NoClosings]
    /\ raced = {}
    /\ faults = 0

-----------------------------------------------------------------------------
(* Sums                                                                      *)

Net(set) == MapThenSumSet(LAMBDA e : Amount[e], set)

OfDay(set, d) == {e \in set : occurred[e] = d}

\* The days of the ledger's entries, payouts included.
LedgerDays == {occurred[e] : e \in booked} \cup ({payouts[d].day : d \in Days} \ {0})

\* buildDailyBalanceSnapshots.
Closing(d) ==
    Net({e \in booked : occurred[e] <= d})
    - MapThenSumSet(LAMBDA p : Net(payouts[p].entries), {p \in Days : payouts[p].day \in 1 .. d})

\* The loops go from the oldest day to the newest.
First(todo, d) == d \in todo /\ \A x \in todo : d <= x

-----------------------------------------------------------------------------
(* Payments and refunds, as the other services leave them                    *)

Tick ==
    /\ today < MaxDay
    /\ today' = today + 1
    /\ UNCHANGED <<occurred, booked, rows, payouts, balances, tasks, raced, faults>>

\* The bound leaves every day the time to be settled.
Occur(e) ==
    /\ occurred[e] = 0
    /\ \A p \in Follows[e] : occurred[p] # 0
    /\ today + Hold <= MaxDay
    /\ occurred' = [occurred EXCEPT ![e] = today]
    /\ UNCHANGED <<today, booked, rows, payouts, balances, tasks, raced, faults>>

\* The service that saw it books it, on that day or later: a notification may be late, and
\* a crash leaves it to the backfill of a maintenance run.
Book(e) ==
    /\ occurred[e] # 0
    /\ booked' = booked \cup {e}
    /\ UNCHANGED <<today, occurred, rows, payouts, balances, tasks, raced, faults>>

-----------------------------------------------------------------------------
(* runFinanceMaintenance                                                     *)

\* The backfill: what has occurred is booked.
Maintain(t) ==
    /\ At(t, "idle")
    /\ booked' = booked \cup {e \in Entries : occurred[e] # 0}
    /\ Become(t, Beginning("entries"))
    /\ UNCHANGED <<today, occurred, rows, payouts, balances, raced, faults>>

\* Mutant: yesterday's entries are never old enough.
CutoffTooEarly == today - Hold - 1

\* The last day that is settled.
Cutoff == today - Hold

\* syncMerchantSettlements reads the ledger ...
ReadEntries(t) ==
    LET taken == {e \in booked : occurred[e] <= Cutoff}
    IN
    /\ At(t, "entries")
    /\ Become(t, [Beginning("find") EXCEPT !.taken = taken, !.todo = {occurred[e] : e \in taken}])
    /\ UNCHANGED <<today, occurred, booked, rows, payouts, balances, raced, faults>>

\* Mutant: a settlement that is PAID is recomputed.
LockedNever(d) == FALSE

Locked(d) == rows[d].status = "PAID"

\* ... and, for one day after the other, the settlement ...
Find(t) ==
    /\ At(t, "find")
    /\ \/ /\ tasks[t].todo = {}
          /\ Become(t, Beginning("snapread"))
       \/ \E d \in Days :
            /\ First(tasks[t].todo, d)
            /\ Become(t, IF Locked(d)
                         THEN [tasks[t] EXCEPT !.todo = @ \ {d}]
                         ELSE [tasks[t] EXCEPT !.todo = @ \ {d}, !.pc = "upsert", !.day = d])
    /\ UNCHANGED <<today, occurred, booked, rows, payouts, balances, raced, faults>>

\* The settlement of day d is written by t, which becomes "task".
WriteRow(t, d, row, task) ==
    /\ rows' = [rows EXCEPT ![d] = row]
    /\ raced' = IF tasks[t].stale THEN raced \cup {d} ELSE raced
    /\ tasks' = [u \in Tasks |->
                   IF u = t THEN task
                   ELSE IF tasks[u].day = d /\ row # rows[d] THEN [tasks[u] EXCEPT !.stale = TRUE]
                   ELSE tasks[u]]

\* ... which it writes with the status that was read, PENDING or none.
Upsert(t) ==
    LET d == tasks[t].day
    IN
    /\ At(t, "upsert")
    /\ WriteRow(t, d, [status |-> "PENDING", entries |-> OfDay(tasks[t].taken, d)],
                [tasks[t] EXCEPT !.pc = "find", !.day = 0, !.stale = FALSE])
    /\ UNCHANGED <<today, occurred, booked, payouts, balances, faults>>

\* Mutant: the snapshots leave payouts out.
ReadClosingsUnpaid(t) ==
    /\ At(t, "snapread")
    /\ Become(t, [Beginning("snap") EXCEPT !.todo = LedgerDays])
    /\ closings' = [closings EXCEPT ![t] =
                      [d \in Days |-> IF d \in LedgerDays
                                      THEN Net({e \in booked : occurred[e] <= d}) ELSE 0]]
    /\ UNCHANGED <<today, occurred, booked, rows, payouts, snaps, raced, faults>>

\* syncMerchantBalanceSnapshots reads the ledger ...
ReadClosings(t) ==
    /\ At(t, "snapread")
    /\ Become(t, [Beginning("snap") EXCEPT !.todo = LedgerDays])
    /\ closings' = [closings EXCEPT ![t] =
                      [d \in Days |-> IF d \in LedgerDays THEN Closing(d) ELSE 0]]
    /\ UNCHANGED <<today, occurred, booked, rows, payouts, snaps, raced, faults>>

\* ... and writes one day after the other.
Snap(t) ==
    /\ At(t, "snap")
    /\ \/ /\ tasks[t].todo = {}
          /\ Become(t, Idle)
          /\ UNCHANGED balances
       \/ \E d \in Days :
            /\ First(tasks[t].todo, d)
            /\ snaps' = [snaps EXCEPT ![d] = closings[t][d]]
            /\ closings' = [closings EXCEPT ![t][d] = 0]
            /\ Become(t, [tasks[t] EXCEPT !.todo = @ \ {d}])
    /\ UNCHANGED <<today, occurred, booked, rows, payouts, raced, faults>>

-----------------------------------------------------------------------------
(* markMerchantSettlementPaid                                                *)

\* A settlement that is not positive is refused.
Payable(d) == ~Locked(d) /\ Net(rows[d].entries) > 0

\* The transaction reads the settlement; one that is PAID is returned as it is.
MarkPaid(t, d) ==
    /\ At(t, "idle")
    /\ rows[d].status # "none"
    /\ \/ Locked(d) /\ Become(t, Beginning("snapread"))
       \/ Payable(d) /\ Become(t, [Beginning("pay") EXCEPT
                                        !.day = d, !.now = today, !.taken = rows[d].entries])
    /\ UNCHANGED <<today, occurred, booked, rows, payouts, balances, raced, faults>>

\* Mutant: the payout is recomputed from the ledger.
PaidOutRecomputed(t) == OfDay(booked, tasks[t].day)

\* What is paid out is the amount that was read.
PaidOut(t) == tasks[t].taken

\* It writes the payout and the settlement, and commits.
Pay(t) ==
    LET d == tasks[t].day
    IN
    /\ At(t, "pay")
    /\ payouts' = [payouts EXCEPT ![d] = [day |-> tasks[t].now, entries |-> PaidOut(t)]]
    /\ WriteRow(t, d, [rows[d] EXCEPT !.status = "PAID"], Beginning("snapread"))
    /\ UNCHANGED <<today, occurred, booked, balances, faults>>

\* An error, which also ends a finance worker until it is restarted, or a crash.
Fail(t) ==
    /\ ~At(t, "idle")
    /\ faults < MaxFaults
    /\ faults' = faults + 1
    /\ Become(t, Idle)
    /\ closings' = [closings EXCEPT ![t] = NoClosings]
    /\ UNCHANGED <<today, occurred, booked, rows, payouts, snaps, raced>>

-----------------------------------------------------------------------------

Step(t) == ReadEntries(t) \/ Find(t) \/ Upsert(t) \/ ReadClosings(t) \/ Snap(t) \/ Pay(t)

Next ==
    \/ Tick
    \/ \E e \in Entries : Occur(e) \/ Book(e)
    \/ \E t \in Tasks : Maintain(t) \/ Step(t) \/ Fail(t)
    \/ \E t \in Admins, d \in Days : MarkPaid(t, d)

Spec == Init /\ [][Next]_vars

\* Days pass, what runs goes on, and the finance worker runs again and again.  No one has
\* to pay a settlement or to book what has occurred.
Fairness ==
    /\ WF_vars(Tick)
    /\ \A t \in Tasks : WF_vars(Step(t))
    /\ \A t \in Workers : WF_vars(Maintain(t))

FairSpec == Spec /\ Fairness

-----------------------------------------------------------------------------
(* Properties                                                                *)

\* The types without the balances.
SettlementTypes ==
    /\ today \in 1 .. MaxDay
    /\ occurred \in [Entries -> 0 .. MaxDay]
    /\ booked \subseteq Entries
    /\ rows \in [Days -> Settlement]
    /\ payouts \in [Days -> Payout]
    /\ tasks \in [Tasks -> Task]
    /\ raced \subseteq Days
    /\ faults \in 0 .. MaxFaults

\* The type invariant.
TypeOK ==
    /\ SettlementTypes
    /\ snaps \in [Days -> Int]
    /\ closings \in [Tasks -> [Days -> Int]]

\* A settlement shown as PAID has a payout of exactly the amount it shows, although the
\* amount is read by one statement and the day may be recomputed before it is written
\* (settlements.ts:295, 149), unless a write raced.
PaidOutAsShown ==
    \A d \in Days :
        rows[d].status = "PAID" /\ d \notin raced
            => payouts[d].day # 0 /\ payouts[d].entries = rows[d].entries

\* Whatever races, what is paid out for a day is the sum of entries of that day that are in
\* the ledger, none of them twice (settlements.ts:78, 325).
PaidFromItsDay ==
    \A d \in Days : payouts[d].entries \subseteq OfDay(booked, d)

\* A settlement that is PAID never changes, so that it is not paid a second time, unless it
\* is written by a task that looked at it before it was paid (settlements.ts:122, 159).
PaidIsFrozen ==
    [][\A d \in Days : rows[d].status = "PAID" /\ d \notin raced' => rows'[d] = rows[d]]_vars

\* In the end every entry is in the settlement of its day, or came too late: after that was
\* paid (settlements.ts:132).  Races only delay it.
EntriesAreSettled ==
    \A e \in Entries :
        <>[](occurred[e] # 0 =>
               \E d \in Days : /\ occurred[e] = d
                               /\ e \in rows[d].entries \/ rows[d].status = "PAID")

\* In the end the snapshots are the balances of the ledger, although older runs write older
\* balances over newer ones (settlements.ts:246).
SnapshotsConverge == <>[](\A d \in LedgerDays : snaps[d] = Closing(d))

-----------------------------------------------------------------------------
(* The inductive invariant behind PaidOutAsShown, PaidFromItsDay and         *)
(* PaidIsFrozen.                                                             *)

\* What a task has read from the ledger is still there.
TaskReads(task) ==
    /\ task.taken \subseteq booked
    /\ task.pc = "pay" => task.taken \subseteq OfDay(booked, task.day)

ReadFromLedger ==
    /\ \A e \in booked : occurred[e] # 0
    /\ \A d \in Days : rows[d].entries \subseteq OfDay(booked, d)
    /\ \A t \in Tasks : TaskReads(tasks[t])

\* A task that has looked at a settlement knows it, unless it is stale.
TaskKnows(task) ==
    /\ task.pc \in {"upsert", "pay"} => task.day \in Days
    /\ task.pc \in {"upsert", "pay"} /\ ~task.stale => rows[task.day].status # "PAID"
    /\ task.pc = "pay" => task.now # 0
    /\ task.pc = "pay" /\ ~task.stale => task.taken = rows[task.day].entries

KnownUnlessStale == \A t \in Tasks : TaskKnows(tasks[t])

IInv == SettlementTypes /\ ReadFromLedger /\ KnownUnlessStale /\ PaidOutAsShown /\ PaidFromItsDay

=============================================================================
