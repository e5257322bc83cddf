------------------------------- MODULE Ledger -------------------------------
(***************************************************************************)
(* The money side of the backend: bills, the payments made against them,   *)
(* the fines that accrue on them and the notices sent about them, as       *)
(* changed by resident and administrator requests                          *)
(* (services/payment_service.py, services/billing_service.py) and by the   *)
(* three daily jobs that look after issued bills (jobs/definitions.py).    *)
(*                                                                         *)
(* A handler is a sequence of database transactions run by one thread: it  *)
(* loads what it needs (a SELECT that holds no lock), decides, and commits *)
(* later.  Each action below is one load or one commit, so what a handler  *)
(* knows between the two is a snapshot kept in thread[t].  With a single   *)
(* thread handlers never overlap; with more they do.                       *)
(***************************************************************************)
EXTENDS Integers, FiniteSets, Sequences

CONSTANTS
    Bills,          \* the bills of one generated billing period
    Payments,       \* payment ids: rows the payments table can still receive
    Threads,        \* handler threads (request thread pool, scheduler pool)
    Processes,      \* backend processes, each firing every job once a day
    DueDay,         \* Bill.due_date
    AmountDue,      \* Bill.amount_due
    FinePerDay,     \* BillingPeriod.fine_per_day_overdue
    MaxDay,         \* bound: last day of the calendar that is explored
    MaxCrashes      \* bound: restarts that are explored

ASSUME LedgerAssumption ==
    /\ Processes \in Nat \ {0}
    /\ DueDay \in [Bills -> Nat]
    /\ AmountDue \in [Bills -> Int]
    /\ FinePerDay \in Nat
    /\ MaxDay \in Nat
    /\ MaxCrashes \in Nat

VARIABLES
    today,      \* date.today()
    crashes,    \* restarts so far
    fired,      \* fired[j]: processes whose scheduler has fired job j today
    bill,       \* the bills table
    payment,    \* the payments table
    fineDays,   \* fineDays[b]: accrual dates of the fines rows of bill b
    log,        \* log[b][e]: audit and notification rows of kind e about b
    reminders,  \* reminders[b]: PAYMENT_REMINDER rows created today
    thread,     \* thread[t]: the operation t is in the middle of
    job         \* job[t]: the job whose loop t is in, and its list of bills

tables == <<bill, payment, fineDays>>
vars == <<today, crashes, fired, tables, log, reminders, thread, job>>

\* Mutant: the enumeration forgets a member.
BillStatusWithoutCancelled == {"issued", "overdue", "paid", "waived"}

BillStatus == {"issued", "overdue", "paid", "waived", "cancelled"}

PayableStatuses == {"issued", "overdue"}

\* Mutant: an administrator may also waive or cancel what has been paid.
ReleasableOrPaid == {"issued", "overdue", "paid"}

\* Statuses that waive_bill and cancel_bill accept.
ReleasableStatuses == {"issued", "overdue"}

Jobs == {"due", "fine", "reminder"}

\* Rows written after the commit they report on, each by a commit of its own.
Effects == {"bill.auto_overdue", "bill.fine_accrued", "bill.waive",
            "bill.cancel", "payment.initiate", "payment.confirm",
            "payment.mark_offline",
            "notify.overdue", "notify.overdue_admin", "notify.fine"}

\* NULL in paid_at, which is modelled by its day.
Unpaid == -1

Bill == [status: BillStatus, fine: Int, total: Int, paid: Unpaid..MaxDay]

Payment == [status: {"none"}]
           \cup [status: {"initiated", "success", "failed"},
                 bill: Bills, amount: Int]

Free == [status |-> "none"]

Idle == [op |-> "idle"]

Operation ==
    {Idle}
    \cup [op: {"initiate", "offline"}, bill: Bills, amount: Int]
    \cup [op: {"waive", "cancel"}, bill: Bills]
    \cup [op: {"confirm"}, payment: Payments, ok: BOOLEAN]
    \cup [op: {"settle"}, payment: Payments, seen: BillStatus]
    \cup [op: {"charge"}, bill: Bills, base: Int]
    \cup [op: {"remind"}, bill: Bills]
    \cup [op: {"report"}, bill: Bills, rows: Seq(Effects) \ {<<>>}]

\* A job's list, and what its session holds of the bills' fine_amount: the
\* values the list was loaded with while fresh; the first commit expires them
\* all (expire_on_commit) and later accesses read the database again.
JobLoop == [kind: Jobs \cup {"none"}, todo: SUBSET Bills,
            fresh: BOOLEAN, held: [Bills -> Int]]

NothingHeld == [b \in Bills |-> 0]
NoJob == [kind |-> "none", todo |-> {}, fresh |-> FALSE, held |-> NothingHeld]

TypeOK ==
    /\ today \in 0..MaxDay
    /\ crashes \in 0..MaxCrashes
    /\ fired \in [Jobs -> 0..Processes]
    /\ bill \in [Bills -> Bill]
    /\ payment \in [Payments -> Payment]
    /\ fineDays \in [Bills -> SUBSET (0..MaxDay)]
    /\ log \in [Bills -> [Effects -> Nat]]
    /\ reminders \in [Bills -> Nat]
    /\ thread \in [Threads -> Operation]
    /\ job \in [Threads -> JobLoop]

\* Bill generation has just committed: every bill is ISSUED, without fines.
Init ==
    /\ today = 0
    /\ crashes = 0
    /\ fired = [j \in Jobs |-> 0]
    /\ bill = [b \in Bills |->
                 [status |-> "issued", fine |-> 0, total |-> AmountDue[b],
                  paid |-> Unpaid]]
    /\ payment = [p \in Payments |-> Free]
    /\ fineDays = [b \in Bills |-> {}]
    /\ log = [b \in Bills |-> [e \in Effects |-> 0]]
    /\ reminders = [b \in Bills |-> 0]
    /\ thread = [t \in Threads |-> Idle]
    /\ job = [t \in Threads |-> NoJob]

-----------------------------------------------------------------------------
(* What the handlers are made of.                                          *)

IsFree(t) == thread[t] = Idle /\ job[t] = NoJob

\* Thread t, doing nothing, starts the operation op.
Start(t, op) ==
    /\ IsFree(t)
    /\ thread' = [thread EXCEPT ![t] = op]
    /\ UNCHANGED <<today, crashes, fired, tables, log, reminders, job>>

\* Thread t has committed a change to bill b; rows report it, one by one.
ThenReport(t, b, rows) ==
    thread' = [thread EXCEPT ![t] = [op |-> "report", bill |-> b, rows |-> rows]]

SetStatus(b, s) == bill' = [bill EXCEPT ![b].status = s]

\* Mutant: the payment is recorded, the bill forgotten.
LeaveBill(b) == UNCHANGED bill

MarkBillPaid(b) ==
    bill' = [bill EXCEPT ![b].status = "paid", ![b].paid = today]

\* Mutant: the fine is added to a total that already holds it.
AskedWithFineAgain(b) == bill[b].total + bill[b].fine

\* The amount a payment copies from its bill.
Asked(b) == bill[b].total

\* Mutant: a failed payment can be confirmed after all.
ConfirmableAgain(p) == payment[p].status \in {"initiated", "failed"}

Confirmable(p) == payment[p].status = "initiated"

\* Bound: an initiate or offline payment starts only while a row is left for it.
RowLeft ==
    Cardinality({t \in Threads : thread[t].op \in {"initiate", "offline"}})
      < Cardinality({p \in Payments : payment[p] = Free})

NewPayment(p, b, amount, s) ==
    /\ payment[p] = Free
    /\ payment' = [payment EXCEPT
                     ![p] = [status |-> s, bill |-> b, amount |-> amount]]

-----------------------------------------------------------------------------
(* Requests on bills and payments.                                         *)

\* The resident's own bill is loaded once: its status is checked and its
\* total becomes the amount of the payment.
BeginInitiate(t, b) ==
    /\ bill[b].status \in PayableStatuses
    /\ RowLeft
    /\ Start(t, [op |-> "initiate", bill |-> b, amount |-> Asked(b)])

FinishInitiate(t) ==
    /\ thread[t].op = "initiate"
    /\ \E p \in Payments :
         NewPayment(p, thread[t].bill, thread[t].amount, "initiated")
    /\ ThenReport(t, thread[t].bill, <<"payment.initiate">>)
    /\ UNCHANGED <<today, crashes, fired, bill, fineDays, log, reminders, job>>

\* The provider's answer ok is the caller's choice (mock-confirm).  Only the
\* payment is checked here, never the bill.
BeginConfirm(t, p, ok) ==
    /\ Confirmable(p)
    /\ Start(t, [op |-> "confirm", payment |-> p, ok |-> ok])

FailConfirm(t) ==
    /\ thread[t].op = "confirm"
    /\ ~thread[t].ok
    /\ LET p == thread[t].payment
       IN  /\ payment' = [payment EXCEPT ![p].status = "failed"]
           /\ ThenReport(t, payment[p].bill, <<"payment.confirm">>)
    /\ UNCHANGED <<today, crashes, fired, bill, fineDays, log, reminders, job>>

LoadConfirmedBill(t) ==
    /\ thread[t].op = "confirm"
    /\ thread[t].ok
    /\ LET p == thread[t].payment
       IN  thread' = [thread EXCEPT
                        ![t] = [op |-> "settle", payment |-> p,
                                seen |-> bill[payment[p].bill].status]]
    /\ UNCHANGED <<today, crashes, fired, tables, log, reminders, job>>

\* The ORM writes only the columns whose value differs from the loaded one: a
\* bill that was loaded as PAID has paid_at but no status column in its UPDATE.
FinishConfirm(t) ==
    /\ thread[t].op = "settle"
    /\ LET p == thread[t].payment
           b == payment[p].bill
       IN  /\ payment' = [payment EXCEPT ![p].status = "success"]
           /\ IF thread[t].seen = "paid" THEN bill' = [bill EXCEPT ![b].paid = today]
                                         ELSE MarkBillPaid(b)
           /\ ThenReport(t, b, <<"payment.confirm">>)
    /\ UNCHANGED <<today, crashes, fired, fineDays, log, reminders, job>>

BeginOffline(t, b) ==
    /\ bill[b].status \in PayableStatuses
    /\ RowLeft
    /\ Start(t, [op |-> "offline", bill |-> b, amount |-> Asked(b)])

FinishOffline(t) ==
    /\ thread[t].op = "offline"
    /\ \E p \in Payments :
         NewPayment(p, thread[t].bill, thread[t].amount, "success")
    /\ MarkBillPaid(thread[t].bill)
    /\ ThenReport(t, thread[t].bill, <<"payment.mark_offline">>)
    /\ UNCHANGED <<today, crashes, fired, fineDays, log, reminders, job>>

BeginWaive(t, b) ==
    /\ bill[b].status \in ReleasableStatuses
    /\ Start(t, [op |-> "waive", bill |-> b])

FinishWaive(t) ==
    /\ thread[t].op = "waive"
    /\ SetStatus(thread[t].bill, "waived")
    /\ ThenReport(t, thread[t].bill, <<"bill.waive">>)
    /\ UNCHANGED <<today, crashes, fired, payment, fineDays, log, reminders, job>>

BeginCancel(t, b) ==
    /\ bill[b].status \in ReleasableStatuses
    /\ Start(t, [op |-> "cancel", bill |-> b])

FinishCancel(t) ==
    /\ thread[t].op = "cancel"
    /\ SetStatus(thread[t].bill, "cancelled")
    /\ ThenReport(t, thread[t].bill, <<"bill.cancel">>)
    /\ UNCHANGED <<today, crashes, fired, payment, fineDays, log, reminders, job>>

\* audit_service.record, notify_resident and notify_admin: each commits.
Report(t) ==
    /\ thread[t].op = "report"
    /\ LET b == thread[t].bill
           rows == thread[t].rows
       IN  /\ log' = [log EXCEPT ![b][Head(rows)] = @ + 1]
           /\ thread' = [thread EXCEPT
                           ![t] = IF Tail(rows) = <<>> THEN Idle
                                  ELSE [@ EXCEPT !.rows = Tail(rows)]]
    /\ UNCHANGED <<today, crashes, fired, tables, reminders, job>>

-----------------------------------------------------------------------------
(* The daily jobs.                                                         *)

InJob(t, kind) == thread[t] = Idle /\ job[t].kind = kind

\* The jobs of a day fire in the order of their hours (01:00, 01:15, 09:00).
Before == [due |-> {}, fine |-> {"due"}, reminder |-> {"due", "fine"}]

\* Mutant: the due date itself already counts as overdue.
DueOrPastDue(b) == DueDay[b] <= today

\* Mutant: only yesterday's due date is looked for.
DueYesterday(b) == DueDay[b] = today - 1

PastDue(b) == DueDay[b] < today

\* Mutant: bills that are overdue already are listed again.
SelectedAgain(kind) ==
    {b \in Bills :
       IF kind = "due" THEN bill[b].status \in PayableStatuses /\ PastDue(b)
                       ELSE bill[b].status = "overdue"}


\* The rows the job's opening query selects.
Selected(kind) ==
    {b \in Bills :
       IF kind = "due" THEN bill[b].status = "issued" /\ PastDue(b)
                       ELSE bill[b].status = "overdue"}

\* Mutant: one fine per bill, whatever the day.
FinedEver(b) == fineDays[b] # {}

\* The query by which fine_accrual looks for today's fine.
FinedToday(b) == today \in fineDays[b]

\* UNIQUE(bill_id, accrual_date) lets a fine of today in.
UniqueFine(b) == today \notin fineDays[b]

\* Mutant: the fine is kept apart and never added.
TotalWithoutFine(b, fine) == AmountDue[b]

NewTotal(b, fine) == AmountDue[b] + fine

\* Mutant: only the resident is told.
OverdueRowsForResident == <<"bill.auto_overdue", "notify.overdue">>

\* What bill_due_date_check writes about a bill it has marked.
OverdueRows == <<"bill.auto_overdue", "notify.overdue", "notify.overdue_admin">>

\* Mutant: the resident is not told.
FineRowsForAudit == <<"bill.fine_accrued">>

\* What fine_accrual writes about a bill it has fined.
FineRows == <<"bill.fine_accrued", "notify.fine">>

\* A process fires the job on a free thread.  Assumed of the calendar: a job
\* is over before the hour of the next one.
Fire(t, kind) ==
    /\ IsFree(t)
    /\ fired[kind] < Processes
    /\ \A j \in Before[kind] :
         fired[j] = Processes /\ \A u \in Threads : job[u].kind # j
    /\ fired' = [fired EXCEPT ![kind] = @ + 1]
    /\ job' = [job EXCEPT
                 ![t] = [kind |-> kind, todo |-> Selected(kind),
                         fresh |-> kind = "fine",
                         held |-> IF kind = "fine"
                                  THEN [b \in Bills |-> bill[b].fine]
                                  ELSE NothingHeld]]
    /\ UNCHANGED <<today, crashes, tables, log, reminders, thread>>

\* Thread t is done with bill b of its list.
DropTodo(t, b) == job' = [job EXCEPT ![t].todo = @ \ {b}]

\* The commit that ends a bill's turn also expires what the session loaded.
DropTodoExpired(t, b) ==
    job' = [job EXCEPT ![t] = [kind |-> @.kind, todo |-> @.todo \ {b},
                               fresh |-> FALSE, held |-> NothingHeld]]

JobDone(t) ==
    /\ thread[t] = Idle
    /\ job[t].kind # "none"
    /\ job[t].todo = {}
    /\ job' = [job EXCEPT ![t] = NoJob]
    /\ UNCHANGED <<today, crashes, fired, tables, log, reminders, thread>>

\* bill_due_date_check: the status is written without being read again.
MarkOverdue(t, b) ==
    /\ InJob(t, "due")
    /\ b \in job[t].todo
    /\ SetStatus(b, "overdue")
    /\ DropTodo(t, b)
    /\ ThenReport(t, b, OverdueRows)
    /\ UNCHANGED <<today, crashes, fired, payment, fineDays, log, reminders>>

\* fine_accrual: a bill that has today's fine is skipped, any other is charged
\* from the fine amount the session holds or, once expired, reads now.
SkipFined(t, b) ==
    /\ InJob(t, "fine")
    /\ b \in job[t].todo
    /\ FinedToday(b)
    /\ DropTodo(t, b)
    /\ UNCHANGED <<today, crashes, fired, tables, log, reminders, thread>>

\* Mutant: a fine replaces the fines before it.
NoFineSoFar(t, b) == 0

FineSoFar(t, b) == IF job[t].fresh THEN job[t].held[b] ELSE bill[b].fine

CheckFine(t, b) ==
    /\ InJob(t, "fine")
    /\ b \in job[t].todo
    /\ ~FinedToday(b)
    /\ thread' = [thread EXCEPT
                     ![t] = [op |-> "charge", bill |-> b, base |-> FineSoFar(t, b)]]
    /\ UNCHANGED <<today, crashes, fired, tables, log, reminders, job>>

ChargeFine(t) ==
    /\ thread[t].op = "charge"
    /\ LET b == thread[t].bill
           fine == thread[t].base + FinePerDay
       IN  /\ UniqueFine(b)
           /\ fineDays' = [fineDays EXCEPT ![b] = @ \cup {today}]
           /\ bill' = [bill EXCEPT ![b].fine = fine,
                                   ![b].total = NewTotal(b, fine)]
           /\ DropTodoExpired(t, b)
           /\ ThenReport(t, b, FineRows)
    /\ UNCHANGED <<today, crashes, fired, payment, log, reminders>>

\* Another process has inserted the row since: the insert fails and the job
\* dies with it.
ChargeConflict(t) ==
    /\ thread[t].op = "charge"
    /\ ~UniqueFine(thread[t].bill)
    /\ thread' = [thread EXCEPT ![t] = Idle]
    /\ job' = [job EXCEPT ![t] = NoJob]
    /\ UNCHANGED <<today, crashes, fired, tables, log, reminders>>

\* late_payment_reminder: one reminder a day, checked and then sent.
SkipReminded(t, b) ==
    /\ InJob(t, "reminder")
    /\ b \in job[t].todo
    /\ reminders[b] > 0
    /\ DropTodo(t, b)
    /\ UNCHANGED <<today, crashes, fired, tables, log, reminders, thread>>

CheckReminder(t, b) ==
    /\ InJob(t, "reminder")
    /\ b \in job[t].todo
    /\ reminders[b] = 0
    /\ thread' = [thread EXCEPT ![t] = [op |-> "remind", bill |-> b]]
    /\ UNCHANGED <<today, crashes, fired, tables, log, reminders, job>>

SendReminder(t) ==
    /\ thread[t].op = "remind"
    /\ LET b == thread[t].bill
       IN  /\ reminders' = [reminders EXCEPT ![b] = @ + 1]
           /\ DropTodo(t, b)
    /\ thread' = [thread EXCEPT ![t] = Idle]
    /\ UNCHANGED <<today, crashes, fired, tables, log>>

-----------------------------------------------------------------------------
(* The environment.                                                        *)

\* Midnight.  Assumed of the calendar: the day's jobs have fired and are over.
\* Requests may run across midnight.
Tick ==
    /\ today < MaxDay
    /\ \A j \in Jobs : fired[j] = Processes
    /\ \A t \in Threads : job[t].kind = "none"
    /\ today' = today + 1
    /\ fired' = [j \in Jobs |-> 0]
    /\ reminders' = [b \in Bills |-> 0]
    /\ UNCHANGED <<crashes, tables, log, thread, job>>

\* The host restarts: nothing in memory survives, what was committed does.
\* Jobs whose hour passes while it is down are not made up for (in-memory job
\* store), in the order of their hours.  Bound: not on the last day explored.
Crash ==
    /\ crashes < MaxCrashes
    /\ today < MaxDay
    /\ crashes' = crashes + 1
    /\ thread' = [t \in Threads |-> Idle]
    /\ job' = [t \in Threads |-> NoJob]
    /\ \E missed \in {{}, {"due"}, {"due", "fine"}, Jobs} :
         fired' = [j \in Jobs |->
                     IF j \in missed \/ fired[j] > 0 THEN Processes ELSE 0]
    /\ UNCHANGED <<today, tables, log, reminders>>

RequestStep(t) ==
    \/ \E b \in Bills : \/ BeginInitiate(t, b) \/ BeginOffline(t, b)
                        \/ BeginWaive(t, b)    \/ BeginCancel(t, b)
    \/ \E p \in Payments, ok \in BOOLEAN : BeginConfirm(t, p, ok)

\* Steps by which a thread carries on with what it has started.
Continue(t) ==
    \/ FinishInitiate(t) \/ FinishOffline(t)
    \/ FinishWaive(t) \/ FinishCancel(t)
    \/ FailConfirm(t) \/ LoadConfirmedBill(t) \/ FinishConfirm(t)
    \/ Report(t)
    \/ \E b \in Bills : \/ MarkOverdue(t, b)
                        \/ SkipFined(t, b) \/ CheckFine(t, b)
                        \/ SkipReminded(t, b) \/ CheckReminder(t, b)
    \/ ChargeFine(t) \/ ChargeConflict(t) \/ SendReminder(t)
    \/ JobDone(t)

Next ==
    \/ \E t \in Threads : RequestStep(t) \/ Continue(t)
    \/ \E t \in Threads, kind \in Jobs : Fire(t, kind)
    \/ Tick
    \/ Crash

Spec == Init /\ [][Next]_vars

\* A started handler is run to its end by the operating system; the scheduler
\* fires every job (another thread of its pool is found in time), and days pass.
Fairness ==
    /\ \A t \in Threads : WF_vars(Continue(t))
    /\ WF_vars(\E t \in Threads, kind \in Jobs : Fire(t, kind))
    /\ WF_vars(Tick)

FairSpec == Spec /\ Fairness
=============================================================================
