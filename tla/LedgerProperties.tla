-------------------------- MODULE LedgerProperties --------------------------
(***************************************************************************)
(* What the ledger promises.  The first part holds however handlers        *)
(* overlap; the second part needs handlers that run one at a time, and the *)
(* runs with several threads show which of its promises overlap breaks.    *)
(***************************************************************************)
EXTENDS Ledger

Receipts(b) ==
    {p \in Payments : payment[p].status = "success" /\ payment[p].bill = b}

OnBill(b) == {p \in Payments : payment[p] # Free /\ payment[p].bill = b}

\* Reports of kind e about bill b that are committed or about to be.
Reported(b, e) ==
    log[b][e]
      + Cardinality({t \in Threads :
                       /\ thread[t].op = "report"
                       /\ thread[t].bill = b
                       /\ \E i \in 1..Len(thread[t].rows) : thread[t].rows[i] = e})

-----------------------------------------------------------------------------
(* Whatever overlaps.                                                      *)

\* The running fine of a bill is one daily fine per row of the fines table and
\* its total is the original amount plus that fine: no run of fine_accrual
\* loses or doubles another's addition (definitions.py, fine_accrual).
FineLedger ==
    \A b \in Bills :
      /\ bill[b].fine = FinePerDay * Cardinality(fineDays[b])
      /\ bill[b].total = AmountDue[b] + bill[b].fine

\* No fine is dated on or before the due date, nor in the future, whatever list
\* a job is still working from.
FinesWithinOverdueDays ==
    \A b \in Bills : \A d \in fineDays[b] : DueDay[b] < d /\ d <= today

\* A paid bill has no fine dated after the day it was paid on.  The same day one may
\* still be charged: fine_accrual charges a bill that is paid after its list was
\* loaded (definitions.py, line 254), but a list does not outlive its day.
NoFineAfterPayday ==
    \A b \in Bills :
      bill[b].status = "paid" => \A d \in fineDays[b] : d <= bill[b].paid

\* What a payment takes was a true total of its bill: never less than the
\* original amount, never more than the bill's total has grown to since.
PaymentAmountBracket ==
    \A p \in Payments :
      payment[p] # Free =>
        /\ AmountDue[payment[p].bill] <= payment[p].amount
        /\ payment[p].amount <= bill[payment[p].bill].total

\* As long as the process does not go down between a commit and the commit that
\* reports it, every fine and every payment row is accounted for in the audit
\* log, and every fine in a notice to the resident.
AuditAccountsForRows ==
    crashes = 0 =>
      \A b \in Bills :
        /\ Reported(b, "bill.fine_accrued") = Cardinality(fineDays[b])
        /\ Reported(b, "notify.fine") = Cardinality(fineDays[b])
        /\ Reported(b, "payment.initiate") + Reported(b, "payment.mark_offline")
             = Cardinality(OnBill(b))

\* On a day whose fine_accrual runs are over, every overdue bill has that day's
\* fine: a run that dies on the UNIQUE constraint because another process was
\* first leaves no bill behind (no restart having cut the runs short).
DailyFineApplied ==
    (/\ crashes = 0
     /\ fired["fine"] = Processes
     /\ \A t \in Threads : job[t].kind # "fine")
      => \A b \in Bills : bill[b].status = "overdue" => today \in fineDays[b]

\* Every bill still unpaid the day after its due date leaves ISSUED, restarts
\* notwithstanding: a due-date check cut short is made up for the next day.
PastDueIsSettled ==
    \A b \in Bills :
      (bill[b].status = "issued" /\ DueDay[b] < today)
        ~> bill[b].status # "issued"

-----------------------------------------------------------------------------
(* What the snapshots of running handlers still have in common with the    *)
(* tables: the strengthening under which the invariants above are          *)
(* inductive.                                                              *)

\* A payment that is being confirmed is a row of the table.
ConfirmedPaymentsExist ==
    \A t \in Threads :
      thread[t].op \in {"confirm", "settle"} =>
        payment[thread[t].payment].status # "none"

\* A fine is being charged by the job that has the bill on its list.
ChargesAreListed ==
    \A t \in Threads :
      thread[t].op = "charge" =>
        job[t].kind = "fine" /\ thread[t].bill \in job[t].todo

\* Bills are overdue, or on the list of a job that treats them so, only after
\* their due date.
OverdueArePastDue ==
    \A b \in Bills :
      (\/ bill[b].status = "overdue"
       \/ \E t \in Threads : job[t].kind \in {"due", "fine"} /\ b \in job[t].todo)
        => PastDue(b)

\* A paid bill that is still on the list of a run of fine_accrual was paid today.
ListedWerePaidToday ==
    \A b \in Bills :
      (/\ bill[b].status = "paid"
       /\ \E t \in Threads : job[t].kind = "fine" /\ b \in job[t].todo)
        => bill[b].paid = today

\* The fine a job still holds, or is about to add to, is the bill's unless
\* today's fine has been added since; then the unique key stops the job.
HeldFinesAreCurrent ==
    \A t \in Threads :
      /\ (job[t].kind = "fine" /\ job[t].fresh) =>
           \A b \in Bills : UniqueFine(b) => job[t].held[b] = bill[b].fine
      /\ (thread[t].op = "charge" /\ UniqueFine(thread[t].bill)) =>
           thread[t].base = bill[thread[t].bill].fine

\* The amount a request is about to record was a total of its bill.
SnapshotAmountBracket ==
    \A t \in Threads :
      thread[t].op \in {"initiate", "offline"} =>
        /\ AmountDue[thread[t].bill] <= thread[t].amount
        /\ thread[t].amount <= bill[thread[t].bill].total

IInv ==
    /\ TypeOK
    /\ ConfirmedPaymentsExist
    /\ ChargesAreListed
    /\ OverdueArePastDue
    /\ FinesWithinOverdueDays
    /\ ListedWerePaidToday
    /\ NoFineAfterPayday
    /\ HeldFinesAreCurrent
    /\ FineLedger
    /\ SnapshotAmountBracket
    /\ PaymentAmountBracket

-----------------------------------------------------------------------------
(* One handler at a time.                                                  *)

\* A bill is PAID exactly when one of its payments has succeeded.
PaidIffReceipt ==
    \A b \in Bills : bill[b].status = "paid" <=> Receipts(b) # {}

\* The outcome of a payment, once recorded, is final: confirm_payment asks for an
\* initiated one.
PaymentOutcomeFinal ==
    [][\A p \in Payments :
         payment[p].status \in {"success", "failed"} =>
           payment'[p] = payment[p]]_vars

\* A paid bill stays paid, and a waived or cancelled one can only become paid
\* (a payment begun before is confirmed after).
ClosedBillsStayClosed ==
    [][\A b \in Bills :
         bill[b].status \notin PayableStatuses =>
           bill'[b].status \in {bill[b].status, "paid"}]_vars

\* A resident is told once that a bill is overdue, and reminded at most once a
\* day, although two processes fire the jobs and restarts cut them short.
NoticesAreNotRepeated ==
    \A b \in Bills : log[b]["notify.overdue"] <= 1 /\ reminders[b] <= 1

\* Every bill that becomes overdue is announced to resident and administrator
\* (unless a restart may have come between the status and the notices).
OverdueIsAnnounced ==
    \A b \in Bills :
      (bill[b].status = "overdue")
        ~> \/ crashes > 0
           \/ log[b]["notify.overdue"] > 0 /\ log[b]["notify.overdue_admin"] > 0

\* Handlers that run one at a time give every bill what BillContract promises:
\* each load-decide-commit sequence amounts to one step of the contract.
Contract ==
    INSTANCE BillContract WITH
      day <- today,
      status <- [b \in Bills |-> bill[b].status],
      fined <- fineDays,
      owed <- [b \in Bills |-> bill[b].total],
      receipts <- [b \in Bills |-> Cardinality(Receipts(b))]

KeepsContract == Contract!Spec

-----------------------------------------------------------------------------
(* Said of the program, and not so.                                        *)

\* A bill that is paid is not paid again: the second attempt is to be rejected.
\* initiate_payment rejects it, confirm_payment never looks at the bill.
NoSecondReceipt == \A b \in Bills : Cardinality(Receipts(b)) <= 1
=============================================================================
