---------------------------- MODULE LedgerProofs ----------------------------
(***************************************************************************)
(* Proofs about the ledger for every set of bills, payments and threads,   *)
(* every number of processes and every calendar.                           *)
(***************************************************************************)
EXTENDS LedgerProperties, TLAPS, FiniteSetTheorems

\* What Start, and hence the beginning of every request, does to the types.
LEMMA StartType ==
    ASSUME TypeOK, NEW t \in Threads, NEW op \in Operation, Start(t, op)
    PROVE  TypeOK'
BY DEF Start, TypeOK, tables

\* The fields an operation has, by its name.
LEMMA OperationFields ==
    ASSUME NEW x \in Operation
    PROVE  /\ x.op \in {"initiate", "offline"} => x.bill \in Bills /\ x.amount \in Int
           /\ x.op \in {"waive", "cancel"} => x.bill \in Bills
           /\ x.op = "confirm" => x.payment \in Payments
           /\ x.op = "settle" => x.payment \in Payments /\ x.seen \in BillStatus
           /\ x.op = "charge" => x.bill \in Bills /\ x.base \in Int
           /\ x.op = "remind" => x.bill \in Bills
           /\ x.op = "report" =>
                /\ x.bill \in Bills
                /\ x.rows \in Seq(Effects)
                /\ x.rows # <<>>
                /\ x = [op |-> "report", bill |-> x.bill, rows |-> x.rows]
BY DEF Operation, Idle

\* What is left of a report once its first row is written.
LEMMA RestOfReport ==
    ASSUME NEW x \in Operation, x.op = "report", NEW rest
    PROVE  [x EXCEPT !.rows = rest] = [op |-> "report", bill |-> x.bill, rows |-> rest]
<1>1. PICK b \in Bills, rows \in Seq(Effects) :
        x = [op |-> "report", bill |-> b, rows |-> rows]
  BY DEF Operation, Idle
<1>2. [x EXCEPT !.rows = rest] = [op |-> "report", bill |-> b, rows |-> rest]
  BY <1>1
<1>3. x.bill = b
  BY <1>1
<1>4. QED  BY <1>2, <1>3

\* Announcing the rows still to be written is an operation.
LEMMA ReportIsOperation ==
    ASSUME NEW b \in Bills, NEW rows \in Seq(Effects), rows # <<>>
    PROVE  [op |-> "report", bill |-> b, rows |-> rows] \in Operation
BY DEF Operation

LEMMA RowsAreEffects ==
    /\ OverdueRows \in Seq(Effects) /\ OverdueRows # <<>>
    /\ FineRows \in Seq(Effects) /\ FineRows # <<>>
    /\ \A e \in Effects : <<e>> \in Seq(Effects) /\ <<e>> # <<>>
BY DEF OverdueRows, FineRows, Effects

LEMMA ThenReportType ==
    ASSUME TypeOK, NEW t \in Threads, NEW b \in Bills,
           NEW rows \in Seq(Effects), rows # <<>>, ThenReport(t, b, rows)
    PROVE  thread' \in [Threads -> Operation]
BY ReportIsOperation DEF ThenReport, TypeOK

LEMMA SetStatusType ==
    ASSUME TypeOK, NEW b \in Bills, NEW s \in BillStatus, SetStatus(b, s)
    PROVE  bill' \in [Bills -> Bill]
BY DEF SetStatus, TypeOK, Bill

LEMMA MarkPaidType ==
    ASSUME TypeOK, NEW b \in Bills, NEW new,
           new \in {[bill EXCEPT ![b].paid = today],
                    [bill EXCEPT ![b].status = "paid", ![b].paid = today]}
    PROVE  new \in [Bills -> Bill]
<1>1. "paid" \in BillStatus
  BY DEF BillStatus
<1>2. today \in Unpaid..MaxDay
  BY LedgerAssumption DEF TypeOK, Unpaid
<1>3. CASE new = [bill EXCEPT ![b].paid = today]
  BY <1>2, <1>3 DEF TypeOK, Bill
<1>4. CASE new = [bill EXCEPT ![b].status = "paid", ![b].paid = today]
  BY <1>1, <1>2, <1>4 DEF TypeOK, Bill
<1>5. QED  BY <1>3, <1>4

LEMMA DropTodoType ==
    ASSUME TypeOK, NEW t \in Threads, NEW b \in Bills,
           DropTodo(t, b) \/ DropTodoExpired(t, b)
    PROVE  job' \in [Threads -> JobLoop]
<1> job[t] \in JobLoop
  BY DEF TypeOK
<1>1. job[t].todo \ {b} \in SUBSET Bills /\ NothingHeld \in [Bills -> Int]
  BY DEF JobLoop, NothingHeld
<1>2. CASE DropTodo(t, b)
  BY <1>1, <1>2 DEF DropTodo, TypeOK, JobLoop
<1>3. CASE DropTodoExpired(t, b)
  <2>1. [kind |-> job[t].kind, todo |-> job[t].todo \ {b}, fresh |-> FALSE,
         held |-> NothingHeld] \in JobLoop
    BY <1>1 DEF JobLoop
  <2>2. QED  BY <1>3, <2>1 DEF DropTodoExpired, TypeOK
<1>4. QED  BY <1>2, <1>3

\* A payment row that exists names a bill.
LEMMA PaymentFields ==
    ASSUME NEW x \in Payment, x.status # "none"
    PROVE  /\ x.bill \in Bills /\ x.amount \in Int
           /\ \A s \in {"initiated", "success", "failed"} :
                [x EXCEPT !.status = s] \in Payment
           /\ \A s : LET y == [x EXCEPT !.status = s]
                    IN  y.status = s /\ y.bill = x.bill /\ y.amount = x.amount
BY DEF Payment

\* The tables and the snapshots keep their types, as long as a payment being
\* confirmed exists.
LEMMA TypeStep ==
    ASSUME TypeOK, ConfirmedPaymentsExist, [Next]_vars
    PROVE  TypeOK'
<1>1. ASSUME NEW t \in Threads, RequestStep(t) PROVE TypeOK'
  <2>1. ASSUME NEW b \in Bills, BeginInitiate(t, b) PROVE TypeOK'
    <3>1. [op |-> "initiate", bill |-> b, amount |-> Asked(b)] \in Operation
      BY DEF Operation, TypeOK, Bill, Asked
    <3>2. QED  BY <2>1, <3>1, StartType DEF BeginInitiate
  <2>2. ASSUME NEW b \in Bills, BeginOffline(t, b) PROVE TypeOK'
    <3>1. [op |-> "offline", bill |-> b, amount |-> Asked(b)] \in Operation
      BY DEF Operation, TypeOK, Bill, Asked
    <3>2. QED  BY <2>2, <3>1, StartType DEF BeginOffline
  <2>3. ASSUME NEW b \in Bills, BeginWaive(t, b) PROVE TypeOK'
    <3>1. [op |-> "waive", bill |-> b] \in Operation
      BY DEF Operation
    <3>2. QED  BY <2>3, <3>1, StartType DEF BeginWaive
  <2>4. ASSUME NEW b \in Bills, BeginCancel(t, b) PROVE TypeOK'
    <3>1. [op |-> "cancel", bill |-> b] \in Operation
      BY DEF Operation
    <3>2. QED  BY <2>4, <3>1, StartType DEF BeginCancel
  <2>5. ASSUME NEW p \in Payments, NEW ok \in BOOLEAN, BeginConfirm(t, p, ok)
        PROVE  TypeOK'
    <3>1. [op |-> "confirm", payment |-> p, ok |-> ok] \in Operation
      BY DEF Operation
    <3>2. QED  BY <2>5, <3>1, StartType DEF BeginConfirm
  <2>6. QED  BY <1>1, <2>1, <2>2, <2>3, <2>4, <2>5 DEF RequestStep
<1>2. ASSUME NEW t \in Threads, Continue(t) PROVE TypeOK'
  <2>0. thread[t] \in Operation /\ job[t] \in JobLoop
    BY DEF TypeOK
  <2>1. CASE FinishInitiate(t)
    <3>1. thread[t].bill \in Bills /\ thread[t].amount \in Int
      BY <2>0, <2>1, OperationFields DEF FinishInitiate
    <3>2. thread' \in [Threads -> Operation]
      BY <2>1, <3>1, ThenReportType, RowsAreEffects DEF FinishInitiate, Effects
    <3>3. payment' \in [Payments -> Payment]
      BY <2>1, <3>1 DEF FinishInitiate, NewPayment, Payment, TypeOK
    <3>4. QED  BY <2>1, <3>2, <3>3 DEF FinishInitiate, TypeOK
  <2>2. CASE FinishOffline(t)
    <3>1. thread[t].bill \in Bills /\ thread[t].amount \in Int
      BY <2>0, <2>2, OperationFields DEF FinishOffline
    <3>2. thread' \in [Threads -> Operation]
      BY <2>2, <3>1, ThenReportType, RowsAreEffects DEF FinishOffline, Effects
    <3>3. payment' \in [Payments -> Payment]
      BY <2>2, <3>1 DEF FinishOffline, NewPayment, Payment, TypeOK
    <3>4. bill' \in [Bills -> Bill]
      BY <2>2, <3>1, MarkPaidType DEF FinishOffline, MarkBillPaid
    <3>5. QED  BY <2>2, <3>2, <3>3, <3>4 DEF FinishOffline, TypeOK
  <2>3. CASE FinishWaive(t)
    <3>1. thread[t].bill \in Bills
      BY <2>0, <2>3, OperationFields DEF FinishWaive
    <3>2. thread' \in [Threads -> Operation]
      BY <2>3, <3>1, ThenReportType, RowsAreEffects DEF FinishWaive, Effects
    <3>3. bill' \in [Bills -> Bill]
      BY <2>3, <3>1, SetStatusType DEF FinishWaive, BillStatus
    <3>4. QED  BY <2>3, <3>2, <3>3 DEF FinishWaive, TypeOK
  <2>4. CASE FinishCancel(t)
    <3>1. thread[t].bill \in Bills
      BY <2>0, <2>4, OperationFields DEF FinishCancel
    <3>2. thread' \in [Threads -> Operation]
      BY <2>4, <3>1, ThenReportType, RowsAreEffects DEF FinishCancel, Effects
    <3>3. bill' \in [Bills -> Bill]
      BY <2>4, <3>1, SetStatusType DEF FinishCancel, BillStatus
    <3>4. QED  BY <2>4, <3>2, <3>3 DEF FinishCancel, TypeOK
  <2>5. CASE FailConfirm(t)
    <3> DEFINE p == thread[t].payment
    <3>1. p \in Payments /\ payment[p] \in Payment /\ payment[p].status # "none"
      BY <2>0, <2>5, OperationFields DEF FailConfirm, ConfirmedPaymentsExist, TypeOK
    <3>2. payment[p].bill \in Bills /\ [payment[p] EXCEPT !.status = "failed"] \in Payment
      BY <3>1, PaymentFields
    <3>3. thread' \in [Threads -> Operation]
      BY <2>5, <3>2, ThenReportType, RowsAreEffects DEF FailConfirm, Effects
    <3>4. payment' \in [Payments -> Payment]
      BY <2>5, <3>2 DEF FailConfirm, TypeOK
    <3>5. QED  BY <2>5, <3>3, <3>4 DEF FailConfirm, TypeOK
  <2>6. CASE LoadConfirmedBill(t)
    <3> DEFINE p == thread[t].payment
    <3>1. p \in Payments /\ payment[p] \in Payment /\ payment[p].status # "none"
      BY <2>0, <2>6, OperationFields DEF LoadConfirmedBill, ConfirmedPaymentsExist, TypeOK
    <3>2. bill[payment[p].bill].status \in BillStatus
      BY <3>1, PaymentFields DEF TypeOK, Bill
    <3>3. [op |-> "settle", payment |-> p, seen |-> bill[payment[p].bill].status]
            \in Operation
      BY <3>1, <3>2 DEF Operation
    <3>4. QED  BY <2>6, <3>3 DEF LoadConfirmedBill, TypeOK, tables
  <2>7. CASE FinishConfirm(t)
    <3> DEFINE p == thread[t].payment
    <3>1. p \in Payments /\ payment[p] \in Payment /\ payment[p].status # "none"
      BY <2>0, <2>7, OperationFields DEF FinishConfirm, ConfirmedPaymentsExist, TypeOK
    <3>2. payment[p].bill \in Bills /\ [payment[p] EXCEPT !.status = "success"] \in Payment
      BY <3>1, PaymentFields
    <3>3. thread' \in [Threads -> Operation]
      BY <2>7, <3>2, ThenReportType, RowsAreEffects DEF FinishConfirm, Effects
    <3>4. payment' \in [Payments -> Payment]
      BY <2>7, <3>2 DEF FinishConfirm, TypeOK
    <3>5. bill' \in [Bills -> Bill]
      BY <2>7, <3>2, MarkPaidType DEF FinishConfirm, MarkBillPaid
    <3>6. QED  BY <2>7, <3>3, <3>4, <3>5 DEF FinishConfirm, TypeOK
  <2>8. CASE Report(t)
    <3> DEFINE b == thread[t].bill
               rows == thread[t].rows
    <3>1. /\ b \in Bills /\ rows \in Seq(Effects) /\ rows # <<>>
          /\ thread[t] = [op |-> "report", bill |-> b, rows |-> rows]
      BY <2>0, <2>8, OperationFields DEF Report
    <3>2. Head(rows) \in Effects /\ Tail(rows) \in Seq(Effects)
      BY <3>1
    <3>3. [thread[t] EXCEPT !.rows = Tail(rows)]
            = [op |-> "report", bill |-> b, rows |-> Tail(rows)]
      BY <2>0, <2>8, RestOfReport DEF Report
    <3>4. Tail(rows) # <<>> => [thread[t] EXCEPT !.rows = Tail(rows)] \in Operation
      BY <3>1, <3>2, <3>3, ReportIsOperation
    <3>5. thread' \in [Threads -> Operation]
      BY <2>8, <3>4 DEF Report, TypeOK, Operation
    <3>6. log' \in [Bills -> [Effects -> Nat]]
      BY <2>8, <3>1, <3>2 DEF Report, TypeOK
    <3>7. QED  BY <2>8, <3>5, <3>6 DEF Report, TypeOK, tables
  <2>9. ASSUME NEW b \in Bills, MarkOverdue(t, b) PROVE TypeOK'
    <3>1. thread' \in [Threads -> Operation]
      BY <2>9, ThenReportType, RowsAreEffects DEF MarkOverdue
    <3>2. bill' \in [Bills -> Bill]
      BY <2>9, SetStatusType DEF MarkOverdue, BillStatus
    <3>3. job' \in [Threads -> JobLoop]
      BY <2>9, DropTodoType DEF MarkOverdue
    <3>4. QED  BY <2>9, <3>1, <3>2, <3>3 DEF MarkOverdue, TypeOK
  <2>10. ASSUME NEW b \in Bills, SkipFined(t, b) \/ SkipReminded(t, b) PROVE TypeOK'
    <3>1. job' \in [Threads -> JobLoop]
      BY <2>10, DropTodoType DEF SkipFined, SkipReminded
    <3>2. QED  BY <2>10, <3>1 DEF SkipFined, SkipReminded, TypeOK, tables
  <2>11. ASSUME NEW b \in Bills, CheckFine(t, b) PROVE TypeOK'
    <3>1. FineSoFar(t, b) \in Int
      BY <2>0 DEF JobLoop, TypeOK, Bill, FineSoFar
    <3>2. [op |-> "charge", bill |-> b,
           base |-> FineSoFar(t, b)] \in Operation
      BY <3>1 DEF Operation
    <3>3. QED  BY <2>11, <3>2 DEF CheckFine, TypeOK, tables
  <2>12. ASSUME NEW b \in Bills, CheckReminder(t, b) PROVE TypeOK'
    <3>1. [op |-> "remind", bill |-> b] \in Operation
      BY DEF Operation
    <3>2. QED  BY <2>12, <3>1 DEF CheckReminder, TypeOK, tables
  <2>13. CASE ChargeFine(t)
    <3> DEFINE b == thread[t].bill
               fine == thread[t].base + FinePerDay
    <3>1. b \in Bills /\ fine \in Int /\ NewTotal(b, fine) \in Int
      BY <2>0, <2>13, OperationFields, LedgerAssumption DEF ChargeFine, NewTotal
    <3>2. thread' \in [Threads -> Operation]
      BY <2>13, <3>1, ThenReportType, RowsAreEffects DEF ChargeFine
    <3>3. bill' \in [Bills -> Bill]
      BY <2>13, <3>1 DEF ChargeFine, TypeOK, Bill
    <3>4. job' \in [Threads -> JobLoop]
      BY <2>13, <3>1, DropTodoType DEF ChargeFine
    <3>5. fineDays' \in [Bills -> SUBSET (0..MaxDay)]
      BY <2>13, <3>1 DEF ChargeFine, TypeOK
    <3>6. QED  BY <2>13, <3>2, <3>3, <3>4, <3>5 DEF ChargeFine, TypeOK
  <2>14. CASE ChargeConflict(t)
    BY <2>14 DEF ChargeConflict, TypeOK, tables, Operation, JobLoop, NoJob, NothingHeld
  <2>15. CASE SendReminder(t)
    <3>1. thread[t].bill \in Bills
      BY <2>0, <2>15, OperationFields DEF SendReminder
    <3>2. job' \in [Threads -> JobLoop]
      BY <2>15, <3>1, DropTodoType DEF SendReminder
    <3>3. reminders' \in [Bills -> Nat]
      BY <2>15, <3>1 DEF SendReminder, TypeOK
    <3>4. thread' \in [Threads -> Operation]
      BY <2>15 DEF SendReminder, TypeOK, Operation
    <3>5. QED  BY <2>15, <3>2, <3>3, <3>4 DEF SendReminder, TypeOK, tables
  <2>16. CASE JobDone(t)
    BY <2>16 DEF JobDone, TypeOK, tables, JobLoop, NoJob, NothingHeld
  <2>17. QED
    BY <1>2, <2>1, <2>2, <2>3, <2>4, <2>5, <2>6, <2>7, <2>8, <2>9, <2>10, <2>11,
       <2>12, <2>13, <2>14, <2>15, <2>16 DEF Continue
<1>3. ASSUME NEW t \in Threads, NEW kind \in Jobs, Fire(t, kind) PROVE TypeOK'
  <2>1. Selected(kind) \in SUBSET Bills
    BY DEF Selected
  <2>2. (IF kind = "fine" THEN [b \in Bills |-> bill[b].fine] ELSE NothingHeld)
          \in [Bills -> Int]
    BY DEF TypeOK, Bill, NothingHeld
  <2>3. job' \in [Threads -> JobLoop]
    BY <1>3, <2>1, <2>2 DEF Fire, TypeOK, JobLoop
  <2>4. fired' \in [Jobs -> 0..Processes]
    BY <1>3, LedgerAssumption DEF Fire, TypeOK
  <2>5. QED  BY <1>3, <2>3, <2>4 DEF Fire, TypeOK, tables
<1>4. CASE Tick
  BY <1>4, LedgerAssumption DEF Tick, TypeOK, tables
<1>5. CASE Crash
  BY <1>5, LedgerAssumption
     DEF Crash, TypeOK, tables, Operation, JobLoop, NoJob, NothingHeld
<1>6. CASE UNCHANGED vars
  BY <1>6 DEF vars, tables, TypeOK
<1>7. QED  BY <1>1, <1>2, <1>3, <1>4, <1>5, <1>6 DEF Next

-----------------------------------------------------------------------------
(* What a step may change: the four lemmas below are all that the proofs   *)
(* of the invariants use of the actions.                                   *)

LEMMA SetStatusEffect ==
    ASSUME TypeOK, NEW b \in Bills, NEW s, SetStatus(b, s)
    PROVE  \A c \in Bills :
             /\ bill'[c].fine = bill[c].fine
             /\ bill'[c].total = bill[c].total
             /\ bill'[c].paid = bill[c].paid
             /\ bill'[c].status = IF c = b THEN s ELSE bill[c].status
BY DEF SetStatus, TypeOK, Bill

\* Confirming a payment stamps its bill with the day, and no other.
LEMMA MarkPaidEffect ==
    ASSUME TypeOK, NEW b \in Bills,
           bill' = [bill EXCEPT ![b].paid = today] \/ MarkBillPaid(b)
    PROVE  \A c \in Bills :
             /\ bill'[c].fine = bill[c].fine
             /\ bill'[c].total = bill[c].total
             /\ bill'[c].paid = IF c = b THEN today ELSE bill[c].paid
             /\ bill'[c].status # bill[c].status => c = b /\ bill'[c].status = "paid"
             /\ MarkBillPaid(b) /\ c = b => bill'[c].status = "paid"
<1>1. CASE bill' = [bill EXCEPT ![b].paid = today]
  BY <1>1 DEF TypeOK, Bill, MarkBillPaid
<1>2. CASE MarkBillPaid(b)
  BY <1>2 DEF TypeOK, Bill, MarkBillPaid
<1>3. QED  BY <1>1, <1>2

\* Only ChargeFine moves money or dates, only the due-date job makes a bill
\* overdue, from its list, and a bill that becomes paid is stamped with the day.
LEMMA BillStep ==
    ASSUME TypeOK, ConfirmedPaymentsExist, [Next]_vars, NEW b \in Bills
    PROVE  /\ \/ /\ bill'[b].fine = bill[b].fine
                 /\ bill'[b].total = bill[b].total
                 /\ fineDays'[b] = fineDays[b]
              \/ \E t \in Threads : ChargeFine(t) /\ thread[t].bill = b
           /\ bill'[b].status = "overdue" =>
                \/ bill[b].status = "overdue"
                \/ \E t \in Threads : job[t].kind = "due" /\ b \in job[t].todo
           /\ bill'[b].status = "paid" =>
                \/ bill[b].status = "paid" /\ bill'[b].paid = bill[b].paid
                \/ bill'[b].paid = today
<1>0. ASSUME NEW t \in Threads, FinishOffline(t)
      PROVE  /\ bill'[b].fine = bill[b].fine /\ bill'[b].total = bill[b].total
             /\ fineDays'[b] = fineDays[b]
             /\ bill'[b].status # bill[b].status =>
                  bill'[b].status = "paid" /\ bill'[b].paid = today
             /\ bill'[b].paid # bill[b].paid => bill'[b].paid = today
  <2>1. thread[t].bill \in Bills
    BY <1>0, OperationFields DEF FinishOffline, TypeOK
  <2>2. QED  BY <1>0, <2>1, MarkPaidEffect DEF FinishOffline
<1>1. ASSUME NEW t \in Threads, FinishWaive(t) \/ FinishCancel(t)
      PROVE  /\ bill'[b].fine = bill[b].fine /\ bill'[b].total = bill[b].total
             /\ fineDays'[b] = fineDays[b]
             /\ bill'[b].status # bill[b].status =>
                  bill'[b].status \notin {"overdue", "paid"}
             /\ bill'[b].paid = bill[b].paid
  <2>1. thread[t].bill \in Bills
    BY <1>1, OperationFields DEF FinishWaive, FinishCancel, TypeOK
  <2>2. QED
    BY <1>1, <2>1, SetStatusEffect DEF FinishWaive, FinishCancel
<1>2. ASSUME NEW t \in Threads, FinishConfirm(t)
      PROVE  /\ bill'[b].fine = bill[b].fine /\ bill'[b].total = bill[b].total
             /\ fineDays'[b] = fineDays[b]
             /\ bill'[b].status # bill[b].status =>
                  bill'[b].status = "paid" /\ bill'[b].paid = today
             /\ bill'[b].paid # bill[b].paid => bill'[b].paid = today
  <2>1. payment[thread[t].payment].bill \in Bills
    BY <1>2, OperationFields, PaymentFields
       DEF FinishConfirm, TypeOK, ConfirmedPaymentsExist
  <2>2. QED  BY <1>2, <2>1, MarkPaidEffect DEF FinishConfirm
<1>3. ASSUME NEW t \in Threads, NEW c \in Bills, MarkOverdue(t, c)
      PROVE  /\ bill'[b].fine = bill[b].fine /\ bill'[b].total = bill[b].total
             /\ fineDays'[b] = fineDays[b]
             /\ bill'[b].status # bill[b].status =>
                  /\ job[t].kind = "due" /\ b \in job[t].todo
                  /\ bill'[b].status = "overdue"
             /\ bill'[b].paid = bill[b].paid
  BY <1>3, SetStatusEffect DEF MarkOverdue, InJob
<1>4. ASSUME NEW t \in Threads, ChargeFine(t)
      PROVE  /\ bill'[b].status = bill[b].status
             /\ bill'[b].paid = bill[b].paid
             /\ thread[t].bill # b =>
                  bill'[b] = bill[b] /\ fineDays'[b] = fineDays[b]
  BY <1>4 DEF ChargeFine, TypeOK, Bill
<1>5. CASE UNCHANGED <<bill, fineDays>>
  BY <1>5
<1>6. ASSUME NEW t \in Threads, RequestStep(t)
      PROVE  UNCHANGED <<bill, fineDays>>
  BY <1>6 DEF RequestStep, BeginInitiate, BeginOffline, BeginWaive, BeginCancel,
     BeginConfirm, Start, tables
<1>7. ASSUME NEW t \in Threads, Continue(t)
      PROVE  \/ FinishOffline(t) \/ FinishWaive(t) \/ FinishCancel(t)
             \/ FinishConfirm(t) \/ ChargeFine(t)
             \/ \E c \in Bills : MarkOverdue(t, c)
             \/ UNCHANGED <<bill, fineDays>>
  BY <1>7 DEF Continue, FinishInitiate, FailConfirm, LoadConfirmedBill, Report,
     SkipFined, CheckFine, SkipReminded, CheckReminder, ChargeConflict,
     SendReminder, JobDone, tables
<1>8. (\/ \E t \in Threads, kind \in Jobs : Fire(t, kind)
       \/ Tick \/ Crash \/ UNCHANGED vars) => UNCHANGED <<bill, fineDays>>
  BY DEF Fire, Tick, Crash, vars, tables
<1>9. QED
  BY <1>0, <1>1, <1>2, <1>3, <1>4, <1>5, <1>6, <1>7, <1>8 DEF Next

\* A payment row keeps its bill and its amount, and copies both from a request.
LEMMA PaymentStep ==
    ASSUME TypeOK, ConfirmedPaymentsExist, [Next]_vars, NEW p \in Payments
    PROVE  \/ payment'[p] = payment[p]
           \/ /\ payment[p].status # "none"
              /\ payment'[p].status # "none"
              /\ payment'[p].bill = payment[p].bill
              /\ payment'[p].amount = payment[p].amount
           \/ \E t \in Threads :
                /\ thread[t].op \in {"initiate", "offline"}
                /\ payment'[p].status # "none"
                /\ payment'[p].bill = thread[t].bill
                /\ payment'[p].amount = thread[t].amount
<1>1. ASSUME NEW t \in Threads, FinishInitiate(t) \/ FinishOffline(t)
      PROVE  \/ payment'[p] = payment[p]
             \/ /\ payment'[p].status # "none"
                /\ payment'[p].bill = thread[t].bill
                /\ payment'[p].amount = thread[t].amount
  BY <1>1 DEF FinishInitiate, FinishOffline, NewPayment, TypeOK
<1>2. ASSUME NEW t \in Threads, FailConfirm(t) \/ FinishConfirm(t)
      PROVE  \/ payment'[p] = payment[p]
             \/ /\ payment'[p].status # "none"
                /\ payment'[p].bill = payment[p].bill
                /\ payment'[p].amount = payment[p].amount
  <2> DEFINE q == thread[t].payment
  <2>1. q \in Payments /\ payment[q] \in Payment /\ payment[q].status # "none"
    BY <1>2, OperationFields DEF FailConfirm, FinishConfirm, TypeOK, ConfirmedPaymentsExist
  <2>2. \E s \in {"failed", "success"} :
          payment' = [payment EXCEPT ![q] = [@ EXCEPT !.status = s]]
    BY <1>2 DEF FailConfirm, FinishConfirm
  <2>3. CASE p = q
    BY <2>1, <2>2, <2>3, PaymentFields DEF TypeOK
  <2>4. CASE p # q
    BY <2>1, <2>2, <2>4 DEF TypeOK
  <2>5. QED  BY <2>3, <2>4
<1>3. ASSUME NEW t \in Threads, RequestStep(t)
      PROVE  UNCHANGED payment
  BY <1>3 DEF RequestStep, BeginInitiate, BeginOffline, BeginWaive, BeginCancel,
     BeginConfirm, Start, tables
<1>4. ASSUME NEW t \in Threads, Continue(t)
      PROVE  \/ FinishInitiate(t) \/ FinishOffline(t)
             \/ FailConfirm(t) \/ FinishConfirm(t)
             \/ UNCHANGED payment
  BY <1>4 DEF Continue, FinishWaive, FinishCancel, LoadConfirmedBill, Report,
     MarkOverdue, SkipFined, CheckFine, SkipReminded, CheckReminder, ChargeFine,
     ChargeConflict, SendReminder, JobDone, tables
<1>5. (\/ \E t \in Threads, kind \in Jobs : Fire(t, kind)
       \/ Tick \/ Crash \/ UNCHANGED vars) => UNCHANGED payment
  BY DEF Fire, Tick, Crash, vars, tables
<1>6. ASSUME NEW t \in Threads, FinishInitiate(t) \/ FinishOffline(t)
      PROVE  thread[t].op \in {"initiate", "offline"}
  BY <1>6 DEF FinishInitiate, FinishOffline
<1>7. ASSUME NEW t \in Threads, FailConfirm(t) \/ FinishConfirm(t),
             payment'[p] # payment[p]
      PROVE  payment[p].status # "none"
  BY <1>7 DEF FailConfirm, FinishConfirm, TypeOK, ConfirmedPaymentsExist
<1>8. QED  BY <1>1, <1>2, <1>3, <1>4, <1>5, <1>6, <1>7 DEF Next

\* What a thread knows it has just loaded, or already knew.
LEMMA ThreadStep ==
    ASSUME TypeOK, [Next]_vars, NEW t \in Threads
    PROVE  \/ thread'[t] = thread[t]
           \/ thread'[t].op \in {"idle", "report", "waive", "cancel", "remind"}
           \/ /\ thread'[t].op \in {"initiate", "offline"}
              /\ thread'[t].bill \in Bills
              /\ thread'[t].amount = bill[thread'[t].bill].total
              /\ UNCHANGED bill
           \/ /\ thread'[t].op = "confirm"
              /\ payment[thread'[t].payment].status # "none"
              /\ UNCHANGED payment
           \/ /\ thread'[t].op = "settle"
              /\ thread[t].op = "confirm"
              /\ thread'[t].payment = thread[t].payment
              /\ UNCHANGED payment
           \/ \E b \in Bills :
                /\ CheckFine(t, b)
                /\ thread'[t] = [op |-> "charge", bill |-> b,
                                 base |-> FineSoFar(t, b)]
<1>1. ASSUME NEW u \in Threads, RequestStep(u) \/ Continue(u), u # t
      PROVE  thread'[t] = thread[t]
  BY <1>1 DEF RequestStep, BeginInitiate, BeginOffline, BeginWaive, BeginCancel,
     BeginConfirm, Start, Continue, FinishInitiate, FinishOffline, FinishWaive,
     FinishCancel, FailConfirm, LoadConfirmedBill, FinishConfirm, Report,
     MarkOverdue, SkipFined, CheckFine, SkipReminded, CheckReminder, ChargeFine,
     ChargeConflict, SendReminder, JobDone, ThenReport, TypeOK
<1>2. ASSUME NEW b \in Bills, BeginInitiate(t, b) \/ BeginOffline(t, b)
      PROVE  /\ thread'[t].op \in {"initiate", "offline"}
             /\ thread'[t].bill = b
             /\ thread'[t].amount = bill[b].total
             /\ UNCHANGED bill
  BY <1>2 DEF BeginInitiate, BeginOffline, Start, Asked, tables, TypeOK
<1>3. ASSUME NEW b \in Bills, BeginWaive(t, b) \/ BeginCancel(t, b)
      PROVE  thread'[t].op \in {"waive", "cancel"}
  BY <1>3 DEF BeginWaive, BeginCancel, Start, TypeOK
<1>4. ASSUME NEW p \in Payments, NEW ok \in BOOLEAN, BeginConfirm(t, p, ok)
      PROVE  /\ thread'[t].op = "confirm"
             /\ payment[thread'[t].payment].status # "none"
             /\ UNCHANGED payment
  BY <1>4 DEF BeginConfirm, Start, Confirmable, tables, TypeOK
<1>5. ASSUME \/ FinishInitiate(t) \/ FinishOffline(t) \/ FinishWaive(t)
             \/ FinishCancel(t) \/ FailConfirm(t) \/ FinishConfirm(t)
             \/ ChargeFine(t) \/ \E b \in Bills : MarkOverdue(t, b)
      PROVE  thread'[t].op = "report"
  BY <1>5 DEF FinishInitiate, FinishOffline, FinishWaive, FinishCancel,
     FailConfirm, FinishConfirm, ChargeFine, MarkOverdue, ThenReport, TypeOK
<1>6. ASSUME LoadConfirmedBill(t)
      PROVE  /\ thread'[t].op = "settle" /\ thread[t].op = "confirm"
             /\ thread'[t].payment = thread[t].payment
             /\ UNCHANGED payment
  BY <1>6 DEF LoadConfirmedBill, tables, TypeOK
<1>7. ASSUME Report(t)
      PROVE  thread'[t].op \in {"idle", "report"}
  <2>1. [thread[t] EXCEPT !.rows = Tail(thread[t].rows)]
          = [op |-> "report", bill |-> thread[t].bill, rows |-> Tail(thread[t].rows)]
    BY <1>7, RestOfReport DEF Report, TypeOK
  <2>2. QED  BY <1>7, <2>1 DEF Report, Idle, TypeOK
<1>8. ASSUME NEW b \in Bills, CheckFine(t, b)
      PROVE  thread'[t] = [op |-> "charge", bill |-> b,
                           base |-> FineSoFar(t, b)]
  BY <1>8 DEF CheckFine, TypeOK
<1>9. ASSUME \/ ChargeConflict(t) \/ SendReminder(t) \/ Crash
             \/ \E b \in Bills : CheckReminder(t, b)
      PROVE  thread'[t].op \in {"idle", "remind"}
  BY <1>9 DEF ChargeConflict, SendReminder, Crash, CheckReminder, Idle, TypeOK
<1>10. ASSUME \/ JobDone(t) \/ Tick \/ UNCHANGED vars
              \/ \E b \in Bills : SkipFined(t, b) \/ SkipReminded(t, b)
              \/ \E u \in Threads, kind \in Jobs : Fire(u, kind)
       PROVE  thread'[t] = thread[t]
  BY <1>10 DEF JobDone, Tick, vars, SkipFined, SkipReminded, Fire
<1>11. CASE RequestStep(t)
  BY <1>2, <1>3, <1>4, <1>11 DEF RequestStep
<1>12. CASE Continue(t)
  BY <1>5, <1>6, <1>7, <1>8, <1>9, <1>10, <1>12 DEF Continue
<1>13. QED  BY <1>1, <1>9, <1>10, <1>11, <1>12 DEF Next

\* A job's list only shrinks, from a query that selects by status; what it holds
\* of the fines is dropped at its first commit; only its own charge follows.
LEMMA JobStep ==
    ASSUME TypeOK, [Next]_vars, NEW t \in Threads
    PROVE  \/ /\ job'[t] = job[t]
              /\ thread[t].op = "charge" => thread'[t] = thread[t]
           \/ job'[t].kind = "none" /\ thread'[t].op = "idle"
           \/ \E kind \in Jobs :
                /\ thread'[t].op = "idle"
                /\ job'[t] = [kind |-> kind, todo |-> Selected(kind),
                              fresh |-> kind = "fine",
                              held |-> IF kind = "fine"
                                       THEN [b \in Bills |-> bill[b].fine]
                                       ELSE NothingHeld]
                /\ UNCHANGED <<bill, fineDays, today>>
           \/ /\ job'[t].kind = job[t].kind
              /\ job'[t].todo \subseteq job[t].todo
              /\ job'[t].fresh => job[t].fresh /\ job'[t].held = job[t].held
              /\ thread'[t].op # "charge"
<1> job[t] \in JobLoop /\ thread[t] \in Operation
  BY DEF TypeOK
<1>1. ASSUME NEW u \in Threads, RequestStep(u) \/ Continue(u), u # t
      PROVE  job'[t] = job[t] /\ thread'[t] = thread[t]
  BY <1>1 DEF RequestStep, BeginInitiate, BeginOffline, BeginWaive, BeginCancel,
     BeginConfirm, Start, Continue, FinishInitiate, FinishOffline, FinishWaive,
     FinishCancel, FailConfirm, LoadConfirmedBill, FinishConfirm, Report,
     MarkOverdue, SkipFined, CheckFine, SkipReminded, CheckReminder, ChargeFine,
     ChargeConflict, SendReminder, JobDone, DropTodo, DropTodoExpired, ThenReport,
     TypeOK
<1>2. ASSUME RequestStep(t)
      PROVE  job'[t] = job[t] /\ thread[t].op # "charge"
  BY <1>2 DEF RequestStep, BeginInitiate, BeginOffline, BeginWaive, BeginCancel,
     BeginConfirm, Start, IsFree, Idle
<1>3. ASSUME \/ FinishInitiate(t) \/ FinishOffline(t) \/ FinishWaive(t)
             \/ FinishCancel(t) \/ FailConfirm(t) \/ LoadConfirmedBill(t)
             \/ FinishConfirm(t) \/ Report(t)
             \/ \E b \in Bills : CheckFine(t, b) \/ CheckReminder(t, b)
      PROVE  job'[t] = job[t] /\ thread[t].op # "charge"
  <2>1. ASSUME \/ FinishInitiate(t) \/ FinishOffline(t) \/ FinishWaive(t)
               \/ FinishCancel(t) \/ FailConfirm(t) \/ LoadConfirmedBill(t)
               \/ Report(t)
        PROVE  job' = job /\ thread[t].op # "charge"
    BY <2>1 DEF FinishInitiate, FinishOffline, FinishWaive, FinishCancel,
       FailConfirm, LoadConfirmedBill, Report
  <2>2. ASSUME FinishConfirm(t)
        PROVE  job' = job /\ thread[t].op # "charge"
    BY <2>2 DEF FinishConfirm
  <2>3. ASSUME NEW b \in Bills, CheckFine(t, b) \/ CheckReminder(t, b)
        PROVE  job' = job /\ thread[t].op # "charge"
    BY <2>3 DEF CheckFine, CheckReminder, InJob, Idle
  <2>4. QED  BY <1>3, <2>1, <2>2, <2>3
<1>4. ASSUME NEW b \in Bills, DropTodo(t, b)
      PROVE  /\ job'[t].kind = job[t].kind
             /\ job'[t].todo \subseteq job[t].todo
             /\ job'[t].fresh = job[t].fresh /\ job'[t].held = job[t].held
  BY <1>4 DEF DropTodo, TypeOK, JobLoop
<1>5. ASSUME NEW b \in Bills,
             MarkOverdue(t, b) \/ SkipFined(t, b) \/ SkipReminded(t, b)
      PROVE  DropTodo(t, b) /\ thread'[t].op # "charge"
  BY <1>5 DEF MarkOverdue, SkipFined, SkipReminded, ThenReport, InJob, Idle, TypeOK
<1>6. ASSUME SendReminder(t)
      PROVE  thread[t].bill \in Bills /\ DropTodo(t, thread[t].bill)
             /\ thread'[t].op # "charge"
  BY <1>6, OperationFields DEF SendReminder, Idle, TypeOK
<1>7. ASSUME ChargeFine(t)
      PROVE  /\ job'[t].kind = job[t].kind
             /\ job'[t].todo \subseteq job[t].todo
             /\ ~job'[t].fresh
             /\ thread'[t].op # "charge"
  BY <1>7 DEF ChargeFine, DropTodoExpired, ThenReport, TypeOK
<1>8. ASSUME JobDone(t) \/ ChargeConflict(t) \/ Crash
      PROVE  job'[t].kind = "none" /\ thread'[t].op = "idle"
  BY <1>8 DEF JobDone, ChargeConflict, Crash, NoJob, Idle, TypeOK
<1>9. ASSUME NEW u \in Threads, NEW kind \in Jobs, Fire(u, kind)
      PROVE  \/ job'[t] = job[t] /\ thread'[t] = thread[t]
             \/ /\ thread'[t].op = "idle"
                /\ job'[t] = [kind |-> kind, todo |-> Selected(kind),
                              fresh |-> kind = "fine",
                              held |-> IF kind = "fine"
                                       THEN [b \in Bills |-> bill[b].fine]
                                       ELSE NothingHeld]
                /\ UNCHANGED <<bill, fineDays, today>>
  BY <1>9 DEF Fire, IsFree, Idle, TypeOK, tables
<1>10. ASSUME Tick \/ UNCHANGED vars
       PROVE  job'[t] = job[t] /\ thread'[t] = thread[t]
  BY <1>10 DEF Tick, vars
<1>11. CASE Continue(t)
  BY <1>3, <1>4, <1>5, <1>6, <1>7, <1>8, <1>11 DEF Continue
<1>12. QED  BY <1>1, <1>2, <1>8, <1>9, <1>10, <1>11 DEF Next

\* Time passes only at midnight, when no job is under way and no table changes.
LEMMA ClockStep ==
    ASSUME TypeOK, [Next]_vars
    PROVE  \/ today' = today
           \/ /\ today' = today + 1
              /\ \A t \in Threads : job[t].kind = "none"
              /\ UNCHANGED <<bill, payment, fineDays, thread, job>>
<1>1. ASSUME NEW t \in Threads, RequestStep(t)
      PROVE  today' = today
  BY <1>1 DEF RequestStep, BeginInitiate, BeginOffline, BeginWaive, BeginCancel,
     BeginConfirm, Start
<1>2. ASSUME NEW t \in Threads, Continue(t)
      PROVE  today' = today
  BY <1>2 DEF Continue, FinishInitiate, FinishOffline, FinishWaive,
     FinishCancel, FailConfirm, LoadConfirmedBill, FinishConfirm, Report,
     MarkOverdue, SkipFined, CheckFine, SkipReminded, CheckReminder, ChargeFine,
     ChargeConflict, SendReminder, JobDone
<1>3. (\/ \E t \in Threads, kind \in Jobs : Fire(t, kind)
       \/ Crash \/ UNCHANGED vars) => today' = today
  BY DEF Fire, Crash, vars
<1>4. Tick => /\ today' = today + 1
              /\ \A t \in Threads : job[t].kind = "none"
              /\ UNCHANGED <<bill, payment, fineDays, thread, job>>
  BY DEF Tick, tables
<1>5. QED  BY <1>1, <1>2, <1>3, <1>4 DEF Next

-----------------------------------------------------------------------------
(* Reports that are still to be written.                                   *)

\* What may still be to report, and what of it tells the resident
\* of an overdue bill.
ToldNext == <<"notify.overdue", "notify.overdue_admin">>

ToReport ==
    {<<"payment.initiate">>, <<"payment.confirm">>, <<"payment.mark_offline">>,
     <<"bill.waive">>, <<"bill.cancel">>,
     OverdueRows, ToldNext, <<"notify.overdue_admin">>,
     FineRows, <<"notify.fine">>}

LEMMA HeadsAndTails ==
    ASSUME NEW rows \in ToReport
    PROVE  /\ Tail(rows) # <<>> => Tail(rows) \in ToReport \ {OverdueRows}
           /\ Head(rows) = "notify.overdue" => rows = ToldNext
           /\ Tail(rows) = ToldNext => rows = OverdueRows
           /\ rows = ToldNext => Tail(rows) # ToldNext
<1>1. CASE \E e \in Effects \ {"notify.overdue"} : rows = <<e>>
  <2>1. PICK e \in Effects \ {"notify.overdue"} : rows = <<e>>
    BY <1>1
  <2>2. Tail(rows) = <<>> /\ Head(rows) = e
    BY <2>1
  <2>3. QED  BY <2>1, <2>2 DEF ToldNext
<1>2. CASE rows = OverdueRows
  <2>1. Tail(rows) = ToldNext /\ Head(rows) = "bill.auto_overdue"
    BY <1>2 DEF OverdueRows, ToldNext
  <2>2. QED  BY <1>2, <2>1 DEF ToReport, OverdueRows, ToldNext
<1>3. CASE rows = ToldNext
  <2>1. Tail(rows) = <<"notify.overdue_admin">>
    BY <1>3 DEF ToldNext
  <2>2. QED  BY <1>3, <2>1 DEF ToReport, OverdueRows, ToldNext
<1>4. CASE rows = FineRows
  <2>1. Tail(rows) = <<"notify.fine">> /\ Head(rows) = "bill.fine_accrued"
    BY <1>4 DEF FineRows
  <2>2. QED  BY <1>4, <2>1 DEF ToReport, OverdueRows, ToldNext
<1>5. QED  BY <1>1, <1>2, <1>3, <1>4 DEF ToReport, Effects

-----------------------------------------------------------------------------
(* The invariants, one lemma each.                                         *)

LEMMA ConfirmedPaymentsStep ==
    ASSUME TypeOK, ConfirmedPaymentsExist, [Next]_vars
    PROVE  ConfirmedPaymentsExist'
<1> SUFFICES ASSUME NEW t \in Threads, thread'[t].op \in {"confirm", "settle"}
             PROVE  payment'[thread'[t].payment].status # "none"
  BY DEF ConfirmedPaymentsExist
<1> DEFINE p == thread'[t].payment
<1>1. p \in Payments
  <2>1. thread'[t] \in Operation
    BY TypeStep DEF TypeOK
  <2>2. QED  BY <2>1, OperationFields
<1>2. payment[p].status # "none"
  <2>1. CASE thread'[t] = thread[t]
    BY <2>1 DEF ConfirmedPaymentsExist
  <2>2. CASE thread[t].op = "confirm" /\ thread'[t].payment = thread[t].payment
    BY <2>2 DEF ConfirmedPaymentsExist
  <2>3. ASSUME NEW b \in Bills, NEW x,
               thread'[t] = [op |-> "charge", bill |-> b, base |-> x]
        PROVE  FALSE
    BY <2>3
  <2>4. QED  BY <2>1, <2>2, <2>3, ThreadStep
<1>3. QED  BY <1>1, <1>2, PaymentStep

LEMMA ChargesAreListedStep ==
    ASSUME TypeOK, ChargesAreListed, [Next]_vars
    PROVE  ChargesAreListed'
<1> SUFFICES ASSUME NEW t \in Threads, thread'[t].op = "charge"
             PROVE  job'[t].kind = "fine" /\ thread'[t].bill \in job'[t].todo
  BY DEF ChargesAreListed
<1>1. CASE thread'[t] = thread[t]
  BY <1>1, JobStep DEF ChargesAreListed
<1>2. ASSUME NEW b \in Bills, CheckFine(t, b), NEW x,
             thread'[t] = [op |-> "charge", bill |-> b, base |-> x]
      PROVE  job'[t].kind = "fine" /\ thread'[t].bill \in job'[t].todo
  <2>1. thread'[t].bill = b
    BY <1>2
  <2>2. job[t].kind = "fine" /\ b \in job[t].todo /\ job' = job
    BY <1>2 DEF CheckFine, InJob
  <2>3. QED  BY <2>1, <2>2
<1>3. QED  BY <1>1, <1>2, ThreadStep

LEMMA OverdueArePastDueStep ==
    ASSUME TypeOK, ConfirmedPaymentsExist, OverdueArePastDue, [Next]_vars
    PROVE  OverdueArePastDue'
<1> SUFFICES ASSUME NEW b \in Bills,
                    \/ bill'[b].status = "overdue"
                    \/ \E t \in Threads :
                         job'[t].kind \in {"due", "fine"} /\ b \in job'[t].todo
             PROVE  DueDay[b] < today'
  BY DEF OverdueArePastDue, PastDue
<1>1. DueDay[b] < today => DueDay[b] < today'
  BY ClockStep, LedgerAssumption DEF TypeOK
<1>2. CASE bill'[b].status = "overdue"
  BY <1>1, <1>2, BillStep DEF OverdueArePastDue, PastDue
<1>3. ASSUME NEW t \in Threads, job'[t].kind \in {"due", "fine"}, b \in job'[t].todo
      PROVE  DueDay[b] < today'
  <2>1. CASE job[t].kind \in {"due", "fine"} /\ b \in job[t].todo
    BY <1>1, <2>1 DEF OverdueArePastDue, PastDue
  <2>2. ASSUME NEW kind \in Jobs,
               job'[t] = [kind |-> kind, todo |-> Selected(kind),
                          fresh |-> kind = "fine",
                          held |-> IF kind = "fine"
                                   THEN [c \in Bills |-> bill[c].fine]
                                   ELSE NothingHeld]
        PROVE  DueDay[b] < today'
    <3>1. kind \in {"due", "fine"} /\ b \in Selected(kind)
      BY <1>3, <2>2
    <3>2. PastDue(b)
      BY <3>1 DEF Selected, OverdueArePastDue
    <3>3. QED  BY <1>1, <3>2 DEF PastDue
  <2>3. CASE job'[t].kind = job[t].kind /\ job'[t].todo \subseteq job[t].todo
    BY <1>3, <2>1, <2>3
  <2>4. QED  BY <1>3, <2>1, <2>2, <2>3, JobStep
<1>4. QED  BY <1>2, <1>3

LEMMA FinesWithinOverdueDaysStep ==
    ASSUME TypeOK, ConfirmedPaymentsExist, ChargesAreListed, OverdueArePastDue,
           FinesWithinOverdueDays, [Next]_vars
    PROVE  FinesWithinOverdueDays'
<1> SUFFICES ASSUME NEW b \in Bills, NEW d \in fineDays'[b]
             PROVE  DueDay[b] < d /\ d <= today'
  BY DEF FinesWithinOverdueDays
<1>1. today \in Nat /\ today' \in Nat /\ today <= today'
  BY ClockStep, LedgerAssumption DEF TypeOK
<1>2. CASE d \in fineDays[b]
  <2>1. d \in Nat
    BY <1>2, LedgerAssumption DEF TypeOK
  <2>2. DueDay[b] < d /\ d <= today
    BY <1>2 DEF FinesWithinOverdueDays
  <2>3. QED  BY <1>1, <2>1, <2>2
<1>3. ASSUME NEW t \in Threads, ChargeFine(t), thread[t].bill = b, d \notin fineDays[b]
      PROVE  DueDay[b] < d /\ d <= today'
  <2>1. d = today
    BY <1>3 DEF ChargeFine, TypeOK
  <2>2. PastDue(b)
    BY <1>3 DEF ChargeFine, ChargesAreListed, OverdueArePastDue
  <2>3. QED  BY <1>1, <2>1, <2>2 DEF PastDue
<1>4. QED  BY <1>2, <1>3, BillStep

LEMMA ListedWerePaidTodayStep ==
    ASSUME TypeOK, ConfirmedPaymentsExist, ListedWerePaidToday, [Next]_vars
    PROVE  ListedWerePaidToday'
<1> SUFFICES ASSUME NEW b \in Bills, bill'[b].status = "paid",
                    NEW t \in Threads, job'[t].kind = "fine", b \in job'[t].todo
             PROVE  bill'[b].paid = today'
  BY DEF ListedWerePaidToday
<1>1. today' = today
  BY ClockStep
<1>2. CASE job[t].kind = "fine" /\ b \in job[t].todo
  BY <1>1, <1>2, BillStep DEF ListedWerePaidToday
<1>3. ASSUME NEW kind \in Jobs,
             job'[t] = [kind |-> kind, todo |-> Selected(kind),
                        fresh |-> kind = "fine",
                        held |-> IF kind = "fine"
                                 THEN [c \in Bills |-> bill[c].fine]
                                 ELSE NothingHeld],
             UNCHANGED <<bill, fineDays, today>>
      PROVE  FALSE
  <2>1. kind = "fine" /\ b \in Selected(kind)
    BY <1>3
  <2>2. QED  BY <1>3, <2>1 DEF Selected
<1>4. QED  BY <1>2, <1>3, JobStep

LEMMA NoFineAfterPaydayStep ==
    ASSUME TypeOK, ConfirmedPaymentsExist, ChargesAreListed, FinesWithinOverdueDays,
           ListedWerePaidToday, NoFineAfterPayday, [Next]_vars
    PROVE  NoFineAfterPayday'
<1> SUFFICES ASSUME NEW b \in Bills, bill'[b].status = "paid",
                    NEW d \in fineDays'[b]
             PROVE  d <= bill'[b].paid
  BY DEF NoFineAfterPayday
<1>1. today \in Nat
  BY LedgerAssumption DEF TypeOK
<1>2. \/ d \in fineDays[b]
      \/ d = today /\ \E t \in Threads : job[t].kind = "fine" /\ b \in job[t].todo
  <2>1. ASSUME NEW t \in Threads, ChargeFine(t), thread[t].bill = b
        PROVE  /\ d \in fineDays[b] \/ d = today
               /\ job[t].kind = "fine" /\ b \in job[t].todo
    BY <2>1 DEF ChargeFine, ChargesAreListed, TypeOK
  <2>2. QED  BY <2>1, BillStep
<1>3. d \in fineDays[b] => d <= today
  BY DEF FinesWithinOverdueDays
<1>4. CASE bill'[b].paid = today
  BY <1>1, <1>2, <1>3, <1>4
<1>5. CASE bill[b].status = "paid" /\ bill'[b].paid = bill[b].paid
  BY <1>1, <1>2, <1>5 DEF NoFineAfterPayday, ListedWerePaidToday
<1>6. QED  BY <1>4, <1>5, BillStep

\* While a fine_accrual run is under way, a bill that today's unique key still
\* lets in has not been charged by the step.
LEMMA OpenKeyStep ==
    ASSUME TypeOK, ConfirmedPaymentsExist, [Next]_vars, NEW b \in Bills,
           NEW t \in Threads, job[t].kind = "fine", today' \notin fineDays'[b]
    PROVE  UniqueFine(b) /\ bill'[b].fine = bill[b].fine
<1>1. today' = today
  BY ClockStep
<1>2. ASSUME NEW u \in Threads, ChargeFine(u), thread[u].bill = b
      PROVE  FALSE
  BY <1>1, <1>2 DEF ChargeFine, UniqueFine, TypeOK
<1>3. QED  BY <1>1, <1>2, BillStep DEF UniqueFine

LEMMA HeldFinesAreCurrentStep ==
    ASSUME TypeOK, ConfirmedPaymentsExist, ChargesAreListed, HeldFinesAreCurrent,
           [Next]_vars
    PROVE  HeldFinesAreCurrent'
<1> SUFFICES ASSUME NEW t \in Threads
             PROVE  /\ \A b \in Bills :
                         job'[t].kind = "fine" /\ job'[t].fresh /\ today' \notin fineDays'[b]
                           => job'[t].held[b] = bill'[b].fine
                    /\ thread'[t].op = "charge" /\ today' \notin fineDays'[thread'[t].bill]
                         => thread'[t].base = bill'[thread'[t].bill].fine
  BY DEF HeldFinesAreCurrent, UniqueFine
<1>1. ASSUME NEW b \in Bills,
             job'[t].kind = "fine", job'[t].fresh, today' \notin fineDays'[b]
      PROVE  job'[t].held[b] = bill'[b].fine
  <2>1. CASE /\ job[t].kind = "fine" /\ job[t].fresh
             /\ job'[t].held = job[t].held
    BY <1>1, <2>1, OpenKeyStep DEF HeldFinesAreCurrent
  <2>2. ASSUME NEW kind \in Jobs,
               job'[t] = [kind |-> kind, todo |-> Selected(kind),
                          fresh |-> kind = "fine",
                          held |-> IF kind = "fine"
                                   THEN [c \in Bills |-> bill[c].fine]
                                   ELSE NothingHeld],
               bill' = bill
        PROVE  job'[t].held[b] = bill'[b].fine
    <3>1. kind = "fine"
      BY <1>1, <2>2
    <3>2. job'[t].held = [c \in Bills |-> bill[c].fine]
      BY <2>2, <3>1
    <3>3. QED  BY <2>2, <3>2
  <2>3. QED  BY <1>1, <2>1, <2>2, JobStep
<1>2. ASSUME thread'[t].op = "charge", today' \notin fineDays'[thread'[t].bill]
      PROVE  thread'[t].base = bill'[thread'[t].bill].fine
  <2>1. CASE thread'[t] = thread[t]
    <3>1. job[t].kind = "fine" /\ thread[t].bill \in Bills
      BY <1>2, <2>1, OperationFields DEF ChargesAreListed, TypeOK
    <3>2. today' \notin fineDays'[thread[t].bill]
      BY <1>2, <2>1
    <3>3. /\ UniqueFine(thread[t].bill)
          /\ bill'[thread[t].bill].fine = bill[thread[t].bill].fine
      BY <3>1, <3>2, OpenKeyStep
    <3>4. thread[t].base = bill[thread[t].bill].fine
      BY <1>2, <2>1, <3>3 DEF HeldFinesAreCurrent
    <3>5. QED  BY <2>1, <3>3, <3>4
  <2>2. ASSUME NEW b \in Bills, CheckFine(t, b),
               thread'[t] = [op |-> "charge", bill |-> b,
                             base |-> FineSoFar(t, b)]
        PROVE  thread'[t].base = bill'[thread'[t].bill].fine
    <3>1. /\ job[t].kind = "fine" /\ UniqueFine(b) /\ bill' = bill
      BY <2>2 DEF CheckFine, InJob, FinedToday, UniqueFine, tables
    <3>2. thread'[t].bill = b
      BY <2>2
    <3>3. CASE job[t].fresh
      BY <2>2, <3>1, <3>2, <3>3 DEF HeldFinesAreCurrent, FineSoFar
    <3>4. CASE ~job[t].fresh
      BY <2>2, <3>1, <3>2, <3>4 DEF FineSoFar
    <3>5. QED  BY <3>3, <3>4
  <2>3. QED  BY <1>2, <2>1, <2>2, ThreadStep
<1>3. QED  BY <1>1, <1>2

\* What charging a bill does: exactly one day and one daily fine are added.
LEMMA ChargeEffect ==
    ASSUME TypeOK, HeldFinesAreCurrent, NEW t \in Threads, ChargeFine(t),
           NEW b \in Bills, thread[t].bill = b
    PROVE  /\ today \notin fineDays[b]
           /\ fineDays'[b] = fineDays[b] \cup {today}
           /\ bill'[b].fine = bill[b].fine + FinePerDay
           /\ bill'[b].total = AmountDue[b] + bill'[b].fine
<1>1. thread[t].base = bill[b].fine /\ today \notin fineDays[b]
  BY DEF ChargeFine, HeldFinesAreCurrent, UniqueFine
<1>2. QED  BY <1>1 DEF ChargeFine, NewTotal, TypeOK, Bill

LEMMA FineLedgerStep ==
    ASSUME TypeOK, ConfirmedPaymentsExist, HeldFinesAreCurrent, FineLedger,
           [Next]_vars
    PROVE  FineLedger'
<1> SUFFICES ASSUME NEW b \in Bills
             PROVE  /\ bill'[b].fine = FinePerDay * Cardinality(fineDays'[b])
                    /\ bill'[b].total = AmountDue[b] + bill'[b].fine
  BY DEF FineLedger
<1>1. IsFiniteSet(fineDays[b])
  <2>1. fineDays[b] \subseteq 0..MaxDay /\ 0 \in Int /\ MaxDay \in Int
    BY LedgerAssumption DEF TypeOK
  <2>2. QED  BY <2>1, FS_Interval, FS_Subset
<1>2. CASE /\ bill'[b].fine = bill[b].fine
           /\ bill'[b].total = bill[b].total
           /\ fineDays'[b] = fineDays[b]
  BY <1>2 DEF FineLedger
<1>3. ASSUME NEW t \in Threads, ChargeFine(t), thread[t].bill = b
      PROVE  /\ bill'[b].fine = FinePerDay * Cardinality(fineDays'[b])
             /\ bill'[b].total = AmountDue[b] + bill'[b].fine
  <2> DEFINE n == Cardinality(fineDays[b])
  <2>0. today \notin fineDays[b] /\ fineDays'[b] = fineDays[b] \cup {today}
    BY <1>3, ChargeEffect
  <2>1. n \in Nat /\ Cardinality(fineDays'[b]) = n + 1
    BY <1>1, <2>0, FS_AddElement, FS_CardinalityType
  <2>2. bill'[b].fine = FinePerDay * n + FinePerDay
    BY <1>3, ChargeEffect DEF FineLedger
  <2>3. FinePerDay * (n + 1) = FinePerDay * n + FinePerDay
    BY <2>1, LedgerAssumption
  <2>4. QED  BY <1>3, <2>1, <2>2, <2>3, ChargeEffect
<1>4. QED  BY <1>2, <1>3, BillStep

\* The total of a bill never shrinks.
LEMMA TotalGrows ==
    ASSUME TypeOK, ConfirmedPaymentsExist, HeldFinesAreCurrent, FineLedger,
           [Next]_vars, NEW b \in Bills
    PROVE  bill[b].total <= bill'[b].total
<1>1. /\ bill[b].fine \in Int /\ bill[b].total \in Int /\ AmountDue[b] \in Int
      /\ bill[b].total = AmountDue[b] + bill[b].fine
      /\ FinePerDay \in Nat
  BY LedgerAssumption DEF TypeOK, Bill, FineLedger
<1>2. ASSUME NEW t \in Threads, ChargeFine(t), thread[t].bill = b
      PROVE  bill[b].total <= bill'[b].total
  BY <1>1, <1>2, ChargeEffect
<1>3. QED  BY <1>1, <1>2, BillStep

\* The total of a bill is at least its original amount.
LEMMA TotalCoversAmount ==
    ASSUME TypeOK, FineLedger, NEW b \in Bills
    PROVE  AmountDue[b] <= bill[b].total
<1>1. IsFiniteSet(fineDays[b])
  <2>1. fineDays[b] \subseteq 0..MaxDay /\ 0 \in Int /\ MaxDay \in Int
    BY LedgerAssumption DEF TypeOK
  <2>2. QED  BY <2>1, FS_Interval, FS_Subset
<1> DEFINE n == Cardinality(fineDays[b])
<1>2. n \in Nat /\ FinePerDay \in Nat /\ AmountDue[b] \in Int
  BY <1>1, FS_CardinalityType, LedgerAssumption
<1>3. FinePerDay * n >= 0
  BY <1>2
<1>4. bill[b].total = AmountDue[b] + bill[b].fine /\ bill[b].fine = FinePerDay * n
  BY DEF FineLedger
<1>5. FinePerDay * n \in Int
  BY <1>2
<1>6. QED  BY <1>2, <1>3, <1>4, <1>5

LEMMA SnapshotAmountStep ==
    ASSUME TypeOK, ConfirmedPaymentsExist, HeldFinesAreCurrent, FineLedger,
           SnapshotAmountBracket, [Next]_vars
    PROVE  SnapshotAmountBracket'
<1> SUFFICES ASSUME NEW t \in Threads, thread'[t].op \in {"initiate", "offline"}
             PROVE  /\ AmountDue[thread'[t].bill] <= thread'[t].amount
                    /\ thread'[t].amount <= bill'[thread'[t].bill].total
  BY DEF SnapshotAmountBracket
<1> DEFINE b == thread'[t].bill
<1>1. b \in Bills /\ thread'[t].amount \in Int
  <2>1. thread'[t] \in Operation
    BY TypeStep DEF TypeOK
  <2>2. QED  BY <2>1, OperationFields
<1>2. bill[b].total \in Int /\ bill'[b].total \in Int /\ bill[b].total <= bill'[b].total
  BY <1>1, TypeStep, TotalGrows DEF TypeOK, Bill
<1>3. AmountDue[b] <= thread'[t].amount /\ thread'[t].amount <= bill[b].total
  <2>1. CASE thread'[t] = thread[t]
    BY <2>1 DEF SnapshotAmountBracket
  <2>2. CASE thread'[t].amount = bill[b].total
    BY <1>1, <1>2, <2>2, TotalCoversAmount
  <2>3. ASSUME NEW c \in Bills, NEW x,
               thread'[t] = [op |-> "charge", bill |-> c, base |-> x]
        PROVE  FALSE
    BY <2>3
  <2>4. QED  BY <2>1, <2>2, <2>3, ThreadStep
<1>4. QED  BY <1>1, <1>2, <1>3

LEMMA PaymentAmountStep ==
    ASSUME TypeOK, ConfirmedPaymentsExist, HeldFinesAreCurrent, FineLedger,
           SnapshotAmountBracket, PaymentAmountBracket, [Next]_vars
    PROVE  PaymentAmountBracket'
<1> SUFFICES ASSUME NEW p \in Payments, payment'[p] # Free
             PROVE  /\ AmountDue[payment'[p].bill] <= payment'[p].amount
                    /\ payment'[p].amount <= bill'[payment'[p].bill].total
  BY DEF PaymentAmountBracket
<1> DEFINE b == payment'[p].bill
<1>1. payment'[p] \in Payment
  BY TypeStep DEF TypeOK
<1>2. payment'[p].status # "none"
  BY <1>1 DEF Payment, Free
<1>3. b \in Bills /\ payment'[p].amount \in Int
  BY <1>1, <1>2, PaymentFields
<1>4. bill[b].total \in Int /\ bill'[b].total \in Int /\ bill[b].total <= bill'[b].total
  BY <1>3, TypeStep, TotalGrows DEF TypeOK, Bill
<1>5. AmountDue[b] <= payment'[p].amount /\ payment'[p].amount <= bill[b].total
  <2>1. CASE payment'[p] = payment[p]
    BY <2>1 DEF PaymentAmountBracket
  <2>2. CASE /\ payment[p].status # "none"
             /\ payment'[p].bill = payment[p].bill
             /\ payment'[p].amount = payment[p].amount
    BY <2>2 DEF PaymentAmountBracket, Free
  <2>3. ASSUME NEW t \in Threads, thread[t].op \in {"initiate", "offline"},
               payment'[p].bill = thread[t].bill,
               payment'[p].amount = thread[t].amount
        PROVE  AmountDue[b] <= payment'[p].amount /\ payment'[p].amount <= bill[b].total
    BY <2>3 DEF SnapshotAmountBracket
  <2>4. QED  BY <2>1, <2>2, <2>3, PaymentStep
<1>6. QED  BY <1>3, <1>4, <1>5

-----------------------------------------------------------------------------
(* The inductive invariant and what follows from it.                       *)

LEMMA InitIInv == Init => IInv
<1> SUFFICES ASSUME Init PROVE IInv
  OBVIOUS
<1>1. TypeOK
  BY LedgerAssumption DEF Init, TypeOK, Bill, Payment, Free, Operation, Idle,
     JobLoop, NoJob, NothingHeld, BillStatus, Unpaid
<1>2. ConfirmedPaymentsExist /\ ChargesAreListed /\ SnapshotAmountBracket
  BY DEF Init, Idle, ConfirmedPaymentsExist, ChargesAreListed, SnapshotAmountBracket
<1>3. OverdueArePastDue /\ FinesWithinOverdueDays /\ HeldFinesAreCurrent
  BY DEF Init, Idle, NoJob, OverdueArePastDue, FinesWithinOverdueDays,
     HeldFinesAreCurrent
<1>7. ListedWerePaidToday /\ NoFineAfterPayday
  BY DEF Init, ListedWerePaidToday, NoFineAfterPayday
<1>4. FineLedger
  BY FS_EmptySet, LedgerAssumption DEF Init, FineLedger
<1>5. PaymentAmountBracket
  BY DEF Init, PaymentAmountBracket
<1>6. QED  BY <1>1, <1>2, <1>3, <1>7, <1>4, <1>5 DEF IInv

LEMMA NextIInv == IInv /\ [Next]_vars => IInv'
BY TypeStep, ConfirmedPaymentsStep, ChargesAreListedStep, OverdueArePastDueStep,
   FinesWithinOverdueDaysStep, ListedWerePaidTodayStep, NoFineAfterPaydayStep,
   HeldFinesAreCurrentStep, FineLedgerStep,
   SnapshotAmountStep, PaymentAmountStep DEF IInv

\* The strengthened invariant holds of every run of the handlers, however many
\* threads and processes overlap and wherever the host restarts.
THEOREM InductiveInvariant == Spec => []IInv
BY InitIInv, NextIInv, PTL DEF Spec

\* The tables and what handlers remember of them keep their types.
THEOREM TypeCorrect == Spec => []TypeOK
<1>1. IInv => TypeOK
  BY DEF IInv
<1>2. QED  BY <1>1, InductiveInvariant, PTL

\* fine_accrual neither loses nor doubles a fine: the UNIQUE key of the fines
\* table is enough to protect the running total, with no lock on the bill.
THEOREM FineLedgerHolds == Spec => []FineLedger
<1>1. IInv => FineLedger
  BY DEF IInv
<1>2. QED  BY <1>1, InductiveInvariant, PTL

\* No bill is fined for a day on which it was not yet past due.
THEOREM FineDatesHold == Spec => []FinesWithinOverdueDays
<1>1. IInv => FinesWithinOverdueDays
  BY DEF IInv
<1>2. QED  BY <1>1, InductiveInvariant, PTL

\* Once a bill is paid its fines end with that day, whatever lists the jobs of
\* other threads and processes are still working from.
THEOREM FinesEndWithPayment == Spec => []NoFineAfterPayday
<1>1. IInv => NoFineAfterPayday
  BY DEF IInv
<1>2. QED  BY <1>1, InductiveInvariant, PTL

\* A payment takes a sum that was once the total of its bill.
THEOREM PaymentAmountsHold == Spec => []PaymentAmountBracket
<1>1. IInv => PaymentAmountBracket
  BY DEF IInv
<1>2. QED  BY <1>1, InductiveInvariant, PTL
=============================================================================
